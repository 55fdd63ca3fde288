------------------------- MODULE RecoveryPlanProofs -------------------------
(***************************************************************************)
(* A recovery that reports Complete transferred the identity it planned    *)
(* (CompletedIsPlanned), whoever deletes and remakes that identity.  The   *)
(* plan is settled before the recovery goes forward, and Complete is       *)
(* reported only after an unfenced identity with the planned instance and  *)
(* the recovery's audit tag was read; a new identity never gets that tag   *)
(* but under the fence of a later recovery.                                *)
(***************************************************************************)
EXTENDS RecoveryLockProofs

(***************************************************************************)
(* Who writes a plan, and who starts a recovery.                           *)
(***************************************************************************)
PlanKept(x) ==
  /\ rec'[x].plan = rec[x].plan \/ (x = rcur /\ rpc = "savePlan" /\ rec'[x].plan = rplan)
  /\ rec'[x].mutationStarted => rec[x].mutationStarted \/ (x = rcur /\ rpc = "saveStarted")
  /\ crec'[x] \in {crec[x], rec'[x]}
PlansKept == \A x \in Recoveries : PlanKept(x)

LEMMA SamePlans ==
  ASSUME UNCHANGED rec, \A x \in Recoveries : crec'[x] \in {crec[x], rec[x]}
  PROVE  PlansKept
BY DEF PlansKept, PlanKept

\* One recovery is written.
LEMMA OnePlan ==
  ASSUME NEW r \in Recoveries, UNCHANGED crec, PlanKept(r),
         \A x \in Recoveries \ {r} : rec'[x] = rec[x]
  PROVE  PlansKept
BY DEF PlansKept, PlanKept

\* A status patch.
LEMMA PatchPlan ==
  ASSUME TypeOK, NEW r \in Recoveries, NEW new \in Recovery, patchRecoveryStatus(r, new),
         UNCHANGED crec,
         new.plan = crec[r].plan \/ (r = rcur /\ rpc = "savePlan" /\ new.plan = rplan),
         new.mutationStarted = crec[r].mutationStarted \/ (r = rcur /\ rpc = "saveStarted")
  PROVE  PlansKept
<1>1. PICK outcome \in {new.outcome, rec[r].outcome} :
        rec' = [rec EXCEPT ![r] = mergedRecovery(rec[r], crec[r], new, outcome)]
  BY DEF patchRecoveryStatus
<1>2. rec \in [Recoveries -> Recovery] /\ rec[r] \in Recovery /\ crec[r] \in Recovery
  BY DEF TypeOK, StateTypeOK
<1>3. rec'[r] = mergedRecovery(rec[r], crec[r], new, outcome)
  BY <1>1, <1>2
<1>4. /\ rec'[r].plan = IF new.plan # crec[r].plan THEN new.plan ELSE rec[r].plan
      /\ rec'[r].mutationStarted = IF new.mutationStarted # crec[r].mutationStarted
                                     THEN new.mutationStarted ELSE rec[r].mutationStarted
  BY <1>2, <1>3 DEF mergedRecovery, Recovery
<1>5. PlanKept(r)
  BY <1>4 DEF PlanKept
<1>6. \A x \in Recoveries \ {r} : rec'[x] = rec[x]
  BY <1>1, <1>2
<1>. QED BY <1>5, <1>6, OnePlan

\* block and fail.
LEMMA OutcomePlan ==
  ASSUME TypeOK, NEW r \in Recoveries, NEW outcome \in {"Blocked", "Failed"},
         setOutcome(r, outcome), UNCHANGED crec
  PROVE  PlansKept
<1>1. crec[r] \in Recovery
  BY DEF TypeOK, StateTypeOK
<1>. DEFINE new == [crec[r] EXCEPT !.outcome = outcome]
<1>2. /\ new \in Recovery /\ new.plan = crec[r].plan
      /\ new.mutationStarted = crec[r].mutationStarted
  BY <1>1 DEF Recovery
<1>3. patchRecoveryStatus(r, new) \/ UNCHANGED rec
  BY DEF setOutcome
<1>. HIDE DEF new
<1>4. CASE patchRecoveryStatus(r, new)
  BY <1>2, <1>4, PatchPlan
<1>5. CASE UNCHANGED rec
  BY <1>5, SamePlans
<1>. QED BY <1>3, <1>4, <1>5

\* A running reconcile.
LEMMA RunPlan ==
  ASSUME CopiesInvariant, RunStep
  PROVE  PlansKept
<1>0. /\ UNCHANGED crec /\ rpc # "idle" /\ rcur \in Recoveries /\ TypeOK
      /\ crec[rcur] \in Recovery /\ rplan \in Nat
  BY RunSteps, WasCreated
     DEF RecordsKept, CopiesInvariant, StartInvariant, TypeOK, StateTypeOK, RTypeOK
<1>1. CASE UNCHANGED rec
  BY <1>0, <1>1, SamePlans
<1>2. CASE block \/ fail
  BY <1>0, <1>2, OutcomePlan DEF block, fail
<1>3. ASSUME NEW new \in Recovery, patchRecoveryStatus(rcur, new) \/ UNCHANGED rec,
             new.plan = crec[rcur].plan \/ (rpc = "savePlan" /\ new.plan = rplan),
             new.mutationStarted = crec[rcur].mutationStarted \/ rpc = "saveStarted"
      PROVE  PlansKept
  BY <1>0, <1>1, <1>3, PatchPlan
<1>4. CASE R_SavePlan
  <2>. DEFINE new == [crec[rcur] EXCEPT !.plan = rplan, !.outcome = clearBlocked(@)]
  <2>1. /\ new \in Recovery /\ new.plan = rplan
        /\ new.mutationStarted = crec[rcur].mutationStarted
    BY <1>0 DEF Recovery, clearBlocked
  <2>2. rpc = "savePlan" /\ (patchRecoveryStatus(rcur, new) \/ UNCHANGED rec)
    BY <1>4 DEF R_SavePlan, saveStatus
  <2>. HIDE DEF new
  <2>. QED BY <1>3, <2>1, <2>2
<1>5. CASE R_SaveStarted
  <2>. DEFINE new == [crec[rcur] EXCEPT !.mutationStarted = TRUE, !.outcome = clearBlocked(@)]
  <2>1. new \in Recovery /\ new.plan = crec[rcur].plan
    BY <1>0 DEF Recovery, clearBlocked
  <2>2. rpc = "saveStarted" /\ (patchRecoveryStatus(rcur, new) \/ UNCHANGED rec)
    BY <1>5 DEF R_SaveStarted, saveStatus
  <2>. HIDE DEF new
  <2>. QED BY <1>3, <2>1, <2>2
<1>6. CASE R_SaveCommit
  <2>. DEFINE new == [crec[rcur] EXCEPT !.commitVerified = TRUE, !.outcome = "None"]
  <2>1. /\ new \in Recovery /\ new.plan = crec[rcur].plan
        /\ new.mutationStarted = crec[rcur].mutationStarted
    BY <1>0 DEF Recovery
  <2>2. patchRecoveryStatus(rcur, new) \/ UNCHANGED rec
    BY <1>6 DEF R_SaveCommit, saveStatus
  <2>. HIDE DEF new
  <2>. QED BY <1>3, <2>1, <2>2
<1>7. CASE R_SaveComplete
  <2>. DEFINE new == [crec[rcur] EXCEPT !.outcome = "Complete"]
  <2>1. /\ new \in Recovery /\ new.plan = crec[rcur].plan
        /\ new.mutationStarted = crec[rcur].mutationStarted
    BY <1>0 DEF Recovery
  <2>2. patchRecoveryStatus(rcur, new) \/ UNCHANGED rec
    BY <1>7 DEF R_SaveComplete, saveStatus
  <2>. HIDE DEF new
  <2>. QED BY <1>3, <2>1, <2>2
<1>8. CASE R_Preflight \/ R_Winner \/ R_ReadTarget \/ R_LockTarget \/ R_Cancel \/ R_ReadRelease
           \/ R_Release \/ R_Error
  BY <1>1, <1>2, <1>8 DEF R_Preflight, R_Winner, R_ReadTarget, R_LockTarget, R_Cancel,
                          R_ReadRelease, R_Release, R_Error
<1>9. CASE R_Mark \/ R_MarkCall \/ R_Commit \/ R_CommitCall \/ R_Finalize \/ R_FinalizeCall
  BY <1>1, <1>2, <1>9 DEF R_Mark, R_MarkCall, R_Commit, R_CommitCall, R_Finalize, R_FinalizeCall
<1>10. CASE R_EnsureFederatedIdentityCredential \/ R_TransferServiceAccount \/ R_CommitCheck
            \/ R_CommitVerify \/ R_FinalizeVerify
  BY <1>1, <1>2, <1>10 DEF R_EnsureFederatedIdentityCredential, R_TransferServiceAccount,
                           R_CommitCheck, R_CommitVerify, R_FinalizeVerify
<1>. QED BY <1>4, <1>5, <1>6, <1>7, <1>8, <1>9, <1>10 DEF RunStep, QuietStep

\* A recovery is taken from the queue.
LEMMA TakePlan ==
  ASSUME CopiesInvariant, NEW r \in Recoveries, RTake(r)
  PROVE  PlansKept
<1>0. UNCHANGED crec /\ TypeOK /\ rec \in [Recoveries -> Recovery] /\ rec[r] \in Recovery
  BY DEF RTake, R_Reconcile, R_ReconcileForward, R_ReconcileDelete, CopiesInvariant,
         StartInvariant, TypeOK, StateTypeOK
<1>1. CASE UNCHANGED rec
  BY <1>0, <1>1, SamePlans
<1>2. CASE setOutcome(r, "Blocked") \/ setOutcome(r, "Failed")
  BY <1>0, <1>2, OutcomePlan
<1>3. CASE rec' = [rec EXCEPT ![r].finalizer = TRUE]
  <2>1. /\ rec'[r].plan = rec[r].plan /\ rec'[r].mutationStarted = rec[r].mutationStarted
        /\ \A x \in Recoveries \ {r} : rec'[x] = rec[x]
    BY <1>0, <1>3 DEF Recovery
  <2>2. PlanKept(r)
    BY <1>0, <2>1 DEF PlanKept
  <2>. QED BY <1>0, <2>1, <2>2, OnePlan
<1>. QED BY <1>1, <1>2, <1>3 DEF RTake, R_Reconcile, R_ReconcileForward, R_ReconcileDelete

LEMMA NextPlan ==
  ASSUME CopiesInvariant, [Next]_vars
  PROVE  PlansKept
<1>0. /\ rec \in [Recoveries -> Recovery] /\ crec \in [Recoveries -> Recovery]
      /\ \A x \in Recoveries : rec[x].phase = "new" => rec[x] = NewRecovery
  BY DEF CopiesInvariant, StartInvariant, TypeOK, StateTypeOK, ForwardOnly
<1>1. CASE RunStep
  BY <1>1, RunPlan
<1>2. ASSUME NEW r \in Recoveries, RTake(r) PROVE PlansKept
  BY <1>2, TakePlan
<1>3. CASE R_RemoveFinalizer
  <2>1. UNCHANGED crec /\ rcur \in Recoveries
    BY <1>3, WasCreated DEF R_RemoveFinalizer
  <2>2. CASE UNCHANGED rec
    BY <2>1, <2>2, SamePlans
  <2>3. CASE rec' = [rec EXCEPT ![rcur] = [@ EXCEPT !.phase = "gone", !.finalizer = FALSE]]
    <3>1. /\ rec'[rcur] = [rec[rcur] EXCEPT !.phase = "gone", !.finalizer = FALSE]
          /\ \A x \in Recoveries \ {rcur} : rec'[x] = rec[x]
      BY <1>0, <2>1, <2>3
    <3>2. rec'[rcur].plan = rec[rcur].plan
          /\ rec'[rcur].mutationStarted = rec[rcur].mutationStarted
      BY <1>0, <2>1, <3>1 DEF Recovery
    <3>3. ASSUME NEW x \in Recoveries PROVE PlanKept(x)
      BY <2>1, <3>1, <3>2 DEF PlanKept
    <3>. QED BY <3>3 DEF PlansKept
  <2>. QED BY <1>3, <2>2, <2>3 DEF R_RemoveFinalizer
<1>4. ASSUME NEW r \in Recoveries, CreateRecovery(r) PROVE PlansKept
  <2>1. PICK source \in UIDs, target \in UIDs :
          rec' = [rec EXCEPT ![r] = [NewRecovery EXCEPT !.phase = "live",
                                       !.source = source, !.target = target]]
    BY <1>4 DEF CreateRecovery
  <2>2. /\ rec'[r].plan = rec[r].plan /\ ~rec'[r].mutationStarted /\ UNCHANGED crec
        /\ \A x \in Recoveries \ {r} : rec'[x] = rec[x]
    BY <1>0, <1>4, <2>1 DEF CreateRecovery, NewRecovery
  <2>3. PlanKept(r)
    BY <2>2 DEF PlanKept
  <2>. QED BY <2>2, <2>3, OnePlan
<1>5. ASSUME NEW r \in Recoveries, DeleteRecovery(r) PROVE PlansKept
  <2>1. /\ rec'[r].plan = rec[r].plan /\ rec'[r].mutationStarted = rec[r].mutationStarted
        /\ UNCHANGED crec /\ \A x \in Recoveries \ {r} : rec'[x] = rec[x]
    BY <1>0, <1>5 DEF DeleteRecovery, Recovery
  <2>2. PlanKept(r)
    BY <2>1 DEF PlanKept
  <2>. QED BY <2>1, <2>2, OnePlan
<1>6. CASE RController
  BY <1>1, <1>2, <1>3, <1>6 DEF RController, RStep, RunStep, QuietStep
<1>7. CASE WController
  BY <1>7, SamePlans
     DEF WController, WStep, WFault, W_Reconcile, W_DetectRecovery, W_EnsureUserAssignedIdentity,
         W_CreateUserAssignedIdentity, W_EnsureFederatedIdentityCredential,
         W_EnsureServiceAccount, W_PatchStatus, W_ReconcileDelete, W_DeleteCheck,
         W_DeleteUserAssignedIdentity, W_DeleteServiceAccountIfOwned, W_RemoveFinalizer,
         W_EnsureError, W_OtherError
<1>8. CASE Informer \/ Environment
  <2>1. UNCHANGED rec /\ \A x \in Recoveries : crec'[x] \in {crec[x], rec[x]}
    BY <1>0, <1>8
       DEF Informer, SyncWorkloadIdentity, SyncServiceAccount, SyncRecovery, Environment,
           DriftCredential, DeleteAzureIdentity, IssuerLost, IssuerBecomesReady, Restart
  <2>. QED BY <2>1, SamePlans
<1>9. CASE Users
  BY <1>4, <1>5, <1>9, SamePlans
     DEF Users, CreateWorkloadIdentity, DeleteWorkloadIdentity, EditWorkloadIdentity,
         ChangeServiceAccount
<1>10. CASE UNCHANGED vars
  BY <1>10, SamePlans DEF vars, stateVars
<1>. QED BY <1>6, <1>7, <1>8, <1>9, <1>10 DEF Next

(***************************************************************************)
(* A plan is settled before its recovery goes forward.                     *)
(***************************************************************************)
\* What the object and the cache say.
PlansAgree ==
  \A r \in Recoveries :
    /\ knownComplete(r) => rec[r].mutationStarted
    /\ crec[r].plan # 0 => rec[r].plan # 0
    /\ rec[r].mutationStarted => crec[r].plan # 0
    /\ crec[r].commitVerified => crec[r].plan = rec[r].plan

LEMMA PlansAgreeNext ==
  ASSUME CopiesInvariant, PlanIsSettled, [Next]_vars
  PROVE  PlansAgree'
<1>. SUFFICES ASSUME NEW x \in Recoveries
              PROVE  /\ (knownComplete(x))' => rec'[x].mutationStarted
                     /\ crec'[x].plan # 0 => rec'[x].plan # 0
                     /\ rec'[x].mutationStarted => crec'[x].plan # 0
                     /\ crec'[x].commitVerified => crec'[x].plan = rec'[x].plan
  BY DEF PlansAgree
<1>1. GoesOn(x) /\ PlanKept(x)
  BY RecordsGoOn, NextPlan DEF PlansKept
<1>2. /\ knownComplete(x) => rec[x].mutationStarted
      /\ crec[x].plan # 0 => rec[x].plan # 0
      /\ rec[x].mutationStarted => crec[x].plan # 0
      /\ crec[x].commitVerified => crec[x].plan = rec[x].plan
  BY DEF PlanIsSettled
<1>3. /\ crec[x].commitVerified => rec[x].mutationStarted
      /\ x = rcur /\ rpc = "saveComplete" => rec[x].mutationStarted
  BY DEF CopiesInvariant, RecoveryCopies, StartInvariant, ForwardOnly, ReconciledExists, FenceSteps
<1>4. /\ x = rcur /\ rpc = "savePlan" => ~rec[x].mutationStarted /\ rplan # 0
      /\ x = rcur /\ rpc = "saveStarted" => crec[x].plan # 0
  BY DEF PlanIsSettled, PlanSteps
<1>5. (knownComplete(x))' => rec'[x].mutationStarted
  BY <1>1, <1>2, <1>3 DEF GoesOn, knownComplete
<1>6. crec'[x].plan # 0 => rec'[x].plan # 0
  BY <1>1, <1>2, <1>4 DEF PlanKept
<1>7. rec'[x].mutationStarted => crec'[x].plan # 0
  BY <1>1, <1>2, <1>4, <1>6 DEF PlanKept
<1>8. crec'[x].commitVerified => crec'[x].plan = rec'[x].plan
  BY <1>1, <1>2, <1>3, <1>4 DEF PlanKept
<1>. QED BY <1>5, <1>6, <1>7, <1>8

\* What the worker knows of the plan of the recovery it reconciles.
KnowsPlan ==
  /\ rpc \in {"preflight", "savePlan"} => ~rec[rcur].mutationStarted
  /\ rpc = "savePlan" => rplan # 0
  /\ rpc \in PlanSteps => crec[rcur].plan # 0
  /\ rpc \in EndSteps => rplan = rec[rcur].plan

\* It stays in the same part of the reconcile.
LEMMA KnowsPlanStays ==
  ASSUME CopiesInvariant, PlanIsSettled, [Next]_vars, rpc # "idle", rcur' = rcur,
         rpc' = "preflight" => rpc = "preflight",
         rpc' = "savePlan" => rpc \in {"preflight", "savePlan"} /\ rplan' # 0,
         rpc' \in PlanSteps => rpc \in PlanSteps \/ (rpc = "winner" /\ UNCHANGED crec),
         rpc' \in EndSteps => rpc \in EndSteps /\ UNCHANGED rplan
  PROVE  KnowsPlan'
<1>1. rcur \in Recoveries /\ PlanKept(rcur)
  BY WasCreated, NextPlan DEF PlansKept
<1>2. PICK x \in Recoveries : x = rcur
  BY <1>1
<1>3. PlanKept(x) /\ (crec[x].plan # 0 => rec'[x].plan # 0 /\ crec'[x].plan # 0)
  BY <1>1, <1>2, NextPlan DEF PlansKept, PlanKept, PlanIsSettled
<1>4. /\ rpc \in {"preflight", "savePlan"} => ~rec'[x].mutationStarted
      /\ rpc \in EndSteps => rec'[x].plan = rec[x].plan
      /\ rpc \in PlanSteps => crec'[x].plan # 0
  BY <1>2, <1>3 DEF PlanKept, PlanIsSettled, EndSteps, PlanSteps
<1>. QED BY <1>2, <1>4 DEF KnowsPlan, PlanIsSettled, PlanSteps, EndSteps

\* Steps of a running reconcile.
LEMMA RunKnowsPlan ==
  ASSUME CopiesInvariant, PlanIsSettled, EndIsPlanned, [Next]_vars, RunStep
  PROVE  KnowsPlan'
<1>. USE DEF PlanSteps, EndSteps
<1>. DEFINE Knowing == {"preflight", "savePlan"} \cup PlanSteps \cup EndSteps
<1>0. rpc # "idle" /\ (rpc' # "idle" => rcur' = rcur)
  BY RunSteps
<1>1. CASE rpc' \notin Knowing
  BY <1>1 DEF KnowsPlan
<1>2. ASSUME rcur' = rcur,
             rpc' = "preflight" => rpc = "preflight",
             rpc' = "savePlan" => rpc \in {"preflight", "savePlan"} /\ rplan' # 0,
             rpc' \in PlanSteps => rpc \in PlanSteps,
             rpc' \in EndSteps => rpc \in EndSteps /\ UNCHANGED rplan
      PROVE  KnowsPlan'
  BY <1>0, <1>2, KnowsPlanStays
<1>. HIDE DEF Knowing
<1>3. CASE R_Preflight
  <2>1. rpc = "preflight" /\ rpc' \in {"idle", "savePlan"}
    BY <1>3 DEF R_Preflight, block, RReturn
  <2>2. rpc' = "savePlan" => rplan' # 0
    <3>1. rpc' = "savePlan" => rplan' = uami.instance /\ uami.exists
      BY <1>3 DEF R_Preflight, block, RReturn, loadedStage
    <3>. QED BY <3>1 DEF EndIsPlanned
  <2>3. CASE rpc' = "idle"
    BY <1>1, <2>3 DEF Knowing
  <2>4. CASE rpc' = "savePlan"
    BY <1>0, <1>2, <2>1, <2>2, <2>4
  <2>. QED BY <2>1, <2>3, <2>4
<1>4. CASE rpc' \in PlanSteps /\ rpc \in PlanSteps
  BY <1>0, <1>2, <1>4
<1>5. CASE rpc' \in EndSteps /\ rpc \in EndSteps /\ UNCHANGED rplan
  BY <1>0, <1>2, <1>5
<1>6. CASE R_Winner \/ R_ReadTarget \/ R_LockTarget
  <2>1. rpc \in PlanSteps /\ (rpc' \in PlanSteps \/ rpc' \notin Knowing)
    BY <1>6 DEF R_Winner, R_ReadTarget, R_LockTarget, fail, RGoto, RGotoPatch, RReturn, Knowing
  <2>. QED BY <1>1, <1>4, <2>1
<1>7. CASE R_Finalize \/ R_FinalizeCall \/ R_FinalizeVerify
  <2>1. rpc \in EndSteps /\ (rpc' \notin Knowing \/ (rpc' \in EndSteps /\ UNCHANGED rplan))
    BY <1>7 DEF R_Finalize, R_FinalizeCall, R_FinalizeVerify, block, RGoto, RReturn, Knowing
  <2>. QED BY <1>1, <1>5, <2>1
<1>8. CASE R_SavePlan \/ R_SaveStarted \/ R_SaveCommit \/ R_SaveComplete \/ R_Cancel
           \/ R_ReadRelease \/ R_Release \/ R_Error
  <2>1. rpc' \notin Knowing
    BY <1>8 DEF R_SavePlan, R_SaveStarted, R_SaveCommit, R_SaveComplete, R_Cancel, R_ReadRelease,
                R_Release, R_Error, saveStatus, afterRelease, RGoto, RGotoPatch, RReturn, Knowing
  <2>. QED BY <1>1, <2>1
<1>9. CASE R_Mark \/ R_MarkCall \/ R_EnsureFederatedIdentityCredential
           \/ R_TransferServiceAccount \/ R_CommitCheck
  <2>1. rpc' \notin Knowing
    BY <1>9 DEF R_Mark, R_MarkCall, R_EnsureFederatedIdentityCredential,
                R_TransferServiceAccount, R_CommitCheck, block, RGoto, RReturn, Knowing
  <2>. QED BY <1>1, <2>1
<1>10. CASE R_Commit \/ R_CommitCall \/ R_CommitVerify
  <2>1. rpc' \notin Knowing
    BY <1>10 DEF R_Commit, R_CommitCall, R_CommitVerify, block, RGoto, RReturn, Knowing
  <2>. QED BY <1>1, <2>1
<1>. QED BY <1>3, <1>6, <1>7, <1>8, <1>9, <1>10 DEF RunStep, QuietStep

\* A recovery is taken from the queue: the cached copy tells where it stands.
LEMMA TakeKnowsPlan ==
  ASSUME CopiesInvariant, PlanIsSettled, NEW r \in Recoveries, RTake(r)
  PROVE  KnowsPlan'
<1>. USE DEF PlanSteps, EndSteps
<1>1. rpc = "idle" /\ (Begins(r) \/ Skips)
  BY TakeSkipsOrBegins DEF CopiesInvariant, RecoveryCopiesInvariant
<1>2. CASE Skips
  BY <1>1, <1>2 DEF Skips, rVars, KnowsPlan
<1>3. CASE Begins(r)
  <2>1. /\ rcur' = r /\ UNCHANGED <<rec, crec>>
        /\ rpc' \in {"readRelease", "cancel", "removeFinalizer", "preflight", "winner",
                     "mark", "finalize"}
    BY <1>3 DEF Begins
  <2>2. /\ crec[r].plan # 0 => rec[r].plan # 0
        /\ rec[r].mutationStarted => crec[r].plan # 0
        /\ crec[r].commitVerified => crec[r].plan = rec[r].plan
    BY DEF PlanIsSettled
  <2>3. CASE rpc' \notin {"preflight", "winner", "finalize"}
    BY <2>1, <2>3 DEF KnowsPlan
  <2>4. CASE rpc' \in {"preflight", "winner", "finalize"}
    <3>1. R_ReconcileForward(r)
      BY <1>1, <1>3, <2>4 DEF RTake, R_Reconcile, R_ReconcileDelete, RBegin, RSkip, rVars, Begins
    <3>2. RBegin(r, CASE crec[r].commitVerified -> "finalize"
                      [] ~crec[r].commitVerified /\ crec[r].plan = 0 -> "preflight"
                      [] ~crec[r].commitVerified /\ crec[r].plan # 0
                         /\ ~crec[r].mutationStarted -> "winner"
                      [] OTHER -> "mark", crec[r].deleting, "RecoveryCompleted")
      BY <1>1, <1>3, <2>4, <3>1 DEF R_ReconcileForward, RSkip, rVars, Begins
    <3>3. /\ rplan' = crec[r].plan
          /\ rpc' = "preflight" => crec[r].plan = 0
          /\ rpc' = "winner" => crec[r].plan # 0
          /\ rpc' = "finalize" => crec[r].commitVerified
      BY <3>2 DEF RBegin
    <3>. QED BY <2>1, <2>2, <2>4, <3>3 DEF KnowsPlan
  <2>. QED BY <2>3, <2>4
<1>. QED BY <1>1, <1>2, <1>3

LEMMA SettledNext ==
  ASSUME CopiesInvariant, PlanIsSettled, EndIsPlanned, [Next]_vars
  PROVE  PlanIsSettled'
<1>. SUFFICES KnowsPlan'
  BY PlansAgreeNext DEF PlansAgree, KnowsPlan, PlanIsSettled
<1>1. CASE RunStep
  BY <1>1, RunKnowsPlan
<1>2. ASSUME NEW r \in Recoveries, RTake(r) PROVE KnowsPlan'
  BY <1>2, TakeKnowsPlan
<1>3. CASE R_RemoveFinalizer \/ Restart
  BY <1>3 DEF R_RemoveFinalizer, Restart, RReturn, KnowsPlan, PlanSteps, EndSteps
<1>4. CASE UNCHANGED <<rpc, rcur, rplan>>
  <2>1. CASE rpc = "idle"
    BY <1>4, <2>1 DEF KnowsPlan, PlanSteps, EndSteps
  <2>2. CASE rpc # "idle"
    BY <1>4, <2>2, KnowsPlanStays DEF PlanIsSettled
  <2>. QED BY <2>1, <2>2
<1>. QED
  BY <1>1, <1>2, <1>3, <1>4
     DEF Next, RController, RStep, RunStep, QuietStep, WController, rVars, vars, Informer,
         SyncWorkloadIdentity, SyncServiceAccount,
         SyncRecovery, Users, CreateWorkloadIdentity, DeleteWorkloadIdentity,
         EditWorkloadIdentity, ChangeServiceAccount, CreateRecovery, DeleteRecovery,
         Environment, DriftCredential, DeleteAzureIdentity, IssuerLost, IssuerBecomesReady

(***************************************************************************)
(* The identity with the audit tag of a Complete recovery.                 *)
(***************************************************************************)
\* A step leaves the identity as it was, or without an audit tag, or fenced, or it
\* clears the fence of the recovery that is reconciled, which is not Complete yet.
LEMMA AuditTags ==
  ASSUME CopiesInvariant, FenceInvariant, EndIsPlanned, [Next]_vars
  PROVE  /\ uami'.exists => uami'.instance # 0
         /\ \/ UNCHANGED uami
            \/ uami'.lastUid = 0
            \/ Fenced(uami')
            \/ /\ rpc = "finalizeCall" /\ uami'.lastUid = rcur
               /\ rcur \in Recoveries /\ ~knownComplete(rcur)
<1>0. uami \in Uami /\ ruami \in Uami /\ (uami.exists => uami.instance # 0)
  BY DEF CopiesInvariant, StartInvariant, TypeOK, StateTypeOK, RTypeOK, EndIsPlanned
<1>1. CASE UNCHANGED uami
  BY <1>0, <1>1
<1>2. CASE W_CreateUserAssignedIdentity
  <2>1. uami' = [[NoUami EXCEPT !.exists = TRUE, !.owner = wid.uid]
                   EXCEPT !.instance = IF uami.exists THEN uami.instance ELSE uami.instance + 1]
    BY <1>2 DEF W_CreateUserAssignedIdentity, CreateOrUpdate, workloadIdentityTags
  <2>2. /\ uami'.lastUid = 0
        /\ uami'.instance = IF uami.exists THEN uami.instance ELSE uami.instance + 1
    BY <2>1 DEF NoUami
  <2>. QED BY <1>0, <2>2 DEF Uami
<1>3. CASE W_DeleteUserAssignedIdentity \/ DeleteAzureIdentity
  BY <1>3 DEF W_DeleteUserAssignedIdentity, DeleteAzureIdentity, DeleteIdentity, NoUami
<1>4. CASE R_MarkCall \/ R_CommitCall \/ R_FinalizeCall
  <2>1. UNCHANGED uami \/ (uami'.instance = uami.instance /\ uami.exists)
    BY <1>0, <1>4 DEF R_MarkCall, R_CommitCall, R_FinalizeCall, updateRecoveryTags, fencedTags,
                      committedTags, finalizedTags, Uami
  <2>2. rcur \in Recoveries /\ rcur # 0 /\ ReadIsPlanned /\ rpc \in CallSteps
    BY <1>4, TagUpdates DEF FenceInvariant, Recoveries
  <2>3. UNCHANGED uami \/ Fenced(uami') \/ R_FinalizeCall
    <3>1. UNCHANGED uami \/ uami'.recoveryUid = rcur \/ R_FinalizeCall
      BY <1>4, <2>2, TagUpdates
    <3>. QED BY <2>2, <3>1 DEF Fenced
  <2>4. R_FinalizeCall /\ ~UNCHANGED uami =>
          rpc = "finalizeCall" /\ uami'.lastUid = ruami.lastUid
    BY <1>0 DEF R_FinalizeCall, updateRecoveryTags, finalizedTags, Uami
  <2>5. rpc = "finalizeCall" => ruami.lastUid = rcur /\ ~knownComplete(rcur)
    BY <2>2 DEF ReadIsPlanned, fencedBy, givenAway, EndIsPlanned
  <2>. QED BY <1>0, <2>1, <2>2, <2>3, <2>4, <2>5
<1>. QED BY <1>1, <1>2, <1>3, <1>4, IdentityWriters

\* Recovery r ended as planned, and neither its plan nor the tag changes to the worse.
LEMMA EndedStays ==
  ASSUME CopiesInvariant, FenceInvariant, PlanIsSettled, EndIsPlanned, [Next]_vars,
         NEW r \in Recoveries, endedAsPlanned(r), rec[r].mutationStarted,
         knownComplete(r) \/ (r = rcur /\ rpc = "saveComplete")
  PROVE  (endedAsPlanned(r))'
<1>1. rec'[r].plan = rec[r].plan
  BY NextPlan DEF PlansKept, PlanKept, PlanIsSettled
<1>2. CASE UNCHANGED uami
  BY <1>1, <1>2 DEF endedAsPlanned
<1>3. CASE uami'.lastUid = 0 \/ Fenced(uami')
  BY <1>3 DEF endedAsPlanned, Recoveries
<1>4. CASE rpc = "finalizeCall" /\ uami'.lastUid = rcur /\ ~knownComplete(rcur)
  <2>1. uami'.lastUid # r
    BY <1>4
  <2>. QED BY <2>1 DEF endedAsPlanned
<1>. QED BY <1>2, <1>3, <1>4, AuditTags

\* Which steps lead to the last two of a recovery.
LEMMA LastSteps ==
  ASSUME CopiesInvariant, [Next]_vars, rpc' \in {"finalizeCall", "saveComplete"}
  PROVE  UNCHANGED <<rpc, rcur, ruami>> \/ R_Finalize \/ R_FinalizeVerify
<1>1. CASE RunStep
  <2>1. CASE R_Preflight \/ R_SavePlan \/ R_SaveStarted \/ R_SaveCommit \/ R_Winner
             \/ R_SaveComplete \/ R_Cancel \/ R_ReadTarget \/ R_LockTarget \/ R_ReadRelease
             \/ R_Release \/ R_Error
    BY <2>1 DEF R_Preflight, R_SavePlan, R_SaveStarted, R_SaveCommit, R_Winner, R_SaveComplete,
                R_Cancel, R_ReadTarget, R_LockTarget, R_ReadRelease, R_Release, R_Error,
                block, fail, saveStatus, afterRelease, RGoto, RGotoPatch, RReturn
  <2>2. CASE R_Mark \/ R_MarkCall \/ R_EnsureFederatedIdentityCredential
             \/ R_TransferServiceAccount \/ R_CommitCheck \/ R_Commit \/ R_CommitCall
             \/ R_CommitVerify \/ R_FinalizeCall
    BY <2>2 DEF R_Mark, R_MarkCall, R_EnsureFederatedIdentityCredential,
                R_TransferServiceAccount, R_CommitCheck, R_Commit, R_CommitCall, R_CommitVerify,
                R_FinalizeCall, block, RGoto, RReturn
  <2>. QED BY <1>1, <2>1, <2>2 DEF RunStep, QuietStep
<1>2. ASSUME NEW r \in Recoveries, RTake(r) PROVE UNCHANGED <<rpc, rcur, ruami>>
  BY <1>2, TakeSkipsOrBegins
     DEF CopiesInvariant, RecoveryCopiesInvariant, Begins, Skips, rVars
<1>3. CASE R_RemoveFinalizer \/ Restart
  BY <1>3 DEF R_RemoveFinalizer, Restart, RReturn
<1>4. CASE UNCHANGED <<rpc, rcur, ruami>>
  BY <1>4
<1>. QED
  BY <1>1, <1>2, <1>3, <1>4
     DEF Next, RController, RStep, RunStep, QuietStep, WController, rVars, vars, Informer,
         SyncWorkloadIdentity, SyncServiceAccount,
         SyncRecovery, Users, CreateWorkloadIdentity, DeleteWorkloadIdentity,
         EditWorkloadIdentity, ChangeServiceAccount, CreateRecovery, DeleteRecovery,
         Environment, DriftCredential, DeleteAzureIdentity, IssuerLost, IssuerBecomesReady

LEMMA EndedNext ==
  ASSUME CopiesInvariant, FenceInvariant, PlanIsSettled, EndIsPlanned, [Next]_vars
  PROVE  EndIsPlanned'
<1>1. rpc = "saveComplete" => rcur \in Recoveries /\ rec[rcur].mutationStarted
  BY WasCreated
     DEF CopiesInvariant, RecoveryCopies, StartInvariant, ForwardOnly, ReconciledExists, FenceSteps
<1>2. ASSUME NEW r \in Recoveries, (knownComplete(r))' PROVE (endedAsPlanned(r))'
  <2>1. knownComplete(r) \/ (r = rcur /\ rpc = "saveComplete")
    BY <1>2, RecordsGoOn DEF GoesOn, knownComplete
  <2>2. rec[r].mutationStarted /\ endedAsPlanned(r)
    BY <1>1, <2>1 DEF PlanIsSettled, EndIsPlanned
  <2>. QED BY <2>1, <2>2, EndedStays
<1>3. ASSUME R_Finalize \/ R_FinalizeVerify, rpc' \in {"finalizeCall", "saveComplete"}
      PROVE  /\ rcur' = rcur /\ UNCHANGED <<uami, rec>>
             /\ rpc' = "finalizeCall" => ruami' = uami /\ stageOf(uami) = "CommittedFenced"
             /\ rpc' = "saveComplete" => stageOf(uami) = "Complete"
             /\ rplan = rec[rcur].plan /\ rcur # 0
  <2>1. /\ rcur' = rcur /\ UNCHANGED <<uami, rec>> /\ rpc \in {"finalize", "finalizeVerify"}
        /\ rpc' = "finalizeCall" => ruami' = uami /\ stageOf(uami) = "CommittedFenced"
        /\ rpc' = "saveComplete" => stageOf(uami) = "Complete"
    BY <1>3 DEF R_Finalize, R_FinalizeVerify, block, RGoto, RReturn
  <2>. QED BY <2>1, WasCreated DEF PlanIsSettled, EndSteps, Recoveries
<1>4. rpc' = "finalizeCall" => ruami'.lastUid = rcur'
  <2>1. stageOf(uami) = "CommittedFenced" => uami.lastUid = rcur
    BY DEF stageOf, loadedStage, recoveryStage
  <2>2. CASE UNCHANGED <<rpc, rcur, ruami>>
    BY <2>2 DEF EndIsPlanned
  <2>. QED BY <1>3, <2>1, <2>2, LastSteps
<1>5. rpc' = "saveComplete" => (endedAsPlanned(rcur))'
  <2>. SUFFICES ASSUME rpc' = "saveComplete" PROVE (endedAsPlanned(rcur))'
    OBVIOUS
  <2>1. CASE UNCHANGED <<rpc, rcur>>
    <3>1. PICK r \in Recoveries : r = rcur
      BY <1>1, <2>1
    <3>2. (endedAsPlanned(r))'
      BY <1>1, <2>1, <3>1, EndedStays DEF EndIsPlanned
    <3>. QED BY <2>1, <3>1, <3>2 DEF endedAsPlanned
  <2>2. CASE R_Finalize \/ R_FinalizeVerify
    <3>1. stageOf(uami) = "Complete" => uami.instance = rplan
      BY DEF stageOf, loadedStage
    <3>. QED BY <1>3, <2>2, <3>1 DEF endedAsPlanned
  <2>. QED BY <2>1, <2>2, LastSteps
<1>. QED BY <1>2, <1>4, <1>5, AuditTags DEF EndIsPlanned

(***************************************************************************)
(* The theorem.                                                            *)
(***************************************************************************)
LEMMA NextPlanned == PlanInvariant /\ [Next]_vars => PlanInvariant'
BY NextFence, SettledNext, EndedNext DEF PlanInvariant

LEMMA InitPlanned == Init => PlanInvariant
<1>. SUFFICES ASSUME Init PROVE PlanInvariant
  OBVIOUS
<1>1. rpc = "idle" /\ \A r \in Recoveries : rec[r] = NewRecovery /\ crec[r] = NewRecovery
  BY DEF Init, StateInit, RInit
<1>2. \A r \in Recoveries : ~knownComplete(r) /\ ~rec[r].mutationStarted
                            /\ crec[r].plan = 0 /\ ~crec[r].commitVerified
  BY <1>1 DEF knownComplete, recoveryIsComplete, NewRecovery
<1>3. PlanIsSettled
  BY <1>1, <1>2 DEF PlanIsSettled, PlanSteps, EndSteps
<1>4. uami.exists => uami.instance # 0
  <2>1. \A uid : CreateOrUpdate(NoUami, workloadIdentityTags(uid)).instance = 1
    BY DEF CreateOrUpdate, workloadIdentityTags, NoUami
  <2>2. ~NoUami.exists
    BY DEF NoUami
  <2>3. uami = NoUami \/ \E uid : uami = CreateOrUpdate(NoUami, workloadIdentityTags(uid))
    BY DEF Init, StateInit, retainedUami
  <2>. QED BY <2>1, <2>2, <2>3
<1>. QED BY <1>1, <1>2, <1>3, <1>4, InitFence DEF PlanInvariant, EndIsPlanned

\* Whoever deletes and remakes the identity and however many recoveries follow one
\* another, the plan of one that goes forward is settled and its end is the planned one
\* (preflightRecovery before startRecovery; loadAndValidateRecoveryState).
THEOREM PlanAlways == Spec => []PlanInvariant
BY InitPlanned, NextPlanned, PTL DEF Spec

\* A recovery that reports Complete transferred the identity it planned to, though the
\* tags are updated blindly (validateRecoveryIdentityPlan after every update).
THEOREM CompletedAlwaysPlanned == Spec => []CompletedIsPlanned
<1>1. PlanInvariant => CompletedIsPlanned
  BY DEF PlanInvariant, EndIsPlanned, endedAsPlanned, knownComplete, CompletedIsPlanned
<1>. QED BY <1>1, PlanAlways, PTL
=============================================================================
