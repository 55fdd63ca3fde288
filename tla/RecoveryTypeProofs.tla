------------------------- MODULE RecoveryTypeProofs -------------------------
(***************************************************************************)
(* The type invariant of OperatorRecovery, for every number of identity    *)
(* instances and of recoveries, every set of disturbances and any number   *)
(* of them.                                                                *)
(***************************************************************************)
EXTENDS RecoveryProperties, TLAPS

(***************************************************************************)
(* Types of the operators the actions are made of.                         *)
(***************************************************************************)
\* The empty objects are objects.
LEMMA ConstantObjects ==
  /\ 0 \in UIDOrNone /\ 0 \in RecoveryOrNone
  /\ NoWI \in WorkloadIdentity /\ NewRecovery \in Recovery
  /\ NoSA \in ServiceAccount /\ UserSA \in ServiceAccount
  /\ NoUami \in Uami
<1>1. 0 \in UIDOrNone /\ 0 \in RecoveryOrNone
  BY MaxUIDAssumption, NumRecoveriesAssumption DEF UIDOrNone, RecoveryOrNone
<1>2. NoWI \in WorkloadIdentity
  BY <1>1 DEF NoWI, WorkloadIdentity, Ready, Provenances
<1>3. NewRecovery \in Recovery
  BY <1>1 DEF NewRecovery, Recovery
<1>4. NoSA \in ServiceAccount /\ UserSA \in ServiceAccount
  BY <1>1 DEF NoSA, UserSA, ServiceAccount
<1>5. NoUami \in Uami
  BY <1>1 DEF NoUami, Uami
<1>. QED BY <1>1, <1>2, <1>3, <1>4, <1>5

\* The status writers of the WorkloadIdentity controller return identities.
LEMMA StatusTypes ==
  ASSUME NEW id \in WorkloadIdentity, NEW uid \in UIDOrNone, NEW provenance \in Provenances
  PROVE  /\ setNotReady(id) \in WorkloadIdentity
         /\ setInProgress(id) \in WorkloadIdentity
         /\ setRecoveryRequired(id, uid) \in WorkloadIdentity
         /\ setReady(id, provenance) \in WorkloadIdentity
<1>1. setNotReady(id) \in WorkloadIdentity
  BY ConstantObjects DEF setNotReady, WorkloadIdentity, Ready
<1>2. setInProgress(id) \in WorkloadIdentity
  BY DEF setInProgress, WorkloadIdentity, Ready
<1>3. setRecoveryRequired(id, uid) \in WorkloadIdentity
  BY DEF setRecoveryRequired, WorkloadIdentity, Ready
<1>4. setReady(id, provenance) \in WorkloadIdentity
  BY ConstantObjects DEF setReady, WorkloadIdentity, Ready
<1>. QED BY <1>1, <1>2, <1>3, <1>4

\* Every call that changes the tags of the identity leaves an identity.
LEMMA TagTypes ==
  ASSUME NEW u \in Uami, NEW v \in Uami, NEW uid \in UIDOrNone, NEW r \in RecoveryOrNone
  PROVE  /\ workloadIdentityTags(uid) \in Uami
         /\ CreateOrUpdate(u, v) \in Uami /\ updateRecoveryTags(u, v) \in Uami
         /\ DeleteIdentity(u) \in Uami
         /\ fencedTags(u, r, uid) \in Uami /\ committedTags(u, r, uid) \in Uami
         /\ finalizedTags(u) \in Uami
<1>1. workloadIdentityTags(uid) \in Uami /\ DeleteIdentity(u) \in Uami
  BY ConstantObjects DEF workloadIdentityTags, DeleteIdentity, NoUami, Uami
<1>2. CreateOrUpdate(u, v) \in Uami /\ updateRecoveryTags(u, v) \in Uami
  BY DEF CreateOrUpdate, updateRecoveryTags, Uami
<1>3. /\ fencedTags(u, r, uid) \in Uami /\ committedTags(u, r, uid) \in Uami
      /\ finalizedTags(u) \in Uami
  BY ConstantObjects DEF fencedTags, committedTags, finalizedTags, Uami
<1>. QED BY <1>1, <1>2, <1>3

\* The ServiceAccount the operator writes, and what its patch leaves.
LEMMA ServiceAccountTypes ==
  ASSUME NEW uid \in UIDOrNone, NEW created \in BOOLEAN, NEW desired \in ServiceAccount,
         sa \in ServiceAccount
  PROVE  /\ OperatorSA(uid, created) \in ServiceAccount
         /\ patchedServiceAccount(desired) \in ServiceAccount
<1>1. OperatorSA(uid, created) \in ServiceAccount
  BY DEF OperatorSA, ServiceAccount
<1>2. patchedServiceAccount(desired) \in ServiceAccount
  BY DEF patchedServiceAccount, ServiceAccount
<1>. QED BY <1>1, <1>2

\* A status patch changes plan, checkpoints and outcome of one live recovery.
LEMMA PatchTypes ==
  ASSUME rec \in [Recoveries -> Recovery], crec \in [Recoveries -> Recovery],
         NEW r \in Recoveries, NEW new \in Recovery, patchRecoveryStatus(r, new)
  PROVE  rec' \in [Recoveries -> Recovery]
<1>1. PICK outcome \in {new.outcome, rec[r].outcome} :
        rec' = [rec EXCEPT ![r] = mergedRecovery(rec[r], crec[r], new, outcome)]
  BY DEF patchRecoveryStatus
<1>2. mergedRecovery(rec[r], crec[r], new, outcome) \in Recovery
  BY DEF mergedRecovery, Recovery
<1>. QED BY <1>1, <1>2

\* block and fail.
LEMMA OutcomeTypes ==
  ASSUME rec \in [Recoveries -> Recovery], crec \in [Recoveries -> Recovery],
         NEW r \in Recoveries, NEW outcome \in {"None", "Blocked", "Failed", "Complete"},
         setOutcome(r, outcome)
  PROVE  rec' \in [Recoveries -> Recovery]
<1>1. [crec[r] EXCEPT !.outcome = outcome] \in Recovery
  BY DEF Recovery
<1>2. CASE found(r)
  BY <1>1, <1>2, PatchTypes DEF setOutcome
<1>3. CASE ~found(r)
  BY <1>3 DEF setOutcome
<1>. QED BY <1>2, <1>3

\* Where a reconcile of an identity starts.
LEMMA ObserveTypes ==
  ASSUME TypeOK, NEW id \in WorkloadIdentity, observe(id)
  PROVE  WTypeOK' /\ wq' \in BOOLEAN
<1>1. csa.owner \in UIDOrNone /\ "None" \in Provenances
  BY DEF TypeOK, StateTypeOK, ServiceAccount, Provenances
<1>2. establishedProvenance(id, csa) \in Provenances
  BY DEF establishedProvenance, Provenances, WorkloadIdentity
<1>3. /\ setNotReady(id) \in WorkloadIdentity
      /\ setRecoveryRequired(id, csa.owner) \in WorkloadIdentity
  BY <1>1, StatusTypes
<1>. QED
  BY <1>1, <1>2, <1>3, ConstantObjects
     DEF TypeOK, StateTypeOK, WTypeOK, observe, WSkip, WBegin, WSteps

(***************************************************************************)
(* The type invariant, one lemma per actor.                                *)
(***************************************************************************)
\* Steps of the WorkloadIdentity controller.
LEMMA WControllerTypes ==
  ASSUME TypeOK, WController
  PROVE  TypeOK'
<1>. USE DEF TypeOK, StateTypeOK, WTypeOK, RTypeOK, rVars
<1>0. WSteps' = WSteps /\ wid.uid \in UIDOrNone /\ wid.provenance \in Provenances
      /\ cwi.uid \in UIDOrNone /\ csa.owner \in UIDOrNone /\ uami.owner \in UIDOrNone
  BY DEF WorkloadIdentity, ServiceAccount, Uami
<1>1. CASE W_Reconcile
  <2>1. [cwi EXCEPT !.finalizer = TRUE] \in WorkloadIdentity
    BY DEF WorkloadIdentity
  <2>2. wi' \in WorkloadIdentity
    BY <1>1, <2>1 DEF W_Reconcile
  <2>3. WTypeOK' /\ wq' \in BOOLEAN
    BY <1>1, <2>1, ObserveTypes DEF W_Reconcile, WSkip
  <2>. QED BY <1>1, <2>2, <2>3 DEF W_Reconcile, WController
<1>2. CASE W_DetectRecovery
  BY <1>0, <1>2, StatusTypes DEF W_DetectRecovery, WGoto, WPatch, WController, WSteps
<1>3. CASE W_EnsureUserAssignedIdentity
  BY <1>0, <1>3, StatusTypes DEF W_EnsureUserAssignedIdentity, WGoto, WPatch, WController, WSteps
<1>4. CASE W_CreateUserAssignedIdentity
  BY <1>0, <1>4, TagTypes, ConstantObjects DEF W_CreateUserAssignedIdentity, WGoto, WController, WSteps
<1>5. CASE W_EnsureFederatedIdentityCredential
  BY <1>0, <1>5, StatusTypes DEF W_EnsureFederatedIdentityCredential, WGoto, WPatch, WController, WSteps, Credentials
<1>6. CASE W_EnsureServiceAccount
  <2>1. /\ OperatorSA(wid.uid, TRUE) \in ServiceAccount
        /\ OperatorSA(wid.uid, FALSE) \in ServiceAccount
    BY <1>0, ConstantObjects, ServiceAccountTypes
  <2>2. /\ patchedServiceAccount(OperatorSA(wid.uid, TRUE)) \in ServiceAccount
        /\ patchedServiceAccount(OperatorSA(wid.uid, FALSE)) \in ServiceAccount
    BY <1>0, <2>1, ServiceAccountTypes
  <2>3. sa' \in ServiceAccount
    BY <1>6, <2>1, <2>2 DEF W_EnsureServiceAccount
  <2>4. /\ setNotReady(wid) \in WorkloadIdentity
        /\ \A p \in Provenances : setReady(wid, p) \in WorkloadIdentity
    BY <1>0, StatusTypes
  <2>5. WTypeOK' /\ UNCHANGED wq
    BY <1>6, <2>4 DEF W_EnsureServiceAccount, WPatch, WSteps, Provenances
  <2>. QED BY <1>6, <2>3, <2>5 DEF W_EnsureServiceAccount, WController
<1>7. CASE W_PatchStatus
  BY <1>7, ConstantObjects DEF W_PatchStatus, WReturn, WController, WSteps, Provenances
<1>8. CASE W_ReconcileDelete
  BY <1>8, ConstantObjects DEF W_ReconcileDelete, WBegin, WSkip, WController, WSteps, Provenances
<1>9. CASE W_DeleteCheck
  BY <1>9, ConstantObjects DEF W_DeleteCheck, WGoto, WReturn, WController, WSteps, Provenances
<1>10. CASE W_DeleteUserAssignedIdentity
  BY <1>10, TagTypes, ConstantObjects DEF W_DeleteUserAssignedIdentity, WGoto, WController, WSteps, Credentials
<1>11. CASE W_DeleteServiceAccountIfOwned
  BY <1>11, ConstantObjects DEF W_DeleteServiceAccountIfOwned, WGoto, WReturn, WController, WSteps, Provenances
<1>12. CASE W_RemoveFinalizer
  BY <1>12, ConstantObjects DEF W_RemoveFinalizer, WReturn, WController, WSteps, Provenances
<1>13. CASE W_EnsureError
  BY <1>0, <1>13, StatusTypes, MaxDisturbancesAssumption DEF W_EnsureError, Disturb, WPatch, WController, WSteps
<1>14. CASE W_OtherError
  BY <1>14, ConstantObjects, MaxDisturbancesAssumption DEF W_OtherError, Disturb, WReturn, WController, WSteps, Provenances
<1>. QED BY <1>1, <1>2, <1>3, <1>4, <1>5, <1>6, <1>7, <1>8, <1>9, <1>10, <1>11, <1>12,
            <1>13, <1>14 DEF WController, WStep, WFault

(***************************************************************************)
(* What every way to continue or to end a reconcile of a recovery leaves.  *)
(***************************************************************************)
RecoveryTypes == /\ rec \in [Recoveries -> Recovery] /\ rq \subseteq Recoveries
                 /\ RTypeOK

\* RReturn, RGoto, block, fail and saveStatus in a running reconcile.
LEMMA RunningTypes ==
  ASSUME TypeOK, rpc # "idle"
  PROVE  /\ \A b \in BOOLEAN : RReturn(b) => RTypeOK' /\ rq' \subseteq Recoveries
         /\ \A pc \in RSteps : RGoto(pc) \/ RGotoPatch(pc) => RTypeOK' /\ rq' \subseteq Recoveries
         /\ block => RecoveryTypes'
         /\ fail => RecoveryTypes'
         /\ \A new \in Recovery : saveStatus(new) => RecoveryTypes'
<1>. USE DEF TypeOK, StateTypeOK, RTypeOK
<1>1. rcur \in Recoveries /\ rcur \in RecoveryOrNone
  OBVIOUS
<1>2. ASSUME NEW b, RReturn(b) PROVE RTypeOK' /\ rq' \subseteq Recoveries
  BY <1>1, <1>2, ConstantObjects DEF RReturn, RSteps, ReleaseReasons
<1>3. ASSUME NEW pc \in RSteps, RGoto(pc) \/ RGotoPatch(pc)
      PROVE  RTypeOK' /\ rq' \subseteq Recoveries
  BY <1>1, <1>3 DEF RGoto, RGotoPatch, WorkloadIdentity
<1>4. ASSUME block PROVE RecoveryTypes'
  <2>1. setOutcome(rcur, "Blocked") /\ RReturn(TRUE)
    BY <1>4 DEF block
  <2>. QED BY <1>1, <1>2, <2>1, OutcomeTypes DEF RecoveryTypes
<1>5. ASSUME fail PROVE RecoveryTypes'
  <2>1. setOutcome(rcur, "Failed") /\ RReturn(~found(rcur))
    BY <1>5 DEF fail
  <2>. QED BY <1>1, <1>2, <2>1, OutcomeTypes DEF RecoveryTypes
<1>6. ASSUME NEW new \in Recovery, saveStatus(new) PROVE RecoveryTypes'
  <2>1. RReturn(TRUE) /\ rec' \in [Recoveries -> Recovery]
    BY <1>1, <1>6, PatchTypes DEF saveStatus
  <2>. QED BY <1>2, <2>1 DEF RecoveryTypes
<1>. QED BY <1>2, <1>3, <1>4, <1>5, <1>6

\* Taking a recovery from the queue.
LEMMA BeginTypes ==
  ASSUME TypeOK, NEW r \in Recoveries
  PROVE  /\ \A pc \in RSteps, d \in BOOLEAN, reason \in ReleaseReasons :
               RBegin(r, pc, d, reason) => RTypeOK' /\ rq' \subseteq Recoveries
         /\ \A b : RSkip(r, b) => RTypeOK' /\ rq' \subseteq Recoveries
<1>1. r \in RecoveryOrNone /\ crec[r].plan \in Nat
  BY NumRecoveriesAssumption DEF TypeOK, StateTypeOK, Recoveries, RecoveryOrNone, Recovery
<1>2. ASSUME NEW pc \in RSteps, NEW d \in BOOLEAN, NEW reason \in ReleaseReasons,
             RBegin(r, pc, d, reason)
      PROVE  RTypeOK' /\ rq' \subseteq Recoveries
  BY <1>1, <1>2 DEF TypeOK, StateTypeOK, RTypeOK, RBegin
<1>3. ASSUME NEW b, RSkip(r, b) PROVE RTypeOK' /\ rq' \subseteq Recoveries
  BY <1>3 DEF TypeOK, StateTypeOK, RTypeOK, RSkip, rVars
<1>. QED BY <1>2, <1>3

\* Steps that take a recovery from the queue.
LEMMA RTakeTypes ==
  ASSUME TypeOK, NEW r \in Recoveries, RTake(r), UNCHANGED wVars
  PROVE  TypeOK'
<1>. USE DEF TypeOK, StateTypeOK, WTypeOK, wVars
<1>1. crec[r] \in Recovery /\ rec[r] \in Recovery /\ crec[r].deleting \in BOOLEAN
  BY DEF Recovery
<1>2. CASE R_Reconcile(r)
  <2>1. [rec EXCEPT ![r].finalizer = TRUE] \in [Recoveries -> Recovery]
    BY <1>1 DEF Recovery
  <2>2. rec' \in [Recoveries -> Recovery]
    BY <1>2, <2>1 DEF R_Reconcile
  <2>3. RTypeOK' /\ rq' \subseteq Recoveries
    BY <1>2, BeginTypes DEF R_Reconcile, RSteps, ReleaseReasons
  <2>. QED BY <1>2, <2>2, <2>3 DEF R_Reconcile
<1>3. CASE R_ReconcileForward(r)
  <2>1. rec' \in [Recoveries -> Recovery]
    BY <1>3, OutcomeTypes DEF R_ReconcileForward
  <2>2. RTypeOK' /\ rq' \subseteq Recoveries
    BY <1>1, <1>3, BeginTypes DEF R_ReconcileForward, RSteps, ReleaseReasons
  <2>. QED BY <1>3, <2>1, <2>2 DEF R_ReconcileForward
<1>4. CASE R_ReconcileDelete(r)
  <2>1. RTypeOK' /\ rq' \subseteq Recoveries
    BY <1>4, BeginTypes DEF R_ReconcileDelete, RSteps, ReleaseReasons
  <2>. QED BY <1>4, <2>1 DEF R_ReconcileDelete
<1>. QED BY <1>2, <1>3, <1>4 DEF RTake

\* Steps of the recovery controller.
LEMMA RControllerTypes ==
  ASSUME TypeOK, RController
  PROVE  TypeOK'
<1>. USE DEF TypeOK, StateTypeOK, WTypeOK, wVars
<1>0. UNCHANGED wVars
  BY DEF RController
<1>1. rpc # "idle" => /\ rcur \in Recoveries /\ rcur \in RecoveryOrNone
                      /\ crec[rcur] \in Recovery /\ rec[rcur] \in Recovery
                      /\ tgt \in UIDOrNone /\ rec[rcur].plan \in Nat
  BY DEF RTypeOK, Recovery, tgt
<1>2. CASE \E r \in Recoveries : RTake(r)
  BY <1>0, <1>2, RTakeTypes
<1>3. CASE R_Preflight
  <2>1. rpc # "idle" /\ uami.instance \in Nat
    BY <1>3 DEF R_Preflight, Uami
  <2>2. RecoveryTypes'
    BY <1>1, <1>3, <2>1, RunningTypes DEF R_Preflight, RecoveryTypes, RTypeOK, RSteps
  <2>. QED BY <1>0, <1>3, <2>2 DEF R_Preflight, RecoveryTypes
<1>4. CASE R_SavePlan
  <2>1. rpc # "idle" /\ rplan \in Nat
    BY <1>4 DEF R_SavePlan, RTypeOK
  <2>2. [crec[rcur] EXCEPT !.plan = rplan, !.outcome = clearBlocked(@)] \in Recovery
    BY <1>1, <2>1 DEF Recovery, clearBlocked
  <2>3. RecoveryTypes'
    BY <1>4, <2>1, <2>2, RunningTypes DEF R_SavePlan
  <2>. QED BY <1>0, <1>4, <2>3 DEF R_SavePlan, RecoveryTypes
<1>5. CASE R_Winner
  <2>1. RecoveryTypes'
    BY <1>5, RunningTypes DEF R_Winner, RecoveryTypes, RSteps
  <2>. QED BY <1>0, <1>5, <2>1 DEF R_Winner, RecoveryTypes
<1>6. CASE R_ReadTarget
  <2>1. RTypeOK' /\ rq' \subseteq Recoveries
    BY <1>6, RunningTypes DEF R_ReadTarget, RSteps
  <2>. QED BY <1>0, <1>6, <2>1 DEF R_ReadTarget
<1>7. CASE R_LockTarget
  <2>1. RTypeOK' /\ rq' \subseteq Recoveries
    BY <1>7, RunningTypes DEF R_LockTarget, RSteps
  <2>2. wi' \in WorkloadIdentity
    BY <1>7 DEF R_LockTarget, setTargetReason, WorkloadIdentity, Ready, RTypeOK
  <2>. QED BY <1>0, <1>7, <2>1, <2>2 DEF R_LockTarget
<1>8. CASE R_SaveStarted
  <2>1. rpc # "idle"
    BY <1>8 DEF R_SaveStarted
  <2>2. [crec[rcur] EXCEPT !.mutationStarted = TRUE, !.outcome = clearBlocked(@)] \in Recovery
    BY <1>1, <2>1 DEF Recovery, clearBlocked
  <2>3. RecoveryTypes'
    BY <1>8, <2>1, <2>2, RunningTypes DEF R_SaveStarted
  <2>. QED BY <1>0, <1>8, <2>3 DEF R_SaveStarted, RecoveryTypes
<1>9. CASE R_Mark
  <2>1. RecoveryTypes'
    BY <1>1, <1>9, RunningTypes DEF R_Mark, RecoveryTypes, RTypeOK, RSteps
  <2>. QED BY <1>0, <1>9, <2>1 DEF R_Mark, RecoveryTypes
<1>10. CASE R_MarkCall
  <2>1. RTypeOK' /\ rq' \subseteq Recoveries
    BY <1>10, RunningTypes DEF R_MarkCall, RSteps
  <2>2. uami' \in Uami
    BY <1>1, <1>10, TagTypes DEF R_MarkCall, RTypeOK
  <2>. QED BY <1>0, <1>10, <2>1, <2>2 DEF R_MarkCall
<1>11. CASE R_EnsureFederatedIdentityCredential
  <2>1. RecoveryTypes'
    BY <1>11, RunningTypes DEF R_EnsureFederatedIdentityCredential, RecoveryTypes, RSteps
  <2>2. fic' \in Credentials
    BY <1>11 DEF R_EnsureFederatedIdentityCredential, Credentials
  <2>. QED BY <1>0, <1>11, <2>1, <2>2 DEF R_EnsureFederatedIdentityCredential, RecoveryTypes
<1>12. CASE R_TransferServiceAccount
  <2>1. RecoveryTypes'
    BY <1>1, <1>12, RunningTypes DEF R_TransferServiceAccount, RecoveryTypes, RTypeOK, RSteps
  <2>2. sa' \in ServiceAccount
    BY <1>1, <1>12 DEF R_TransferServiceAccount, ServiceAccount
  <2>. QED BY <1>0, <1>12, <2>1, <2>2 DEF R_TransferServiceAccount, RecoveryTypes
<1>13. CASE R_CommitCheck
  <2>1. RecoveryTypes'
    BY <1>1, <1>13, RunningTypes DEF R_CommitCheck, RecoveryTypes, RTypeOK, RSteps
  <2>. QED BY <1>0, <1>13, <2>1 DEF R_CommitCheck, RecoveryTypes
<1>14. CASE R_Commit
  <2>1. RecoveryTypes'
    BY <1>1, <1>14, RunningTypes DEF R_Commit, RecoveryTypes, RTypeOK, RSteps
  <2>. QED BY <1>0, <1>14, <2>1 DEF R_Commit, RecoveryTypes
<1>15. CASE R_CommitCall
  <2>1. RTypeOK' /\ rq' \subseteq Recoveries
    BY <1>15, RunningTypes DEF R_CommitCall, RSteps
  <2>2. uami' \in Uami
    BY <1>1, <1>15, TagTypes DEF R_CommitCall, RTypeOK
  <2>. QED BY <1>0, <1>15, <2>1, <2>2 DEF R_CommitCall
<1>16. CASE R_CommitVerify
  <2>1. RecoveryTypes'
    BY <1>16, RunningTypes DEF R_CommitVerify, RecoveryTypes, RSteps
  <2>. QED BY <1>0, <1>16, <2>1 DEF R_CommitVerify, RecoveryTypes
<1>17. CASE R_SaveCommit
  <2>1. rpc # "idle"
    BY <1>17 DEF R_SaveCommit
  <2>2. [crec[rcur] EXCEPT !.commitVerified = TRUE, !.outcome = "None"] \in Recovery
    BY <1>1, <2>1 DEF Recovery
  <2>3. RecoveryTypes'
    BY <1>17, <2>1, <2>2, RunningTypes DEF R_SaveCommit
  <2>. QED BY <1>0, <1>17, <2>3 DEF R_SaveCommit, RecoveryTypes
<1>18. CASE R_Finalize
  <2>1. RecoveryTypes'
    BY <1>1, <1>18, RunningTypes DEF R_Finalize, RecoveryTypes, RTypeOK, RSteps
  <2>. QED BY <1>0, <1>18, <2>1 DEF R_Finalize, RecoveryTypes
<1>19. CASE R_FinalizeCall
  <2>1. RTypeOK' /\ rq' \subseteq Recoveries
    BY <1>19, RunningTypes DEF R_FinalizeCall, RSteps
  <2>2. uami' \in Uami
    BY <1>1, <1>19, TagTypes DEF R_FinalizeCall, RTypeOK
  <2>. QED BY <1>0, <1>19, <2>1, <2>2 DEF R_FinalizeCall
<1>20. CASE R_FinalizeVerify
  <2>1. RecoveryTypes'
    BY <1>20, RunningTypes DEF R_FinalizeVerify, RecoveryTypes, RSteps
  <2>. QED BY <1>0, <1>20, <2>1 DEF R_FinalizeVerify, RecoveryTypes
<1>21. CASE R_SaveComplete
  <2>1. rpc # "idle"
    BY <1>21 DEF R_SaveComplete
  <2>2. [crec[rcur] EXCEPT !.outcome = "Complete"] \in Recovery
    BY <1>1, <2>1 DEF Recovery
  <2>3. RecoveryTypes'
    BY <1>1, <1>21, <2>1, <2>2, RunningTypes, PatchTypes DEF R_SaveComplete, RecoveryTypes, RSteps
  <2>. QED BY <1>0, <1>21, <2>3 DEF R_SaveComplete, RecoveryTypes
<1>22. CASE R_Cancel
  <2>1. RTypeOK' /\ rq' \subseteq Recoveries
    BY <1>22, RunningTypes DEF R_Cancel, RSteps
  <2>. QED BY <1>0, <1>22, <2>1 DEF R_Cancel
<1>23. CASE R_ReadRelease
  <2>1. RTypeOK' /\ rq' \subseteq Recoveries
    BY <1>23, RunningTypes DEF R_ReadRelease, afterRelease, RSteps
  <2>. QED BY <1>0, <1>23, <2>1 DEF R_ReadRelease
<1>24. CASE R_Release
  <2>1. RTypeOK' /\ rq' \subseteq Recoveries
    BY <1>24, RunningTypes DEF R_Release, afterRelease, RSteps
  <2>2. wi' \in WorkloadIdentity
    BY <1>24 DEF R_Release, setTargetReason, WorkloadIdentity, Ready, RTypeOK, ReleaseReasons
  <2>. QED BY <1>0, <1>24, <2>1, <2>2 DEF R_Release
<1>25. CASE R_RemoveFinalizer
  <2>1. rpc # "idle"
    BY <1>25 DEF R_RemoveFinalizer
  <2>2. [rec[rcur] EXCEPT !.phase = "gone", !.finalizer = FALSE] \in Recovery
    BY <1>1, <2>1 DEF Recovery
  <2>3. RecoveryTypes'
    BY <1>1, <1>25, <2>1, <2>2, RunningTypes DEF R_RemoveFinalizer, RecoveryTypes
  <2>. QED BY <1>0, <1>25, <2>3 DEF R_RemoveFinalizer, RecoveryTypes
<1>26. CASE R_Error
  <2>1. RTypeOK' /\ rq' \subseteq Recoveries
    BY <1>26, RunningTypes DEF R_Error
  <2>. QED BY <1>0, <1>26, <2>1, MaxDisturbancesAssumption DEF R_Error, Disturb
<1>. QED
  BY <1>2, <1>3, <1>4, <1>5, <1>6, <1>7, <1>8, <1>9, <1>10, <1>11, <1>12, <1>13, <1>14,
     <1>15, <1>16, <1>17, <1>18, <1>19, <1>20, <1>21, <1>22, <1>23, <1>24, <1>25, <1>26
     DEF RController, RStep

\* What users do to an object.
LEMMA EditTypes ==
  ASSUME NEW id \in WorkloadIdentity, NEW p \in {"Retain", "Delete"}, NEW o \in Recovery
  PROVE  /\ [id EXCEPT !.deleting = TRUE, !.generation = @ + 1] \in WorkloadIdentity
         /\ [id EXCEPT !.policy = p, !.generation = @ + 1] \in WorkloadIdentity
         /\ [o EXCEPT !.deleting = TRUE] \in Recovery
         /\ [o EXCEPT !.phase = "gone"] \in Recovery
<1>1. id.generation + 1 \in Nat
  BY DEF WorkloadIdentity
<1>2. [id EXCEPT !.deleting = TRUE, !.generation = @ + 1] \in WorkloadIdentity
  BY <1>1 DEF WorkloadIdentity
<1>3. [id EXCEPT !.policy = p, !.generation = @ + 1] \in WorkloadIdentity
  BY <1>1 DEF WorkloadIdentity
<1>4. [o EXCEPT !.deleting = TRUE] \in Recovery /\ [o EXCEPT !.phase = "gone"] \in Recovery
  BY DEF Recovery
<1>. QED BY <1>2, <1>3, <1>4

\* Users and the outside world.
LEMMA OutsideTypes ==
  ASSUME TypeOK, Users \/ Environment
  PROVE  TypeOK'
<1>. USE DEF TypeOK, StateTypeOK, WTypeOK, RTypeOK, wVars, rVars
<1>1. ASSUME NEW policy \in Policies, CreateWorkloadIdentity(policy) PROVE TypeOK'
  <2>1. lastUid + 1 \in UIDOrNone
    BY <1>1, MaxUIDAssumption DEF CreateWorkloadIdentity, UIDOrNone
  <2>2. 0 \in UIDOrNone /\ policy \in {"Retain", "Delete"}
    BY ConstantObjects, PoliciesAssumption
  <2>3. [NoWI EXCEPT !.uid = lastUid + 1, !.policy = policy, !.generation = 1] \in WorkloadIdentity
    BY <2>1, <2>2 DEF NoWI, WorkloadIdentity, Ready, Provenances
  <2>. QED BY <1>1, <2>1, <2>3 DEF CreateWorkloadIdentity
<1>2. CASE DeleteWorkloadIdentity
  <2>1. [wi EXCEPT !.deleting = TRUE, !.generation = @ + 1] \in WorkloadIdentity
    BY EditTypes, ConstantObjects
  <2>. QED BY <1>2, <2>1, ConstantObjects DEF DeleteWorkloadIdentity
<1>3. CASE EditWorkloadIdentity
  <2>1. \A p \in {"Retain", "Delete"} :
          [wi EXCEPT !.policy = p, !.generation = @ + 1] \in WorkloadIdentity
    BY EditTypes, ConstantObjects
  <2>2. wi' \in WorkloadIdentity
    BY <1>3, <2>1 DEF EditWorkloadIdentity
  <2>3. budget' \in 0 .. MaxDisturbances
    BY <1>3, MaxDisturbancesAssumption DEF EditWorkloadIdentity, Disturb
  <2>. QED BY <1>3, <2>2, <2>3 DEF EditWorkloadIdentity
<1>4. CASE ChangeServiceAccount
  <2>1. budget' \in 0 .. MaxDisturbances
    BY <1>4, MaxDisturbancesAssumption DEF ChangeServiceAccount, Disturb
  <2>2. sa' \in ServiceAccount
    BY <1>4, ConstantObjects DEF ChangeServiceAccount
  <2>. QED BY <1>4, <2>1, <2>2 DEF ChangeServiceAccount
<1>5. ASSUME NEW r \in Recoveries, CreateRecovery(r) PROVE TypeOK'
  <2>1. PICK source \in UIDs, target \in UIDs :
          rec' = [rec EXCEPT ![r] = [NewRecovery EXCEPT !.phase = "live",
                                       !.source = source, !.target = target]]
    BY <1>5 DEF CreateRecovery
  <2>2. source \in UIDOrNone /\ target \in UIDOrNone
    BY MaxUIDAssumption DEF UIDs, UIDOrNone
  <2>3. [NewRecovery EXCEPT !.phase = "live", !.source = source, !.target = target] \in Recovery
    BY <2>2, ConstantObjects DEF NewRecovery, Recovery
  <2>4. rec' \in [Recoveries -> Recovery]
    BY <2>1, <2>3
  <2>5. budget' \in 0 .. MaxDisturbances
    BY <1>5, MaxDisturbancesAssumption DEF CreateRecovery, Disturb
  <2>. QED BY <1>5, <2>4, <2>5 DEF CreateRecovery
<1>6. ASSUME NEW r \in Recoveries, DeleteRecovery(r) PROVE TypeOK'
  <2>1. /\ [rec[r] EXCEPT !.deleting = TRUE] \in Recovery
        /\ [rec[r] EXCEPT !.phase = "gone"] \in Recovery
    BY EditTypes, ConstantObjects
  <2>2. rec' \in [Recoveries -> Recovery]
    BY <1>6, <2>1 DEF DeleteRecovery
  <2>. QED BY <1>6, <2>2 DEF DeleteRecovery
<1>7. CASE DriftCredential
  <2>1. budget' \in 0 .. MaxDisturbances
    BY <1>7, MaxDisturbancesAssumption DEF DriftCredential, Disturb
  <2>2. fic' \in Credentials
    BY <1>7 DEF DriftCredential
  <2>. QED BY <1>7, <2>1, <2>2 DEF DriftCredential
<1>8. CASE DeleteAzureIdentity
  <2>1. budget' \in 0 .. MaxDisturbances
    BY <1>8, MaxDisturbancesAssumption DEF DeleteAzureIdentity, Disturb
  <2>2. uami' \in Uami /\ fic' \in Credentials
    BY <1>8, TagTypes DEF DeleteAzureIdentity, Credentials
  <2>. QED BY <1>8, <2>1, <2>2 DEF DeleteAzureIdentity
<1>9. CASE IssuerLost \/ IssuerBecomesReady
  <2>1. wq' \in BOOLEAN /\ issuerReady' \in BOOLEAN
    BY <1>9 DEF IssuerLost, IssuerBecomesReady
  <2>2. budget' \in 0 .. MaxDisturbances
    BY <1>9, MaxDisturbancesAssumption DEF IssuerLost, IssuerBecomesReady, Disturb
  <2>. QED BY <1>9, <2>1, <2>2 DEF IssuerLost, IssuerBecomesReady
<1>10. CASE Restart
  <2>1. WTypeOK' /\ RTypeOK'
    BY <1>10, ConstantObjects DEF Restart, WSteps, Provenances, RSteps, ReleaseReasons
  <2>2. wq' \in BOOLEAN /\ rq' \subseteq Recoveries
    BY <1>10 DEF Restart
  <2>3. budget' \in 0 .. MaxDisturbances
    BY <1>10, MaxDisturbancesAssumption DEF Restart, Disturb
  <2>. QED BY <1>10, <2>1, <2>2, <2>3 DEF Restart
<1>. QED BY <1>1, <1>2, <1>3, <1>4, <1>5, <1>6, <1>7, <1>8, <1>9, <1>10
            DEF Users, Environment

\* The informer.
LEMMA InformerTypes ==
  ASSUME TypeOK, Informer
  PROVE  TypeOK'
<1>. USE DEF TypeOK, StateTypeOK, WTypeOK, RTypeOK, wVars, rVars
<1>1. CASE SyncWorkloadIdentity
  BY <1>1 DEF SyncWorkloadIdentity, recoveriesForWorkloadIdentity
<1>2. CASE SyncServiceAccount
  BY <1>2 DEF SyncServiceAccount
<1>3. ASSUME NEW r \in Recoveries, SyncRecovery(r) PROVE TypeOK'
  BY <1>3 DEF SyncRecovery
<1>. QED BY <1>1, <1>2, <1>3 DEF Informer

\* What the operator finds when it starts.
LEMMA InitTypes == Init => TypeOK
<1>. SUFFICES ASSUME Init PROVE TypeOK
  OBVIOUS
<1>1. 1 \in UIDOrNone
  BY MaxUIDAssumption DEF UIDOrNone
<1>2. /\ workloadIdentityTags(0) \in Uami /\ workloadIdentityTags(1) \in Uami
  BY <1>1, ConstantObjects, TagTypes
<1>3. /\ retainedUami \in Uami
      /\ CreateOrUpdate(NoUami, workloadIdentityTags(0)) \in Uami
  BY <1>2, ConstantObjects, TagTypes DEF retainedUami
<1>4. Leftovers \subseteq ServiceAccount
  BY <1>1, ConstantObjects DEF Leftovers, OperatorSA, ServiceAccount
<1>5. lastUid \in UIDOrNone /\ sa \in ServiceAccount /\ uami \in Uami /\ fic \in Credentials
  BY <1>1, <1>3, <1>4, ConstantObjects DEF Init, StateInit, Credentials
<1>6. budget \in 0 .. MaxDisturbances
  BY MaxDisturbancesAssumption DEF Init, StateInit
<1>7. StateTypeOK
  BY <1>5, <1>6, ConstantObjects DEF Init, StateInit, StateTypeOK
<1>8. WTypeOK /\ RTypeOK
  BY ConstantObjects DEF Init, WInit, RInit, WTypeOK, RTypeOK, WSteps, Provenances, RSteps,
                         ReleaseReasons
<1>. QED BY <1>7, <1>8 DEF TypeOK

\* Whatever happens keeps the types.
LEMMA NextTypes == TypeOK /\ [Next]_vars => TypeOK'
<1>. SUFFICES ASSUME TypeOK, [Next]_vars PROVE TypeOK'
  OBVIOUS
<1>1. CASE UNCHANGED vars
  BY <1>1 DEF vars, stateVars, wVars, rVars, TypeOK, StateTypeOK, WTypeOK, RTypeOK
<1>. QED BY <1>1, WControllerTypes, RControllerTypes, InformerTypes, OutsideTypes DEF Next

\* The state of both controllers stays well formed.  In particular a running
\* reconcile always works on a recovery that exists, and no UID is given out
\* beyond those of the instance.
THEOREM TypeCorrect == Spec => []TypeOK
<1>1. Init => TypeOK
  BY InitTypes
<1>2. TypeOK /\ [Next]_vars => TypeOK'
  BY NextTypes
<1>. QED BY <1>1, <1>2, PTL DEF Spec
=============================================================================
