------------------------- MODULE RecoveryLockProofs -------------------------
(***************************************************************************)
(* The target of a fence is locked as long as the fence is there, if no    *)
(* recovery is deleted (FencedTargetIsLocked).  A lock that was once seen, *)
(* in the cluster or in the cache, goes only when a recovery of the same   *)
(* source has carried the transfer through; then the source has given the  *)
(* identity up for good, and nothing fences it for that target again.      *)
(*                                                                         *)
(* And an instance that reports Ready owns the identity, if nobody else    *)
(* deletes it (ReadyOwns): a recovery takes the identity only from its     *)
(* source, an instance that was deleted before the one there is now.       *)
(***************************************************************************)
EXTENDS RecoveryTransferProofs

(***************************************************************************)
(* Whatever step it is: the identity, and the recoveries.                  *)
(***************************************************************************)
\* Who writes to the identity.
LEMMA IdentityWriters ==
  ASSUME [Next]_vars
  PROVE  \/ UNCHANGED uami
         \/ W_CreateUserAssignedIdentity \/ W_DeleteUserAssignedIdentity \/ DeleteAzureIdentity
         \/ R_MarkCall \/ R_CommitCall \/ R_FinalizeCall
<1>1. CASE WController
  BY <1>1
     DEF WController, WStep, WFault, W_Reconcile, W_DetectRecovery, W_EnsureUserAssignedIdentity,
         W_EnsureFederatedIdentityCredential, W_EnsureServiceAccount, W_PatchStatus,
         W_ReconcileDelete, W_DeleteCheck, W_DeleteServiceAccountIfOwned, W_RemoveFinalizer,
         W_EnsureError, W_OtherError
<1>2. CASE RController
  BY <1>2
     DEF RController, RStep, RTake, R_Reconcile, R_ReconcileForward, R_ReconcileDelete,
         R_Preflight, R_SavePlan, R_SaveStarted, R_SaveCommit, R_Winner, R_SaveComplete,
         R_ReadTarget, R_LockTarget, R_Cancel, R_ReadRelease, R_Release, R_Error,
         R_RemoveFinalizer, R_EnsureFederatedIdentityCredential, R_TransferServiceAccount,
         R_CommitVerify, R_Mark, R_CommitCheck, R_Commit, R_Finalize, R_FinalizeVerify
<1>3. CASE Informer \/ Users \/ Environment
  BY <1>3
     DEF Informer, SyncWorkloadIdentity, SyncServiceAccount, SyncRecovery, Users,
         CreateWorkloadIdentity, DeleteWorkloadIdentity, EditWorkloadIdentity,
         ChangeServiceAccount, CreateRecovery, DeleteRecovery, Environment, DriftCredential,
         IssuerLost, IssuerBecomesReady, Restart
<1>4. CASE UNCHANGED vars
  BY <1>4 DEF vars, stateVars
<1>. QED BY <1>1, <1>2, <1>3, <1>4 DEF Next

LEMMA IdentitySteps ==
  ASSUME CopiesInvariant, [Next]_vars
  PROVE  UNCHANGED uami \/ HeldByTheLast \/ R_MarkCall \/ R_CommitCall \/ R_FinalizeCall
<1>1. DeleteAzureIdentity => HeldByTheLast
  BY DEF DeleteAzureIdentity, DeleteIdentity, NoUami, HeldByTheLast
<1>. QED BY <1>1, IdentityWriters, WorkerWrites

\* Only two steps of the recovery controller write to the target.
LEMMA RunKeepsTarget ==
  ASSUME RController
  PROVE  UNCHANGED wi \/ R_LockTarget \/ R_Release
BY DEF RController, RStep, RTake, R_Reconcile, R_ReconcileForward, R_ReconcileDelete,
       R_Preflight, R_SavePlan, R_SaveStarted, R_SaveCommit, R_Winner, R_SaveComplete,
       R_ReadTarget, R_Cancel, R_ReadRelease, R_Error, R_MarkCall, R_CommitCall,
       R_FinalizeCall, R_RemoveFinalizer, R_EnsureFederatedIdentityCredential,
       R_TransferServiceAccount, R_CommitVerify, R_Mark, R_CommitCheck, R_Commit,
       R_Finalize, R_FinalizeVerify

\* Recovery x after the step: its specification, its checkpoints, who completes it.
GoesOn(x) ==
  /\ rec[x].phase # "new" =>
       rec'[x].source = rec[x].source /\ rec'[x].target = rec[x].target
  /\ rec[x].phase = "new" => ~recoveryIsComplete(rec'[x])
  /\ rec[x].mutationStarted => rec'[x].mutationStarted
  /\ recoveryIsComplete(rec'[x]) =>
       \/ recoveryIsComplete(rec[x]) \/ recoveryIsComplete(crec[x])
       \/ x = rcur /\ rpc = "saveComplete"
  /\ "recovery" \notin Deletable /\ rec'[x].deleting => rec[x].deleting
  /\ crec'[x] \in {crec[x], rec[x]}

LEMMA KeptGoesOn ==
  ASSUME CopiesInvariant, RecordsKept, NEW x \in Recoveries
  PROVE  GoesOn(x)
<1>1. RecordKept(x) /\ crec'[x] = crec[x]
  BY DEF RecordsKept
<1>2. rec[x].phase = "new" => ~recoveryIsComplete(rec[x]) /\ ~recoveryIsComplete(crec[x])
  BY DEF CopiesInvariant, StartInvariant, ForwardOnly, RecoveryCopies, NewRecovery,
         recoveryIsComplete
<1>3. rec[x].phase = "new" => ~(x = rcur /\ rpc = "saveComplete")
  BY WasCreated
<1>. QED BY <1>1, <1>2, <1>3 DEF RecordKept, GoesOn

LEMMA RecordsGoOn ==
  ASSUME CopiesInvariant, [Next]_vars
  PROVE  \A x \in Recoveries : GoesOn(x)
<1>. USE DEF GoesOn
<1>0. /\ rec \in [Recoveries -> Recovery] /\ crec \in [Recoveries -> Recovery]
      /\ \A x \in Recoveries :
           rec[x].phase = "new" => ~recoveryIsComplete(rec[x]) /\ ~rec[x].mutationStarted
  BY DEF CopiesInvariant, StartInvariant, TypeOK, StateTypeOK, ForwardOnly, NewRecovery,
         recoveryIsComplete
<1>1. ASSUME UNCHANGED rec, \A x \in Recoveries : crec'[x] \in {crec[x], rec[x]}
      PROVE  \A x \in Recoveries : GoesOn(x)
  BY <1>0, <1>1
<1>2. ASSUME NEW r \in Recoveries, UNCHANGED crec, GoesOn(r),
             \A x \in Recoveries \ {r} : rec'[x] = rec[x]
      PROVE  \A x \in Recoveries : GoesOn(x)
  BY <1>0, <1>2
<1>3. CASE RunStep
  BY <1>3, RunSteps, KeptGoesOn
<1>4. ASSUME NEW r \in Recoveries, RTake(r) PROVE \A x \in Recoveries : GoesOn(x)
  <2>1. Begins(r) \/ Skips
    BY <1>4, TakeSkipsOrBegins DEF CopiesInvariant, RecoveryCopiesInvariant
  <2>. QED BY <1>1, <2>1, KeptGoesOn DEF Begins, Skips
<1>5. CASE R_RemoveFinalizer
  <2>1. UNCHANGED crec /\ rcur \in Recoveries /\ rec[rcur] \in Recovery /\ rec[rcur].phase # "new"
    BY <1>0, <1>5, WasCreated DEF R_RemoveFinalizer
  <2>2. CASE UNCHANGED rec
    BY <1>1, <2>1, <2>2
  <2>3. CASE rec' = [rec EXCEPT ![rcur] = [@ EXCEPT !.phase = "gone", !.finalizer = FALSE]]
    <3>1. rec'[rcur] = [rec[rcur] EXCEPT !.phase = "gone", !.finalizer = FALSE]
      BY <1>0, <2>1, <2>3
    <3>2. /\ rec'[rcur].source = rec[rcur].source /\ rec'[rcur].target = rec[rcur].target
          /\ rec'[rcur].mutationStarted = rec[rcur].mutationStarted
          /\ rec'[rcur].outcome = rec[rcur].outcome /\ rec'[rcur].deleting = rec[rcur].deleting
      BY <2>1, <3>1 DEF Recovery
    <3>3. ASSUME NEW x \in Recoveries, x = rcur PROVE GoesOn(x)
      BY <2>1, <3>2, <3>3 DEF recoveryIsComplete
    <3>4. \A x \in Recoveries \ {rcur} : rec'[x] = rec[x]
      BY <1>0, <2>3
    <3>. QED BY <1>2, <2>1, <3>3, <3>4
  <2>. QED BY <1>5, <2>2, <2>3 DEF R_RemoveFinalizer
<1>6. ASSUME NEW r \in Recoveries, CreateRecovery(r) PROVE \A x \in Recoveries : GoesOn(x)
  <2>1. PICK source \in UIDs, target \in UIDs :
          rec' = [rec EXCEPT ![r] = [NewRecovery EXCEPT !.phase = "live",
                                       !.source = source, !.target = target]]
    BY <1>6 DEF CreateRecovery
  <2>2. /\ rec'[r].outcome = "None" /\ ~rec'[r].deleting /\ rec[r].phase = "new"
        /\ UNCHANGED crec
    BY <1>0, <1>6, <2>1 DEF CreateRecovery, NewRecovery
  <2>3. GoesOn(r)
    BY <1>0, <2>2 DEF recoveryIsComplete
  <2>4. \A x \in Recoveries \ {r} : rec'[x] = rec[x]
    BY <1>0, <2>1
  <2>. QED BY <1>2, <2>2, <2>3, <2>4
<1>7. ASSUME NEW r \in Recoveries, DeleteRecovery(r) PROVE \A x \in Recoveries : GoesOn(x)
  <2>1. /\ rec'[r] = IF rec[r].finalizer THEN [rec[r] EXCEPT !.deleting = TRUE]
                                         ELSE [rec[r] EXCEPT !.phase = "gone"]
        /\ \A x \in Recoveries \ {r} : rec'[x] = rec[x]
        /\ UNCHANGED crec /\ rec[r] \in Recovery /\ "recovery" \in Deletable
        /\ rec[r].phase # "new"
    BY <1>0, <1>7 DEF DeleteRecovery, live
  <2>2. /\ rec'[r].source = rec[r].source /\ rec'[r].target = rec[r].target
        /\ rec'[r].outcome = rec[r].outcome
        /\ rec'[r].mutationStarted = rec[r].mutationStarted
    BY <2>1 DEF Recovery
  <2>3. GoesOn(r)
    BY <2>1, <2>2 DEF recoveryIsComplete
  <2>. QED BY <1>2, <2>1, <2>3
<1>8. CASE RController
  BY <1>3, <1>4, <1>5, <1>8 DEF RController, RStep, RunStep, QuietStep
<1>9. CASE WController
  BY <1>0, <1>1, <1>9
     DEF WController, WStep, WFault, W_Reconcile, W_DetectRecovery, W_EnsureUserAssignedIdentity,
         W_CreateUserAssignedIdentity, W_EnsureFederatedIdentityCredential,
         W_EnsureServiceAccount, W_PatchStatus, W_ReconcileDelete, W_DeleteCheck,
         W_DeleteUserAssignedIdentity, W_DeleteServiceAccountIfOwned, W_RemoveFinalizer,
         W_EnsureError, W_OtherError
<1>10. CASE Informer
  BY <1>0, <1>1, <1>10 DEF Informer, SyncWorkloadIdentity, SyncServiceAccount, SyncRecovery
<1>11. CASE Environment
  BY <1>0, <1>1, <1>11 DEF Environment, DriftCredential, DeleteAzureIdentity, IssuerLost,
                           IssuerBecomesReady, Restart
<1>12. CASE Users
  BY <1>0, <1>1, <1>6, <1>7, <1>12
     DEF Users, CreateWorkloadIdentity, DeleteWorkloadIdentity, EditWorkloadIdentity,
         ChangeServiceAccount
<1>13. CASE UNCHANGED vars
  BY <1>0, <1>1, <1>13 DEF vars, stateVars
<1>. QED BY <1>8, <1>9, <1>10, <1>11, <1>12, <1>13 DEF Next

LEMMA RecordsAreKeptNext ==
  ASSUME "recovery" \notin Deletable, CopiesInvariant, RecordsAreKept, [Next]_vars
  PROVE  RecordsAreKept'
<1>. SUFFICES ASSUME NEW x \in Recoveries
              PROVE  /\ ~rec'[x].deleting
                     /\ \A o \in {rec'[x], crec'[x]} : recoveryIsComplete(o) => o.mutationStarted
                     /\ crec'[x].phase # "new" =>
                          crec'[x].source = rec'[x].source /\ crec'[x].target = rec'[x].target
  BY DEF RecordsAreKept
<1>1. GoesOn(x)
  BY RecordsGoOn
<1>2. /\ crec[x].mutationStarted => rec[x].mutationStarted
      /\ crec[x].phase # "new" => rec[x].phase # "new"
      /\ rpc = "saveComplete" => crec[rcur].mutationStarted
  BY DEF CopiesInvariant, StartInvariant, ForwardOnly, ReconciledExists, FenceSteps
<1>. QED BY <1>1, <1>2 DEF GoesOn, RecordsAreKept

(***************************************************************************)
(* status.recovery names an earlier instance.                              *)
(***************************************************************************)
\* Every status the worker writes about id, when it was taken from an earlier owner.
LEMMA EarlierStatus ==
  ASSUME NEW id \in WorkloadIdentity, Earlier(id), NEW previous \in UIDOrNone,
         previous # 0 => previous < id.uid, NEW provenance \in Provenances
  PROVE  /\ Earlier(setNotReady(id)) /\ Earlier(setInProgress(id))
         /\ Earlier(setReady(id, provenance)) /\ Earlier(setRecoveryRequired(id, previous))
BY StatusOf DEF Earlier, Derived

\* The worker returns; or goes on with the same copy and, maybe, an earlier status.
EvidenceGoesOn ==
  \/ wpc' \notin EnsureSteps
  \/ /\ wpc \in EnsureSteps /\ wid' = wid
     /\ \/ UNCHANGED wout /\ (wpc' \in StatusSteps => wpc \in StatusSteps)
        \/ Earlier(wout')

LEMMA WorkerEvidence ==
  ASSUME CopiesInvariant, PreviousIsEarlier, WController
  PROVE  PreviousIsEarlier'
<1>. USE DEF EnsureSteps, StatusSteps
<1>0. /\ UNCHANGED cwi /\ lastUid \in Nat /\ wi.uid \in {0, lastUid}
      /\ wi \in WorkloadIdentity /\ cwi \in WorkloadIdentity /\ wid \in WorkloadIdentity
      /\ uami.owner \in Nat /\ uami.owner <= lastUid /\ uami.owner \in UIDOrNone
      /\ csa.owner \in Nat /\ csa.owner <= lastUid /\ csa.owner \in UIDOrNone
      /\ wpc \in EnsureSteps => Earlier(wid) /\ wid.uid = lastUid
      /\ "None" \in Provenances /\ wsa \in Provenances
  <2>1. UNCHANGED cwi
    BY DEF WController, WStep, WFault, W_Reconcile, W_DetectRecovery,
         W_EnsureUserAssignedIdentity, W_CreateUserAssignedIdentity,
         W_EnsureFederatedIdentityCredential,
         W_EnsureServiceAccount, W_PatchStatus, W_ReconcileDelete, W_DeleteCheck,
         W_DeleteUserAssignedIdentity, W_DeleteServiceAccountIfOwned, W_RemoveFinalizer,
         W_EnsureError, W_OtherError
  <2>2. wpc \in EnsureSteps => wid.uid = lastUid
    BY DEF CopiesInvariant, IdentityCopies, UIDsAreGivenOut, FinalizerKeepsIdentity
  <2>3. wsa \in Provenances /\ "None" \in Provenances
    BY DEF CopiesInvariant, StartInvariant, TypeOK, WTypeOK, Provenances
  <2>. QED BY <2>1, <2>2, <2>3, UIDNumbers
           DEF PreviousIsEarlier, CopiesInvariant, StartInvariant, IdentityCopies, UIDsAreGivenOut
<1>1. ASSUME EvidenceGoesOn, wi'.uid = wi.uid /\ wi'.previousUid = wi.previousUid
      PROVE  PreviousIsEarlier'
  BY <1>0, <1>1 DEF PreviousIsEarlier, EvidenceGoesOn, Earlier
<1>2. ASSUME NEW previous \in UIDOrNone, previous # wid.uid, previous \in Nat,
             previous <= lastUid, wpc \in EnsureSteps, NEW provenance \in Provenances
      PROVE  /\ Earlier(setNotReady(wid)) /\ Earlier(setInProgress(wid))
             /\ Earlier(setReady(wid, provenance))
             /\ Earlier(setRecoveryRequired(wid, previous))
  BY <1>0, <1>2, EarlierStatus
<1>3. ASSUME wpc \in EnsureSteps, NEW provenance \in Provenances
      PROVE  /\ Earlier(setNotReady(wid)) /\ Earlier(setInProgress(wid))
             /\ Earlier(setReady(wid, provenance))
             /\ (uami.owner # wid.uid => Earlier(setRecoveryRequired(wid, uami.owner)))
  <2>1. 0 \in UIDOrNone
    BY MaxUIDAssumption DEF UIDOrNone
  <2>. QED BY <1>0, <1>2, <1>3, <2>1, EarlierStatus
<1>4. CASE W_DetectRecovery
  BY <1>0, <1>1, <1>3, <1>4 DEF W_DetectRecovery, WGoto, WPatch, EvidenceGoesOn
<1>5. CASE W_EnsureUserAssignedIdentity
  <2>1. validateUserAssignedIdentityOwnership(wid.uid, uami) = "RecoveryRequired" =>
          uami.owner # wid.uid
    BY DEF validateUserAssignedIdentityOwnership, Fenced
  <2>. QED BY <1>0, <1>1, <1>3, <1>5, <2>1
           DEF W_EnsureUserAssignedIdentity, WGoto, WPatch, EvidenceGoesOn
<1>6. CASE W_CreateUserAssignedIdentity \/ W_EnsureFederatedIdentityCredential \/ WFault
  BY <1>0, <1>1, <1>3, <1>6
     DEF W_CreateUserAssignedIdentity, W_EnsureFederatedIdentityCredential, WFault,
         W_EnsureError, W_OtherError, WGoto, WPatch, WReturn, EvidenceGoesOn
<1>7. CASE W_EnsureServiceAccount
  <2>1. PICK provenance \in Provenances :
          /\ wpc = "ensureSA" /\ UNCHANGED wi
          /\ WPatch("status", setNotReady(wid)) \/ WPatch("status", setReady(wid, provenance))
    BY <1>0, <1>7 DEF W_EnsureServiceAccount, Provenances
  <2>. QED BY <1>1, <1>3, <2>1 DEF WPatch, EvidenceGoesOn
<1>8. CASE W_ReconcileDelete \/ W_DeleteCheck \/ W_DeleteUserAssignedIdentity
           \/ W_DeleteServiceAccountIfOwned
  BY <1>0, <1>1, <1>8
     DEF W_ReconcileDelete, W_DeleteCheck, W_DeleteUserAssignedIdentity,
         W_DeleteServiceAccountIfOwned, WGoto, WBegin, WSkip, WReturn, EvidenceGoesOn,
         CopiesInvariant, IdentityCopies, FinalizerKeepsIdentity
<1>9. CASE W_PatchStatus
  <2>1. wpc' = "idle" /\ (wi' = wi \/ wi' = wout) /\ Earlier(wout)
    BY <1>9 DEF W_PatchStatus, WReturn, PreviousIsEarlier
  <2>. QED BY <1>0, <2>1 DEF PreviousIsEarlier, Earlier
<1>10. CASE W_RemoveFinalizer
  <2>1. wpc' = "idle" /\ (wi' = wi \/ wi' = NoWI)
    BY <1>10 DEF W_RemoveFinalizer, WReturn
  <2>. QED BY <1>0, <2>1, EmptyIdentity DEF PreviousIsEarlier, Earlier
<1>11. CASE W_Reconcile
  <2>0. wpc = "idle" /\ UNCHANGED csa
    BY <1>11 DEF W_Reconcile
  <2>1. ASSUME NEW it \in WorkloadIdentity, Earlier(it), it.uid = lastUid, observe(it)
        PROVE  \/ wpc' = "idle"
               \/ wid' = it /\ (wpc' \in StatusSteps => Earlier(wout'))
    <3>1. Earlier(setNotReady(it)) /\ (csa.owner # it.uid => Earlier(setRecoveryRequired(it, csa.owner)))
      <4>1. 0 \in UIDOrNone /\ "None" \in Provenances
        BY MaxUIDAssumption DEF UIDOrNone, Provenances
      <4>2. Earlier(setNotReady(it))
        BY <2>1, <4>1, EarlierStatus
      <4>. QED BY <1>0, <2>1, <4>1, <4>2, EarlierStatus
    <3>2. ownerConflict(it, csa) => csa.owner # it.uid
      BY DEF ownerConflict
    <3>. QED BY <2>0, <2>1, <3>1, <3>2 DEF observe, WSkip, WBegin
  <2>2. CASE UNCHANGED <<wi, wpc>>
    BY <1>0, <2>0, <2>2 DEF PreviousIsEarlier, Earlier
  <2>3. CASE cwi.uid # 0 /\ ~cwi.deleting /\ cwi.finalizer /\ UNCHANGED wi /\ observe(cwi)
    <3>1. cwi.uid = lastUid
      BY <2>3 DEF CopiesInvariant, IdentityCopies, UIDsAreGivenOut, FinalizerKeepsIdentity
    <3>2. \/ wpc' = "idle"
          \/ wid' = cwi /\ (wpc' \in StatusSteps => Earlier(wout'))
      BY <1>0, <2>1, <2>3, <3>1 DEF PreviousIsEarlier
    <3>. QED BY <1>0, <2>3, <3>2 DEF PreviousIsEarlier
  <2>4. CASE /\ cwi.uid # 0 /\ cwi = wi /\ wi' = [cwi EXCEPT !.finalizer = TRUE]
             /\ observe([cwi EXCEPT !.finalizer = TRUE])
    <3>. DEFINE it == [cwi EXCEPT !.finalizer = TRUE]
    <3>1. /\ it \in WorkloadIdentity /\ it.uid = cwi.uid /\ it.previousUid = cwi.previousUid
          /\ wi' = it /\ observe(it)
      BY <1>0, <2>4 DEF WorkloadIdentity
    <3>. HIDE DEF it
    <3>2. Earlier(it) /\ it.uid = lastUid
      BY <1>0, <2>4, <3>1 DEF PreviousIsEarlier, Earlier
    <3>3. \/ wpc' = "idle"
          \/ wid' = it /\ (wpc' \in StatusSteps => Earlier(wout'))
      BY <2>1, <3>1, <3>2
    <3>. QED BY <1>0, <3>1, <3>2, <3>3 DEF PreviousIsEarlier
  <2>. QED BY <1>11, <2>2, <2>3, <2>4 DEF W_Reconcile, WSkip
<1>. QED BY <1>4, <1>5, <1>6, <1>7, <1>8, <1>9, <1>10, <1>11 DEF WController, WStep

LEMMA EarlierNext ==
  ASSUME CopiesInvariant, PreviousIsEarlier, [Next]_vars
  PROVE  PreviousIsEarlier'
<1>0. wi \in WorkloadIdentity
  BY UIDNumbers DEF CopiesInvariant, StartInvariant
<1>1. ASSUME wi'.uid = wi.uid /\ wi'.previousUid = wi.previousUid, UNCHANGED <<cwi, wpc, wid, wout>>
      PROVE  PreviousIsEarlier'
  BY <1>1 DEF PreviousIsEarlier, Earlier
<1>2. ASSUME wi'.previousUid = 0, UNCHANGED <<cwi, wpc, wid, wout>>
      PROVE  PreviousIsEarlier'
  BY <1>2 DEF PreviousIsEarlier, Earlier
<1>3. CASE RController
  <2>1. UNCHANGED <<cwi, wpc, wid, wout>>
    BY <1>3, RunOwners DEF CopiesInvariant, RecoveryCopiesInvariant
  <2>2. CASE R_LockTarget \/ R_Release
    <3>1. wi'.uid = wi.uid /\ wi'.previousUid = wi.previousUid
      BY <1>0, <2>2 DEF R_LockTarget, R_Release, setTargetReason, WorkloadIdentity
    <3>. QED BY <1>1, <2>1, <3>1
  <2>3. CASE UNCHANGED wi
    BY <1>1, <2>1, <2>3
  <2>. QED BY <1>3, <2>2, <2>3, RunKeepsTarget
<1>4. CASE SyncWorkloadIdentity \/ Restart
  BY <1>4 DEF SyncWorkloadIdentity, Restart, wVars, PreviousIsEarlier, EnsureSteps
<1>5. CASE EditWorkloadIdentity
  BY <1>0, <1>1, <1>5 DEF EditWorkloadIdentity, WorkloadIdentity, wVars
<1>6. CASE DeleteWorkloadIdentity
  BY <1>0, <1>1, <1>2, <1>6, EmptyIdentity DEF DeleteWorkloadIdentity, WorkloadIdentity, wVars
<1>7. ASSUME NEW policy \in Policies, CreateWorkloadIdentity(policy) PROVE PreviousIsEarlier'
  <2>1. wi'.previousUid = 0
    BY <1>7 DEF CreateWorkloadIdentity, NoWI
  <2>. QED BY <1>2, <1>7, <2>1 DEF CreateWorkloadIdentity, wVars
<1>8. CASE UNCHANGED vars
  BY <1>1, <1>8 DEF vars, stateVars, wVars
<1>9. ASSUME UNCHANGED <<wi, cwi, wVars>> PROVE PreviousIsEarlier'
  BY <1>1, <1>9 DEF wVars
<1>. QED BY <1>3, <1>4, <1>5, <1>6, <1>7, <1>8, <1>9, WorkerEvidence
         DEF Next, Informer, SyncServiceAccount, SyncRecovery, Users,
             ChangeServiceAccount, CreateRecovery, DeleteRecovery, Environment, DriftCredential,
             DeleteAzureIdentity, IssuerLost, IssuerBecomesReady

(***************************************************************************)
(* What stays: an identity given up, and a lock.                           *)
(***************************************************************************)
\* Nobody gives the identity back to an instance that is gone.
LEMMA GivenUpStays ==
  ASSUME CopiesInvariant, FenceInvariant, [Next]_vars,
         NEW s, s \notin {0, lastUid, wi.uid}, givenUp(s)
  PROVE  givenUp(s)'
<1>. USE DEF CallSteps
<1>1. ASSUME uami'.owner # s, UNCHANGED <<rpc, ruami>> \/ rpc' \notin CallSteps PROVE givenUp(s)'
  BY <1>1 DEF givenUp
<1>2. CASE R_MarkCall \/ R_CommitCall \/ R_FinalizeCall
  <2>1. uami'.owner # s /\ rpc' \notin CallSteps
    BY <1>2, TagUpdates DEF FenceInvariant, givenUp
  <2>. QED BY <1>1, <2>1
<1>3. CASE R_Mark \/ R_Commit \/ R_Finalize
  <2>1. UNCHANGED uami /\ (rpc' \in CallSteps => ruami' = uami)
    BY <1>3 DEF R_Mark, R_Commit, R_Finalize, block, RReturn, RGoto
  <2>. QED BY <2>1 DEF givenUp
<1>4. CASE ~(R_MarkCall \/ R_CommitCall \/ R_FinalizeCall)
  <2>1. uami'.owner # s
    BY <1>4, IdentitySteps DEF HeldByTheLast, givenUp
  <2>2. CASE RController /\ ~(R_Mark \/ R_Commit \/ R_Finalize)
    <3>1. rpc' \notin CallSteps
      BY <1>4, <2>2, CallsAreRead
    <3>. QED BY <1>1, <2>1, <3>1
  <2>3. CASE Restart
    BY <1>1, <2>1, <2>3 DEF Restart
  <2>4. CASE UNCHANGED <<rpc, ruami>>
    BY <1>1, <2>1, <2>4
  <2>. QED BY <1>3, <2>2, <2>3, <2>4
       DEF Next, WController, rVars, vars, Informer, SyncWorkloadIdentity, SyncServiceAccount,
           SyncRecovery, Users, CreateWorkloadIdentity, DeleteWorkloadIdentity,
           EditWorkloadIdentity, ChangeServiceAccount, CreateRecovery, DeleteRecovery,
           Environment, DriftCredential, DeleteAzureIdentity, IssuerLost, IssuerBecomesReady
<1>. QED BY <1>2, <1>4

\* A target stays locked; only R_Release unlocks it.
LEMMA LockStays ==
  ASSUME CopiesInvariant, [Next]_vars, ~R_Release,
         NEW source, NEW target, lockedFor(source, target)
  PROVE  lockedFor(source, target)'
<1>. USE DEF lockedFor
<1>0. wi \in WorkloadIdentity
  BY UIDNumbers DEF CopiesInvariant, StartInvariant
<1>1. CASE Outside
  BY <1>1, LockKept
<1>2. CASE R_LockTarget
  BY <1>0, <1>2 DEF R_LockTarget, setTargetReason, WorkloadIdentity,
                    workloadIdentityRecoveryIsInProgress, recoveryReasonIs
<1>3. CASE UNCHANGED wi
  BY <1>3
<1>4. CASE RController
  BY <1>2, <1>3, <1>4, RunKeepsTarget
<1>. QED BY <1>1, <1>2, <1>3, <1>4 DEF Next, Outside, vars, stateVars

(***************************************************************************)
(* The target of a fence, and the locks that somebody has seen.            *)
(***************************************************************************)
\* When a recovery releases its target, that target is the heir of no fence: only
\* this recovery has gone forward for the source.
LEMMA ReleaseIsUnfenced ==
  ASSUME CopiesInvariant, FenceInvariant, FenceIsLocked, ReconcileKnowsLock, R_Release
  PROVE  ~Fenced(uami)
<1>. SUFFICES ASSUME Fenced(uami) PROVE FALSE
  OBVIOUS
<1>1. rpc = "release" /\ rcur \in Recoveries /\ live(rcur)
  BY WasCreated DEF R_Release
<1>. DEFINE x == uami.recoveryUid
<1>2. x \in Recoveries /\ live(x) /\ rec[x].mutationStarted
  BY DEF FenceInvariant, FenceHasDriver, live
<1>3. x # rcur
  BY <1>1 DEF FenceInvariant, ReadIsPlanned, FenceSteps, ForwardSteps
<1>4. rec[rcur].mutationStarted /\ rec[rcur].source = wi.previousUid
  BY <1>1 DEF ReconcileKnowsLock, lockedFor, src
<1>5. rec[x].source = wi.previousUid
  BY DEF FenceIsLocked, lockedFor
<1>. QED BY <1>1, <1>2, <1>3, <1>4, <1>5
         DEF CopiesInvariant, StartInvariant, AtMostOneStarted, hasStarted

LEMMA FenceIsLockedNext ==
  ASSUME CopiesInvariant, FenceInvariant, FenceIsLocked, ReconcileKnowsLock, [Next]_vars
  PROVE  FenceIsLocked'
<1>1. ASSUME Fenced(uami), UNCHANGED uami
      PROVE  lockedFor(rec[uami.recoveryUid].source, uami.targetUid)'
  <2>. DEFINE x == uami.recoveryUid
  <2>1. x \in Recoveries /\ rec[x].phase # "new"
    BY <1>1 DEF FenceInvariant, FenceHasDriver
  <2>2. rec'[x].source = rec[x].source
    BY <2>1, RecordsGoOn DEF GoesOn
  <2>3. PICK s, t : s = rec[x].source /\ t = uami.targetUid
    OBVIOUS
  <2>4. lockedFor(s, t)'
    BY <1>1, <2>3, LockStays, ReleaseIsUnfenced DEF FenceIsLocked
  <2>. QED BY <1>1, <2>2, <2>3, <2>4 DEF lockedFor
<1>2. CASE UNCHANGED uami
  BY <1>1, <1>2 DEF FenceIsLocked, Fenced
<1>3. CASE HeldByTheLast
  BY <1>3 DEF FenceIsLocked, HeldByTheLast, Fenced
<1>4. CASE R_MarkCall \/ R_CommitCall \/ R_FinalizeCall
  <2>1. rpc = "markCall" /\ ruami.owner = src => lockedFor(src, tgt)
    BY DEF ReconcileKnowsLock, givenUp, CallSteps
  <2>2. rpc = "commitCall" => lockedFor(src, tgt)
    BY DEF ReconcileKnowsLock
  <2>3. lockedFor(src, tgt) /\ UNCHANGED <<wi, rec>> /\ uami'.recoveryUid = rcur
          /\ uami'.targetUid = tgt => FenceIsLocked'
    BY DEF FenceIsLocked, lockedFor, src
  <2>4. uami'.recoveryUid = 0 /\ uami'.targetUid = 0 => FenceIsLocked'
    BY DEF FenceIsLocked, Fenced
  <2>. QED BY <1>2, <1>4, <2>1, <2>2, <2>3, <2>4, TagUpdates DEF FenceInvariant
<1>. QED BY <1>2, <1>3, <1>4, IdentitySteps

\* The cached copy stays, or is the object.
LEMMA CacheSteps ==
  ASSUME CopiesInvariant, [Next]_vars
  PROVE  UNCHANGED cwi \/ cwi' = wi'
<1>1. CASE RController
  BY <1>1, RunOwners DEF CopiesInvariant, RecoveryCopiesInvariant
<1>2. CASE WController
  BY <1>2
     DEF WController, WStep, WFault, W_Reconcile, W_DetectRecovery, W_EnsureUserAssignedIdentity,
         W_CreateUserAssignedIdentity, W_EnsureFederatedIdentityCredential,
         W_EnsureServiceAccount, W_PatchStatus, W_ReconcileDelete, W_DeleteCheck,
         W_DeleteUserAssignedIdentity, W_DeleteServiceAccountIfOwned, W_RemoveFinalizer,
         W_EnsureError, W_OtherError
<1>3. CASE Informer \/ Users \/ Environment
  BY <1>3
     DEF Informer, SyncWorkloadIdentity, SyncServiceAccount, SyncRecovery, Users,
         CreateWorkloadIdentity, DeleteWorkloadIdentity, EditWorkloadIdentity,
         ChangeServiceAccount, CreateRecovery, DeleteRecovery, Environment, DriftCredential,
         DeleteAzureIdentity, IssuerLost, IssuerBecomesReady, Restart
<1>4. CASE UNCHANGED vars
  BY <1>4 DEF vars, stateVars
<1>. QED BY <1>1, <1>2, <1>3, <1>4 DEF Next

LEMMA CachedLockIsKnownNext ==
  ASSUME CopiesInvariant, FenceInvariant, PreviousIsEarlier, CachedLockIsKnown,
         ReconcileKnowsLock, [Next]_vars
  PROVE  CachedLockIsKnown'
<1>1. CASE cwi' = wi'
  BY <1>1 DEF CachedLockIsKnown, lockedFor, workloadIdentityRecoveryIsInProgress
<1>2. CASE UNCHANGED cwi
  <2>. SUFFICES ASSUME workloadIdentityRecoveryIsInProgress(cwi)
                PROVE  lockedFor(cwi.previousUid, cwi.uid)' \/ givenUp(cwi.previousUid)'
    BY <1>2 DEF CachedLockIsKnown, workloadIdentityRecoveryIsInProgress, recoveryReasonIs
  <2>0. PICK s, t : s = cwi.previousUid /\ t = cwi.uid
    OBVIOUS
  <2>1. s \notin {0, lastUid, wi.uid}
    <3>1. /\ s # 0 /\ s < t /\ t <= lastUid /\ wi.uid \in {0, lastUid}
      BY <2>0 DEF PreviousIsEarlier, Earlier, workloadIdentityRecoveryIsInProgress,
                  recoveryReasonIs, CopiesInvariant, IdentityCopies, UIDsAreGivenOut, GivenOut
    <3>2. s \in Nat /\ t \in Nat /\ lastUid \in Nat
      BY <2>0, UIDNumbers, IdentityFields DEF CopiesInvariant, StartInvariant
    <3>. QED BY <3>1, <3>2
  <2>2. lockedFor(s, t) \/ givenUp(s)
    BY <2>0 DEF CachedLockIsKnown
  <2>3. R_Release /\ lockedFor(s, t) => givenUp(s)
    BY DEF R_Release, ReconcileKnowsLock, lockedFor
  <2>4. givenUp(s) => givenUp(s)'
    BY <2>1, GivenUpStays
  <2>5. ~R_Release /\ lockedFor(s, t) => lockedFor(s, t)'
    BY LockStays
  <2>6. lockedFor(s, t)' \/ givenUp(s)'
    BY <2>2, <2>3, <2>4, <2>5
  <2>. QED BY <1>2, <2>0, <2>6
<1>. QED BY <1>1, <1>2, CacheSteps

(***************************************************************************)
(* What a reconcile of a recovery knows of the lock.                       *)
(***************************************************************************)
\* As long as the reconcile is where it was.
LEMMA KnowsLockStays ==
  ASSUME CopiesInvariant, FenceInvariant, [Next]_vars, rpc # "idle",
         rcur' = rcur, ~R_Release
  PROVE  /\ src' = src /\ tgt' = tgt
         /\ rec[rcur].mutationStarted => (rec[rcur].mutationStarted)'
         /\ lockedFor(src, tgt) => lockedFor(src, tgt)'
         /\ givenUp(src) => givenUp(src)'
<1>1. /\ rcur \in Recoveries /\ rec[rcur].phase # "new"
      /\ src \notin {0, lastUid, wi.uid}
  BY WasCreated, Sources DEF src
<1>2. GoesOn(rcur)
  BY <1>1, RecordsGoOn
<1>3. src' = src /\ tgt' = tgt /\ (rec[rcur].mutationStarted => (rec[rcur].mutationStarted)')
  BY <1>1, <1>2 DEF GoesOn, src, tgt
<1>4. PICK s, t : s = src /\ t = tgt
  OBVIOUS
<1>5. (lockedFor(s, t) => lockedFor(s, t)') /\ (givenUp(s) => givenUp(s)')
  BY <1>1, <1>4, LockStays, GivenUpStays
<1>. QED BY <1>3, <1>4, <1>5 DEF lockedFor, givenUp

LockSteps == {"mark", "markCall", "commit", "commitCall", "readRelease", "release"}

\* Steps of a running reconcile.
LEMMA RunKnowsLock ==
  ASSUME CopiesInvariant, FenceInvariant, RecordsAreKept, ReconcileKnowsLock, [Next]_vars, RunStep
  PROVE  ReconcileKnowsLock'
<1>. USE DEF LockSteps
<1>0. /\ rpc # "idle" /\ rcur \in Recoveries /\ (rpc' # "idle" => rcur' = rcur)
      /\ src # 0 /\ ~(rdel \/ rpc = "cancel")
  BY RunSteps, WasCreated, Sources
     DEF CopiesInvariant, ReconciledExists, RecoveryCopies, RecordsAreKept, src
<1>1. CASE rpc' \notin LockSteps
  BY <1>1 DEF ReconcileKnowsLock
<1>2. CASE R_Mark \/ R_Commit
  <2>1. /\ rpc = "mark" /\ rpc' \in LockSteps => rpc' = "markCall"
        /\ rpc = "commit" /\ rpc' \in LockSteps => rpc' = "commitCall"
        /\ rpc \in {"mark", "commit"} /\ ~R_Release
    BY <1>2 DEF R_Mark, R_Commit, R_Release, block, RReturn, RGoto
  <2>. QED BY <1>0, <1>1, <2>1, KnowsLockStays DEF ReconcileKnowsLock
<1>3. CASE R_CommitCheck
  <2>1. ~R_Release /\ (rpc' = "idle" \/ rpc' = "commit")
    BY <1>3 DEF R_CommitCheck, R_Release, block, RReturn
  <2>2. rpc' = "commit" => lockedFor(src, tgt)
    <3>1. rpc' = "commit" =>
            validateRecoveryControllerTarget(rec[rcur], wi) /\ rec[rcur].mutationStarted
      BY <1>3 DEF R_CommitCheck, block, RReturn, CopiesInvariant, StartInvariant, ForwardOnly,
                  ForwardSteps
    <3>. QED BY <1>0, <3>1 DEF validateRecoveryControllerTarget, lockedFor, src, tgt,
                               workloadIdentityRecoveryIsInProgress, recoveryReasonIs
  <2>. QED BY <1>0, <1>1, <2>1, <2>2, KnowsLockStays DEF ReconcileKnowsLock
<1>4. CASE R_ReadRelease
  <2>1. rpc = "readRelease" /\ ~R_Release /\ (rpc' \in LockSteps => rpc' = "release")
    BY <1>4 DEF R_ReadRelease, R_Release, RGotoPatch, afterRelease, RGoto, RReturn
  <2>2. rpc' = "release" => lockedFor(src, tgt)
    <3>1. rpc' = "release" => patchesTarget({"RecoveryInProgress"})
      BY <1>4 DEF R_ReadRelease, afterRelease, RGoto, RReturn
    <3>. QED BY <1>0, <3>1 DEF patchesTarget, lockedFor,
                               workloadIdentityRecoveryIsInProgress, recoveryReasonIs
  <2>. QED BY <1>0, <1>1, <2>1, <2>2, KnowsLockStays DEF ReconcileKnowsLock
<1>5. CASE R_SaveComplete \/ R_Cancel
  BY <1>0, <1>1, <1>5 DEF R_SaveComplete, R_Cancel, saveStatus, RReturn
<1>6. CASE R_Preflight \/ R_SavePlan \/ R_SaveStarted \/ R_SaveCommit \/ R_Winner
  BY <1>1, <1>6 DEF R_Preflight, R_SavePlan, R_SaveStarted, R_SaveCommit, R_Winner,
                    block, fail, saveStatus, RReturn, RGoto
<1>7. CASE R_ReadTarget \/ R_LockTarget \/ R_Release \/ R_Error \/ R_Finalize
  BY <1>1, <1>7 DEF R_ReadTarget, R_LockTarget, R_Release, R_Error, R_Finalize,
                    block, afterRelease, RGotoPatch, RReturn, RGoto
<1>8. CASE R_EnsureFederatedIdentityCredential \/ R_TransferServiceAccount \/ R_CommitVerify
           \/ R_FinalizeVerify \/ R_MarkCall \/ R_CommitCall \/ R_FinalizeCall
  BY <1>1, <1>8 DEF R_EnsureFederatedIdentityCredential, R_TransferServiceAccount,
                    R_CommitVerify, R_FinalizeVerify, R_MarkCall, R_CommitCall, R_FinalizeCall,
                    block, RReturn, RGoto
<1>. QED BY <1>2, <1>3, <1>4, <1>5, <1>6, <1>7, <1>8 DEF RunStep, QuietStep

\* A recovery is taken from the queue: to mark the identity when the cache has the
\* target locked for it, to release the target when it is known to be Complete.
LEMMA TakeKnowsLock ==
  ASSUME CopiesInvariant, FenceInvariant, RecordsAreKept, CachedLockIsKnown,
         NEW r \in Recoveries, RTake(r)
  PROVE  ReconcileKnowsLock'
<1>. USE DEF LockSteps
<1>0. rpc = "idle" /\ (UNCHANGED <<wi, uami, rec, crec>> \/ Skips)
  BY TakeSkipsOrBegins
     DEF CopiesInvariant, RecoveryCopiesInvariant, Begins, RTake, R_Reconcile,
         R_ReconcileForward, R_ReconcileDelete
<1>1. CASE rpc' \notin LockSteps
  BY <1>1 DEF ReconcileKnowsLock
<1>2. CASE Begins(r) /\ rpc' \in LockSteps
  <2>1. /\ rcur' = r /\ UNCHANGED <<wi, uami, rec>> /\ rpc' \in {"mark", "readRelease"}
        /\ crec[r].phase # "new" /\ rec[r].phase # "new"
        /\ rec[r].source # 0 /\ crec[r].source = rec[r].source /\ crec[r].target = rec[r].target
    BY <1>2, Sources DEF Begins, RTake, R_Reconcile, R_ReconcileForward, R_ReconcileDelete,
                         CopiesInvariant, StartInvariant, ForwardOnly, RecordsAreKept
  <2>2. rpc' = "readRelease" => recoveryIsComplete(crec[r])
    BY <1>2 DEF RTake, R_Reconcile, R_ReconcileForward, R_ReconcileDelete, RBegin, RSkip, rVars,
                Begins
  <2>3. rpc' = "mark" => crec[r].mutationStarted /\ validateRecoveryControllerTarget(crec[r], cwi)
    BY <1>0, <1>2 DEF RTake, R_Reconcile, R_ReconcileForward, R_ReconcileDelete, RBegin, RSkip,
                      rVars, Begins
  <2>4. CASE rpc' = "mark"
    <3>1. /\ workloadIdentityRecoveryIsInProgress(cwi)
          /\ cwi.uid = rec[r].target /\ cwi.previousUid = rec[r].source
      BY <2>1, <2>3, <2>4 DEF validateRecoveryControllerTarget,
                              workloadIdentityRecoveryIsInProgress, recoveryReasonIs
    <3>2. lockedFor(rec[r].source, rec[r].target) \/ uami.owner # rec[r].source
      BY <3>1 DEF CachedLockIsKnown, givenUp
    <3>. QED BY <2>1, <2>4, <3>2 DEF ReconcileKnowsLock, lockedFor, givenUp, CallSteps, src, tgt
  <2>5. CASE rpc' = "readRelease"
    <3>1. rec[r].mutationStarted /\ uami.owner # rec[r].source
      BY <2>2, <2>5 DEF RecordsAreKept, CopiesInvariant, StartInvariant, ForwardOnly,
                        FenceInvariant, CompleteIsGivenAway, knownComplete, givenAway
    <3>. QED BY <2>1, <2>5, <3>1 DEF ReconcileKnowsLock, givenUp, CallSteps, src
  <2>. QED BY <2>1, <2>4, <2>5
<1>3. Begins(r) \/ Skips
  BY TakeSkipsOrBegins DEF CopiesInvariant, RecoveryCopiesInvariant
<1>. QED BY <1>0, <1>1, <1>2, <1>3 DEF Skips, rVars

LEMMA ReconcileKnowsLockNext ==
  ASSUME CopiesInvariant, FenceInvariant, RecordsAreKept, CachedLockIsKnown,
         ReconcileKnowsLock, [Next]_vars
  PROVE  ReconcileKnowsLock'
<1>1. CASE RunStep
  BY <1>1, RunKnowsLock
<1>2. ASSUME NEW r \in Recoveries, RTake(r) PROVE ReconcileKnowsLock'
  BY <1>2, TakeKnowsLock
<1>3. CASE R_RemoveFinalizer \/ Restart
  BY <1>3 DEF R_RemoveFinalizer, Restart, RReturn, ReconcileKnowsLock
<1>4. CASE UNCHANGED <<rpc, rcur>> /\ ~R_Release
  <2>1. CASE rpc = "idle"
    BY <1>4, <2>1 DEF ReconcileKnowsLock
  <2>2. CASE rpc # "idle"
    BY <1>4, <2>2, KnowsLockStays DEF ReconcileKnowsLock
  <2>. QED BY <2>1, <2>2
<1>5. R_Release => RunStep
  BY DEF RunStep, QuietStep
<1>. QED BY <1>1, <1>2, <1>3, <1>4, <1>5
         DEF Next, RController, RStep, RunStep, QuietStep, WController, rVars, vars, Informer,
             SyncWorkloadIdentity, SyncServiceAccount,
             SyncRecovery, Users, CreateWorkloadIdentity, DeleteWorkloadIdentity,
             EditWorkloadIdentity, ChangeServiceAccount, CreateRecovery, DeleteRecovery,
             Environment, DriftCredential, DeleteAzureIdentity, IssuerLost, IssuerBecomesReady

(***************************************************************************)
(* The invariant.                                                          *)
(***************************************************************************)
LEMMA NextLock ==
  ASSUME "recovery" \notin Deletable
  PROVE  LockInvariant /\ [Next]_vars => LockInvariant'
<1>. SUFFICES ASSUME LockInvariant, [Next]_vars PROVE LockInvariant'
  OBVIOUS
<1>. USE DEF LockInvariant
<1>1. CopiesInvariant' /\ FenceInvariant'
  BY NextFence
<1>2. PreviousIsEarlier' /\ RecordsAreKept'
  BY EarlierNext, RecordsAreKeptNext
<1>3. FenceIsLocked' /\ CachedLockIsKnown' /\ ReconcileKnowsLock'
  BY FenceIsLockedNext, CachedLockIsKnownNext, ReconcileKnowsLockNext
<1>. QED BY <1>1, <1>2, <1>3

LEMMA InitLock == Init => LockInvariant
<1>. SUFFICES ASSUME Init PROVE LockInvariant
  OBVIOUS
<1>1. CopiesInvariant /\ FenceInvariant
  BY InitFence
<1>2. /\ wi = NoWI /\ cwi = NoWI /\ wpc = "idle" /\ rpc = "idle"
      /\ \A r \in Recoveries : rec[r] = NewRecovery /\ crec[r] = NewRecovery
  BY DEF Init, StateInit, WInit, RInit
<1>3. PreviousIsEarlier
  BY <1>2, EmptyIdentity DEF PreviousIsEarlier, Earlier, EnsureSteps
<1>4. RecordsAreKept
  BY <1>2 DEF RecordsAreKept, NewRecovery, recoveryIsComplete
<1>5. FenceIsLocked /\ CachedLockIsKnown
  BY <1>2, EmptyIdentity, InitialIdentity
     DEF FenceIsLocked, Fenced, CachedLockIsKnown, workloadIdentityRecoveryIsInProgress,
         recoveryReasonIs
<1>6. ReconcileKnowsLock
  BY <1>2 DEF ReconcileKnowsLock
<1>. QED BY <1>1, <1>3, <1>4, <1>5, <1>6 DEF LockInvariant

\* While no recovery is deleted, whoever has seen a target locked, in the cluster or
\* in the cache, can count on the lock until the source has lost the identity
\* (reconcileForward, patchTargetRecoveryCondition).
THEOREM LockAlways ==
  ASSUME "recovery" \notin Deletable
  PROVE  Spec => []LockInvariant
<1>1. LockInvariant /\ [Next]_vars => LockInvariant'
  BY NextLock
<1>. QED BY <1>1, InitLock, PTL DEF Spec

\* The target of a fence stays where it is and stays locked, whatever the identity
\* worker, its owner, retries and restarts do meanwhile
\* (patchWorkloadIdentityStatus's optimistic lock; reconcileWorkloadIdentityDelete).
THEOREM FencedTargetAlwaysLocked ==
  ASSUME "recovery" \notin Deletable
  PROVE  Spec => []FencedTargetIsLocked
<1>1. LockInvariant => FencedTargetIsLocked
  BY DEF LockInvariant, FenceIsLocked, FencedTargetIsLocked, lockedFor
<1>. QED BY <1>1, LockAlways, PTL

(***************************************************************************)
(* An instance that reports Ready owns the identity, if nobody else        *)
(* deletes it: from the checks of Ensure to the status patch nobody takes  *)
(* it away, although only the patch carries a resource version.            *)
(***************************************************************************)
\* Who owns the identity keeps it, until it is deleted for its owner.
LEMMA OwnedStays ==
  ASSUME "azure" \notin Disturbances, TransferInvariant, [Next]_vars, owned, wi'.uid = wi.uid
  PROVE  owned' \/ (W_DeleteUserAssignedIdentity /\ wi.deleting)
<1>. USE DEF TransferInvariant
<1>1. CASE UNCHANGED uami
  BY <1>1 DEF owned, Fenced
<1>2. CASE R_MarkCall \/ R_CommitCall \/ R_FinalizeCall
  <2>1. rpc # "idle" /\ src # wi.uid /\ rcur # 0 /\ rpc \in CallSteps /\ ruami = uami
    BY <1>2, TagUpdates, WasCreated, Sources
       DEF FenceInvariant, ReadIsCurrent, CallSteps, src
  <2>. QED BY <1>1, <1>2, <2>1, TagUpdates DEF FenceInvariant, owned, Fenced, fencedBy
<1>3. CASE W_CreateUserAssignedIdentity
  BY <1>3, WorkerCalls DEF owned
<1>4. CASE W_DeleteUserAssignedIdentity
  <2>1. ~Fenced(uami) /\ wi.uid = wid.uid /\ wi.uid # 0
    BY <1>4, WorkerCalls DEF owned
  <2>2. wpc \in DeleteSteps /\ wpc # "idle"
    BY <1>4 DEF W_DeleteUserAssignedIdentity, DeleteSteps
  <2>3. wid.deleting /\ cwi.uid = wi.uid
    BY <2>1, <2>2 DEF CopiesInvariant, IdentityCopies, FinalizerKeepsIdentity
  <2>. QED BY <1>4, <2>1, <2>2, <2>3
           DEF CopiesInvariant, IdentityCopies, IdentityCopiesAreBehind, NotAhead
<1>5. ~DeleteAzureIdentity
  BY DEF DeleteAzureIdentity, Disturb
<1>. QED BY <1>1, <1>2, <1>3, <1>4, <1>5, IdentityWriters

\* Only setWorkloadIdentityReady reports Ready.
LEMMA NotReadyStatus ==
  ASSUME NEW id \in WorkloadIdentity, NEW previous
  PROVE  /\ setNotReady(id).ready # "Ready" /\ setInProgress(id).ready # "Ready"
         /\ setRecoveryRequired(id, previous).ready # "Ready"
BY DEF setNotReady, setInProgress, setRecoveryRequired, WorkloadIdentity

\* A worker that is ensuring the identity works for the instance there is, and that
\* one stays until the worker has returned.
LEMMA EnsuredStays ==
  ASSUME CopiesInvariant, [Next]_vars, wpc \in EnsureSteps, wpc' \in EnsureSteps
  PROVE  wid.uid = wi.uid /\ wi'.uid = wi.uid
<1>1. wi.finalizer /\ wi.uid # 0 /\ wid.uid = wi.uid /\ wi \in WorkloadIdentity
  BY UIDNumbers DEF CopiesInvariant, StartInvariant, IdentityCopies, FinalizerKeepsIdentity,
                    EnsureSteps
<1>. SUFFICES wi'.uid = wi.uid
  BY <1>1
<1>2. CASE RController
  BY <1>1, <1>2, RunKeepsTarget DEF R_LockTarget, R_Release, setTargetReason, WorkloadIdentity
<1>3. CASE WController
  <2>1. ~(W_Reconcile \/ W_PatchStatus \/ W_RemoveFinalizer)
    BY DEF W_Reconcile, W_PatchStatus, W_RemoveFinalizer, WReturn, EnsureSteps
  <2>. QED BY <1>3, <2>1
     DEF WController, WStep, WFault, W_DetectRecovery, W_EnsureUserAssignedIdentity,
         W_CreateUserAssignedIdentity, W_EnsureFederatedIdentityCredential,
         W_EnsureServiceAccount, W_ReconcileDelete, W_DeleteCheck,
         W_DeleteUserAssignedIdentity, W_DeleteServiceAccountIfOwned,
         W_EnsureError, W_OtherError
<1>4. CASE DeleteWorkloadIdentity \/ EditWorkloadIdentity
  BY <1>1, <1>4 DEF DeleteWorkloadIdentity, EditWorkloadIdentity, WorkloadIdentity
<1>5. ASSUME NEW policy \in Policies, CreateWorkloadIdentity(policy) PROVE FALSE
  BY <1>1, <1>5 DEF CreateWorkloadIdentity
<1>6. CASE UNCHANGED wi
  BY <1>6
<1>7. CASE (Informer \/ Users \/ Environment) /\ ~(DeleteWorkloadIdentity \/ EditWorkloadIdentity)
  BY <1>5, <1>7
     DEF Informer, SyncWorkloadIdentity, SyncServiceAccount, SyncRecovery, Users,
         ChangeServiceAccount, CreateRecovery, DeleteRecovery, Environment, DriftCredential,
         DeleteAzureIdentity, IssuerLost, IssuerBecomesReady, Restart
<1>. QED BY <1>2, <1>3, <1>4, <1>6, <1>7 DEF Next, vars, stateVars

\* What the worker is about to report, and where it comes from.
LEMMA WorkerReports ==
  ASSUME CopiesInvariant, WController
  PROVE  /\ wpc' = "ensureSA" => wpc = "ensureFic" /\ uami.exists /\ UNCHANGED uami
         /\ wpc' \in StatusSteps /\ wout'.ready = "Ready" =>
              \/ wpc = "ensureSA" /\ UNCHANGED uami
              \/ wpc \in StatusSteps /\ UNCHANGED <<wout, uami>>
<1>. USE DEF StatusSteps
<1>0. cwi \in WorkloadIdentity /\ wid \in WorkloadIdentity
  BY UIDNumbers DEF CopiesInvariant, StartInvariant
<1>1. CASE W_DetectRecovery \/ W_EnsureUserAssignedIdentity
  BY <1>0, <1>1, NotReadyStatus DEF W_DetectRecovery, W_EnsureUserAssignedIdentity, WGoto, WPatch
<1>2. CASE W_CreateUserAssignedIdentity \/ W_EnsureFederatedIdentityCredential \/ WFault
  BY <1>0, <1>2, NotReadyStatus
     DEF W_CreateUserAssignedIdentity, W_EnsureFederatedIdentityCredential, WFault,
         W_EnsureError, W_OtherError, WGoto, WPatch, WReturn
<1>3. CASE W_EnsureServiceAccount
  BY <1>3 DEF W_EnsureServiceAccount, WPatch
<1>4. CASE W_PatchStatus \/ W_RemoveFinalizer \/ W_DeleteServiceAccountIfOwned
           \/ W_DeleteUserAssignedIdentity \/ W_DeleteCheck \/ W_ReconcileDelete
  BY <1>4 DEF W_PatchStatus, W_RemoveFinalizer, W_DeleteServiceAccountIfOwned,
              W_DeleteUserAssignedIdentity, W_DeleteCheck, W_ReconcileDelete,
              WReturn, WGoto, WBegin, WSkip
<1>5. CASE W_Reconcile
  <2>1. ASSUME NEW it \in WorkloadIdentity, observe(it)
        PROVE  \/ UNCHANGED wpc
               \/ /\ wpc' # "ensureSA"
                  /\ wpc' \in StatusSteps => wout'.ready # "Ready"
    BY <2>1, NotReadyStatus DEF observe, WSkip, WBegin
  <2>2. [cwi EXCEPT !.finalizer = TRUE] \in WorkloadIdentity
    BY <1>0 DEF WorkloadIdentity
  <2>. QED BY <1>0, <1>5, <2>1, <2>2 DEF W_Reconcile, WSkip
<1>. QED BY <1>1, <1>2, <1>3, <1>4, <1>5 DEF WController, WStep

\* The worker goes on, or is left alone.
LEMMA ReportNext ==
  ASSUME "azure" \notin Disturbances, TransferInvariant, ReadyIsOwned, [Next]_vars
  PROVE  /\ wpc' = "ensureSA" => owned'
         /\ wpc' \in StatusSteps /\ wout'.ready = "Ready" => owned'
<1>. USE DEF TransferInvariant, StatusSteps, EnsureSteps
<1>1. CASE WController
  <2>1. wpc' = "ensureSA" => wpc = "ensureFic" /\ owned /\ UNCHANGED uami
    BY <1>1, WorkerReports DEF WorkerOwnsIt, owned
  <2>2. wpc' \in StatusSteps /\ wout'.ready = "Ready" =>
          wpc \in EnsureSteps /\ owned /\ UNCHANGED uami
    BY <1>1, WorkerReports DEF ReadyIsOwned
  <2>. QED BY <2>1, <2>2, EnsuredStays DEF owned, Fenced
<1>2. CASE UNCHANGED <<wpc, wout>>
  <2>. SUFFICES ASSUME wpc = "ensureSA" \/ (wpc \in StatusSteps /\ wout.ready = "Ready")
                PROVE  owned'
    BY <1>2
  <2>1. owned /\ wi'.uid = wi.uid
    BY <1>2, EnsuredStays DEF ReadyIsOwned
  <2>. QED BY <2>1, OwnedStays DEF W_DeleteUserAssignedIdentity
<1>3. CASE Restart
  BY <1>3 DEF Restart
<1>. QED BY <1>1, <1>2, <1>3
         DEF Next, RController, Informer, SyncWorkloadIdentity, SyncServiceAccount,
             SyncRecovery, Users, CreateWorkloadIdentity, DeleteWorkloadIdentity,
             EditWorkloadIdentity, ChangeServiceAccount, CreateRecovery, DeleteRecovery,
             Environment, DriftCredential, DeleteAzureIdentity, IssuerLost,
             IssuerBecomesReady, vars, wVars

\* Where a Ready condition comes from.
LEMMA ReadySteps ==
  ASSUME CopiesInvariant, [Next]_vars, wi'.ready = "Ready", ~wi'.deleting
  PROVE  /\ wi'.uid = wi.uid
         /\ \/ wi.ready = "Ready" /\ ~wi.deleting
            \/ wpc \in StatusSteps /\ wout.ready = "Ready" /\ UNCHANGED uami
<1>0. wi \in WorkloadIdentity /\ NoWI.ready # "Ready" /\ (wi.uid = 0 => wi.ready # "Ready")
  BY UIDNumbers, EmptyIdentity
     DEF CopiesInvariant, StartInvariant, IdentityCopies, UIDsAreGivenOut
<1>1. CASE UNCHANGED wi
  BY <1>1
<1>2. CASE W_PatchStatus
  <2>1. /\ wi' = wi \/ (wi' = wout /\ wid = wi)
        /\ wpc \in StatusSteps /\ UNCHANGED uami
    BY <1>2 DEF W_PatchStatus, lockHeld, StatusSteps
  <2>2. wout.uid = wid.uid
    BY <2>1 DEF StatusSteps, CopiesInvariant, IdentityCopies, StatusIsDerived
  <2>. QED BY <1>1, <2>1, <2>2
<1>3. CASE W_RemoveFinalizer
  BY <1>0, <1>1, <1>3 DEF W_RemoveFinalizer
<1>4. CASE W_Reconcile
  BY <1>0, <1>1, <1>4 DEF W_Reconcile, WorkloadIdentity
<1>5. CASE R_LockTarget \/ R_Release
  <2>1. rreason # "Ready"
    BY DEF CopiesInvariant, StartInvariant, TypeOK, RTypeOK, ReleaseReasons
  <2>. QED BY <1>0, <1>1, <1>5, <2>1
           DEF R_LockTarget, R_Release, setTargetReason, WorkloadIdentity
<1>6. CASE DeleteWorkloadIdentity \/ EditWorkloadIdentity
  BY <1>0, <1>6 DEF DeleteWorkloadIdentity, EditWorkloadIdentity, WorkloadIdentity
<1>7. ASSUME NEW policy \in Policies, CreateWorkloadIdentity(policy) PROVE FALSE
  <2>1. wi'.ready = "None"
    BY <1>7 DEF CreateWorkloadIdentity, NoWI
  <2>. QED BY <2>1
<1>. QED BY <1>1, <1>2, <1>3, <1>4, <1>5, <1>6, <1>7, RunKeepsTarget
         DEF Next, WController, WStep, WFault, W_DetectRecovery,
             W_EnsureUserAssignedIdentity, W_CreateUserAssignedIdentity,
             W_EnsureFederatedIdentityCredential, W_EnsureServiceAccount, W_ReconcileDelete,
             W_DeleteCheck, W_DeleteUserAssignedIdentity, W_DeleteServiceAccountIfOwned,
             W_EnsureError, W_OtherError, Informer, SyncWorkloadIdentity, SyncServiceAccount,
             SyncRecovery, Users,
             ChangeServiceAccount, CreateRecovery, DeleteRecovery, Environment, DriftCredential,
             DeleteAzureIdentity, IssuerLost, IssuerBecomesReady, Restart, vars, stateVars

LEMMA ReadyOwnsNext ==
  ASSUME "azure" \notin Disturbances, TransferInvariant, ReadyIsOwned, [Next]_vars
  PROVE  ReadyOwns'
<1>. SUFFICES ASSUME wi'.ready = "Ready", ~wi'.deleting PROVE owned'
  BY DEF ReadyOwns, owned
<1>1. /\ wi'.uid = wi.uid
      /\ \/ wi.ready = "Ready" /\ ~wi.deleting
         \/ wpc \in StatusSteps /\ wout.ready = "Ready" /\ UNCHANGED uami
  BY ReadySteps DEF TransferInvariant
<1>2. owned
  BY <1>1 DEF ReadyIsOwned, ReadyOwns, owned, StatusSteps
<1>3. UNCHANGED uami \/ ~wi.deleting
  BY <1>1
<1>. QED BY <1>1, <1>2, <1>3, OwnedStays DEF owned, Fenced

\* A Ready instance owns the identity it reports, and no recovery is taking it
\* away, from one instance of the name to the next (setWorkloadIdentityReady after
\* several Azure calls, none of which is conditional).
THEOREM ReadyAlwaysOwns ==
  ASSUME "azure" \notin Disturbances
  PROVE  Spec => []ReadyOwns
<1>1. Init => ReadyIsOwned
  BY DEF Init, StateInit, WInit, NoWI, ReadyIsOwned, ReadyOwns
<1>2. TransferInvariant /\ ReadyIsOwned /\ [Next]_vars => ReadyIsOwned'
  BY ReportNext, ReadyOwnsNext DEF ReadyIsOwned, StatusSteps
<1>3. Spec => []TransferInvariant
  BY TransferAlways DEF NobodyElseDeletes
<1>4. ReadyIsOwned => ReadyOwns
  BY DEF ReadyIsOwned
<1>. QED BY <1>1, <1>2, <1>3, <1>4, PTL DEF Spec
=============================================================================
