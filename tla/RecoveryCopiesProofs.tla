------------------------ MODULE RecoveryCopiesProofs ------------------------
(***************************************************************************)
(* What the copies that the two controllers work from are worth: the       *)
(* informer's copy and the worker's copy of the WorkloadIdentity, over its *)
(* successive instances (IdentityCopies), and the informer's copy of each  *)
(* recovery (RecoveryCopies, ReconciledExists).  None of the three speaks  *)
(* of the identity's fence; RecoveryTransferProofs rests on them.          *)
(***************************************************************************)
EXTENDS RecoveryStartProofs

(***************************************************************************)
(* The status writers, and types of what is compared.                      *)
(***************************************************************************)
\* A status that is about to be patched differs from id in its condition only.
Derived(out, id) ==
  /\ out.uid = id.uid /\ out.deleting = id.deleting /\ out.finalizer = id.finalizer
  /\ out.policy = id.policy /\ out.generation = id.generation
  /\ out.ready \notin ReleaseReasons

LEMMA StatusOf ==
  ASSUME NEW id \in WorkloadIdentity, NEW previous \in UIDOrNone, NEW provenance \in Provenances
  PROVE  /\ Derived(setNotReady(id), id) /\ setNotReady(id).previousUid = 0
         /\ Derived(setInProgress(id), id) /\ setInProgress(id).previousUid = id.previousUid
         /\ Derived(setRecoveryRequired(id, previous), id)
         /\ setRecoveryRequired(id, previous).previousUid = previous
         /\ Derived(setReady(id, provenance), id) /\ setReady(id, provenance).previousUid = 0
<1>. USE DEF Derived, ReleaseReasons, WorkloadIdentity
<1>1. Derived(setNotReady(id), id) /\ setNotReady(id).previousUid = 0
  BY DEF setNotReady
<1>2. Derived(setInProgress(id), id) /\ setInProgress(id).previousUid = id.previousUid
  BY DEF setInProgress
<1>3. /\ Derived(setRecoveryRequired(id, previous), id)
      /\ setRecoveryRequired(id, previous).previousUid = previous
  BY DEF setRecoveryRequired
<1>4. Derived(setReady(id, provenance), id) /\ setReady(id, provenance).previousUid = 0
  BY DEF setReady
<1>. QED BY <1>1, <1>2, <1>3, <1>4

\* UIDs are numbers.
LEMMA UIDNumbers ==
  ASSUME TypeOK
  PROVE  /\ UIDOrNone \subseteq Nat /\ UIDs \subseteq Nat /\ lastUid \in Nat
         /\ wi \in WorkloadIdentity /\ cwi \in WorkloadIdentity
         /\ wid \in WorkloadIdentity /\ wout \in WorkloadIdentity
         /\ sa.owner \in UIDOrNone /\ csa.owner \in UIDOrNone
         /\ uami.owner \in UIDOrNone /\ ruami.owner \in UIDOrNone
<1>1. UIDOrNone \subseteq Nat /\ UIDs \subseteq Nat
  BY MaxUIDAssumption DEF UIDOrNone, UIDs
<1>2. lastUid \in UIDOrNone /\ sa.owner \in UIDOrNone /\ csa.owner \in UIDOrNone
  BY DEF TypeOK, StateTypeOK, ServiceAccount
<1>3. uami.owner \in UIDOrNone /\ ruami.owner \in UIDOrNone
  BY DEF TypeOK, StateTypeOK, RTypeOK, Uami
<1>. QED BY <1>1, <1>2, <1>3 DEF TypeOK, StateTypeOK, WTypeOK

\* The fields of an identity object.
LEMMA IdentityFields ==
  ASSUME NEW id \in WorkloadIdentity
  PROVE  /\ id.uid \in UIDOrNone /\ id.deleting \in BOOLEAN /\ id.finalizer \in BOOLEAN
         /\ id.policy \in {"Retain", "Delete"} /\ id.generation \in Nat
         /\ id.previousUid \in UIDOrNone
BY DEF WorkloadIdentity

\* The empty object.
LEMMA EmptyIdentity ==
  /\ NoWI.uid = 0 /\ ~NoWI.deleting /\ ~NoWI.finalizer /\ NoWI.previousUid = 0
  /\ NoWI.ready = "None" /\ NoWI.ready \notin ReleaseReasons
BY DEF NoWI, ReleaseReasons

(***************************************************************************)
(* A step of the worker that leaves the object alone.                      *)
(***************************************************************************)
StatusSteps == {"detect", "status", "statusQuiet"}

\* It returns; goes on in the same part of the reconcile; or computes a status.
WorkerGoesOn ==
  \/ wpc' = "idle" /\ wid' = NoWI /\ wout' = NoWI
  \/ /\ wid' = wid /\ wpc # "idle" /\ wpc' # "idle"
     /\ wpc' \in EnsureSteps => wpc \in EnsureSteps
     /\ wpc' \in DeleteSteps => wpc \in DeleteSteps
     /\ \/ UNCHANGED wout /\ (wpc' \in StatusSteps => wpc \in StatusSteps)
        \/ Derived(wout', wid) /\ wout'.previousUid <= lastUid

SpecsKept ==
  \A r \in Recoveries :
     rec'[r].phase # "new" =>
       /\ rec[r].phase # "new"
       /\ rec'[r].source = rec[r].source /\ rec'[r].target = rec[r].target

LEMMA GoesOnCopies ==
  ASSUME IdentityCopies, TypeOK, TypeOK', WorkerGoesOn,
         UNCHANGED <<wi, cwi, lastUid, csa, rpc, rec, ruami>>,
         sa'.owner <= lastUid, uami'.owner <= lastUid
  PROVE  IdentityCopies'
<1>. USE DEF IdentityCopies
<1>1. UIDsAreGivenOut'
  BY UIDNumbers, EmptyIdentity, IdentityFields
     DEF UIDsAreGivenOut, WorkerGoesOn, GivenOut, Derived
<1>2. IdentityCopiesAreBehind'
  BY EmptyIdentity DEF IdentityCopiesAreBehind, WorkerGoesOn, NotAhead
<1>3. FinalizerKeepsIdentity'
  BY EmptyIdentity
     DEF FinalizerKeepsIdentity, WorkerGoesOn, EnsureSteps, DeleteSteps,
         workloadIdentityRecoveryIsInProgress, recoveryReasonIs
<1>4. StatusIsDerived'
  BY DEF StatusIsDerived, WorkerGoesOn, StatusSteps, Derived
<1>5. EndIsReported'
  BY EmptyIdentity DEF EndIsReported, WorkerGoesOn
<1>. QED BY <1>1, <1>2, <1>3, <1>4, <1>5

(***************************************************************************)
(* Taking the name from the queue.                                         *)
(***************************************************************************)
\* Where the reconcile of it goes.
Observed(it) ==
  \/ UNCHANGED <<wpc, wid, wsa, wout>>
  \/ /\ wpc' \in EnsureSteps /\ wid' = it
     /\ ~workloadIdentityRecoveryIsInProgress(it)
     /\ \/ wout' = NoWI /\ wpc' \notin StatusSteps
        \/ Derived(wout', it) /\ wout'.previousUid <= lastUid

LEMMA ObserveLeads ==
  ASSUME TypeOK, UIDsAreGivenOut, NEW it \in WorkloadIdentity, observe(it)
  PROVE  Observed(it)
<1>1. csa.owner \in UIDOrNone /\ csa.owner <= lastUid /\ "None" \in Provenances /\ 0 <= lastUid
  BY UIDNumbers DEF UIDsAreGivenOut, Provenances
<1>2. /\ Derived(setNotReady(it), it) /\ setNotReady(it).previousUid = 0
      /\ Derived(setRecoveryRequired(it, csa.owner), it)
      /\ setRecoveryRequired(it, csa.owner).previousUid = csa.owner
  BY <1>1, StatusOf
<1>3. workloadIdentityRecoveryIsInProgress(it) => workloadIdentityRecoveryStateIsActive(it)
  BY DEF workloadIdentityRecoveryIsInProgress, workloadIdentityRecoveryStateIsActive
<1>. QED
  BY <1>1, <1>2, <1>3 DEF observe, Observed, WSkip, WBegin, EnsureSteps, StatusSteps

\* Normal reconciliation begins from the cached copy, after the finalizer is there.
LEMMA ReconcileCopies ==
  ASSUME IdentityCopies, TypeOK, TypeOK', W_Reconcile,
         UNCHANGED <<rpc, ruami>>
  PROVE  IdentityCopies'
<1>. USE DEF IdentityCopies
<1>0. /\ wpc = "idle" /\ wid = NoWI
      /\ UNCHANGED <<cwi, lastUid, csa, sa, uami, rec>>
  BY DEF W_Reconcile, FinalizerKeepsIdentity
<1>1. CASE UNCHANGED <<wi, wpc, wid, wsa, wout>>
  BY <1>0, <1>1 DEF UIDsAreGivenOut, IdentityCopiesAreBehind, FinalizerKeepsIdentity,
                    StatusIsDerived, EndIsReported, GivenOut
<1>2. ASSUME NEW it \in WorkloadIdentity,
             /\ wi' \in {wi, it} /\ it.uid = cwi.uid /\ it.uid # 0
             /\ it.deleting = cwi.deleting /\ it.policy = cwi.policy
             /\ it.generation = cwi.generation /\ it.ready = cwi.ready
             /\ it.previousUid = cwi.previousUid,
             it.finalizer, wi'.finalizer, ~it.deleting, cwi.uid = wi.uid,
             wi' = it => cwi = wi \/ it = wi,
             Observed(it)
      PROVE  IdentityCopies'
  <2>1. UIDsAreGivenOut'
    BY <1>0, <1>2, UIDNumbers, EmptyIdentity, IdentityFields
       DEF UIDsAreGivenOut, GivenOut, Derived, Observed
  <2>2. IdentityCopiesAreBehind'
    BY <1>0, <1>2, UIDNumbers, EmptyIdentity, IdentityFields
       DEF IdentityCopiesAreBehind, NotAhead, Observed
  <2>3. FinalizerKeepsIdentity'
    BY <1>0, <1>2, EmptyIdentity
       DEF FinalizerKeepsIdentity, EnsureSteps, DeleteSteps,
           workloadIdentityRecoveryIsInProgress, recoveryReasonIs, Observed
  <2>4. StatusIsDerived'
    BY <1>0, <1>2 DEF StatusIsDerived, StatusSteps, Derived, Observed
  <2>5. EndIsReported'
    BY <1>0, <1>2, EmptyIdentity DEF EndIsReported, IdentityCopiesAreBehind, NotAhead, Observed
  <2>. QED BY <2>1, <2>2, <2>3, <2>4, <2>5
<1>3. CASE /\ cwi.uid # 0 /\ ~cwi.deleting /\ cwi.finalizer /\ UNCHANGED wi /\ observe(cwi)
  <2>1. Observed(cwi) /\ cwi \in WorkloadIdentity
    BY <1>3, UIDNumbers, ObserveLeads
  <2>2. wi.finalizer /\ cwi.uid = wi.uid
    BY <1>3 DEF FinalizerKeepsIdentity
  <2>. QED BY <1>2, <1>3, <2>1, <2>2
<1>4. CASE /\ cwi.uid # 0 /\ ~cwi.deleting /\ cwi = wi
           /\ wi' = [cwi EXCEPT !.finalizer = TRUE] /\ observe([cwi EXCEPT !.finalizer = TRUE])
  <2>. DEFINE it == [cwi EXCEPT !.finalizer = TRUE]
  <2>1. /\ it \in WorkloadIdentity /\ it.finalizer
        /\ it.uid = cwi.uid /\ it.deleting = cwi.deleting /\ it.policy = cwi.policy
        /\ it.generation = cwi.generation /\ it.ready = cwi.ready
        /\ it.previousUid = cwi.previousUid
    BY UIDNumbers DEF WorkloadIdentity
  <2>2. wi' = it /\ observe(it)
    BY <1>4
  <2>. HIDE DEF it
  <2>3. Observed(it)
    BY <2>1, <2>2, ObserveLeads
  <2>. QED BY <1>2, <1>4, <2>1, <2>2, <2>3
<1>. QED BY <1>1, <1>3, <1>4 DEF W_Reconcile, WSkip

\* A delete run begins from the cached copy.
LEMMA ReconcileDeleteCopies ==
  ASSUME IdentityCopies, TypeOK, TypeOK', W_ReconcileDelete,
         UNCHANGED <<rpc, ruami>>
  PROVE  IdentityCopies'
<1>. USE DEF IdentityCopies
<1>0. /\ wpc = "idle" /\ wid = NoWI /\ cwi.uid # 0 /\ cwi.deleting /\ cwi.finalizer
      /\ UNCHANGED <<wi, cwi, lastUid, csa, sa, uami, rec>>
  BY DEF W_ReconcileDelete, FinalizerKeepsIdentity
<1>1. \/ UNCHANGED <<wpc, wid, wsa, wout>>
      \/ /\ wpc' \in {"deleteUami", "removeFinalizer"} /\ wid' = cwi /\ wout' = NoWI
         /\ ~workloadIdentityRecoveryIsInProgress(cwi)
  BY DEF W_ReconcileDelete, WSkip, WBegin
<1>2. UIDsAreGivenOut'
  BY <1>0, <1>1, UIDNumbers, EmptyIdentity DEF UIDsAreGivenOut, GivenOut
<1>3. IdentityCopiesAreBehind'
  BY <1>0, <1>1, UIDNumbers, IdentityFields DEF IdentityCopiesAreBehind, NotAhead
<1>4. FinalizerKeepsIdentity'
  BY <1>0, <1>1
     DEF FinalizerKeepsIdentity, EnsureSteps, DeleteSteps,
         workloadIdentityRecoveryIsInProgress, recoveryReasonIs
<1>5. StatusIsDerived'
  BY <1>0, <1>1 DEF StatusIsDerived
<1>6. EndIsReported'
  BY <1>0, <1>1 DEF EndIsReported
<1>. QED BY <1>2, <1>3, <1>4, <1>5, <1>6

(***************************************************************************)
(* The worker writes to the object: a status, or the last finalizer.       *)
(***************************************************************************)
\* Only what nobody changed since the worker read it is replaced.
LEMMA PatchStatusCopies ==
  ASSUME IdentityCopies, TypeOK, TypeOK', W_PatchStatus,
         UNCHANGED <<rpc, ruami>>
  PROVE  IdentityCopies'
<1>. USE DEF IdentityCopies
<1>0. /\ wpc \in EnsureSteps /\ wpc \in StatusSteps /\ wpc # "idle"
      /\ wpc' = "idle" /\ wid' = NoWI /\ wout' = NoWI
      /\ UNCHANGED <<cwi, lastUid, csa, sa, uami, rec>>
  BY DEF W_PatchStatus, WReturn, EnsureSteps, StatusSteps
<1>1. CASE UNCHANGED wi
  <2>1. WorkerGoesOn
    BY <1>0 DEF WorkerGoesOn
  <2>. QED BY <1>0, <1>1, <2>1, GoesOnCopies DEF UIDsAreGivenOut
<1>2. CASE wid = wi /\ wi' = wout
  <2>1. Derived(wout, wi) /\ wi.uid # 0
    BY <1>0, <1>2 DEF StatusIsDerived, StatusSteps, Derived, FinalizerKeepsIdentity
  <2>2. wi.finalizer /\ ~wi.deleting /\ cwi.uid = wi.uid /\ ~cwi.deleting
    BY <1>0, <1>2, <2>1 DEF FinalizerKeepsIdentity, IdentityCopiesAreBehind, NotAhead
  <2>3. UIDsAreGivenOut'
    BY <1>0, <1>2, <2>1, UIDNumbers, EmptyIdentity DEF UIDsAreGivenOut, GivenOut, Derived
  <2>4. IdentityCopiesAreBehind'
    BY <1>0, <1>2, <2>1 DEF IdentityCopiesAreBehind, NotAhead, Derived
  <2>5. FinalizerKeepsIdentity'
    BY <1>0, <1>2, <2>1, <2>2, EmptyIdentity
       DEF FinalizerKeepsIdentity, EnsureSteps, DeleteSteps, Derived
  <2>6. StatusIsDerived'
    BY <1>0 DEF StatusIsDerived
  <2>7. EndIsReported'
    BY <1>0, <1>2, <2>1, <2>2, EmptyIdentity DEF EndIsReported, Derived
  <2>. QED BY <2>3, <2>4, <2>5, <2>6, <2>7
<1>. QED BY <1>1, <1>2 DEF W_PatchStatus, lockHeld

LEMMA RemoveCopies ==
  ASSUME IdentityCopies, TypeOK, TypeOK', W_RemoveFinalizer,
         UNCHANGED <<rpc, ruami>>
  PROVE  IdentityCopies'
<1>. USE DEF IdentityCopies
<1>0. /\ wpc \in DeleteSteps /\ wpc # "idle"
      /\ wpc' = "idle" /\ wid' = NoWI /\ wout' = NoWI
      /\ UNCHANGED <<cwi, lastUid, csa, sa, uami, rec>>
  BY DEF W_RemoveFinalizer, WReturn, DeleteSteps
<1>1. CASE UNCHANGED wi
  <2>1. WorkerGoesOn
    BY <1>0 DEF WorkerGoesOn
  <2>. QED BY <1>0, <1>1, <2>1, GoesOnCopies DEF UIDsAreGivenOut
<1>2. CASE wid = wi /\ wi' = NoWI
  <2>1. wi.uid # 0 /\ wi.finalizer /\ wi.deleting /\ cwi.uid = wi.uid /\ cwi.deleting
    BY <1>0, <1>2 DEF FinalizerKeepsIdentity, IdentityCopiesAreBehind, NotAhead
  <2>2. UIDsAreGivenOut'
    BY <1>0, <1>2, UIDNumbers, EmptyIdentity DEF UIDsAreGivenOut, GivenOut
  <2>3. IdentityCopiesAreBehind'
    BY <1>0, <1>2, <2>1, EmptyIdentity DEF IdentityCopiesAreBehind, NotAhead
  <2>4. FinalizerKeepsIdentity'
    BY <1>0, <1>2, <2>1, EmptyIdentity DEF FinalizerKeepsIdentity, EnsureSteps, DeleteSteps
  <2>5. StatusIsDerived'
    BY <1>0 DEF StatusIsDerived
  <2>6. EndIsReported'
    BY <1>0, <1>2, <2>1, EmptyIdentity DEF EndIsReported
  <2>. QED BY <2>2, <2>3, <2>4, <2>5, <2>6
<1>. QED BY <1>1, <1>2 DEF W_RemoveFinalizer, lockHeld

\* The other steps of the worker.
LEMMA WorkerStepsGoOn ==
  ASSUME IdentityCopies, TypeOK
  PROVE  /\ W_DetectRecovery => WorkerGoesOn
         /\ W_EnsureUserAssignedIdentity => WorkerGoesOn
         /\ W_CreateUserAssignedIdentity => WorkerGoesOn
         /\ W_EnsureFederatedIdentityCredential => WorkerGoesOn
         /\ W_EnsureServiceAccount => WorkerGoesOn
         /\ W_DeleteCheck => WorkerGoesOn
         /\ W_DeleteUserAssignedIdentity => WorkerGoesOn
         /\ W_DeleteServiceAccountIfOwned => WorkerGoesOn
         /\ WFault => WorkerGoesOn
<1>. USE DEF WorkerGoesOn, EnsureSteps, DeleteSteps, StatusSteps
<1>0. /\ uami.owner \in UIDOrNone /\ uami.owner <= lastUid /\ 0 <= lastUid
      /\ wid \in WorkloadIdentity /\ wid.previousUid <= lastUid
  BY UIDNumbers DEF IdentityCopies, UIDsAreGivenOut, GivenOut
<1>1. \A provenance \in Provenances :
        \A out \in {setNotReady(wid), setInProgress(wid), setReady(wid, provenance),
                    setRecoveryRequired(wid, uami.owner)} :
           Derived(out, wid) /\ out.previousUid <= lastUid
  BY <1>0, StatusOf
<1>2. "None" \in Provenances /\ "Created" \in Provenances /\ "Adopted" \in Provenances
      /\ wsa \in Provenances
  BY DEF Provenances, TypeOK, WTypeOK
<1>3. W_DetectRecovery => WorkerGoesOn
  BY <1>1, <1>2 DEF W_DetectRecovery, WGoto, WPatch
<1>4. W_EnsureUserAssignedIdentity => WorkerGoesOn
  BY <1>1, <1>2 DEF W_EnsureUserAssignedIdentity, WGoto, WPatch
<1>5. W_CreateUserAssignedIdentity => WorkerGoesOn
  BY DEF W_CreateUserAssignedIdentity, WGoto
<1>6. W_EnsureFederatedIdentityCredential => WorkerGoesOn
  BY <1>1, <1>2 DEF W_EnsureFederatedIdentityCredential, WGoto, WPatch
<1>7. W_EnsureServiceAccount => WorkerGoesOn
  <2>. SUFFICES ASSUME W_EnsureServiceAccount PROVE WorkerGoesOn
    OBVIOUS
  <2>1. PICK provenance \in Provenances :
          /\ wpc = "ensureSA"
          /\ WPatch("status", setNotReady(wid)) \/ WPatch("status", setReady(wid, provenance))
    BY <1>2 DEF W_EnsureServiceAccount
  <2>. QED BY <1>1, <2>1 DEF WPatch
<1>8. W_DeleteCheck => WorkerGoesOn
  BY DEF W_DeleteCheck, WGoto, WReturn
<1>9. W_DeleteUserAssignedIdentity => WorkerGoesOn
  BY DEF W_DeleteUserAssignedIdentity, WGoto
<1>10. W_DeleteServiceAccountIfOwned => WorkerGoesOn
  BY DEF W_DeleteServiceAccountIfOwned, WGoto, WReturn
<1>11. WFault => WorkerGoesOn
  BY <1>1, <1>2 DEF WFault, W_EnsureError, W_OtherError, WPatch, WReturn
<1>. QED BY <1>3, <1>4, <1>5, <1>6, <1>7, <1>8, <1>9, <1>10, <1>11

\* Steps of the WorkloadIdentity controller.
LEMMA WControllerCopies ==
  ASSUME IdentityCopies, TypeOK, TypeOK', WController
  PROVE  IdentityCopies'
<1>0. /\ wid.uid <= lastUid /\ uami.owner <= lastUid /\ sa.owner <= lastUid
      /\ 0 <= lastUid /\ csa.owner <= lastUid
      /\ UNCHANGED <<rpc, ruami>>
  BY UIDNumbers
     DEF IdentityCopies, UIDsAreGivenOut, GivenOut, WController, rVars
<1>1. CASE W_Reconcile \/ W_ReconcileDelete \/ W_PatchStatus \/ W_RemoveFinalizer
  BY <1>0, <1>1, ReconcileCopies, ReconcileDeleteCopies, PatchStatusCopies, RemoveCopies
<1>2. CASE W_DetectRecovery
  BY <1>0, <1>2, WorkerStepsGoOn, GoesOnCopies DEF W_DetectRecovery
<1>3. CASE W_EnsureUserAssignedIdentity
  BY <1>0, <1>3, WorkerStepsGoOn, GoesOnCopies DEF W_EnsureUserAssignedIdentity
<1>4. CASE W_CreateUserAssignedIdentity
  <2>1. uami'.owner = wid.uid
    BY <1>4 DEF W_CreateUserAssignedIdentity, CreateOrUpdate, workloadIdentityTags, NoUami
  <2>. QED BY <1>0, <1>4, <2>1, WorkerStepsGoOn, GoesOnCopies DEF W_CreateUserAssignedIdentity
<1>5. CASE W_EnsureFederatedIdentityCredential
  BY <1>0, <1>5, WorkerStepsGoOn, GoesOnCopies DEF W_EnsureFederatedIdentityCredential
<1>6. CASE W_EnsureServiceAccount
  <2>1. sa'.owner \in {wid.uid, sa.owner}
    <3>1. sa \in ServiceAccount
      BY DEF TypeOK, StateTypeOK
    <3>2. \A b : OperatorSA(wid.uid, b).owner = wid.uid
      BY DEF OperatorSA
    <3>3. \A desired : patchedServiceAccount(desired).owner \in {sa.owner, desired.owner}
      BY <3>1 DEF patchedServiceAccount, ServiceAccount
    <3>. QED BY <1>6, <3>2, <3>3 DEF W_EnsureServiceAccount
  <2>. QED BY <1>0, <1>6, <2>1, WorkerStepsGoOn, GoesOnCopies DEF W_EnsureServiceAccount
<1>7. CASE W_DeleteCheck
  BY <1>0, <1>7, WorkerStepsGoOn, GoesOnCopies DEF W_DeleteCheck
<1>8. CASE W_DeleteUserAssignedIdentity
  <2>1. uami'.owner = 0
    BY <1>8 DEF W_DeleteUserAssignedIdentity, DeleteIdentity, NoUami
  <2>. QED BY <1>0, <1>8, <2>1, WorkerStepsGoOn, GoesOnCopies DEF W_DeleteUserAssignedIdentity
<1>9. CASE W_DeleteServiceAccountIfOwned
  <2>1. sa'.owner \in {0, sa.owner}
    <3>1. sa' = sa \/ sa' = NoSA
      BY <1>9 DEF W_DeleteServiceAccountIfOwned
    <3>. QED BY <3>1 DEF NoSA
  <2>. QED BY <1>0, <1>9, <2>1, WorkerStepsGoOn, GoesOnCopies DEF W_DeleteServiceAccountIfOwned
<1>10. CASE WFault
  BY <1>0, <1>10, WorkerStepsGoOn, GoesOnCopies DEF WFault, W_EnsureError, W_OtherError
<1>. QED BY <1>1, <1>2, <1>3, <1>4, <1>5, <1>6, <1>7, <1>8, <1>9, <1>10
     DEF WController, WStep

(***************************************************************************)
(* Steps outside the WorkloadIdentity controller.                          *)
(***************************************************************************)
\* They leave the object, its copies and the worker alone.
LEMMA OtherCopies ==
  ASSUME IdentityCopies, TypeOK, TypeOK', SpecsKept,
         UNCHANGED <<wi, cwi, lastUid, wpc, wid, wout>>,
         sa'.owner <= lastUid, csa'.owner <= lastUid,
         uami'.owner <= lastUid, ruami'.owner <= lastUid,
         rpc' \in {"lockTarget", "release"} =>
           rpc = rpc' \/ wi.ready \notin ReleaseReasons
  PROVE  IdentityCopies'
<1>. USE DEF IdentityCopies
<1>1. UIDsAreGivenOut'
  BY DEF UIDsAreGivenOut, GivenOut, SpecsKept
<1>2. IdentityCopiesAreBehind'
  BY DEF IdentityCopiesAreBehind, NotAhead
<1>3. FinalizerKeepsIdentity'
  BY DEF FinalizerKeepsIdentity, EnsureSteps, DeleteSteps,
         workloadIdentityRecoveryIsInProgress, recoveryReasonIs
<1>4. StatusIsDerived'
  BY DEF StatusIsDerived
<1>5. EndIsReported'
  BY DEF EndIsReported
<1>. QED BY <1>1, <1>2, <1>3, <1>4, <1>5

\* The recovery controller patches the condition of the object.
LEMMA ConditionCopies ==
  ASSUME IdentityCopies, TypeOK, TypeOK', NEW reason,
         wi.uid # 0, setTargetReason(reason),
         UNCHANGED <<cwi, lastUid, wpc, wid, wout, sa, csa, uami, rec>>,
         rpc' \notin {"lockTarget", "release"}, ruami'.owner <= lastUid,
         reason \in ReleaseReasons \/ wi.ready \notin ReleaseReasons
  PROVE  IdentityCopies'
<1>. USE DEF IdentityCopies
<1>1. wi' = [wi EXCEPT !.ready = reason, !.observedGeneration = rgen] /\ wi \in WorkloadIdentity
  BY UIDNumbers DEF setTargetReason
<1>2. /\ wi'.uid = wi.uid /\ wi'.deleting = wi.deleting /\ wi'.finalizer = wi.finalizer
      /\ wi'.policy = wi.policy /\ wi'.generation = wi.generation
      /\ wi'.previousUid = wi.previousUid /\ wi'.ready = reason
  BY <1>1 DEF WorkloadIdentity
<1>3. UIDsAreGivenOut'
  BY <1>2 DEF UIDsAreGivenOut, GivenOut
<1>4. IdentityCopiesAreBehind'
  BY <1>2 DEF IdentityCopiesAreBehind, NotAhead
<1>5. FinalizerKeepsIdentity'
  BY <1>2 DEF FinalizerKeepsIdentity, EnsureSteps, DeleteSteps,
              workloadIdentityRecoveryIsInProgress, recoveryReasonIs
<1>6. StatusIsDerived'
  BY DEF StatusIsDerived
<1>7. EndIsReported'
  BY <1>2 DEF EndIsReported
<1>. QED BY <1>3, <1>4, <1>5, <1>6, <1>7

(***************************************************************************)
(* What a reconcile of a recovery does to the recoveries.                  *)
(***************************************************************************)
\* Recovery x after the step, as far as the cache and the worker rely on it: the
\* object stays; Failed is written over Failed, or where the cache knows of no start.
RecordKept(x) ==
  /\ rec'[x].phase = rec[x].phase /\ rec'[x].deleting = rec[x].deleting
  /\ rec'[x].source = rec[x].source /\ rec'[x].target = rec[x].target
  /\ rec[x].finalizer => rec'[x].finalizer
  /\ recoveryIsFailed(rec'[x]) =>
       recoveryIsFailed(rec[x]) \/ recoveryIsFailed(crec[x]) \/ ~crec[x].mutationStarted
  /\ recoveryIsComplete(rec'[x]) =>
       \/ recoveryIsComplete(rec[x]) \/ recoveryIsComplete(crec[x])
       \/ x = rcur /\ rpc = "saveComplete"
  /\ rec[x].mutationStarted => rec'[x].mutationStarted
  /\ rec'[x].mutationStarted => rec[x].mutationStarted \/ (rpc # "idle" /\ x = rcur)
  /\ rec'[x].commitVerified => rec'[x].mutationStarted
RecordsKept == UNCHANGED crec /\ \A x \in Recoveries : RecordKept(x)

\* The reconcile ends, or goes on in the same part of it.
RunKept ==
  \/ rpc' = "idle" /\ rq' \subseteq rq \cup {rcur}
  \/ /\ rpc' # "idle" /\ UNCHANGED <<rcur, rdel, rq>>
     /\ rpc' \in FenceSteps => rpc \in FenceSteps
     /\ rpc \in FenceSteps => rpc' \in FenceSteps \/ rpc = "saveComplete"
     /\ rpc' \in {"cancel", "removeFinalizer"} => rdel \/ rpc \in {"cancel", "removeFinalizer"}
     /\ rpc' \in {"lockTarget", "release"} => wi.ready \notin ReleaseReasons

RecoveryCopiesInvariant == StartInvariant /\ RecoveryCopies /\ ReconciledExists

\* A recovery that is left alone.
LEMMA SameRecord ==
  ASSUME RecoveryCopies, NEW x \in Recoveries, rec'[x] = rec[x]
  PROVE  RecordKept(x)
BY DEF RecordKept, RecoveryCopies

LEMMA SameRecords ==
  ASSUME RecoveryCopies, UNCHANGED <<rec, crec>>
  PROVE  RecordsKept
BY SameRecord DEF RecordsKept

\* A status patch.
LEMMA PatchRecords ==
  ASSUME RecoveryCopiesInvariant, NEW r \in Recoveries, NEW new \in Recovery, found(r),
         patchRecoveryStatus(r, new), UNCHANGED crec,
         recoveryIsFailed(new) => recoveryIsFailed(crec[r]) \/ ~crec[r].mutationStarted,
         recoveryIsComplete(new) =>
           recoveryIsComplete(crec[r]) \/ (r = rcur /\ rpc = "saveComplete"),
         new.mutationStarted # crec[r].mutationStarted =>
           new.mutationStarted /\ rpc # "idle" /\ r = rcur,
         new.commitVerified # crec[r].commitVerified => rec[r].mutationStarted
  PROVE  RecordsKept
<1>. USE DEF RecoveryCopiesInvariant, StartInvariant
<1>1. PICK outcome \in {new.outcome, rec[r].outcome} :
        rec' = [rec EXCEPT ![r] = mergedRecovery(rec[r], crec[r], new, outcome)]
  BY DEF patchRecoveryStatus
<1>2. rec \in [Recoveries -> Recovery] /\ rec[r] \in Recovery /\ crec[r] \in Recovery
  BY DEF TypeOK, StateTypeOK
<1>3. rec'[r] = mergedRecovery(rec[r], crec[r], new, outcome)
  BY <1>1, <1>2
<1>4. /\ rec'[r].phase = rec[r].phase /\ rec'[r].deleting = rec[r].deleting
      /\ rec'[r].source = rec[r].source /\ rec'[r].target = rec[r].target
      /\ rec'[r].finalizer = rec[r].finalizer /\ rec'[r].outcome = outcome
      /\ rec'[r].mutationStarted = IF new.mutationStarted # crec[r].mutationStarted
                                     THEN new.mutationStarted ELSE rec[r].mutationStarted
      /\ rec'[r].commitVerified = IF new.commitVerified # crec[r].commitVerified
                                    THEN new.commitVerified ELSE rec[r].commitVerified
  BY <1>2, <1>3 DEF mergedRecovery, Recovery
<1>5. rec[r].mutationStarted \in BOOLEAN /\ new.mutationStarted \in BOOLEAN
  BY <1>2 DEF Recovery
<1>6. RecordKept(r)
  <2>1. recoveryIsFailed(rec'[r]) =>
          recoveryIsFailed(rec[r]) \/ recoveryIsFailed(crec[r]) \/ ~crec[r].mutationStarted
    BY <1>4 DEF recoveryIsFailed
  <2>4. recoveryIsComplete(rec'[r]) =>
          \/ recoveryIsComplete(rec[r]) \/ recoveryIsComplete(crec[r])
          \/ r = rcur /\ rpc = "saveComplete"
    BY <1>4 DEF recoveryIsComplete
  <2>2. /\ rec[r].mutationStarted => rec'[r].mutationStarted
        /\ rec'[r].mutationStarted => rec[r].mutationStarted \/ (rpc # "idle" /\ r = rcur)
    BY <1>4, <1>5
  <2>3. rec'[r].commitVerified => rec[r].mutationStarted
    BY <1>4 DEF RecoveryCopies
  <2>. QED BY <1>4, <2>1, <2>2, <2>3, <2>4 DEF RecordKept
<1>7. \A x \in Recoveries \ {r} : rec'[x] = rec[x]
  BY <1>1, <1>2
<1>. QED BY <1>6, <1>7, SameRecord DEF RecordsKept

\* block and fail.
LEMMA OutcomeRecords ==
  ASSUME RecoveryCopiesInvariant, NEW r \in Recoveries, NEW outcome \in {"Blocked", "Failed"},
         setOutcome(r, outcome), UNCHANGED crec,
         outcome = "Failed" => ~crec[r].mutationStarted
  PROVE  RecordsKept
<1>. DEFINE new == [crec[r] EXCEPT !.outcome = outcome]
<1>1. crec[r] \in Recovery
  BY DEF RecoveryCopiesInvariant, StartInvariant, TypeOK, StateTypeOK
<1>2. /\ new \in Recovery /\ new.mutationStarted = crec[r].mutationStarted
      /\ new.commitVerified = crec[r].commitVerified /\ new.outcome = outcome
  BY <1>1 DEF Recovery
<1>3. IF found(r) THEN patchRecoveryStatus(r, new) ELSE UNCHANGED rec
  BY DEF setOutcome
<1>. HIDE DEF new
<1>. QED BY <1>2, <1>3, PatchRecords, SameRecords
         DEF recoveryIsFailed, recoveryIsComplete, RecoveryCopiesInvariant

\* The ends of a running reconcile.
LEMMA EndRecords ==
  ASSUME RecoveryCopiesInvariant, rpc # "idle", UNCHANGED crec
  PROVE  /\ block => RecordsKept /\ RunKept
         /\ \A b \in BOOLEAN : RReturn(b) => RunKept
         /\ \A new \in Recovery :
              /\ saveStatus(new)
              /\ recoveryIsFailed(new) => recoveryIsFailed(crec[rcur])
              /\ recoveryIsComplete(new) =>
                   recoveryIsComplete(crec[rcur]) \/ rpc = "saveComplete"
              /\ new.mutationStarted # crec[rcur].mutationStarted => new.mutationStarted
              /\ new.commitVerified # crec[rcur].commitVerified => rec[rcur].mutationStarted
              => RecordsKept /\ RunKept
<1>1. rcur \in Recoveries
  BY DEF RecoveryCopiesInvariant, StartInvariant, TypeOK, RTypeOK
<1>2. ASSUME NEW b \in BOOLEAN, RReturn(b) PROVE RunKept
  BY <1>2 DEF RReturn, RunKept
<1>3. block => RecordsKept /\ RunKept
  BY <1>1, <1>2, OutcomeRecords DEF block
<1>4. ASSUME NEW new \in Recovery, saveStatus(new),
             recoveryIsFailed(new) => recoveryIsFailed(crec[rcur]),
             recoveryIsComplete(new) => recoveryIsComplete(crec[rcur]) \/ rpc = "saveComplete",
             new.mutationStarted # crec[rcur].mutationStarted => new.mutationStarted,
             new.commitVerified # crec[rcur].commitVerified => rec[rcur].mutationStarted
      PROVE  RecordsKept /\ RunKept
  <2>1. CASE found(rcur)
    <3>1. patchRecoveryStatus(rcur, new) /\ RReturn(TRUE)
      BY <1>4, <2>1 DEF saveStatus
    <3>2. RecordsKept
      BY <1>1, <1>4, <2>1, <3>1, PatchRecords
    <3>. QED BY <1>2, <3>1, <3>2
  <2>2. CASE ~found(rcur)
    BY <1>2, <1>4, <2>2, SameRecords DEF saveStatus, RecoveryCopiesInvariant
  <2>. QED BY <2>1, <2>2
<1>. QED BY <1>2, <1>3, <1>4

(***************************************************************************)
(* The steps of a running reconcile.                                       *)
(***************************************************************************)
\* Every step of a reconcile but the last write to its recovery.
RunStep == QuietStep \/ R_Winner \/ R_SaveStarted \/ R_SaveCommit

LEMMA RunRecords ==
  ASSUME RecoveryCopiesInvariant, RunStep
  PROVE  RecordsKept /\ RunKept
<1>. USE DEF RunKept, FenceSteps, ForwardSteps, ReleaseReasons
<1>0. UNCHANGED <<rec, crec>> => RecordsKept
  BY SameRecords DEF RecoveryCopiesInvariant
<1>1. TypeOK /\ (rpc # "idle" => rcur \in Recoveries /\ crec[rcur] \in Recovery)
  BY DEF RecoveryCopiesInvariant, StartInvariant, TypeOK, StateTypeOK, RTypeOK
<1>2. CASE R_Preflight
  BY <1>0, <1>2, EndRecords DEF R_Preflight
<1>3. CASE R_SavePlan
  <2>1. rpc # "idle" /\ rplan \in Nat
    BY <1>1, <1>3 DEF R_SavePlan, TypeOK, RTypeOK
  <2>. DEFINE new == [crec[rcur] EXCEPT !.plan = rplan, !.outcome = clearBlocked(@)]
  <2>2. /\ new \in Recovery /\ new.mutationStarted = crec[rcur].mutationStarted
        /\ new.commitVerified = crec[rcur].commitVerified
        /\ recoveryIsFailed(new) => recoveryIsFailed(crec[rcur])
        /\ recoveryIsComplete(new) => recoveryIsComplete(crec[rcur])
    BY <1>1, <2>1 DEF Recovery, clearBlocked, recoveryIsFailed, recoveryIsComplete
  <2>3. saveStatus(new) /\ UNCHANGED crec
    BY <1>3 DEF R_SavePlan
  <2>. HIDE DEF new
  <2>. QED BY <2>1, <2>2, <2>3, EndRecords
<1>4. CASE R_ReadTarget
  BY <1>0, <1>4 DEF R_ReadTarget, RGoto, RGotoPatch, patchesTarget
<1>5. CASE R_LockTarget
  BY <1>0, <1>5, EndRecords DEF R_LockTarget, RGoto
<1>6. CASE R_Mark
  BY <1>0, <1>6, EndRecords DEF R_Mark, RGoto
<1>7. CASE R_MarkCall
  BY <1>0, <1>7, EndRecords DEF R_MarkCall, RGoto
<1>8. CASE R_EnsureFederatedIdentityCredential
  BY <1>0, <1>8, EndRecords DEF R_EnsureFederatedIdentityCredential, RGoto
<1>9. CASE R_TransferServiceAccount
  BY <1>0, <1>9, EndRecords DEF R_TransferServiceAccount
<1>10. CASE R_CommitCheck
  BY <1>0, <1>10, EndRecords DEF R_CommitCheck
<1>11. CASE R_Commit
  BY <1>0, <1>11, EndRecords DEF R_Commit, RGoto
<1>12. CASE R_CommitCall
  BY <1>0, <1>12, EndRecords DEF R_CommitCall, RGoto
<1>13. CASE R_CommitVerify
  BY <1>0, <1>13, EndRecords DEF R_CommitVerify, RGoto
<1>14. CASE R_Finalize
  BY <1>0, <1>14, EndRecords DEF R_Finalize, RGoto
<1>15. CASE R_FinalizeCall
  BY <1>0, <1>15, EndRecords DEF R_FinalizeCall, RGoto
<1>16. CASE R_FinalizeVerify
  BY <1>0, <1>16, EndRecords DEF R_FinalizeVerify, RGoto
<1>17. CASE R_SaveComplete
  <2>1. rpc = "saveComplete"
    BY <1>17 DEF R_SaveComplete
  <2>. DEFINE new == [crec[rcur] EXCEPT !.outcome = "Complete"]
  <2>2. /\ new \in Recovery /\ new.mutationStarted = crec[rcur].mutationStarted
        /\ new.commitVerified = crec[rcur].commitVerified /\ ~recoveryIsFailed(new)
    BY <1>1, <2>1 DEF Recovery, recoveryIsFailed
  <2>3. /\ UNCHANGED crec
        /\ \/ found(rcur) /\ patchRecoveryStatus(rcur, new) /\ RGoto("readRelease")
           \/ saveStatus(new)
    BY <1>17 DEF R_SaveComplete
  <2>. HIDE DEF new
  <2>4. CASE found(rcur) /\ patchRecoveryStatus(rcur, new) /\ RGoto("readRelease")
    BY <1>1, <2>1, <2>2, <2>3, <2>4, PatchRecords DEF RGoto
  <2>5. CASE saveStatus(new)
    BY <2>1, <2>2, <2>3, <2>5, EndRecords
  <2>. QED BY <2>3, <2>4, <2>5
<1>18. CASE R_Cancel
  BY <1>0, <1>18 DEF R_Cancel, RGoto
<1>19. CASE R_ReadRelease
  BY <1>0, <1>19, EndRecords DEF R_ReadRelease, afterRelease, RGoto, RGotoPatch, patchesTarget
<1>20. CASE R_Release
  BY <1>0, <1>20, EndRecords DEF R_Release, afterRelease, RGoto
<1>21. CASE R_Error
  BY <1>0, <1>21, EndRecords DEF R_Error
<1>22. CASE R_Winner
  <2>1. rpc = "winner" /\ UNCHANGED crec
    BY <1>22 DEF R_Winner
  <2>2. CASE isWinner(rcur) /\ RGoto("readTarget") /\ UNCHANGED rec
    BY <1>0, <2>1, <2>2 DEF RGoto
  <2>3. CASE ~isWinner(rcur) /\ setOutcome(rcur, "Failed") /\ RReturn(~found(rcur))
    <3>1. ~crec[rcur].mutationStarted
      <4>. SUFFICES ASSUME crec[rcur].mutationStarted PROVE isWinner(rcur)
        BY <2>3
      <4>1. live(rcur) /\ rec[rcur].mutationStarted /\ rec[rcur].source = rec[rcur].source
        BY <1>1, <2>1
           DEF RecoveryCopiesInvariant, ReconciledExists, StartInvariant, ForwardOnly
      <4>2. rcur \in incumbents(rcur)
        BY <1>1, <2>1, <4>1 DEF incumbents, rivals, hasStarted
      <4>3. \A x \in incumbents(rcur) : x = rcur
        BY <1>1, <2>1, <4>2
           DEF incumbents, rivals, RecoveryCopiesInvariant, StartInvariant, AtMostOneStarted
      <4>4. rcur <= rcur
        BY <1>1, <2>1, NumRecoveriesAssumption DEF Recoveries
      <4>. QED BY <4>2, <4>3, <4>4 DEF isWinner
    <3>2. RecordsKept
      BY <1>1, <2>1, <2>3, <3>1, OutcomeRecords
    <3>3. RunKept
      BY <2>3 DEF RReturn
    <3>. QED BY <3>2, <3>3
  <2>. QED BY <1>22, <2>2, <2>3 DEF R_Winner, fail
<1>23. CASE R_SaveStarted
  <2>1. rpc # "idle" /\ UNCHANGED crec
    BY <1>23 DEF R_SaveStarted
  <2>. DEFINE new == [crec[rcur] EXCEPT !.mutationStarted = TRUE, !.outcome = clearBlocked(@)]
  <2>2. /\ new \in Recovery /\ new.mutationStarted
        /\ new.commitVerified = crec[rcur].commitVerified
        /\ recoveryIsFailed(new) => recoveryIsFailed(crec[rcur])
        /\ recoveryIsComplete(new) => recoveryIsComplete(crec[rcur])
    BY <1>1, <2>1 DEF Recovery, clearBlocked, recoveryIsFailed, recoveryIsComplete
  <2>3. saveStatus(new)
    BY <1>23 DEF R_SaveStarted
  <2>. HIDE DEF new
  <2>. QED BY <2>1, <2>2, <2>3, EndRecords
<1>24. CASE R_SaveCommit
  <2>1. rpc = "saveCommit" /\ UNCHANGED crec /\ rec[rcur].mutationStarted
    BY <1>24 DEF R_SaveCommit, RecoveryCopiesInvariant, StartInvariant, ForwardOnly
  <2>. DEFINE new == [crec[rcur] EXCEPT !.commitVerified = TRUE, !.outcome = "None"]
  <2>2. /\ new \in Recovery /\ new.mutationStarted = crec[rcur].mutationStarted
        /\ ~recoveryIsFailed(new) /\ ~recoveryIsComplete(new)
    BY <1>1, <2>1 DEF Recovery, recoveryIsFailed, recoveryIsComplete
  <2>3. saveStatus(new)
    BY <1>24 DEF R_SaveCommit
  <2>. HIDE DEF new
  <2>. QED BY <2>1, <2>2, <2>3, EndRecords
<1>. QED BY <1>2, <1>3, <1>4, <1>5, <1>6, <1>7, <1>8, <1>9, <1>10, <1>11, <1>12, <1>13,
            <1>14, <1>15, <1>16, <1>17, <1>18, <1>19, <1>20, <1>21, <1>22, <1>23, <1>24
         DEF RunStep, QuietStep

\* Such a step keeps what is known of the recoveries.
LEMMA KeptRecords ==
  ASSUME RecoveryCopiesInvariant, TypeOK', rpc # "idle", RecordsKept, RunKept
  PROVE  RecoveryCopies' /\ ReconciledExists'
<1>. USE DEF RecoveryCopiesInvariant
<1>1. rcur \in Recoveries /\ live(rcur) /\ rec[rcur].finalizer
  BY DEF StartInvariant, TypeOK, RTypeOK, ReconciledExists
<1>2. \A x \in Recoveries : RecordKept(x) /\ crec'[x] = crec[x]
  BY DEF RecordsKept
<1>3. \A x \in Recoveries : x \in rq' => x \in rq \/ live(x)
  BY <1>1 DEF RunKept
<1>4. RecoveryCopies'
  BY <1>1, <1>2, <1>3 DEF RecoveryCopies, RecordKept, live
<1>5. CASE rpc' = "idle"
  BY <1>4, <1>5 DEF ReconciledExists, FenceSteps, ForwardSteps
<1>6. CASE /\ rpc' # "idle" /\ UNCHANGED <<rcur, rdel, rq>>
           /\ (rpc' \in FenceSteps => rpc \in FenceSteps)
           /\ (rpc' \in {"cancel", "removeFinalizer"} =>
                 rdel \/ rpc \in {"cancel", "removeFinalizer"})
  <2>1. crec'[rcur'] = crec[rcur] /\ RecordKept(rcur)
    BY <1>1, <1>2, <1>6
  <2>2. crec'[rcur'].phase = "live" /\ (live(rcur))' /\ rec'[rcur'].finalizer
    BY <1>1, <1>6, <2>1 DEF ReconciledExists, RecordKept, live
  <2>3. rdel' \/ rpc' \in {"cancel", "removeFinalizer"} =>
          crec'[rcur'].deleting /\ rcur' \notin rq'
    BY <1>6, <2>1 DEF ReconciledExists
  <2>4. rpc' \in FenceSteps => crec'[rcur'].mutationStarted /\ (mayFail(rcur))'
    BY <1>6, <2>1 DEF ReconciledExists, RecordKept, mayFail
  <2>5. FenceSteps' = FenceSteps
    BY DEF FenceSteps, ForwardSteps
  <2>. QED BY <1>4, <2>2, <2>3, <2>4, <2>5 DEF ReconciledExists
<1>. QED BY <1>4, <1>5, <1>6 DEF RunKept

(***************************************************************************)
(* Taking a recovery from the queue.                                       *)
(***************************************************************************)
\* A reconcile begins, from the cached copy, for a recovery that exists.
Begins(r) ==
  /\ UNCHANGED <<rec, crec>>
  /\ crec[r].phase = "live" /\ crec[r].finalizer
  /\ rcur' = r /\ rq' = rq \ {r} /\ rpc' # "idle"
  /\ rdel' \/ rpc' \in {"cancel", "removeFinalizer"} => crec[r].deleting
  /\ rpc' \in FenceSteps =>
       crec[r].mutationStarted /\ (recoveryIsFailed(crec[r]) => crec[r].deleting)
  /\ rpc' \notin FenceSteps => recoveryIsComplete(crec[r]) \/ ~crec[r].mutationStarted
  /\ rpc' \in {"readRelease", "cancel", "removeFinalizer", "preflight", "winner", "mark", "finalize"}

\* Or it returns at once.
Skips == RecordsKept /\ UNCHANGED rVars /\ rq' \subseteq rq

LEMMA TakeSkipsOrBegins ==
  ASSUME RecoveryCopiesInvariant, NEW r \in Recoveries, RTake(r)
  PROVE  rpc = "idle" /\ r \in rq /\ (Begins(r) \/ Skips)
<1>. USE DEF RecoveryCopiesInvariant
<1>0. UNCHANGED <<rec, crec>> => RecordsKept
  BY SameRecords
<1>1. rec \in [Recoveries -> Recovery] /\ rec[r] \in Recovery
  BY DEF StartInvariant, TypeOK, StateTypeOK
<1>2. ASSUME R_Reconcile(r) PROVE Begins(r) \/ Skips
  <2>1. CASE RSkip(r, FALSE) /\ UNCHANGED rec
    BY <1>0, <1>1, <1>2, <2>1 DEF R_Reconcile, RSkip, Skips
  <2>2. CASE /\ RSkip(r, TRUE)
             /\ rec' = IF crec[r] = rec[r] THEN [rec EXCEPT ![r].finalizer = TRUE] ELSE rec
    <3>1. UNCHANGED crec
      BY <1>2 DEF R_Reconcile
    <3>2. CASE UNCHANGED rec
      BY <1>0, <1>1, <2>2, <3>1, <3>2 DEF RSkip, Skips
    <3>3. CASE rec' = [rec EXCEPT ![r].finalizer = TRUE]
      <4>1. /\ rec'[r].phase = rec[r].phase /\ rec'[r].deleting = rec[r].deleting
            /\ rec'[r].source = rec[r].source /\ rec'[r].target = rec[r].target
            /\ rec'[r].finalizer /\ rec'[r].outcome = rec[r].outcome
            /\ rec'[r].mutationStarted = rec[r].mutationStarted
            /\ rec'[r].commitVerified = rec[r].commitVerified
        BY <1>1, <3>3 DEF Recovery
      <4>2. RecordKept(r)
        BY <4>1 DEF RecordKept, RecoveryCopies, recoveryIsFailed, recoveryIsComplete
      <4>3. \A x \in Recoveries \ {r} : rec'[x] = rec[x]
        BY <1>1, <3>3
      <4>4. RecordsKept
        BY <3>1, <4>2, <4>3, SameRecord DEF RecordsKept
      <4>. QED BY <2>2, <4>4 DEF RSkip, Skips
    <3>. QED BY <2>2, <3>2, <3>3
  <2>3. CASE /\ crec[r].phase = "live" /\ crec[r].finalizer /\ ~crec[r].deleting
             /\ recoveryIsComplete(crec[r]) /\ UNCHANGED rec
             /\ RBegin(r, "readRelease", FALSE, "RecoveryCompleted")
    BY <1>2, <2>3 DEF R_Reconcile, RBegin, Begins, FenceSteps, ForwardSteps
  <2>. QED BY <1>2, <2>1, <2>2, <2>3 DEF R_Reconcile
<1>3. ASSUME R_ReconcileForward(r) PROVE Begins(r) \/ Skips
  <2>. DEFINE pc == CASE crec[r].commitVerified -> "finalize"
                      [] ~crec[r].commitVerified /\ crec[r].plan = 0 -> "preflight"
                      [] ~crec[r].commitVerified /\ crec[r].plan # 0 /\ ~crec[r].mutationStarted
                           -> "winner"
                      [] OTHER -> "mark"
  <2>1. /\ crec[r].phase = "live" /\ crec[r].finalizer /\ UNCHANGED crec
        /\ IF crec[r].deleting THEN crec[r].mutationStarted /\ ~recoveryIsComplete(crec[r])
                               ELSE ~recoveryIsTerminal(crec[r])
    BY <1>3 DEF R_ReconcileForward
  <2>2. CASE \E b : setOutcome(r, "Blocked") /\ RSkip(r, b)
    <3>1. RecordsKept
      BY <2>1, <2>2, OutcomeRecords
    <3>. QED BY <2>2, <3>1 DEF RSkip, Skips
  <2>3. CASE \E b : ~crec[r].mutationStarted /\ setOutcome(r, "Failed") /\ RSkip(r, b)
    <3>1. RecordsKept
      BY <2>1, <2>3, OutcomeRecords
    <3>. QED BY <2>3, <3>1 DEF RSkip, Skips
  <2>4. CASE /\ crec[r].plan # 0 \/ ~(crec[r].mutationStarted \/ crec[r].commitVerified)
             /\ UNCHANGED rec /\ RBegin(r, pc, crec[r].deleting, "RecoveryCompleted")
    <3>1. pc \in {"finalize", "preflight", "winner", "mark"}
      OBVIOUS
    <3>2. pc \in {"finalize", "mark"} => crec[r].mutationStarted
      BY DEF RecoveryCopies
    <3>3. /\ rcur' = r /\ rq' = rq \ {r} /\ rpc' = pc /\ rdel' = crec[r].deleting
      BY <2>4 DEF RBegin
    <3>4. recoveryIsFailed(crec[r]) => crec[r].deleting
      BY <2>1 DEF recoveryIsTerminal
    <3>5. pc \in {"preflight", "winner"} => ~crec[r].mutationStarted
      BY <2>4
    <3>. HIDE DEF pc
    <3>. QED BY <2>1, <2>4, <3>1, <3>2, <3>3, <3>4, <3>5 DEF Begins, FenceSteps, ForwardSteps
  <2>. QED BY <1>3, <2>2, <2>3, <2>4 DEF R_ReconcileForward
<1>4. ASSUME R_ReconcileDelete(r) PROVE Begins(r)
  BY <1>4 DEF R_ReconcileDelete, RBegin, Begins, FenceSteps, ForwardSteps
<1>5. rpc = "idle" /\ r \in rq
  BY DEF RTake, R_Reconcile, R_ReconcileForward, R_ReconcileDelete
<1>. QED BY <1>2, <1>3, <1>4, <1>5 DEF RTake

LEMMA TakeRecords ==
  ASSUME RecoveryCopiesInvariant, TypeOK', NEW r \in Recoveries, RTake(r)
  PROVE  RecoveryCopies' /\ ReconciledExists'
<1>. USE DEF RecoveryCopiesInvariant
<1>0. rpc = "idle" /\ r \in rq /\ (Begins(r) \/ Skips)
  BY TakeSkipsOrBegins
<1>1. CASE Skips
  <2>1. \A x \in Recoveries : RecordKept(x) /\ crec'[x] = crec[x]
    BY <1>1 DEF Skips, RecordsKept
  <2>2. rq' \subseteq rq /\ rpc' = "idle"
    BY <1>0, <1>1 DEF Skips, rVars
  <2>3. RecoveryCopies'
    BY <1>0, <2>1, <2>2 DEF RecoveryCopies, RecordKept
  <2>. QED BY <2>2, <2>3 DEF ReconciledExists, FenceSteps, ForwardSteps
<1>2. CASE Begins(r)
  <2>1. RecoveryCopies'
    BY <1>2 DEF Begins, RecoveryCopies
  <2>2. rec[r].phase \in {"new", "live", "gone"}
    BY DEF StartInvariant, TypeOK, StateTypeOK, Recovery
  <2>3. live(r) /\ rec[r].finalizer
    BY <1>0, <1>2, <2>2 DEF Begins, RecoveryCopies, StartInvariant, ForwardOnly, live
  <2>4. rpc' \in FenceSteps => crec[r].mutationStarted /\ mayFail(r)
    BY <1>2 DEF Begins, RecoveryCopies, mayFail
  <2>5. /\ crec'[rcur'] = crec[r] /\ rec'[rcur'] = rec[r] /\ rcur' \notin rq'
        /\ FenceSteps' = FenceSteps
    BY <1>2 DEF Begins, FenceSteps, ForwardSteps
  <2>6. ReconciledExists'
    BY <1>2, <2>3, <2>4, <2>5 DEF Begins, ReconciledExists, mayFail, live
  <2>. QED BY <2>1, <2>6
<1>. QED BY <1>0, <1>1, <1>2

(***************************************************************************)
(* The end of a recovery.                                                  *)
(***************************************************************************)
LEMMA RemoveRecords ==
  ASSUME RecoveryCopiesInvariant, TypeOK', R_RemoveFinalizer
  PROVE  RecoveryCopies' /\ ReconciledExists'
<1>. USE DEF RecoveryCopiesInvariant
<1>1. /\ rpc = "removeFinalizer" /\ rcur \in Recoveries /\ UNCHANGED crec /\ rpc' = "idle"
      /\ rec \in [Recoveries -> Recovery]
  BY DEF R_RemoveFinalizer, RReturn, StartInvariant, TypeOK, StateTypeOK, RTypeOK
<1>2. live(rcur) /\ crec[rcur].deleting /\ rcur \notin rq
  BY <1>1 DEF ReconciledExists
<1>3. ReconciledExists'
  BY <1>1 DEF ReconciledExists, FenceSteps, ForwardSteps
<1>4. CASE UNCHANGED rec
  <2>1. rq' \subseteq rq \cup {rcur}
    BY DEF R_RemoveFinalizer, RReturn
  <2>. QED BY <1>1, <1>2, <1>3, <1>4, <2>1 DEF RecoveryCopies, live
<1>5. CASE /\ rec' = [rec EXCEPT ![rcur] = [@ EXCEPT !.phase = "gone", !.finalizer = FALSE]]
           /\ RReturn(FALSE)
  <2>1. rec'[rcur] = [rec[rcur] EXCEPT !.phase = "gone", !.finalizer = FALSE]
    BY <1>1, <1>5
  <2>2. /\ rec'[rcur].phase = "gone" /\ rec'[rcur].deleting = rec[rcur].deleting
        /\ rec'[rcur].mutationStarted = rec[rcur].mutationStarted
        /\ rec'[rcur].commitVerified = rec[rcur].commitVerified
        /\ rec'[rcur].outcome = rec[rcur].outcome
    BY <1>1, <2>1 DEF Recovery
  <2>3. \A x \in Recoveries \ {rcur} : rec'[x] = rec[x]
    BY <1>1, <1>5
  <2>4. rq' = rq
    BY <1>5 DEF RReturn
  <2>5. RecoveryCopies'
    BY <1>1, <1>2, <2>2, <2>3, <2>4 DEF RecoveryCopies, recoveryIsFailed
  <2>. QED BY <1>3, <2>5
<1>. QED BY <1>4, <1>5 DEF R_RemoveFinalizer

(***************************************************************************)
(* Steps of the recovery controller.                                       *)
(***************************************************************************)
\* The owners it writes or reads were given out.
LEMMA RunOwners ==
  ASSUME IdentityCopies, RecoveryCopiesInvariant, RController
  PROVE  /\ UNCHANGED <<cwi, lastUid, wpc, wid, wout, csa>>
         /\ sa'.owner <= lastUid /\ uami'.owner <= lastUid /\ ruami'.owner <= lastUid
<1>. USE DEF RecoveryCopiesInvariant
<1>0. /\ uami.owner <= lastUid /\ ruami.owner <= lastUid /\ sa.owner <= lastUid
      /\ NoUami.owner <= lastUid
  BY UIDNumbers DEF IdentityCopies, UIDsAreGivenOut, NoUami, StartInvariant
<1>1. UNCHANGED wVars
  BY DEF RController
<1>2. rpc # "idle" => tgt <= lastUid
  BY DEF IdentityCopies, UIDsAreGivenOut, StartInvariant, ForwardOnly, TypeOK, RTypeOK, tgt
<1>. USE <1>0 DEF wVars
<1>3. CASE R_Preflight \/ R_SavePlan \/ R_SaveStarted \/ R_SaveCommit \/ R_Winner \/ R_SaveComplete
  BY <1>1, <1>3 DEF R_Preflight, R_SavePlan, R_SaveStarted, R_SaveCommit, R_Winner,
                    R_SaveComplete, block, fail, saveStatus, RReturn, RGoto
<1>4. CASE R_ReadTarget \/ R_LockTarget \/ R_Cancel \/ R_ReadRelease \/ R_Release \/ R_Error
  BY <1>1, <1>4 DEF R_ReadTarget, R_LockTarget, R_Cancel, R_ReadRelease, R_Release, R_Error,
                    afterRelease, RGotoPatch, RReturn, RGoto
<1>5. CASE R_Mark \/ R_Commit \/ R_Finalize
  BY <1>1, <1>5 DEF R_Mark, R_Commit, R_Finalize, block, RReturn, RGoto
<1>6. CASE R_EnsureFederatedIdentityCredential \/ R_CommitCheck \/ R_CommitVerify \/ R_FinalizeVerify
  BY <1>1, <1>6 DEF R_EnsureFederatedIdentityCredential, R_CommitCheck, R_CommitVerify,
                    R_FinalizeVerify, block, RReturn, RGoto
<1>7. CASE R_TransferServiceAccount
  <2>1. rpc # "idle" /\ sa \in ServiceAccount
    BY <1>7 DEF R_TransferServiceAccount, StartInvariant, TypeOK, StateTypeOK
  <2>2. sa' \in {sa, [sa EXCEPT !.owner = tgt, !.annotated = TRUE]}
    BY <1>7 DEF R_TransferServiceAccount
  <2>3. sa'.owner \in {sa.owner, tgt}
    BY <2>1, <2>2 DEF ServiceAccount
  <2>4. UNCHANGED <<cwi, lastUid, csa, uami>> /\ ruami' \in {ruami, NoUami}
    BY <1>7 DEF R_TransferServiceAccount, block, RReturn
  <2>. QED BY <1>1, <1>2, <2>1, <2>3, <2>4
<1>8. CASE R_MarkCall \/ R_CommitCall \/ R_FinalizeCall
  <2>1. rpc # "idle" /\ ruami \in Uami
    BY <1>8 DEF R_MarkCall, R_CommitCall, R_FinalizeCall, StartInvariant, TypeOK, RTypeOK
  <2>2. uami' \in {uami, updateRecoveryTags(uami, fencedTags(ruami, rcur, tgt)),
                   updateRecoveryTags(uami, committedTags(ruami, rcur, tgt)),
                   updateRecoveryTags(uami, finalizedTags(ruami))}
    BY <1>8 DEF R_MarkCall, R_CommitCall, R_FinalizeCall
  <2>3. uami'.owner \in {uami.owner, ruami.owner, tgt}
    BY <2>1, <2>2 DEF updateRecoveryTags, fencedTags, committedTags, finalizedTags, Uami
  <2>4. UNCHANGED <<cwi, lastUid, csa, sa>> /\ ruami' \in {ruami, NoUami}
    BY <1>8 DEF R_MarkCall, R_CommitCall, R_FinalizeCall, RReturn, RGoto
  <2>. QED BY <1>1, <1>2, <2>1, <2>3, <2>4
<1>9. CASE R_RemoveFinalizer
  BY <1>1, <1>9 DEF R_RemoveFinalizer, RReturn
<1>10. ASSUME NEW r \in Recoveries, RTake(r)
       PROVE  UNCHANGED <<cwi, lastUid, csa, sa, uami, ruami>>
  BY <1>10 DEF RTake, R_Reconcile, R_ReconcileForward, R_ReconcileDelete, RBegin, RSkip, rVars
<1>. QED BY <1>1, <1>3, <1>4, <1>5, <1>6, <1>7, <1>8, <1>9, <1>10 DEF RController, RStep

LEMMA RControllerCopies ==
  ASSUME CopiesInvariant, TypeOK', RController
  PROVE  IdentityCopies' /\ RecoveryCopies' /\ ReconciledExists'
<1>. USE DEF CopiesInvariant, RecoveryCopiesInvariant
<1>0. /\ UNCHANGED <<cwi, lastUid, wpc, wid, wout, csa>>
      /\ sa'.owner <= lastUid /\ csa'.owner <= lastUid
      /\ uami'.owner <= lastUid /\ ruami'.owner <= lastUid
      /\ TypeOK
  BY RunOwners DEF IdentityCopies, UIDsAreGivenOut, StartInvariant
<1>1. RecordsKept => SpecsKept
  BY DEF RecordsKept, RecordKept, SpecsKept
<1>2. CASE RunStep
  <2>1. rpc # "idle" /\ RecordsKept /\ RunKept
    <3>1. rpc # "idle"
      BY <1>2 DEF RunStep, QuietStep, R_Winner, R_SaveStarted, R_SaveCommit, R_Preflight,
           R_SavePlan, R_ReadTarget, R_LockTarget, R_Mark, R_MarkCall,
           R_EnsureFederatedIdentityCredential, R_TransferServiceAccount, R_CommitCheck,
           R_Commit, R_CommitCall, R_CommitVerify, R_Finalize, R_FinalizeCall,
           R_FinalizeVerify, R_SaveComplete, R_Cancel, R_ReadRelease, R_Release, R_Error
    <3>. QED BY <1>2, <3>1, RunRecords
  <2>2. RecoveryCopies' /\ ReconciledExists'
    BY <2>1, KeptRecords
  <2>3. CASE R_LockTarget \/ R_Release
    <3>1. CASE UNCHANGED wi /\ rpc' = "idle"
      BY <1>0, <1>1, <2>1, <2>2, <3>1, OtherCopies
    <3>2. ASSUME NEW reason, wi.uid # 0, setTargetReason(reason),
                 reason \in ReleaseReasons \/ wi.ready \notin ReleaseReasons
          PROVE  IdentityCopies'
      <4>1. rpc' \notin {"lockTarget", "release"} /\ UNCHANGED <<sa, uami, rec>>
        BY <2>3 DEF R_LockTarget, R_Release, afterRelease, RGoto, RReturn
      <4>. QED BY <1>0, <3>2, <4>1, ConditionCopies
    <3>3. CASE R_LockTarget
      <4>1. \/ UNCHANGED wi /\ rpc' = "idle"
            \/ wi.uid # 0 /\ setTargetReason("RecoveryInProgress")
        BY <3>3 DEF R_LockTarget, RReturn
      <4>2. wi.ready \notin ReleaseReasons
        BY <3>3 DEF R_LockTarget, IdentityCopies, EndIsReported
      <4>. QED BY <2>2, <3>1, <3>2, <4>1, <4>2
    <3>4. CASE R_Release
      <4>1. \/ UNCHANGED wi /\ rpc' = "idle"
            \/ wi.uid # 0 /\ setTargetReason(rreason)
        BY <3>4 DEF R_Release, RReturn
      <4>2. rreason \in ReleaseReasons
        BY <1>0 DEF TypeOK, RTypeOK
      <4>. QED BY <2>2, <3>1, <3>2, <4>1, <4>2
    <3>. QED BY <2>3, <3>3, <3>4
  <2>4. CASE UNCHANGED wi
    <3>1. rpc' \in {"lockTarget", "release"} => rpc = rpc' \/ wi.ready \notin ReleaseReasons
      BY <2>1 DEF RunKept
    <3>. QED BY <1>0, <1>1, <2>1, <2>2, <2>4, <3>1, OtherCopies
  <2>5. R_LockTarget \/ R_Release \/ UNCHANGED wi
    BY <1>2 DEF RunStep, QuietStep, R_Winner, R_SaveStarted, R_SaveCommit, R_Preflight,
           R_SavePlan, R_ReadTarget, R_Mark, R_MarkCall,
           R_EnsureFederatedIdentityCredential, R_TransferServiceAccount, R_CommitCheck,
           R_Commit, R_CommitCall, R_CommitVerify, R_Finalize, R_FinalizeCall,
           R_FinalizeVerify, R_SaveComplete, R_Cancel, R_ReadRelease, R_Error
  <2>. QED BY <2>2, <2>3, <2>4, <2>5
<1>3. CASE R_RemoveFinalizer
  <2>1. UNCHANGED wi /\ rpc' = "idle" /\ rpc = "removeFinalizer"
    BY <1>3 DEF R_RemoveFinalizer, RReturn
  <2>2. SpecsKept
    <3>1. rcur \in Recoveries /\ rec \in [Recoveries -> Recovery] /\ live(rcur)
      BY <1>0, <2>1 DEF TypeOK, StateTypeOK, RTypeOK, ReconciledExists
    <3>2. CASE rec' = [rec EXCEPT ![rcur] = [@ EXCEPT !.phase = "gone", !.finalizer = FALSE]]
      <4>1. rec'[rcur] = [rec[rcur] EXCEPT !.phase = "gone", !.finalizer = FALSE]
        BY <3>1, <3>2
      <4>2. rec'[rcur].source = rec[rcur].source /\ rec'[rcur].target = rec[rcur].target
        BY <3>1, <4>1 DEF Recovery
      <4>3. \A x \in Recoveries \ {rcur} : rec'[x] = rec[x]
        BY <3>1, <3>2
      <4>. QED BY <3>1, <4>2, <4>3 DEF SpecsKept, live
    <3>. QED BY <1>3, <3>2 DEF R_RemoveFinalizer, SpecsKept
  <2>. QED BY <1>0, <1>3, <2>1, <2>2, RemoveRecords, OtherCopies
<1>4. ASSUME NEW r \in Recoveries, RTake(r)
      PROVE  IdentityCopies' /\ RecoveryCopies' /\ ReconciledExists'
  <2>1. UNCHANGED wi
    BY <1>4 DEF RTake, R_Reconcile, R_ReconcileForward, R_ReconcileDelete
  <2>2. rpc = "idle" /\ (Begins(r) \/ Skips)
    BY <1>4, TakeSkipsOrBegins
  <2>3. SpecsKept
    BY <1>1, <2>2 DEF Begins, Skips, SpecsKept
  <2>4. rpc' \notin {"lockTarget", "release"}
    BY <2>2 DEF Begins, Skips, rVars
  <2>. QED BY <1>0, <1>4, <2>1, <2>3, <2>4, TakeRecords, OtherCopies
<1>. QED BY <1>2, <1>3, <1>4 DEF RController, RStep, RunStep, QuietStep

(***************************************************************************)
(* Users, the environment and the informer.                                *)
(***************************************************************************)
\* The recoveries and the worker stay; only recoveries that may go on are queued.
LEMMA OtherRecords ==
  ASSUME CopiesInvariant, TypeOK', UNCHANGED <<rec, crec, rpc, rcur, rdel>>,
         rq' \subseteq rq \cup recoveriesForWorkloadIdentity
  PROVE  RecoveryCopies' /\ ReconciledExists'
<1>. USE DEF CopiesInvariant, recoveriesForWorkloadIdentity
<1>1. RecoveryCopies'
  BY DEF RecoveryCopies, recoveryIsFailed
<1>2. rpc # "idle" => rcur \in Recoveries
  BY DEF StartInvariant, TypeOK, RTypeOK
<1>3. ReconciledExists'
  BY <1>2 DEF ReconciledExists, FenceSteps, ForwardSteps, mayFail, live
<1>. QED BY <1>1, <1>3

LEMMA CreateIdentityCopies ==
  ASSUME CopiesInvariant, TypeOK', NEW policy \in Policies, CreateWorkloadIdentity(policy)
  PROVE  IdentityCopies'
<1>. USE DEF CopiesInvariant, IdentityCopies
<1>0. TypeOK /\ UNCHANGED <<cwi, sa, csa, uami, rec, rpc, ruami, wpc, wid, wout>>
  BY DEF CreateWorkloadIdentity, wVars, rVars, StartInvariant
<1>1. /\ wi'.uid = lastUid + 1 /\ wi'.previousUid = 0 /\ ~wi'.finalizer /\ wi'.ready = "None"
      /\ lastUid' = lastUid + 1 /\ lastUid \in Nat
  BY <1>0, UIDNumbers DEF CreateWorkloadIdentity, NoWI
<1>2. UIDsAreGivenOut'
  <2>1. /\ \A id \in {wi, cwi, wid, wout} : id.uid \in Nat /\ id.previousUid \in Nat
        /\ sa.owner \in Nat /\ csa.owner \in Nat /\ uami.owner \in Nat /\ ruami.owner \in Nat
    BY <1>0, UIDNumbers, IdentityFields
  <2>2. \A r \in Recoveries : rec[r].target \in Nat
    BY <1>0, UIDNumbers DEF TypeOK, StateTypeOK, Recovery
  <2>. QED BY <1>0, <1>1, <2>1, <2>2 DEF UIDsAreGivenOut, GivenOut
<1>3. \A id \in {cwi, wid, wout} : id.uid # wi'.uid
  BY <1>0, <1>1, UIDNumbers, IdentityFields DEF UIDsAreGivenOut, GivenOut
<1>4. wi.uid = 0 /\ ~wi.finalizer
  BY EmptyIdentity DEF CreateWorkloadIdentity, UIDsAreGivenOut
<1>5. IdentityCopiesAreBehind'
  BY <1>0, <1>3 DEF IdentityCopiesAreBehind, NotAhead
<1>6. FinalizerKeepsIdentity'
  BY <1>0, <1>1, <1>3, <1>4
     DEF FinalizerKeepsIdentity, EnsureSteps, DeleteSteps,
         workloadIdentityRecoveryIsInProgress, recoveryReasonIs
<1>7. StatusIsDerived' /\ EndIsReported'
  BY <1>0, <1>1, <1>3 DEF StatusIsDerived, EndIsReported, ReleaseReasons
<1>. QED BY <1>2, <1>5, <1>6, <1>7

\* The object is marked for deletion, or edited; or it goes, having no finalizer.
LEMMA ChangeIdentityCopies ==
  ASSUME CopiesInvariant, TypeOK', DeleteWorkloadIdentity \/ EditWorkloadIdentity
  PROVE  IdentityCopies'
<1>. USE DEF CopiesInvariant, IdentityCopies
<1>0. /\ TypeOK /\ UNCHANGED <<cwi, lastUid, sa, csa, uami, rec, rpc, ruami, wpc, wid, wout>>
      /\ wi.uid # 0 /\ wi \in WorkloadIdentity
  BY DEF DeleteWorkloadIdentity, EditWorkloadIdentity, wVars, rVars, StartInvariant,
         TypeOK, StateTypeOK
<1>1. CASE ~wi.finalizer /\ ~wi.deleting /\ wi' = NoWI
  <2>1. wpc \notin EnsureSteps
    BY <1>1 DEF FinalizerKeepsIdentity
  <2>2. UIDsAreGivenOut'
    BY <1>0, <1>1, EmptyIdentity, UIDNumbers DEF UIDsAreGivenOut, GivenOut
  <2>3. IdentityCopiesAreBehind'
    BY <1>0, <1>1, EmptyIdentity DEF IdentityCopiesAreBehind, NotAhead
  <2>4. cwi.uid = 0 => ~cwi.finalizer /\ ~cwi.deleting
    BY EmptyIdentity DEF UIDsAreGivenOut
  <2>5. wid.uid = 0 => ~wid.finalizer /\ ~wid.deleting
    BY EmptyIdentity DEF FinalizerKeepsIdentity
  <2>6. FinalizerKeepsIdentity'
    BY <1>0, <1>1, <2>1, <2>4, <2>5, EmptyIdentity
       DEF FinalizerKeepsIdentity, EnsureSteps, DeleteSteps,
           workloadIdentityRecoveryIsInProgress, recoveryReasonIs
  <2>7. StatusIsDerived' /\ EndIsReported'
    BY <1>0, <1>1, <2>4, <2>5, EmptyIdentity DEF StatusIsDerived, EndIsReported
  <2>. QED BY <2>2, <2>3, <2>6, <2>7
<1>2. CASE /\ wi'.uid = wi.uid /\ wi'.generation = wi.generation + 1
           /\ (wi.deleting => wi'.deleting)
           /\ wi'.finalizer = wi.finalizer /\ wi'.ready = wi.ready
           /\ wi'.previousUid = wi.previousUid
  <2>1. UIDsAreGivenOut'
    BY <1>0, <1>2 DEF UIDsAreGivenOut, GivenOut
  <2>2. IdentityCopiesAreBehind'
    BY <1>0, <1>2, UIDNumbers, IdentityFields DEF IdentityCopiesAreBehind, NotAhead
  <2>3. FinalizerKeepsIdentity'
    BY <1>0, <1>2
       DEF FinalizerKeepsIdentity, EnsureSteps, DeleteSteps,
           workloadIdentityRecoveryIsInProgress, recoveryReasonIs
  <2>4. StatusIsDerived' /\ EndIsReported'
    BY <1>0, <1>2 DEF StatusIsDerived, EndIsReported
  <2>. QED BY <2>1, <2>2, <2>3, <2>4
<1>3. CASE /\ wi.finalizer /\ ~wi.deleting
           /\ wi' = [wi EXCEPT !.deleting = TRUE, !.generation = @ + 1]
  BY <1>0, <1>2, <1>3 DEF WorkloadIdentity
<1>4. CASE wi' = [wi EXCEPT !.policy = IF @ = "Retain" THEN "Delete" ELSE "Retain",
                            !.generation = @ + 1]
  BY <1>0, <1>2, <1>4 DEF WorkloadIdentity
<1>. QED BY <1>1, <1>3, <1>4 DEF DeleteWorkloadIdentity, EditWorkloadIdentity

\* A recovery is created for a target that is there, and a source before it.
LEMMA CreateRecoveryCopies ==
  ASSUME CopiesInvariant, TypeOK', NEW r \in Recoveries, CreateRecovery(r)
  PROVE  IdentityCopies' /\ RecoveryCopies' /\ ReconciledExists'
<1>. USE DEF CopiesInvariant
<1>0. /\ TypeOK /\ rec \in [Recoveries -> Recovery] /\ rec[r].phase = "new"
      /\ UNCHANGED <<wi, cwi, crec, lastUid, sa, csa, uami, rq>>
      /\ UNCHANGED <<wpc, wid, wout, rpc, rcur, rdel, ruami>>
  BY DEF CreateRecovery, wVars, rVars, StartInvariant, TypeOK, StateTypeOK
<1>1. PICK source \in UIDs, target \in UIDs :
        /\ ValidateCreate(source, target)
        /\ rec' = [rec EXCEPT ![r] = [NewRecovery EXCEPT !.phase = "live",
                                        !.source = source, !.target = target]]
  BY DEF CreateRecovery
<1>2. rec'[r] = [NewRecovery EXCEPT !.phase = "live", !.source = source, !.target = target]
  BY <1>0, <1>1
<1>3. /\ rec'[r].phase = "live" /\ rec'[r].source = source /\ rec'[r].target = target
      /\ ~rec'[r].deleting /\ ~rec'[r].mutationStarted /\ ~rec'[r].commitVerified
      /\ rec'[r].outcome = "None"
  BY <1>2 DEF NewRecovery
<1>4. \A x \in Recoveries \ {r} : rec'[x] = rec[x]
  BY <1>0, <1>1
<1>5. 0 < source /\ source < target /\ target <= lastUid
  <2>1. source \in Nat /\ 0 < source /\ target \in Nat /\ lastUid \in Nat
    BY <1>0, UIDNumbers, MaxUIDAssumption DEF UIDs
  <2>2. source # target /\ wi.uid = target /\ source = wi.previousUid
    BY <1>1 DEF ValidateCreate
  <2>3. wi.uid \in {0, lastUid} /\ wi.previousUid <= lastUid /\ (wi.uid = 0 => wi = NoWI)
    BY DEF IdentityCopies, UIDsAreGivenOut, GivenOut
  <2>. QED BY <2>1, <2>2, <2>3, EmptyIdentity
<1>6. IdentityCopies'
  <2>1. UIDsAreGivenOut'
    BY <1>0, <1>3, <1>4, <1>5 DEF IdentityCopies, UIDsAreGivenOut, GivenOut
  <2>2. IdentityCopiesAreBehind' /\ StatusIsDerived' /\ EndIsReported'
    BY <1>0 DEF IdentityCopies, IdentityCopiesAreBehind, NotAhead, StatusIsDerived, EndIsReported
  <2>3. FinalizerKeepsIdentity'
    BY <1>0 DEF IdentityCopies, FinalizerKeepsIdentity, EnsureSteps, DeleteSteps,
                workloadIdentityRecoveryIsInProgress, recoveryReasonIs
  <2>. QED BY <2>1, <2>2, <2>3 DEF IdentityCopies
<1>7. crec[r] = NewRecovery
  BY <1>0 DEF StartInvariant, ForwardOnly, RecoveryCopies, TypeOK, StateTypeOK, Recovery
<1>8. ~crec[r].deleting /\ ~crec[r].finalizer /\ ~crec[r].mutationStarted /\ crec[r].phase = "new"
      /\ ~crec[r].commitVerified
  BY <1>7 DEF NewRecovery
<1>9. RecoveryCopies'
  BY <1>0, <1>3, <1>4, <1>7, <1>8 DEF RecoveryCopies, recoveryIsFailed
<1>10. rpc # "idle" => rcur \in Recoveries \ {r}
  BY <1>0 DEF TypeOK, RTypeOK, ReconciledExists, live
<1>11. ReconciledExists'
  BY <1>0, <1>4, <1>10 DEF ReconciledExists, FenceSteps, ForwardSteps, mayFail, live
<1>. QED BY <1>6, <1>9, <1>11

\* A user deletes a recovery: with a finalizer it stays.
LEMMA DeleteRecoveryCopies ==
  ASSUME CopiesInvariant, TypeOK', NEW r \in Recoveries, DeleteRecovery(r)
  PROVE  IdentityCopies' /\ RecoveryCopies' /\ ReconciledExists'
<1>. USE DEF CopiesInvariant
<1>0. /\ TypeOK /\ rec \in [Recoveries -> Recovery] /\ rec[r].phase = "live"
      /\ UNCHANGED <<wi, cwi, crec, lastUid, sa, csa, uami, rq>>
      /\ UNCHANGED <<wpc, wid, wout, rpc, rcur, rdel, ruami>>
  BY DEF DeleteRecovery, live, wVars, rVars, StartInvariant, TypeOK, StateTypeOK
<1>1. rec'[r] = IF rec[r].finalizer THEN [rec[r] EXCEPT !.deleting = TRUE]
                                    ELSE [rec[r] EXCEPT !.phase = "gone"]
  BY <1>0 DEF DeleteRecovery
<1>2. /\ rec'[r].source = rec[r].source /\ rec'[r].target = rec[r].target
      /\ rec'[r].finalizer = rec[r].finalizer /\ rec'[r].outcome = rec[r].outcome
      /\ rec'[r].mutationStarted = rec[r].mutationStarted
      /\ rec'[r].commitVerified = rec[r].commitVerified
      /\ rec[r].finalizer => rec'[r].phase = "live" /\ rec'[r].deleting
      /\ ~rec[r].finalizer => rec'[r].phase = "gone" /\ rec'[r].deleting = rec[r].deleting
  BY <1>0, <1>1 DEF Recovery
<1>3. \A x \in Recoveries \ {r} : rec'[x] = rec[x]
  BY <1>0 DEF DeleteRecovery
<1>4. SpecsKept
  BY <1>0, <1>2, <1>3 DEF SpecsKept
<1>5. IdentityCopies'
  BY <1>0, <1>4, OtherCopies DEF IdentityCopies, UIDsAreGivenOut
<1>6. RecoveryCopies'
  BY <1>0, <1>2, <1>3 DEF RecoveryCopies, recoveryIsFailed
<1>7. ReconciledExists'
  <2>1. rpc # "idle" => rcur \in Recoveries /\ rec[rcur].finalizer /\ rec[rcur].phase = "live"
    BY <1>0 DEF TypeOK, RTypeOK, ReconciledExists, live
  <2>. QED BY <1>0, <1>2, <1>3, <2>1
           DEF ReconciledExists, FenceSteps, ForwardSteps, mayFail, live, recoveryIsFailed
<1>. QED BY <1>5, <1>6, <1>7

\* The informer takes over the object as it is.
LEMMA SyncIdentityCopies ==
  ASSUME CopiesInvariant, TypeOK', cwi' = wi,
         UNCHANGED <<wi, lastUid, sa, csa, uami, rec, rpc, ruami, wpc, wid, wout>>
  PROVE  IdentityCopies'
<1>. USE DEF CopiesInvariant, IdentityCopies
<1>0. TypeOK
  BY DEF StartInvariant
<1>1. UIDsAreGivenOut'
  BY <1>0 DEF UIDsAreGivenOut, GivenOut
<1>2. wpc # "idle" /\ wid.uid = wi.uid => cwi.uid = wi.uid
  <2>1. wpc # "idle" => wpc \in EnsureSteps \/ wpc \in DeleteSteps
    BY <1>0 DEF TypeOK, WTypeOK, WSteps, EnsureSteps, DeleteSteps
  <2>. QED BY <2>1 DEF FinalizerKeepsIdentity
<1>3. \A id \in {wi, cwi, wid} : id.generation \in Nat
  BY <1>0, UIDNumbers, IdentityFields
<1>4. wpc # "idle" => NotAhead(wid, wi)
  BY <1>2, <1>3 DEF IdentityCopiesAreBehind, NotAhead
<1>5. IdentityCopiesAreBehind'
  BY <1>3, <1>4 DEF IdentityCopiesAreBehind, NotAhead
<1>6. FinalizerKeepsIdentity'
  BY DEF FinalizerKeepsIdentity, EnsureSteps, DeleteSteps,
         workloadIdentityRecoveryIsInProgress, recoveryReasonIs
<1>7. StatusIsDerived' /\ EndIsReported'
  BY DEF StatusIsDerived, EndIsReported
<1>. QED BY <1>1, <1>5, <1>6, <1>7

LEMMA SyncRecoveryCopies ==
  ASSUME CopiesInvariant, TypeOK', NEW r \in Recoveries, SyncRecovery(r)
  PROVE  IdentityCopies' /\ RecoveryCopies' /\ ReconciledExists'
<1>. USE DEF CopiesInvariant
<1>0. /\ TypeOK /\ crec \in [Recoveries -> Recovery] /\ crec' = [crec EXCEPT ![r] = rec[r]]
      /\ UNCHANGED <<wi, cwi, rec, lastUid, sa, csa, uami>>
      /\ UNCHANGED <<wpc, wid, wout, rpc, rcur, rdel, ruami>>
  BY DEF SyncRecovery, wVars, rVars, StartInvariant, TypeOK, StateTypeOK
<1>1. crec'[r] = rec[r] /\ \A x \in Recoveries \ {r} : crec'[x] = crec[x]
  BY <1>0
<1>2. rq' = IF crec[r].phase # rec[r].phase \/ (~crec[r].deleting /\ rec[r].deleting)
              THEN rq \cup {r} ELSE rq
  BY DEF SyncRecovery
<1>3. IdentityCopies'
  BY <1>0, OtherCopies DEF SpecsKept, IdentityCopies, UIDsAreGivenOut
<1>4. RecoveryCopies'
  BY <1>0, <1>1, <1>2 DEF RecoveryCopies, StartInvariant, ForwardOnly
<1>5. rpc # "idle" => rcur \in Recoveries
  BY <1>0 DEF TypeOK, RTypeOK
<1>6. CASE rcur # r
  <2>1. rpc # "idle" => crec'[rcur] = crec[rcur]
    BY <1>1, <1>5, <1>6
  <2>2. rcur \notin rq => rcur \notin rq'
    BY <1>2, <1>6
  <2>3. ReconciledExists'
    BY <1>0, <2>1, <2>2 DEF ReconciledExists, FenceSteps, ForwardSteps, mayFail, live
  <2>. QED BY <1>3, <1>4, <2>3
<1>7. CASE rcur = r
  <2>1. rpc # "idle" => rec[r].phase = "live" /\ crec[r].phase = "live" /\ rec[r].finalizer
    BY <1>7 DEF ReconciledExists, live
  <2>2. rpc # "idle" /\ crec[r].deleting => rec[r].deleting /\ rq' = rq
    BY <1>2, <2>1 DEF RecoveryCopies
  <2>3. rpc \in FenceSteps => rec[r].mutationStarted /\ (recoveryIsFailed(rec[r]) => rec[r].deleting)
    BY <1>7 DEF ReconciledExists, StartInvariant, ForwardOnly, mayFail
  <2>4. FenceSteps' = FenceSteps
    BY DEF FenceSteps, ForwardSteps
  <2>5. ReconciledExists'
    BY <1>0, <1>1, <1>7, <2>1, <2>2, <2>3, <2>4 DEF ReconciledExists, mayFail, live
  <2>. QED BY <1>3, <1>4, <2>5
<1>. QED BY <1>3, <1>4, <1>6, <1>7

\* After a restart every copy is fresh and no reconcile runs.
LEMMA RestartCopies ==
  ASSUME CopiesInvariant, TypeOK', Restart
  PROVE  IdentityCopies' /\ RecoveryCopies' /\ ReconciledExists'
<1>. USE DEF CopiesInvariant
<1>0. TypeOK /\ lastUid \in Nat
  BY UIDNumbers DEF StartInvariant
<1>1. /\ UNCHANGED <<wi, rec, sa, uami, lastUid>> /\ cwi' = wi /\ crec' = rec /\ csa' = sa
      /\ wpc' = "idle" /\ wid' = NoWI /\ wout' = NoWI
      /\ rpc' = "idle" /\ ruami' = NoUami /\ rq' = {r \in Recoveries : live(r)}
  BY DEF Restart
<1>2. UIDsAreGivenOut'
  BY <1>0, <1>1, EmptyIdentity DEF IdentityCopies, UIDsAreGivenOut, GivenOut, NoUami
<1>3. IdentityCopiesAreBehind'
  BY <1>0, <1>1, UIDNumbers, IdentityFields DEF IdentityCopiesAreBehind, NotAhead
<1>4. FinalizerKeepsIdentity'
  BY <1>1, EmptyIdentity DEF IdentityCopies, FinalizerKeepsIdentity, EnsureSteps, DeleteSteps
<1>5. StatusIsDerived' /\ EndIsReported'
  BY <1>1, EmptyIdentity DEF StatusIsDerived, EndIsReported
<1>6. RecoveryCopies'
  BY <1>1 DEF RecoveryCopies, StartInvariant, ForwardOnly, live
<1>7. ReconciledExists'
  BY <1>1 DEF ReconciledExists, FenceSteps, ForwardSteps
<1>. QED BY <1>2, <1>3, <1>4, <1>5, <1>6, <1>7 DEF IdentityCopies

(***************************************************************************)
(* Every step.                                                             *)
(***************************************************************************)
LEMMA NextCopies == CopiesInvariant /\ [Next]_vars => CopiesInvariant'
<1>. SUFFICES ASSUME CopiesInvariant, [Next]_vars PROVE CopiesInvariant'
  OBVIOUS
<1>. USE DEF CopiesInvariant
<1>0. TypeOK /\ TypeOK' /\ StartInvariant'
  BY NextStart DEF StartInvariant
<1>. DEFINE Kept == IdentityCopies' /\ RecoveryCopies' /\ ReconciledExists'
<1>1. ASSUME UNCHANGED <<wi, cwi, lastUid, wpc, wid, wout, uami, ruami, rec, crec>>,
             UNCHANGED <<rpc, rcur, rdel, rq>>,
             sa'.owner <= lastUid, csa'.owner <= lastUid
      PROVE  Kept
  <2>1. SpecsKept /\ rq' \subseteq rq \cup recoveriesForWorkloadIdentity
    BY <1>1 DEF SpecsKept
  <2>. QED BY <1>0, <1>1, <2>1, OtherCopies, OtherRecords
           DEF IdentityCopies, UIDsAreGivenOut
<1>2. sa.owner <= lastUid /\ csa.owner <= lastUid /\ 0 <= lastUid
  BY <1>0, UIDNumbers DEF IdentityCopies, UIDsAreGivenOut
<1>3. CASE UNCHANGED vars
  <2>1. /\ UNCHANGED <<wi, cwi, lastUid, wpc, wid, wout, uami, ruami, rec, crec>>
        /\ UNCHANGED <<rpc, rcur, rdel, rq>> /\ UNCHANGED <<sa, csa>>
    BY <1>3 DEF vars, stateVars, wVars, rVars
  <2>. QED BY <1>0, <1>1, <1>2, <2>1
<1>4. CASE WController
  <2>1. UNCHANGED <<rec, crec, rpc, rcur, rdel, rq>>
    BY <1>4 DEF WController, WStep, WFault, rVars, W_Reconcile, W_DetectRecovery,
                W_EnsureUserAssignedIdentity, W_CreateUserAssignedIdentity,
                W_EnsureFederatedIdentityCredential, W_EnsureServiceAccount, W_PatchStatus,
                W_ReconcileDelete, W_DeleteCheck, W_DeleteUserAssignedIdentity,
                W_DeleteServiceAccountIfOwned, W_RemoveFinalizer, W_EnsureError, W_OtherError
  <2>. QED BY <1>0, <1>4, <2>1, WControllerCopies, OtherRecords
<1>5. CASE RController
  BY <1>0, <1>5, RControllerCopies
<1>6. CASE Informer
  <2>1. CASE SyncWorkloadIdentity
    <3>1. /\ cwi' = wi /\ UNCHANGED <<rec, crec, rpc, rcur, rdel>>
          /\ UNCHANGED <<wi, lastUid, sa, csa, uami, ruami, wpc, wid, wout>>
          /\ rq' \subseteq rq \cup recoveriesForWorkloadIdentity
      BY <2>1 DEF SyncWorkloadIdentity, wVars, rVars
    <3>. QED BY <1>0, <3>1, SyncIdentityCopies, OtherRecords
  <2>2. CASE SyncServiceAccount
    <3>1. /\ UNCHANGED <<wi, cwi, lastUid, wpc, wid, wout, uami, ruami, rec, crec>>
          /\ UNCHANGED <<rpc, rcur, rdel, rq>> /\ UNCHANGED sa /\ csa' = sa
      BY <2>2 DEF SyncServiceAccount, wVars, rVars
    <3>. QED BY <1>0, <1>1, <1>2, <3>1
  <2>3. ASSUME NEW r \in Recoveries, SyncRecovery(r) PROVE Kept
    BY <1>0, <2>3, SyncRecoveryCopies
  <2>. QED BY <1>0, <1>6, <2>1, <2>2, <2>3 DEF Informer
<1>7. CASE Users
  <2>1. CASE \/ \E policy \in Policies : CreateWorkloadIdentity(policy)
             \/ DeleteWorkloadIdentity \/ EditWorkloadIdentity
    <3>1. UNCHANGED <<rec, crec, rpc, rcur, rdel, rq>>
      BY <2>1 DEF CreateWorkloadIdentity, DeleteWorkloadIdentity, EditWorkloadIdentity, rVars
    <3>. QED BY <1>0, <2>1, <3>1, CreateIdentityCopies, ChangeIdentityCopies, OtherRecords
  <2>2. CASE ChangeServiceAccount
    <3>1. sa'.owner = 0
      BY <2>2 DEF ChangeServiceAccount, NoSA, UserSA
    <3>2. /\ UNCHANGED <<wi, cwi, lastUid, wpc, wid, wout, uami, ruami, rec, crec>>
          /\ UNCHANGED <<rpc, rcur, rdel, rq>> /\ UNCHANGED csa
      BY <2>2 DEF ChangeServiceAccount, wVars, rVars
    <3>. QED BY <1>0, <1>1, <1>2, <3>1, <3>2
  <2>3. ASSUME NEW r \in Recoveries, CreateRecovery(r) \/ DeleteRecovery(r) PROVE Kept
    BY <1>0, <2>3, CreateRecoveryCopies, DeleteRecoveryCopies
  <2>. QED BY <1>0, <1>7, <2>1, <2>2, <2>3 DEF Users
<1>8. CASE Environment
  <2>1. CASE DriftCredential \/ IssuerLost \/ IssuerBecomesReady
    <3>1. /\ UNCHANGED <<wi, cwi, lastUid, wpc, wid, wout, uami, ruami, rec, crec>>
          /\ UNCHANGED <<rpc, rcur, rdel, rq>> /\ UNCHANGED <<sa, csa>>
      BY <2>1 DEF DriftCredential, IssuerLost, IssuerBecomesReady, wVars, rVars
    <3>. QED BY <1>0, <1>1, <1>2, <3>1
  <2>2. CASE DeleteAzureIdentity
    <3>1. uami'.owner = 0
      BY <2>2 DEF DeleteAzureIdentity, DeleteIdentity, NoUami
    <3>2. /\ UNCHANGED <<wi, cwi, lastUid, sa, csa, rec, crec, rq>>
          /\ UNCHANGED <<wpc, wid, wout, rpc, rcur, rdel, ruami>>
      BY <2>2 DEF DeleteAzureIdentity, wVars, rVars
    <3>3. SpecsKept /\ rq' \subseteq rq \cup recoveriesForWorkloadIdentity
      BY <3>2 DEF SpecsKept
    <3>. QED BY <1>0, <1>2, <3>1, <3>2, <3>3, OtherCopies, OtherRecords
             DEF IdentityCopies, UIDsAreGivenOut
  <2>3. CASE Restart
    BY <1>0, <2>3, RestartCopies
  <2>. QED BY <1>8, <2>1, <2>2, <2>3 DEF Environment
<1>. QED BY <1>0, <1>3, <1>4, <1>5, <1>6, <1>7, <1>8 DEF Next

LEMMA InitCopies == Init => CopiesInvariant
<1>. SUFFICES ASSUME Init PROVE CopiesInvariant
  OBVIOUS
<1>1. StartInvariant /\ TypeOK
  BY InitStart, InitTypes
<1>2. /\ wi = NoWI /\ cwi = NoWI /\ wid = NoWI /\ wout = NoWI /\ wpc = "idle" /\ rpc = "idle"
      /\ rq = {} /\ ruami = NoUami /\ csa = sa
      /\ \A r \in Recoveries : rec[r] = NewRecovery /\ crec[r] = NewRecovery
  BY DEF Init, StateInit, WInit, RInit
<1>3. /\ lastUid \in Nat /\ sa.owner <= lastUid /\ uami.owner <= lastUid
  <2>1. /\ lastUid \in {0, 1}
        /\ lastUid = 0 => /\ sa \in {NoSA, UserSA}
                          /\ uami \in {NoUami, CreateOrUpdate(NoUami, workloadIdentityTags(0))}
        /\ lastUid = 1 => sa \in Leftovers \cup {NoSA} /\ uami = retainedUami
    BY DEF Init, StateInit
  <2>2. /\ NoUami.owner = 0 /\ CreateOrUpdate(NoUami, workloadIdentityTags(0)).owner = 0
        /\ retainedUami.owner = 1
    BY DEF NoUami, retainedUami, CreateOrUpdate, workloadIdentityTags
  <2>3. NoSA.owner = 0 /\ UserSA.owner = 0 /\ \A b : OperatorSA(1, b).owner = 1
    BY DEF NoSA, UserSA, OperatorSA
  <2>4. CASE lastUid = 0
    BY <2>1, <2>2, <2>3, <2>4
  <2>5. CASE lastUid = 1
    <3>1. sa \in {NoSA, OperatorSA(1, TRUE), OperatorSA(1, FALSE)}
      BY <2>1, <2>5 DEF Leftovers
    <3>2. sa.owner \in {0, 1} /\ uami.owner = 1
      BY <2>1, <2>2, <2>3, <2>5, <3>1
    <3>. QED BY <2>5, <3>2
  <2>. QED BY <2>1, <2>4, <2>5
<1>4. IdentityCopies
  BY <1>2, <1>3, EmptyIdentity
     DEF IdentityCopies, UIDsAreGivenOut, GivenOut, IdentityCopiesAreBehind, NotAhead,
         FinalizerKeepsIdentity, EnsureSteps, DeleteSteps, StatusIsDerived, EndIsReported,
         NewRecovery, NoUami
<1>5. RecoveryCopies /\ ReconciledExists
  BY <1>2 DEF RecoveryCopies, ReconciledExists, NewRecovery, FenceSteps, ForwardSteps
<1>. QED BY <1>1, <1>4, <1>5 DEF CopiesInvariant

\* What the workers and the cache hold of the objects is what the two controllers
\* take it for: over every number of instances, recoveries, faults and restarts
\* (patchWorkloadIdentityStatus and Update with a resource version; the cached Get
\* of Reconcile and reconcileForward).
THEOREM CopiesAlways == Spec => []CopiesInvariant
<1>. QED BY InitCopies, NextCopies, PTL DEF Spec
=============================================================================
