---------------------- MODULE WorkloadIdentityController ----------------------
(***************************************************************************)
(* The WorkloadIdentity reconciler (internal/controller/                   *)
(* workloadidentity_controller.go) and the Azure manager calls it makes    *)
(* (internal/azure/workload_identity.go).  One worker: a name is never     *)
(* reconciled by two goroutines.  Reads of the informer cache happen in    *)
(* the step that uses them; every call to the API server or to Azure that  *)
(* another actor can race with is a step of its own.                       *)
(***************************************************************************)
EXTENDS ClusterState

VARIABLES
  wpc,    \* what the running reconcile does next
  wid,    \* its copy of the WorkloadIdentity
  wsa,    \* the ServiceAccount provenance it established ("None": none yet)
  wout    \* the object with the status it is about to patch

wVars == <<wpc, wid, wsa, wout>>

WSteps == {"idle", "detect", "ensureUami", "createUami", "ensureFic", "ensureSA",
           "status", "statusQuiet", "deleteUami", "deleteUamiCall", "deleteSA",
           "removeFinalizer"}

WTypeOK == /\ wpc \in WSteps /\ wid \in WorkloadIdentity
           /\ wsa \in Provenances /\ wout \in WorkloadIdentity

WInit == wpc = "idle" /\ wid = NoWI /\ wsa = "None" /\ wout = NoWI

\* The reconcile returns; the local variables are gone.
WReturn(requeue) ==
  /\ wpc' = "idle" /\ wid' = NoWI /\ wsa' = "None" /\ wout' = NoWI
  /\ wq' = (wq \/ requeue)

WGoto(pc) == wpc' = pc /\ UNCHANGED <<wid, wsa, wout, wq>>

\* Taking the name from the queue: what the reconcile starts with.
WBegin(pc, id, provenance, out) ==
  wpc' = pc /\ wid' = id /\ wsa' = provenance /\ wout' = out /\ wq' = FALSE

\* Taking it and returning at once.
WSkip(requeue) == UNCHANGED <<wpc, wid, wsa, wout>> /\ wq' = requeue

(***************************************************************************)
(* Status writers.  Each computes the new status from the worker's copy;   *)
(* the patch itself (W_PatchStatus) is the next step.                      *)
(***************************************************************************)
setNotReady(id) ==
  [id EXCEPT !.ready = "NotReady", !.previousUid = 0, !.observedGeneration = id.generation]
setInProgress(id) ==
  [id EXCEPT !.ready = "RecoveryInProgress", !.observedGeneration = id.generation]
setRecoveryRequired(id, previous) ==
  [id EXCEPT !.ready = "RecoveryRequired", !.previousUid = previous,
             !.observedGeneration = id.generation]
setReady(id, provenance) ==
  [id EXCEPT !.ready = "Ready", !.previousUid = 0, !.provenance = provenance,
             !.observedGeneration = id.generation]

WPatch(pc, out) == wpc' = pc /\ wout' = out /\ UNCHANGED <<wid, wsa, wq>>

\* Mutant: the status patch without MergeFromWithOptimisticLock.
lockHeld_Unlocked == wi.uid # 0

\* patchWorkloadIdentityStatus and Update both carry the resource version.
lockHeld == wid = wi

W_PatchStatus ==
  /\ wpc \in {"status", "statusQuiet"}
  /\ wi' = IF lockHeld THEN wout ELSE wi
  /\ WReturn(wpc = "status" \/ ~lockHeld)
  /\ UNCHANGED <<cwi, rec, crec, sa, csa, uami, fic, issuerReady, lastUid, rq, budget>>

(***************************************************************************)
(* inspectServiceAccount, on the cached ServiceAccount s.                  *)
(***************************************************************************)
ownerConflict(id, s) == s.exists /\ s.owner \notin {0, id.uid}
annotationConflict(id, s) ==
  s.exists /\ s.annotated /\ s.owner # id.uid /\ id.provenance = "None"
establishedProvenance(id, s) ==
  CASE id.provenance # "None" -> id.provenance
    [] id.provenance = "None" /\ s.exists /\ s.owner = id.uid ->
         (IF s.createdBy THEN "Created" ELSE "Adopted")
    [] OTHER -> "None"

(***************************************************************************)
(* Reconcile, up to its first call out: reads the cached identity, issuer  *)
(* and ServiceAccount.  id is the identity after the finalizer is there.   *)
(***************************************************************************)
observe(id) ==
  \/ workloadIdentityRecoveryIsInProgress(id) /\ WSkip(TRUE)
  \/ /\ ~workloadIdentityRecoveryIsInProgress(id) /\ ~issuerReady
     /\ workloadIdentityRecoveryStateIsActive(id)
     /\ WSkip(TRUE)
  \/ /\ ~workloadIdentityRecoveryStateIsActive(id) /\ ~issuerReady
     /\ WBegin("status", id, "None", setNotReady(id))
  \/ /\ ~workloadIdentityRecoveryIsInProgress(id) /\ issuerReady
     /\ \/ /\ ownerConflict(id, csa)
           /\ WBegin("detect", id, "None", setRecoveryRequired(id, csa.owner))
        \/ /\ ~ownerConflict(id, csa) /\ annotationConflict(id, csa)
           /\ WBegin("status", id, "None", setNotReady(id))
        \/ /\ ~ownerConflict(id, csa) /\ ~annotationConflict(id, csa)
           /\ WBegin("ensureUami", id, establishedProvenance(id, csa), NoWI)

W_Reconcile ==
  /\ wpc = "idle" /\ wq
  /\ \/ cwi.uid = 0 /\ UNCHANGED wi /\ WSkip(FALSE)
     \/ /\ cwi.uid # 0 /\ ~cwi.deleting /\ cwi.finalizer
        /\ UNCHANGED wi /\ observe(cwi)
     \/ /\ cwi.uid # 0 /\ ~cwi.deleting /\ ~cwi.finalizer /\ cwi = wi
        /\ LET id == [cwi EXCEPT !.finalizer = TRUE] IN wi' = id /\ observe(id)
     \/ /\ cwi.uid # 0 /\ ~cwi.deleting /\ ~cwi.finalizer /\ cwi # wi
        /\ UNCHANGED wi /\ WSkip(TRUE)        \* the Update's conflict, retried
  /\ UNCHANGED <<cwi, rec, crec, sa, csa, uami, fic, issuerReady, lastUid, rq, budget>>

\* The ServiceAccount belongs to another UID (wout's evidence): does Azure name
\* the same one?
W_DetectRecovery ==
  /\ wpc = "detect"
  /\ LET verdict == validateUserAssignedIdentityOwnership(wid.uid, uami) IN
     \/ /\ uami.exists /\ verdict = "RecoveryRequired" /\ uami.owner = wout.previousUid
        /\ WGoto("statusQuiet")
     \/ /\ uami.exists /\ verdict = "RecoveryInProgress"
        /\ WPatch("status", setInProgress(wid))
     \/ /\ \/ ~uami.exists \/ verdict \in {"Owned", "Conflict"}
           \/ verdict = "RecoveryRequired" /\ uami.owner # wout.previousUid
        /\ WPatch("status", setNotReady(wid))
  /\ UNCHANGED <<wi, cwi, rec, crec, sa, csa, uami, fic, issuerReady, lastUid, rq, budget>>

(***************************************************************************)
(* Manager.Ensure and ensureServiceAccount.                                *)
(***************************************************************************)
\* ensureUserAssignedIdentity up to its decision; handleWorkloadIdentityEnsureError.
W_EnsureUserAssignedIdentity ==
  /\ wpc = "ensureUami"
  /\ LET verdict == validateUserAssignedIdentityOwnership(wid.uid, uami) IN
     \/ /\ ~uami.exists /\ wid.provenance # "None"     \* recorded in the status, gone
        /\ WPatch("status", setNotReady(wid))
     \/ ~uami.exists /\ wid.provenance = "None" /\ WGoto("createUami")
     \/ uami.exists /\ verdict = "Owned" /\ WGoto("ensureFic")
     \/ /\ uami.exists /\ verdict = "RecoveryRequired"
        /\ WPatch("status", setRecoveryRequired(wid, uami.owner))
     \/ /\ uami.exists /\ verdict = "RecoveryInProgress"
        /\ WPatch("status", setInProgress(wid))
     \/ /\ uami.exists /\ verdict = "Conflict"
        /\ WPatch("status", setNotReady(wid))
  /\ UNCHANGED <<wi, cwi, rec, crec, sa, csa, uami, fic, issuerReady, lastUid, rq, budget>>

\* CreateOrUpdate writes the tags whatever is there by now.
W_CreateUserAssignedIdentity ==
  /\ wpc = "createUami"
  /\ uami' = CreateOrUpdate(uami, workloadIdentityTags(wid.uid))
  /\ WGoto("ensureFic")
  /\ UNCHANGED <<wi, cwi, rec, crec, sa, csa, fic, issuerReady, lastUid, rq, budget>>

\* Mutant: a credential that differs is left alone.
W_EnsureFederatedIdentityCredential_CreatesOnly ==
  /\ wpc = "ensureFic"
  /\ fic' = IF fic = "absent" THEN "exact" ELSE fic
  /\ WGoto("ensureSA")
  /\ UNCHANGED <<wi, cwi, rec, crec, sa, csa, uami, issuerReady, lastUid, rq, budget>>

\* The credential is read, and written when it is absent or differs.
W_EnsureFederatedIdentityCredential ==
  /\ wpc = "ensureFic"
  /\ \/ /\ uami.exists
        /\ fic' = IF fic \in {"absent", "drifted"} THEN "exact" ELSE fic
        /\ WGoto("ensureSA")
     \/ ~uami.exists /\ UNCHANGED fic /\ WPatch("status", setNotReady(wid))
  /\ UNCHANGED <<wi, cwi, rec, crec, sa, csa, uami, issuerReady, lastUid, rq, budget>>

\* The patch of the ServiceAccount carries only the fields that differ from
\* the cached copy, and no resource version.
patchedServiceAccount(desired) ==
  [sa EXCEPT !.owner = IF csa.owner # desired.owner THEN desired.owner ELSE @,
             !.createdBy = IF csa.createdBy # desired.createdBy THEN desired.createdBy ELSE @,
             !.annotated = IF csa.annotated # desired.annotated THEN desired.annotated ELSE @]

\* When the cached copy is as desired nothing is sent, and nobody notices that
\* the ServiceAccount is gone.
W_EnsureServiceAccount ==
  /\ wpc = "ensureSA"
  /\ LET created == IF wsa = "None" THEN "Created" ELSE wsa
         kept == IF wsa = "None" THEN "Adopted" ELSE wsa
         desired == OperatorSA(wid.uid, kept = "Created")
         conflict == \/ ownerConflict(wid, csa)
                     \/ wsa = "None" /\ csa.annotated
     IN
     \/ /\ ~csa.exists /\ ~sa.exists
        /\ sa' = OperatorSA(wid.uid, created = "Created")
        /\ WPatch("status", setReady(wid, created))
     \/ /\ csa.exists /\ ~conflict /\ (csa = desired \/ sa.exists)
        /\ sa' = patchedServiceAccount(desired)
        /\ WPatch("status", setReady(wid, kept))
     \/ \* validation failed, AlreadyExists on create, or NotFound on patch
        /\ \/ csa.exists /\ conflict
           \/ csa.exists /\ ~conflict /\ csa # desired /\ ~sa.exists
           \/ ~csa.exists /\ sa.exists
        /\ UNCHANGED sa
        /\ WPatch("status", setNotReady(wid))
  /\ UNCHANGED <<wi, cwi, rec, crec, csa, uami, fic, issuerReady, lastUid, rq, budget>>

(***************************************************************************)
(* reconcileWorkloadIdentityDelete and Manager.Delete.                     *)
(***************************************************************************)
\* Mutant: the recovery lock in the status is not looked at.
W_ReconcileDelete_IgnoresLock ==
  /\ wpc = "idle" /\ wq
  /\ cwi.uid # 0 /\ cwi.deleting /\ cwi.finalizer
  /\ WBegin(IF cwi.policy = "Delete" THEN "deleteUami" ELSE "removeFinalizer", cwi, "None", NoWI)
  /\ UNCHANGED <<wi, cwi, rec, crec, sa, csa, uami, fic, issuerReady, lastUid, rq, budget>>

W_ReconcileDelete ==
  /\ wpc = "idle" /\ wq
  /\ cwi.uid # 0 /\ cwi.deleting /\ cwi.finalizer
  /\ \/ workloadIdentityRecoveryIsInProgress(cwi) /\ WSkip(TRUE)
     \/ /\ ~workloadIdentityRecoveryIsInProgress(cwi) /\ cwi.policy = "Delete"
        /\ WBegin("deleteUami", cwi, "None", NoWI)
     \/ /\ ~workloadIdentityRecoveryIsInProgress(cwi) /\ cwi.policy = "Retain"
        /\ WBegin("removeFinalizer", cwi, "None", NoWI)
  /\ UNCHANGED <<wi, cwi, rec, crec, sa, csa, uami, fic, issuerReady, lastUid, rq, budget>>

\* Get and ownership check before the delete call.
W_DeleteCheck ==
  /\ wpc = "deleteUami"
  /\ LET verdict == validateUserAssignedIdentityOwnership(wid.uid, uami) IN
     \/ ~uami.exists /\ WGoto("deleteSA")
     \/ uami.exists /\ verdict = "Owned" /\ WGoto("deleteUamiCall")
     \/ uami.exists /\ verdict = "RecoveryRequired" /\ WGoto("removeFinalizer")
     \/ uami.exists /\ verdict \in {"RecoveryInProgress", "Conflict"} /\ WReturn(TRUE)
  /\ UNCHANGED <<wi, cwi, rec, crec, sa, csa, uami, fic, issuerReady, lastUid, rq, budget>>

W_DeleteUserAssignedIdentity ==
  /\ wpc = "deleteUamiCall"
  /\ uami' = DeleteIdentity(uami) /\ fic' = "absent"
  /\ WGoto("deleteSA")
  /\ UNCHANGED <<wi, cwi, rec, crec, sa, csa, issuerReady, lastUid, rq, budget>>

deletesServiceAccount ==
  /\ csa.exists
  /\ \/ wid.provenance = "Created"
     \/ wid.provenance = "None" /\ csa.createdBy /\ csa.owner = wid.uid

W_DeleteServiceAccountIfOwned ==
  /\ wpc = "deleteSA"
  /\ \/ ~deletesServiceAccount /\ UNCHANGED sa /\ WGoto("removeFinalizer")
     \/ deletesServiceAccount /\ sa.exists /\ sa' = NoSA /\ WGoto("removeFinalizer")
     \/ deletesServiceAccount /\ ~sa.exists /\ UNCHANGED sa /\ WReturn(TRUE)
  /\ UNCHANGED <<wi, cwi, rec, crec, csa, uami, fic, issuerReady, lastUid, rq, budget>>

\* Update without the finalizer: the last one, so the object goes.
W_RemoveFinalizer ==
  /\ wpc = "removeFinalizer"
  /\ wi' = IF lockHeld THEN NoWI ELSE wi
  /\ WReturn(~lockHeld)
  /\ UNCHANGED <<cwi, rec, crec, sa, csa, uami, fic, issuerReady, lastUid, rq, budget>>

(***************************************************************************)
(* A call that fails, or whose answer is lost after it took effect: the    *)
(* reconcile ends where the code's error path ends.                        *)
(***************************************************************************)
W_EnsureError ==
  /\ Disturb("fault")
  /\ wpc \in {"detect", "ensureUami", "createUami", "ensureFic", "ensureSA"}
  /\ WPatch("status", setNotReady(wid))
  /\ UNCHANGED <<wi, cwi, rec, crec, sa, csa, uami, fic, issuerReady, lastUid, rq>>

W_OtherError ==
  /\ Disturb("fault")
  /\ wpc \in {"status", "statusQuiet", "deleteUami", "deleteUamiCall", "deleteSA",
              "removeFinalizer"}
  /\ WReturn(TRUE)
  /\ UNCHANGED <<wi, cwi, rec, crec, sa, csa, uami, fic, issuerReady, lastUid, rq>>

WStep ==
  \/ W_Reconcile \/ W_DetectRecovery
  \/ W_EnsureUserAssignedIdentity \/ W_CreateUserAssignedIdentity
  \/ W_EnsureFederatedIdentityCredential \/ W_EnsureServiceAccount
  \/ W_PatchStatus
  \/ W_ReconcileDelete \/ W_DeleteCheck \/ W_DeleteUserAssignedIdentity
  \/ W_DeleteServiceAccountIfOwned \/ W_RemoveFinalizer

WFault == W_EnsureError \/ W_OtherError
=============================================================================
