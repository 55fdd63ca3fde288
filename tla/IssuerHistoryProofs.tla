------------------------- MODULE IssuerHistoryProofs -------------------------
(***************************************************************************)
(* What the copies of an OIDCIssuer in the cache and in the worker can be, *)
(* and from it that a published key stays served and that the handoff of   *)
(* the service account issuer is final.                                    *)
(***************************************************************************)
EXTENDS IssuerProofs

(***************************************************************************)
(* Copies of the issuer.                                                   *)
(***************************************************************************)
Copies == CopiesAreBehind /\ FinalizerKeepsIssuer /\ StatusIsBehind

\* The sets of steps the invariant speaks of.
LEMMA StepSets ==
  /\ "idle" \notin ForwardSteps \cup DeleteSteps
  /\ "group" \in PublishSteps /\ "setReady" \in ForwardSteps \ PublishSteps
  /\ "notReady" \notin ForwardSteps \cup DeleteSteps
  /\ PublishSteps \cup {"setPublished", "capture", "setIssuer"} \subseteq ForwardSteps
  /\ {"capture", "setIssuer"} \cap (PublishSteps \cup {"setPublished"}) = {}
  /\ BeforeKeys \cup {"retiringKey", "discovery", "jwks"} = PublishSteps
  /\ ForwardSteps \cap DeleteSteps = {}
  BY DEF ForwardSteps, DeleteSteps, PublishSteps, OpenShiftSteps, BeforeKeys

\* Types as the proofs below need them.
LEMMA IssuerFields ==
  ASSUME TypeOK
  PROVE  /\ iss \in OIDCIssuer /\ ciss \in OIDCIssuer /\ work \in OIDCIssuer
         /\ lastUid \in Nat
         /\ \A o \in OIDCIssuer :
              /\ o.uid \in Nat /\ o.deleting \in BOOLEAN /\ o.finalizer \in BOOLEAN
              /\ o.generation \in Nat /\ o.spec \in OIDCIssuerSpec
              /\ o.status \in OIDCIssuerStatus /\ o.status.observedGeneration \in Nat
              /\ o.spec.updateServiceAccountIssuer \in BOOLEAN
<1>1. UIDs \cup {0} \subseteq Nat
  BY MaxIssuersAssumption DEF UIDs
<1>2. iss \in OIDCIssuer /\ ciss \in OIDCIssuer /\ work \in OIDCIssuer /\ lastUid \in Nat
  BY <1>1 DEF TypeOK, WorkerTypeOK
<1>. QED BY <1>1, <1>2 DEF OIDCIssuer, OIDCIssuerStatus, OIDCIssuerSpec

\* The absent issuer.
LEMMA NoIssuerFields ==
  NoIssuer.uid = 0 /\ ~NoIssuer.finalizer /\ ~NoIssuer.deleting
  BY DEF NoIssuer, newIssuer

\* The worker goes on within its path, or drops its copy.
LEMMA MoveKeepsCopies ==
  ASSUME Copies, UNCHANGED <<iss, ciss, lastUid>>,
         work' # work => work' = NoIssuer /\ ipc' = "idle",
         ipc' \in ForwardSteps => ipc \in ForwardSteps,
         ipc' \in PublishSteps \cup {"setPublished"} => ipc \in PublishSteps \cup {"setPublished"},
         ipc' \in {"capture", "setIssuer"} => ipc \in {"capture", "setIssuer"},
         ipc' = "capture" => ipc = "capture",
         ipc' \in DeleteSteps => ipc \in DeleteSteps,
         ipc' # "idle" => ipc # "idle", lastUid \in Nat
  PROVE  Copies'
<1>1. CASE work' = work
  <2>1. CopiesAreBehind'
    BY <1>1 DEF Copies, CopiesAreBehind, CopyOfIssuer
  <2>2. FinalizerKeepsIssuer'
    BY <1>1 DEF Copies, FinalizerKeepsIssuer
  <2>3. StatusIsBehind'
    BY <1>1 DEF Copies, StatusIsBehind, ObservedIsBehind, observesItself
  <2>. QED BY <2>1, <2>2, <2>3 DEF Copies
<1>2. CASE work' = NoIssuer /\ ipc' = "idle"
  <2>1. CopiesAreBehind'
    BY <1>2, NoIssuerFields DEF Copies, CopiesAreBehind, CopyOfIssuer
  <2>2. FinalizerKeepsIssuer'
    BY <1>2, NoIssuerFields, StepSets DEF Copies, FinalizerKeepsIssuer
  <2>3. StatusIsBehind'
    BY <1>2, StepSets DEF Copies, StatusIsBehind, ObservedIsBehind, observesItself
  <2>. QED BY <2>1, <2>2, <2>3 DEF Copies
<1>. QED BY <1>1, <1>2

\* Users, the informer, restarts.
LEMMA EnvironmentKeepsCopies ==
  ASSUME TypeOK, Copies, Environment
  PROVE  Copies'
<1>1. /\ iss \in OIDCIssuer /\ ciss \in OIDCIssuer /\ work \in OIDCIssuer
      /\ lastUid \in Nat
  BY IssuerFields
<1>2. ASSUME UNCHANGED <<iss, ciss, lastUid>>, workerUnchanged
      PROVE  Copies'
  <2>1. work' = work /\ ipc' = ipc
    BY <1>2 DEF workerUnchanged
  <2>. QED BY <1>1, <1>2, <2>1, MoveKeepsCopies
<1>3. CASE CreateIssuer
  <2>1. PICK spec \in StartSpecs : iss' = newIssuer(lastUid + 1, spec)
    BY <1>3 DEF CreateIssuer
  <2>2. /\ iss'.uid = lastUid + 1 /\ ~iss'.finalizer /\ ~iss'.deleting
        /\ lastUid' = lastUid + 1 /\ iss.uid = 0
        /\ UNCHANGED <<ciss, work, ipc>>
    BY <1>3, <2>1 DEF CreateIssuer, newIssuer, workerUnchanged
  <2>3. ~iss.finalizer /\ ipc \notin ForwardSteps
    BY <2>2 DEF Copies, FinalizerKeepsIssuer
  <2>4. CopiesAreBehind'
    BY <1>1, <2>2, IssuerFields DEF Copies, CopiesAreBehind, CopyOfIssuer
  <2>5. FinalizerKeepsIssuer'
    BY <2>2, <2>3 DEF Copies, FinalizerKeepsIssuer
  <2>6. StatusIsBehind'
    BY <2>2, <2>3, StepSets DEF Copies, StatusIsBehind
  <2>. QED BY <2>4, <2>5, <2>6 DEF Copies
<1>4. CASE EditIssuer
  <2>1. PICK spec : iss' = [iss EXCEPT !.spec = spec, !.generation = @ + 1]
    BY <1>4 DEF EditIssuer
  <2>2. /\ iss'.uid = iss.uid /\ iss'.finalizer = iss.finalizer
        /\ iss'.deleting = iss.deleting /\ iss'.status = iss.status
        /\ iss'.generation = iss.generation + 1
        /\ UNCHANGED <<ciss, lastUid, work, ipc>>
    BY <1>1, <1>4, <2>1 DEF EditIssuer, OIDCIssuer, workerUnchanged
  <2>3. CopiesAreBehind'
    BY <1>1, <2>2, IssuerFields DEF Copies, CopiesAreBehind, CopyOfIssuer
  <2>4. FinalizerKeepsIssuer'
    BY <2>2 DEF Copies, FinalizerKeepsIssuer
  <2>5. StatusIsBehind'
    BY <1>1, <2>2, IssuerFields DEF Copies, StatusIsBehind, ObservedIsBehind, observesItself
  <2>. QED BY <2>3, <2>4, <2>5 DEF Copies
<1>5. CASE DeleteIssuer
  <2>1. UNCHANGED <<ciss, lastUid, work, ipc>>
    BY <1>5 DEF DeleteIssuer, workerUnchanged
  <2>2. CASE iss.finalizer /\ iss' = [iss EXCEPT !.deleting = TRUE, !.generation = @ + 1]
    <3>1. /\ iss'.uid = iss.uid /\ iss'.finalizer = iss.finalizer /\ iss'.deleting
          /\ iss'.status = iss.status /\ iss'.spec = iss.spec
          /\ iss'.generation = iss.generation + 1
      BY <1>1, <2>2 DEF OIDCIssuer
    <3>2. CopiesAreBehind'
      BY <1>1, <2>1, <3>1, IssuerFields DEF Copies, CopiesAreBehind, CopyOfIssuer
    <3>3. FinalizerKeepsIssuer'
      BY <2>1, <3>1 DEF Copies, FinalizerKeepsIssuer
    <3>4. StatusIsBehind'
      BY <1>1, <2>1, <3>1, IssuerFields
         DEF Copies, StatusIsBehind, ObservedIsBehind, observesItself
    <3>. QED BY <3>2, <3>3, <3>4 DEF Copies
  <2>3. CASE ~iss.finalizer /\ iss' = NoIssuer
    <3>1. ipc \notin ForwardSteps
      BY <2>3 DEF Copies, FinalizerKeepsIssuer
    <3>2. CopiesAreBehind'
      BY <1>1, <2>1, <2>3, IssuerFields, NoIssuerFields
         DEF Copies, CopiesAreBehind, CopyOfIssuer
    <3>3. FinalizerKeepsIssuer'
      BY <2>1, <2>3, <3>1, NoIssuerFields DEF Copies, FinalizerKeepsIssuer
    <3>4. StatusIsBehind'
      BY <2>1, <2>3, <3>1, NoIssuerFields, StepSets DEF Copies, StatusIsBehind
    <3>. QED BY <3>2, <3>3, <3>4 DEF Copies
  <2>4. CASE iss' = iss
    BY <1>2, <1>5, <2>1, <2>4 DEF DeleteIssuer
  <2>. QED BY <1>1, <1>5, <2>2, <2>3, <2>4 DEF DeleteIssuer, OIDCIssuer
<1>6. CASE SyncIssuer
  <2>1. ciss' = iss /\ UNCHANGED <<iss, lastUid, work, ipc>>
    BY <1>6 DEF SyncIssuer, workerUnchanged
  <2>2. CopiesAreBehind'
    BY <1>1, <2>1, IssuerFields DEF Copies, CopiesAreBehind, CopyOfIssuer
  <2>3. FinalizerKeepsIssuer'
    BY <1>1, <2>1, IssuerFields, StepSets
       DEF Copies, FinalizerKeepsIssuer, CopiesAreBehind, CopyOfIssuer
  <2>4. StatusIsBehind'
    BY <1>1, <2>1, IssuerFields DEF Copies, StatusIsBehind, ObservedIsBehind, observesItself
  <2>. QED BY <2>2, <2>3, <2>4 DEF Copies
<1>7. CASE Restart
  <2>1. ciss' = iss /\ work' = NoIssuer /\ ipc' = "idle" /\ UNCHANGED <<iss, lastUid>>
    BY <1>7 DEF Restart
  <2>2. CopiesAreBehind'
    BY <1>1, <2>1, IssuerFields, NoIssuerFields DEF Copies, CopiesAreBehind, CopyOfIssuer
  <2>3. FinalizerKeepsIssuer'
    BY <1>1, <2>1, NoIssuerFields, StepSets DEF Copies, FinalizerKeepsIssuer
  <2>4. StatusIsBehind'
    BY <1>1, <2>1, IssuerFields, StepSets
       DEF Copies, StatusIsBehind, ObservedIsBehind, observesItself
  <2>. QED BY <2>2, <2>3, <2>4 DEF Copies
<1>8. CASE \/ ValidateDelete \/ CreateWorkloadIdentity \/ DeleteWorkloadIdentity
           \/ SyncWorkloadIdentities \/ SyncAuthentication \/ Rollout
  BY <1>2, <1>8 DEF ValidateDelete, CreateWorkloadIdentity, DeleteWorkloadIdentity,
       SyncWorkloadIdentities, SyncAuthentication, Rollout
<1>9. CASE RestoreAuthentication \/ ChangeAuthentication \/ ChangeSecret \/ DriftStorage
  BY <1>2, <1>9 DEF RestoreAuthentication, ChangeAuthentication, ChangeSecret, DriftStorage,
       clusterVars, otherVars
<1>. QED BY <1>3, <1>4, <1>5, <1>6, <1>7, <1>8, <1>9, Zenon DEF Environment

\* What a status patch leaves of the issuer it is sent to.
LEMMA PatchKeepsObject ==
  ASSUME TypeOK, NEW status \in OIDCIssuerStatus
  PROVE  LET p == patched(status) IN
         /\ p.uid = iss.uid /\ p.deleting = iss.deleting /\ p.finalizer = iss.finalizer
         /\ p.generation = iss.generation /\ p.spec = iss.spec
         /\ p.status.observedGeneration =
              IF work.status.observedGeneration # work.generation THEN work.generation
              ELSE iss.status.observedGeneration
<1>1. iss \in OIDCIssuer /\ work \in OIDCIssuer /\ observed(status) \in OIDCIssuerStatus
  BY IssuerFields DEF observed, OIDCIssuerStatus
<1>2. observed(status).observedGeneration = work.generation
  BY DEF observed, OIDCIssuerStatus
<1>3. mergePatch(work.status, observed(status), iss.status).observedGeneration =
        IF work.status.observedGeneration # work.generation THEN work.generation
        ELSE iss.status.observedGeneration
  BY <1>2 DEF mergePatch, sent
<1>. QED BY <1>1, <1>3 DEF patched, OIDCIssuer

\* A patch after which the worker goes on with the answer or returns.
LEMMA PatchKeepsCopies ==
  ASSUME TypeOK, Copies, UNCHANGED <<ciss, lastUid>>,
         NEW status \in OIDCIssuerStatus,
         iss.uid # 0, iss' = patched(status),
         work' \in {patched(status), NoIssuer},
         work' = NoIssuer => ipc' = "idle",
         ipc # "idle",
         ipc' \notin PublishSteps \cup {"setPublished"},
         ipc' \in ForwardSteps => ipc \in ForwardSteps,
         ipc' \notin DeleteSteps,
         ipc' \in {"capture", "setIssuer"} =>
           /\ iss.spec.updateServiceAccountIssuer \/ ipc = "capture"
           /\ ipc' = "capture" => iss.spec.updateServiceAccountIssuer
           /\ ipc \in {"setPublished", "capture"}
  PROVE  Copies'
<1>1. /\ iss \in OIDCIssuer /\ ciss \in OIDCIssuer /\ work \in OIDCIssuer
      /\ lastUid \in Nat
  BY IssuerFields
<1>2. /\ iss'.uid = iss.uid /\ iss'.deleting = iss.deleting
      /\ iss'.finalizer = iss.finalizer /\ iss'.generation = iss.generation
      /\ iss'.spec = iss.spec
      /\ iss'.status.observedGeneration =
           IF work.status.observedGeneration # work.generation THEN work.generation
           ELSE iss.status.observedGeneration
  BY PatchKeepsObject
<1>3. iss.finalizer /\ observesItself(ciss)' => ObservedIsBehind'
  <2>. SUFFICES ASSUME iss.finalizer, observesItself(ciss)' PROVE ObservedIsBehind'
    OBVIOUS
  <2>1. work.uid = iss.uid /\ work.generation <= iss.generation
    BY DEF Copies, FinalizerKeepsIssuer, CopiesAreBehind, CopyOfIssuer
  <2>. QED BY <1>1, <1>2, <2>1, IssuerFields
       DEF Copies, StatusIsBehind, ObservedIsBehind, observesItself
<1>4. ipc' \in {"capture", "setIssuer"} =>
        /\ ObservedIsBehind'
        /\ iss'.spec.updateServiceAccountIssuer \/ ~observesItself(iss)'
  <2>. SUFFICES ASSUME ipc' \in {"capture", "setIssuer"}
                PROVE  /\ ObservedIsBehind'
                       /\ iss'.spec.updateServiceAccountIssuer \/ ~observesItself(iss)'
    OBVIOUS
  <2>1. /\ work.uid = iss.uid /\ work.generation <= iss.generation
        /\ work.generation = iss.generation => work.spec = iss.spec
    BY StepSets DEF Copies, FinalizerKeepsIssuer, CopiesAreBehind, CopyOfIssuer
  <2>. QED BY <1>1, <1>2, <2>1, IssuerFields
       DEF Copies, StatusIsBehind, ObservedIsBehind, observesItself
<1>5. CASE work' = iss'
  <2>1. CopiesAreBehind'
    <3>1. CopyOfIssuer(work)'
      BY <1>1, <1>2, <1>5, IssuerFields DEF CopyOfIssuer
    <3>2. CopyOfIssuer(ciss)'
      BY <1>2 DEF Copies, CopiesAreBehind, CopyOfIssuer
    <3>. QED BY <1>2, <1>5, <3>1, <3>2 DEF Copies, CopiesAreBehind
  <2>2. FinalizerKeepsIssuer'
    BY <1>2, <1>5 DEF Copies, FinalizerKeepsIssuer
  <2>3. StatusIsBehind'
    BY <1>2, <1>3, <1>4, <1>5 DEF StatusIsBehind
  <2>. QED BY <2>1, <2>2, <2>3 DEF Copies
<1>6. CASE work' = NoIssuer
  <2>1. CopiesAreBehind'
    BY <1>1, <1>2, <1>6, IssuerFields, NoIssuerFields
       DEF Copies, CopiesAreBehind, CopyOfIssuer
  <2>2. FinalizerKeepsIssuer'
    BY <1>2, <1>6, NoIssuerFields, StepSets DEF Copies, FinalizerKeepsIssuer
  <2>3. StatusIsBehind'
    BY <1>2, <1>3, <1>4, <1>6 DEF StatusIsBehind
  <2>. QED BY <2>1, <2>2, <2>3 DEF Copies
<1>. QED BY <1>5, <1>6

\* Reconcile begins with the cached copy, which has the finalizer.
LEMMA ReconcileKeepsCopies ==
  ASSUME TypeOK, Copies, I_Reconcile
  PROVE  Copies'
<1>1. /\ iss \in OIDCIssuer /\ ciss \in OIDCIssuer /\ work \in OIDCIssuer
      /\ lastUid \in Nat
  BY IssuerFields
<1>2. UNCHANGED <<ciss, lastUid>> /\ ipc = "idle"
  BY DEF I_Reconcile, otherVars
<1>3. CASE UNCHANGED <<iss, ipc, work>>
  BY <1>1, <1>2, <1>3, MoveKeepsCopies
<1>4. CASE /\ ciss.uid # 0 /\ ciss.deleting /\ ciss.finalizer
           /\ UNCHANGED iss /\ work' = ciss /\ ipc' \in DeleteSteps \cup {"notReady"}
  <2>1. CopiesAreBehind'
    BY <1>2, <1>4 DEF Copies, CopiesAreBehind, CopyOfIssuer
  <2>2. FinalizerKeepsIssuer'
    BY <1>2, <1>4, StepSets DEF Copies, FinalizerKeepsIssuer
  <2>3. StatusIsBehind'
    BY <1>2, <1>4, StepSets DEF Copies, StatusIsBehind, ObservedIsBehind, observesItself
  <2>. QED BY <2>1, <2>2, <2>3 DEF Copies
<1>5. CASE /\ ciss.uid # 0 /\ ~ciss.deleting /\ ciss.finalizer
           /\ UNCHANGED iss /\ work' = ciss /\ ipc' = "group"
  <2>1. CopiesAreBehind'
    BY <1>2, <1>5 DEF Copies, CopiesAreBehind, CopyOfIssuer
  <2>2. FinalizerKeepsIssuer'
    BY <1>2, <1>5, StepSets DEF Copies, FinalizerKeepsIssuer
  <2>3. StatusIsBehind'
    BY <1>2, <1>5, StepSets
       DEF Copies, FinalizerKeepsIssuer, StatusIsBehind, ObservedIsBehind, observesItself
  <2>. QED BY <2>1, <2>2, <2>3 DEF Copies
<1>6. CASE /\ ciss.uid # 0 /\ ~ciss.deleting /\ ciss = iss
           /\ iss' = [ciss EXCEPT !.finalizer = TRUE] /\ work' = iss' /\ ipc' = "group"
  <2>1. /\ iss'.uid = iss.uid /\ iss'.deleting = iss.deleting /\ iss'.finalizer
        /\ iss'.generation = iss.generation /\ iss'.spec = iss.spec
        /\ iss'.status = iss.status
    BY <1>1, <1>6 DEF OIDCIssuer
  <2>2. CopiesAreBehind'
    BY <1>1, <1>2, <1>6, <2>1, IssuerFields DEF Copies, CopiesAreBehind, CopyOfIssuer
  <2>3. FinalizerKeepsIssuer'
    BY <1>2, <1>6, <2>1, StepSets DEF Copies, FinalizerKeepsIssuer
  <2>4. StatusIsBehind'
    BY <1>1, <1>2, <1>6, <2>1, StepSets, IssuerFields
       DEF Copies, StatusIsBehind, ObservedIsBehind, observesItself
  <2>. QED BY <2>2, <2>3, <2>4 DEF Copies
<1>7. guardStep(ciss) \in DeleteSteps
  BY DEF guardStep, DeleteSteps
<1>. QED BY <1>3, <1>4, <1>5, <1>6, <1>7 DEF I_Reconcile, reconcileDelete, IBegin

\* The finalizer goes from the issuer that is being deleted, and the issuer with it.
LEMMA RemoveFinalizerKeepsCopies ==
  ASSUME TypeOK, Copies, I_RemoveFinalizer
  PROVE  Copies'
<1>1. /\ iss \in OIDCIssuer /\ ciss \in OIDCIssuer /\ work \in OIDCIssuer
      /\ lastUid \in Nat
  BY IssuerFields
<1>2. /\ UNCHANGED <<ciss, lastUid>> /\ work' = NoIssuer /\ ipc' = "idle"
      /\ iss' = IF work = iss THEN NoIssuer ELSE iss
      /\ ipc \in DeleteSteps
  BY DEF I_RemoveFinalizer, otherVars, IReturn, DeleteSteps
<1>3. CASE work # iss
  BY <1>1, <1>2, <1>3, StepSets, MoveKeepsCopies
<1>4. CASE work = iss
  <2>1. CopiesAreBehind'
    BY <1>1, <1>2, <1>4, IssuerFields, NoIssuerFields
       DEF Copies, CopiesAreBehind, CopyOfIssuer
  <2>2. FinalizerKeepsIssuer'
    BY <1>2, <1>4, NoIssuerFields, StepSets DEF Copies, FinalizerKeepsIssuer
  <2>3. StatusIsBehind'
    BY <1>2, <1>4, NoIssuerFields, StepSets DEF StatusIsBehind
  <2>. QED BY <2>1, <2>2, <2>3 DEF Copies
<1>. QED BY <1>3, <1>4

\* The status writers.
LEMMA StatusWritersKeepCopies ==
  ASSUME TypeOK, Copies,
         I_SetPublished \/ I_CapturePrevious \/ I_SetReady \/ I_SetNotReady
  PROVE  Copies'
<1>1. /\ lastUid \in Nat /\ loc.reason \in Reasons /\ UNCHANGED <<ciss, lastUid>>
  BY IssuerFields DEF TypeOK, WorkerTypeOK, Locals, I_SetPublished, I_CapturePrevious,
     I_SetReady, I_SetNotReady, otherVars
<1>2. \A b : UNCHANGED iss /\ IReturn(b) => Copies'
  BY <1>1, StepSets, MoveKeepsCopies DEF IReturn
<1>3. CASE I_SetPublished
  <2>1. CASE iss.uid = 0
    BY <1>2, <1>3, <2>1 DEF I_SetPublished, patchOIDCIssuerStatus
  <2>2. CASE iss.uid # 0
    <3>1. /\ ipc = "setPublished" /\ ipc' = afterPublished
          /\ iss' = patched(publishedStatus) /\ work' = patched(publishedStatus)
      BY <1>3, <2>2 DEF I_SetPublished, patchOIDCIssuerStatus
    <3>2. ipc' \in {"setReady", "capture", "setIssuer"}
          /\ (ipc' # "setReady" => iss.spec.updateServiceAccountIssuer)
      BY <3>1, IssuerFields DEF afterPublished
    <3>3. work'.uid # 0
      BY <2>2, <3>1, StatusTypes, PatchKeepsObject
    <3>. QED BY <1>1, <2>2, <3>1, <3>2, <3>3, StepSets, StatusTypes, NoIssuerFields,
                PatchKeepsCopies
  <2>. QED BY <2>1, <2>2
<1>4. CASE I_CapturePrevious
  <2>1. CASE IGoto("setIssuer") /\ UNCHANGED iss
    BY <1>1, <1>4, <2>1, StepSets, MoveKeepsCopies DEF IGoto, I_CapturePrevious
  <2>2. CASE patchOIDCIssuerStatus(
               [work.status EXCEPT !.previousServiceAccountIssuer = cauth], "setIssuer")
    <3>1. CASE iss.uid = 0
      BY <1>2, <2>2, <3>1 DEF patchOIDCIssuerStatus
    <3>2. CASE iss.uid # 0
      <4>. DEFINE status == [work.status EXCEPT !.previousServiceAccountIssuer = cauth]
      <4>1. /\ ipc = "capture" /\ ipc' = "setIssuer" /\ iss' = patched(status)
            /\ work' = patched(status) /\ status \in OIDCIssuerStatus
        BY <1>4, <2>2, <3>2, StatusTypes DEF I_CapturePrevious, patchOIDCIssuerStatus
      <4>2. work'.uid # 0
        BY <3>2, <4>1, PatchKeepsObject
      <4>. QED BY <1>1, <3>2, <4>1, <4>2, StepSets, NoIssuerFields, PatchKeepsCopies
    <3>. QED BY <3>1, <3>2
  <2>. QED BY <1>4, <2>1, <2>2 DEF I_CapturePrevious
<1>5. \A status \in OIDCIssuerStatus : \A b :
        ipc # "idle" /\ patchAndReturn(status, b) => Copies'
  <2>. SUFFICES ASSUME NEW status \in OIDCIssuerStatus, NEW b, ipc # "idle",
                       patchAndReturn(status, b)
                PROVE  Copies'
    OBVIOUS
  <2>1. IReturn(b \/ iss.uid = 0) /\ work' = NoIssuer /\ ipc' = "idle"
    BY DEF patchAndReturn, IReturn
  <2>2. CASE iss.uid = 0
    BY <1>2, <2>1, <2>2 DEF patchAndReturn
  <2>3. CASE iss.uid # 0
    <3>1. iss' = patched(status)
      BY <2>3 DEF patchAndReturn
    <3>. QED BY <1>1, <2>1, <2>3, <3>1, StepSets, PatchKeepsCopies
  <2>. QED BY <2>2, <2>3
<1>6. CASE I_SetReady
  BY <1>5, <1>6, StatusTypes DEF I_SetReady
<1>7. CASE I_SetNotReady
  BY <1>1, <1>5, <1>7, StatusTypes DEF I_SetNotReady
<1>. QED BY <1>3, <1>4, <1>6, <1>7

\* The other steps of the worker, and errors.
LEMMA OtherStepsKeepCopies ==
  ASSUME TypeOK, Copies,
         \/ I_EnsureResourceGroup \/ I_GetAccount \/ I_CreateAccount \/ I_UpdateAccount
         \/ I_EnsureBlobContainer \/ I_ReadActiveKey \/ I_ReadRetiringKey
         \/ I_UploadDiscovery \/ I_UploadJWKS \/ I_SetIssuer \/ I_WaitForRollout
         \/ I_CheckTokenIssuer \/ I_CheckOpenShiftIssuer \/ I_FindAccount
         \/ I_DeleteAccount \/ I_Error
  PROVE  Copies'
<1>1. UNCHANGED <<iss, ciss, lastUid>> /\ lastUid \in Nat
  BY IssuerFields
     DEF I_EnsureResourceGroup, I_GetAccount, I_CreateAccount, I_UpdateAccount,
         I_EnsureBlobContainer, I_ReadActiveKey, I_ReadRetiringKey, I_UploadDiscovery,
         I_UploadJWKS, I_SetIssuer, I_WaitForRollout, I_CheckTokenIssuer,
         I_CheckOpenShiftIssuer, I_FindAccount, I_DeleteAccount, I_Error, clusterVars, otherVars
<1>2. ASSUME work' = work, ipc \in PublishSteps,
             ipc' \in PublishSteps \cup {"setPublished", "notReady"}
      PROVE  Copies'
  BY <1>1, <1>2, StepSets, MoveKeepsCopies
<1>3. CASE I_EnsureResourceGroup \/ I_GetAccount \/ I_CreateAccount \/ I_UpdateAccount
           \/ I_EnsureBlobContainer
  BY <1>2, <1>3, MoveTargets
     DEF I_EnsureResourceGroup, I_GetAccount, I_CreateAccount, I_UpdateAccount,
         I_EnsureBlobContainer, IFail, PublishSteps
<1>4. CASE I_ReadActiveKey \/ I_ReadRetiringKey \/ I_UploadDiscovery \/ I_UploadJWKS
  BY <1>2, <1>4, MoveTargets
     DEF I_ReadActiveKey, I_ReadRetiringKey, I_UploadDiscovery, I_UploadJWKS,
         IFail, PublishSteps
<1>5. CASE I_SetIssuer \/ I_WaitForRollout
  <2>1. work' = work /\ ipc \in ForwardSteps /\ ipc' \in {"setReady", "rollout", "notReady"}
    BY <1>5, MoveTargets DEF I_SetIssuer, I_WaitForRollout, IFail, ForwardSteps, OpenShiftSteps
  <2>. QED BY <1>1, <2>1, StepSets, MoveKeepsCopies DEF PublishSteps, DeleteSteps
<1>6. CASE \/ I_CheckTokenIssuer \/ I_CheckOpenShiftIssuer \/ I_FindAccount
           \/ I_DeleteAccount
  <2>1. work' = work /\ ipc \in DeleteSteps /\ ipc' \in DeleteSteps \cup {"notReady"}
    BY <1>6, MoveTargets DEF I_CheckTokenIssuer, I_CheckOpenShiftIssuer, I_FindAccount,
       I_DeleteAccount, IFail, DeleteSteps
  <2>. QED BY <1>1, <2>1, StepSets, MoveKeepsCopies
<1>7. CASE I_Error
  <2>1. /\ ipc # "idle"
        /\ \/ work' = work /\ ipc' = "notReady"
           \/ work' = NoIssuer /\ ipc' = "idle"
    BY <1>7 DEF I_Error, IFail, IReturn, PublishSteps, StatusSteps
  <2>. QED BY <1>1, <2>1, StepSets, MoveKeepsCopies
<1>. QED BY <1>3, <1>4, <1>5, <1>6, <1>7

(***************************************************************************)
(* The steady keys.                                                        *)
(***************************************************************************)
Steady == SteadyKeysAreReferenced /\ KeysStayServed

\* A step that leaves what is published, and the worker elsewhere or where it was.
LEMMA BystanderKeepsSteady ==
  ASSUME Steady, UNCHANGED <<ciss, secrets>>,
         storage'.steady = storage.steady, storage'.jwks = storage.jwks,
         storage'.discovery = storage.discovery, uploadable' => uploadable,
         iss'.spec = iss.spec, iss'.uid = 0 => iss.uid = 0,
         ipc' \in PublishSteps => UNCHANGED <<ipc, work, loc>>
  PROVE  Steady'
<1>1. KeysStayServed'
  BY DEF Steady, KeysStayServed
<1>2. SteadyKeysAreReferenced'
  BY StepSets DEF Steady, SteadyKeysAreReferenced, retiringKey
<1>. QED BY <1>1, <1>2 DEF Steady

\* Nothing is steady any more.
LEMMA NothingSteady ==
  ASSUME Steady, storage'.steady = {},
         ipc' = "jwks" => ~uploadable',
         ipc' \in PublishSteps => work'.generation <= ciss'.generation
  PROVE  Steady'
  BY DEF Steady, SteadyKeysAreReferenced, KeysStayServed

\* Users, the informer, Azure, restarts.
LEMMA EnvironmentKeepsSteady ==
  ASSUME TypeOK, Copies, Steady, Environment
  PROVE  Steady'
<1>1. /\ iss \in OIDCIssuer /\ ciss \in OIDCIssuer /\ work \in OIDCIssuer
      /\ storage \in Storage /\ lastUid \in Nat
  BY IssuerFields DEF TypeOK
<1>2. ASSUME UNCHANGED <<iss, ciss, secrets, storage>>, workerUnchanged
      PROVE  Steady'
  BY <1>2, BystanderKeepsSteady DEF workerUnchanged, uploadable
<1>3. CASE CreateIssuer
  <2>1. storage'.steady = {}
    BY <1>3 DEF CreateIssuer, Steady, SteadyKeysAreReferenced
  <2>2. UNCHANGED <<ciss, storage, ipc, work, loc, secrets>>
    BY <1>3 DEF CreateIssuer, workerUnchanged
  <2>3. KeysStayServed'
    BY <2>1 DEF KeysStayServed
  <2>4. SteadyKeysAreReferenced'
    BY <2>1, <2>2 DEF Steady, SteadyKeysAreReferenced, uploadable
  <2>. QED BY <2>3, <2>4 DEF Steady
<1>4. CASE EditIssuer
  <2>1. PICK spec \in Specs \ {iss.spec} :
          /\ iss' = [iss EXCEPT !.spec = spec, !.generation = @ + 1]
          /\ storage' = [storage EXCEPT !.steady = @ \cap referencedKeys(spec, secrets)]
    BY <1>4 DEF EditIssuer
  <2>2. /\ iss'.uid = iss.uid /\ iss'.spec = spec /\ iss.uid # 0
        /\ UNCHANGED <<ciss, secrets, ipc, work, loc>>
    BY <1>1, <1>4, <2>1 DEF EditIssuer, OIDCIssuer, workerUnchanged
  <2>3. /\ storage'.steady = storage.steady \cap referencedKeys(spec, secrets)
        /\ storage'.jwks = storage.jwks /\ storage'.discovery = storage.discovery
        /\ storage'.account = storage.account /\ storage'.container = storage.container
    BY <1>1, <2>1 DEF Storage
  <2>4. KeysStayServed'
    BY <2>3 DEF Steady, KeysStayServed
  <2>5. SteadyKeysAreReferenced'
    BY <2>2, <2>3 DEF Steady, SteadyKeysAreReferenced, retiringKey, uploadable
  <2>. QED BY <2>4, <2>5 DEF Steady
<1>5. CASE DeleteIssuer
  <2>1. UNCHANGED <<ciss, secrets, ipc, work, loc>>
        /\ storage' = [storage EXCEPT !.steady = IF iss'.uid = 0 THEN {} ELSE @]
    BY <1>5 DEF DeleteIssuer, workerUnchanged
  <2>2. /\ storage'.jwks = storage.jwks /\ storage'.discovery = storage.discovery
        /\ storage'.account = storage.account /\ storage'.container = storage.container
        /\ storage'.steady = IF iss'.uid = 0 THEN {} ELSE storage.steady
    BY <1>1, <2>1 DEF Storage
  <2>3. CASE iss'.uid = 0
    <3>1. KeysStayServed'
      BY <2>2, <2>3 DEF KeysStayServed
    <3>2. SteadyKeysAreReferenced'
      BY <2>1, <2>2, <2>3 DEF Steady, SteadyKeysAreReferenced, uploadable
    <3>. QED BY <3>1, <3>2 DEF Steady
  <2>4. CASE iss'.uid # 0
    <3>1. iss'.spec = iss.spec
      BY <1>1, <1>5, <2>4, NoIssuerFields DEF DeleteIssuer, OIDCIssuer
    <3>. QED BY <2>1, <2>2, <2>4, <3>1, BystanderKeepsSteady DEF uploadable
  <2>. QED BY <2>3, <2>4
<1>6. CASE SyncIssuer
  <2>1. ciss' = iss /\ UNCHANGED <<iss, secrets, storage, ipc, work, loc>>
    BY <1>6 DEF SyncIssuer, workerUnchanged
  <2>2. ipc \in PublishSteps => work.generation <= iss.generation
    BY StepSets DEF Copies, FinalizerKeepsIssuer, CopiesAreBehind, CopyOfIssuer
  <2>3. KeysStayServed'
    BY <2>1 DEF Steady, KeysStayServed
  <2>4. SteadyKeysAreReferenced'
    BY <2>1, <2>2 DEF Steady, SteadyKeysAreReferenced, retiringKey, uploadable
  <2>. QED BY <2>3, <2>4 DEF Steady
<1>7. CASE Restart
  <2>1. ciss' = iss /\ ipc' = "idle" /\ UNCHANGED <<iss, secrets, storage>>
    BY <1>7 DEF Restart
  <2>2. KeysStayServed'
    BY <2>1 DEF Steady, KeysStayServed
  <2>3. SteadyKeysAreReferenced'
    BY <2>1, StepSets DEF Steady, SteadyKeysAreReferenced
  <2>. QED BY <2>2, <2>3 DEF Steady
<1>8. CASE ChangeSecret
  <2>1. PICK r \in SecretRefs, k \in Keys \cup {NoKey} :
          /\ secrets' = [secrets EXCEPT ![r] = k]
          /\ storage' = [storage EXCEPT !.steady = @ \ {secrets[r]}]
    BY <1>8 DEF ChangeSecret
  <2>2. UNCHANGED <<iss, ciss, ipc, work, loc>>
    BY <1>8 DEF ChangeSecret, workerUnchanged
  <2>3. /\ storage'.steady = storage.steady \ {secrets[r]}
        /\ storage'.jwks = storage.jwks /\ storage'.discovery = storage.discovery
        /\ storage'.account = storage.account /\ storage'.container = storage.container
    BY <1>1, <2>1 DEF Storage
  <2>4. \A q \in SecretRefs : q # r => secrets'[q] = secrets[q]
    BY <2>1 DEF TypeOK, Secrets
  <2>5. ASSUME NEW spec \in OIDCIssuerSpec,
               storage.steady \subseteq referencedKeys(spec, secrets)
        PROVE  storage'.steady \subseteq referencedKeys(spec, secrets')
    <3>1. spec.secretRef \in SecretRefs /\ spec.retiringSecretRef \in SecretRefs \cup {NoRef}
      BY DEF OIDCIssuerSpec
    <3>. QED BY <2>3, <2>4, <2>5, <3>1 DEF referencedKeys
  <2>6. KeysStayServed'
    BY <2>3 DEF Steady, KeysStayServed
  <2>7. SteadyKeysAreReferenced'
    <3>1. iss.spec \in OIDCIssuerSpec /\ ciss.spec \in OIDCIssuerSpec
          /\ work.spec \in OIDCIssuerSpec
      BY <1>1 DEF OIDCIssuer
    <3>2. ipc = "retiringKey" => storage'.steady \subseteq {loc.active, retiringKey'}
      <4>1. work.spec.retiringSecretRef \in SecretRefs \cup {NoRef}
        BY <3>1 DEF OIDCIssuerSpec
      <4>. QED BY <2>2, <2>3, <2>4, <4>1
           DEF Steady, SteadyKeysAreReferenced, retiringKey
    <3>. QED BY <2>2, <2>3, <2>5, <3>1, <3>2
         DEF Steady, SteadyKeysAreReferenced, uploadable
  <2>. QED BY <2>6, <2>7 DEF Steady
<1>9. CASE DriftStorage
  <2>1. UNCHANGED <<iss, ciss, secrets, ipc, work, loc>>
    BY <1>9 DEF DriftStorage, clusterVars, otherVars, workerUnchanged
  <2>2. CASE storage' \in {NoAccount(TRUE), NoAccount(FALSE)}
    <3>1. storage'.steady = {} /\ ~uploadable'
      BY <2>2 DEF NoAccount, uploadable
    <3>. QED BY <2>1, <3>1, NothingSteady DEF Steady, SteadyKeysAreReferenced
  <2>3. CASE storage' = [storage EXCEPT !.container = "absent", !.discovery = {}, !.jwks = {},
                                        !.steady = {}]
    <3>1. storage'.steady = {} /\ ~uploadable'
      BY <1>1, <2>3 DEF Storage, uploadable
    <3>. QED BY <2>1, <3>1, NothingSteady DEF Steady, SteadyKeysAreReferenced
  <2>4. CASE storage' \in {[storage EXCEPT !.hardened = FALSE],
                           [storage EXCEPT !.container = "private"]}
    <3>1. /\ storage'.steady = storage.steady /\ storage'.jwks = storage.jwks
          /\ storage'.discovery = storage.discovery
      BY <1>1, <2>4 DEF Storage
    <3>2. uploadable
      BY <1>9 DEF DriftStorage, uploadable
    <3>. QED BY <2>1, <3>1, <3>2, BystanderKeepsSteady
  <2>. QED BY <1>9, <2>2, <2>3, <2>4 DEF DriftStorage
<1>10. CASE \/ ValidateDelete \/ CreateWorkloadIdentity \/ DeleteWorkloadIdentity
            \/ SyncWorkloadIdentities \/ SyncAuthentication \/ Rollout
            \/ RestoreAuthentication \/ ChangeAuthentication
  BY <1>2, <1>10 DEF ValidateDelete, CreateWorkloadIdentity, DeleteWorkloadIdentity,
       SyncWorkloadIdentities, SyncAuthentication, Rollout, RestoreAuthentication,
       ChangeAuthentication
<1>. QED BY <1>3, <1>4, <1>5, <1>6, <1>7, <1>8, <1>9, <1>10, Zenon DEF Environment

\* Reconcile, the status, the OpenShift issuer, the guards and errors publish nothing.
LEMMA QuietStepsKeepSteady ==
  ASSUME TypeOK, Copies, Steady,
         \/ I_Reconcile \/ I_SetPublished \/ I_CapturePrevious \/ I_SetIssuer
         \/ I_WaitForRollout \/ I_SetReady \/ I_SetNotReady \/ I_CheckTokenIssuer
         \/ I_CheckOpenShiftIssuer \/ I_FindAccount \/ I_Error
  PROVE  Steady'
<1>1. /\ iss \in OIDCIssuer /\ ciss \in OIDCIssuer /\ loc.reason \in Reasons
      /\ ciss.generation \in Nat
  BY IssuerFields DEF TypeOK, WorkerTypeOK, Locals
<1>2. UNCHANGED <<ciss, secrets, storage>>
  BY DEF I_Reconcile, I_SetPublished, I_CapturePrevious, I_SetIssuer, I_WaitForRollout,
         I_SetReady, I_SetNotReady, I_CheckTokenIssuer, I_CheckOpenShiftIssuer,
         I_FindAccount, I_Error, clusterVars, otherVars
<1>3. ASSUME iss'.spec = iss.spec, iss'.uid = iss.uid, ipc' \notin PublishSteps
      PROVE  Steady'
  BY <1>2, <1>3, BystanderKeepsSteady DEF uploadable
<1>4. CASE I_Reconcile
  <2>1. iss'.spec = iss.spec /\ iss'.uid = iss.uid
    BY <1>1, <1>4 DEF I_Reconcile, OIDCIssuer
  <2>2. CASE ipc' \notin PublishSteps
    BY <1>3, <2>1, <2>2
  <2>3. CASE ipc' = "group" /\ work'.spec = ciss.spec /\ work'.generation = ciss.generation
    <3>1. KeysStayServed'
      BY <1>2 DEF Steady, KeysStayServed
    <3>2. SteadyKeysAreReferenced'
      BY <1>1, <1>2, <2>1, <2>3 DEF Steady, SteadyKeysAreReferenced
    <3>. QED BY <3>1, <3>2 DEF Steady
  <2>4. CASE ipc' # "group"
    <3>1. ipc' \in DeleteSteps \cup {"notReady", "idle"}
      BY <1>4, <2>4 DEF I_Reconcile, reconcileDelete, IBegin, guardStep, DeleteSteps
    <3>. QED BY <2>2, <3>1, StepSets
  <2>5. CASE ipc' = "group"
    <3>1. ipc' \notin DeleteSteps /\ ipc' # ipc /\ ipc' # "notReady"
      BY <1>4, <2>5 DEF DeleteSteps, I_Reconcile
    <3>2. IBegin("group", ciss, "None") \/ IBegin("group", [ciss EXCEPT !.finalizer = TRUE], "None")
      BY <1>4, <2>5, <3>1 DEF I_Reconcile, reconcileDelete, IBegin, guardStep, DeleteSteps
    <3>. QED BY <1>1, <2>3, <2>5, <3>2 DEF IBegin, OIDCIssuer
  <2>. QED BY <2>4, <2>5
<1>5. CASE I_SetPublished \/ I_CapturePrevious
  <2>1. PICK status \in OIDCIssuerStatus, pc \in {"setReady", "capture", "setIssuer"} :
          patchOIDCIssuerStatus(status, pc) \/ (UNCHANGED iss /\ ipc' = pc)
    BY <1>5, StatusTypes DEF I_SetPublished, I_CapturePrevious, afterPublished, IGoto
  <2>2. iss'.spec = iss.spec /\ iss'.uid = iss.uid
    BY <2>1, PatchKeepsObject DEF patchOIDCIssuerStatus
  <2>3. ipc' \in {"setReady", "capture", "setIssuer", "idle"}
    BY <2>1, MoveTargets DEF patchOIDCIssuerStatus
  <2>. QED BY <1>3, <2>2, <2>3, StepSets
<1>6. CASE I_SetReady \/ I_SetNotReady
  <2>1. PICK status \in OIDCIssuerStatus, b \in BOOLEAN : patchAndReturn(status, b)
    BY <1>1, <1>6, StatusTypes DEF I_SetReady, I_SetNotReady
  <2>2. iss'.spec = iss.spec /\ iss'.uid = iss.uid /\ ipc' = "idle"
    BY <2>1, PatchKeepsObject, MoveTargets DEF patchAndReturn
  <2>. QED BY <1>3, <2>2, StepSets
<1>7. CASE I_SetIssuer \/ I_WaitForRollout
  <2>1. UNCHANGED iss /\ ipc' \in {"setReady", "rollout", "notReady"}
    BY <1>7, MoveTargets DEF I_SetIssuer, I_WaitForRollout, clusterVars
  <2>. QED BY <1>3, <2>1 DEF PublishSteps
<1>8. CASE I_CheckTokenIssuer \/ I_CheckOpenShiftIssuer \/ I_FindAccount \/ I_Error
  <2>1. UNCHANGED iss /\ ipc' \in DeleteSteps \cup {"idle", "notReady"}
    BY <1>8, MoveTargets DEF I_CheckTokenIssuer, I_CheckOpenShiftIssuer, I_FindAccount,
       I_Error, clusterVars, DeleteSteps
  <2>. QED BY <1>3, <2>1, StepSets
<1>. QED BY <1>4, <1>5, <1>6, <1>7, <1>8

\* ensureStorage changes no document, and the worker goes on before the keys.
LEMMA EnsureStorageKeepsSteady ==
  ASSUME TypeOK, Steady,
         \/ I_EnsureResourceGroup \/ I_GetAccount \/ I_CreateAccount \/ I_UpdateAccount
         \/ I_EnsureBlobContainer
  PROVE  Steady'
<1>1. storage \in Storage /\ work.uid \in UIDs \cup {0} /\ loc.created \in BOOLEAN
  BY DEF TypeOK, WorkerTypeOK, OIDCIssuer, Locals
<1>2. UNCHANGED <<iss, ciss, secrets, work>>
  BY DEF I_EnsureResourceGroup, I_GetAccount, I_CreateAccount, I_UpdateAccount,
         I_EnsureBlobContainer, IGoto, IFail, clusterVars, otherVars
<1>3. ipc \in BeforeKeys /\ ipc' \in BeforeKeys \cup {"notReady"}
  BY MoveTargets DEF I_EnsureResourceGroup, I_GetAccount, I_CreateAccount, I_UpdateAccount,
         I_EnsureBlobContainer, BeforeKeys
<1>4. /\ storage'.steady = storage.steady /\ storage'.jwks = storage.jwks
      /\ storage'.discovery = storage.discovery
  <2>1. \A b \in BOOLEAN :
          /\ ownTags(b) \in Storage /\ ownTags(b).steady = storage.steady
          /\ ownTags(b).jwks = storage.jwks /\ ownTags(b).discovery = storage.discovery
    BY <1>1 DEF ownTags, Storage
  <2>2. CASE I_CreateAccount
    <3>1. CASE storage' = [ownTags(TRUE) EXCEPT !.account = TRUE, !.creator = work.uid]
      <4>1. ownTags(TRUE) \in Storage
        BY <2>1
      <4>. QED BY <2>1, <3>1, <4>1 DEF Storage
    <3>. QED BY <2>2, <3>1 DEF I_CreateAccount
  <2>3. CASE I_UpdateAccount
    BY <1>1, <2>1, <2>3 DEF I_UpdateAccount
  <2>4. CASE I_EnsureResourceGroup \/ I_GetAccount \/ I_EnsureBlobContainer
    BY <1>1, <2>4 DEF I_EnsureResourceGroup, I_GetAccount, I_EnsureBlobContainer, Storage
  <2>. QED BY <2>2, <2>3, <2>4
<1>5. KeysStayServed'
  BY <1>4 DEF Steady, KeysStayServed
<1>6. ipc' \notin {"retiringKey", "discovery", "jwks"}
  BY <1>3 DEF BeforeKeys
<1>7. ipc' \in PublishSteps => ipc \in PublishSteps
  BY <1>3, StepSets
<1>8. SteadyKeysAreReferenced'
  BY <1>2, <1>3, <1>4, <1>6, <1>7, StepSets DEF Steady, SteadyKeysAreReferenced
<1>. QED BY <1>5, <1>8 DEF Steady

\* The Secrets are read: the keys to publish come to include the steady ones.
LEMMA ReadingKeysKeepsSteady ==
  ASSUME TypeOK, Steady, I_ReadActiveKey \/ I_ReadRetiringKey
  PROVE  Steady'
<1>1. work.spec \in OIDCIssuerSpec /\ loc \in Locals
  BY DEF TypeOK, WorkerTypeOK, OIDCIssuer
<1>2. UNCHANGED <<iss, ciss, secrets, storage, work>>
  BY DEF I_ReadActiveKey, I_ReadRetiringKey, IFail, clusterVars, otherVars
<1>3. KeysStayServed'
  BY <1>2 DEF Steady, KeysStayServed
<1>4. CASE IFail("PublishFailed")
  <2>1. ipc' \notin PublishSteps
    BY <1>4, MoveTargets DEF PublishSteps
  <2>. QED BY <1>2, <2>1, BystanderKeepsSteady DEF uploadable
<1>5. CASE I_ReadActiveKey /\ ~IFail("PublishFailed")
  <2>1. ipc = "activeKey" /\ ipc' = "retiringKey" /\ loc'.active = secrets[work.spec.secretRef]
    BY <1>1, <1>5 DEF I_ReadActiveKey, Locals
  <2>2. storage.steady \subseteq referencedKeys(work.spec, secrets)
    BY <2>1 DEF Steady, SteadyKeysAreReferenced, BeforeKeys
  <2>3. storage.steady \subseteq {loc'.active, retiringKey}
    BY <1>1, <2>1, <2>2 DEF referencedKeys, retiringKey
  <2>4. SteadyKeysAreReferenced'
    BY <1>2, <2>1, <2>3 DEF Steady, SteadyKeysAreReferenced, retiringKey, PublishSteps,
       BeforeKeys
  <2>. QED BY <1>3, <2>4 DEF Steady
<1>6. CASE I_ReadRetiringKey /\ ~IFail("PublishFailed")
  <2>1. /\ ipc = "retiringKey" /\ ipc' = "discovery"
        /\ loc'.keys = publishedSigningKeys(loc.active, retiringKey)
        /\ retiringKey # NoKey \/ work.spec.retiringSecretRef = NoRef
    BY <1>1, <1>6 DEF I_ReadRetiringKey, Locals
  <2>2. NoKey \notin storage.steady
    BY KeysAssumption DEF TypeOK, Storage
  <2>3. storage.steady \subseteq {loc.active, retiringKey}
    BY <2>1 DEF Steady, SteadyKeysAreReferenced
  <2>4. storage.steady \subseteq JWKSFromPEMs(loc'.keys)
    <3>1. ASSUME NEW k \in {loc.active, retiringKey} \ {NoKey}
          PROVE  \E s \in publishedSigningKeys(loc.active, retiringKey) : s.kid = k
      <4>1. CASE k = loc.active
        <5>1. [kid |-> k, state |-> "Active"] \in publishedSigningKeys(loc.active, retiringKey)
          BY <4>1 DEF publishedSigningKeys
        <5>. QED BY <5>1
      <4>2. CASE k # loc.active
        <5>1. k \in {retiringKey} \ {loc.active, NoKey}
          BY <4>2
        <5>2. [kid |-> k, state |-> "Retiring"] \in publishedSigningKeys(loc.active, retiringKey)
          BY <5>1 DEF publishedSigningKeys
        <5>. QED BY <5>2
      <4>. QED BY <4>1, <4>2
    <3>2. ASSUME NEW k \in storage.steady
          PROVE  \E s \in loc'.keys : k = s.kid
      BY <2>1, <2>2, <2>3, <3>1, <3>2
    <3>. QED BY <3>2 DEF JWKSFromPEMs
  <2>5. SteadyKeysAreReferenced'
    BY <1>2, <2>1, <2>4 DEF Steady, SteadyKeysAreReferenced, PublishSteps, BeforeKeys
  <2>. QED BY <1>3, <2>5 DEF Steady
<1>. QED BY <1>4, <1>5, <1>6

\* The uploads.
LEMMA UploadsKeepSteady ==
  ASSUME TypeOK, Copies, Steady, I_UploadDiscovery \/ I_UploadJWKS
  PROVE  Steady'
<1>1. storage \in Storage
  BY DEF TypeOK
<1>2. UNCHANGED <<iss, ciss, secrets, work>>
  BY DEF I_UploadDiscovery, I_UploadJWKS, IGoto, IFail, clusterVars, otherVars
<1>3. CASE IFail("PublishFailed") /\ UNCHANGED storage
  <2>1. ipc' \notin PublishSteps
    BY <1>3, MoveTargets DEF PublishSteps
  <2>. QED BY <1>2, <1>3, <2>1, BystanderKeepsSteady DEF uploadable
<1>4. CASE /\ ipc = "discovery" /\ ipc' = "jwks" /\ loc' = loc
           /\ storage' = [storage EXCEPT !.discovery = DiscoveryDocument(loc.keys)]
  <2>1. /\ storage'.steady = storage.steady /\ storage'.jwks = storage.jwks
        /\ storage'.discovery = DiscoveryDocument(loc.keys)
    BY <1>1, <1>4 DEF Storage
  <2>2. storage.steady \subseteq JWKSFromPEMs(loc.keys)
    BY <1>4 DEF Steady, SteadyKeysAreReferenced
  <2>3. KeysStayServed'
    BY <2>1, <2>2 DEF Steady, KeysStayServed, JWKSFromPEMs, DiscoveryDocument
  <2>4. SteadyKeysAreReferenced'
    BY <1>2, <1>4, <2>1, <2>2 DEF Steady, SteadyKeysAreReferenced, PublishSteps, BeforeKeys
  <2>. QED BY <2>3, <2>4 DEF Steady
<1>5. CASE /\ ipc = "jwks" /\ ipc' = "setPublished" /\ loc' = loc /\ uploadable
           /\ storage' = [storage EXCEPT !.jwks = JWKSFromPEMs(loc.keys),
                                         !.steady = @ \cup newlySteady]
  <2>1. /\ storage'.steady = storage.steady \cup newlySteady
        /\ storage'.jwks = JWKSFromPEMs(loc.keys)
        /\ storage'.discovery = storage.discovery
    BY <1>1, <1>5 DEF Storage
  <2>2. newlySteady \subseteq JWKSFromPEMs(loc.keys)
        /\ newlySteady \subseteq referencedKeys(iss.spec, secrets)
    BY DEF newlySteady
  <2>3. /\ storage.steady \subseteq JWKSFromPEMs(loc.keys)
        /\ storage.discovery = DiscoveryDocument(loc.keys)
    BY <1>5 DEF Steady, SteadyKeysAreReferenced
  <2>4. KeysStayServed'
    BY <2>1, <2>2, <2>3 DEF KeysStayServed, JWKSFromPEMs, DiscoveryDocument
  <2>5. iss.uid # 0 /\ ciss.uid = iss.uid
    BY <1>5, StepSets DEF Copies, FinalizerKeepsIssuer, ForwardSteps, PublishSteps
  <2>6. newlySteady \subseteq referencedKeys(ciss.spec, secrets)
    <3>1. CASE work.generation = iss.generation
      <4>1. /\ work.generation <= ciss.generation /\ ciss.generation <= iss.generation
            /\ ciss.generation = iss.generation => ciss.spec = iss.spec
        BY <1>5, <2>5, StepSets
           DEF Steady, SteadyKeysAreReferenced, Copies, CopiesAreBehind, CopyOfIssuer
      <4>2. ciss.spec = iss.spec
        BY <3>1, <4>1, IssuerFields
      <4>. QED BY <2>2, <4>2
    <3>. QED BY <3>1 DEF newlySteady
  <2>7. ipc' \notin PublishSteps
    BY <1>5 DEF PublishSteps
  <2>8. SteadyKeysAreReferenced'
    BY <1>2, <2>1, <2>2, <2>5, <2>6, <2>7, StepSets DEF Steady, SteadyKeysAreReferenced
  <2>. QED BY <2>4, <2>8 DEF Steady
<1>. QED BY <1>3, <1>4, <1>5 DEF I_UploadDiscovery, I_UploadJWKS, IGoto

\* With the account or the issuer the steady keys go.
LEMMA DeletionKeepsSteady ==
  ASSUME TypeOK, Copies, Steady, I_DeleteAccount \/ I_RemoveFinalizer
  PROVE  Steady'
<1>1. storage \in Storage
  BY DEF TypeOK
<1>2. ipc' \notin PublishSteps /\ UNCHANGED <<ciss, secrets>>
  BY MoveTargets DEF I_DeleteAccount, I_RemoveFinalizer, PublishSteps, clusterVars, otherVars
<1>3. CASE storage'.steady = {}
  BY <1>2, <1>3, StepSets, NothingSteady
<1>4. CASE I_RemoveFinalizer /\ work # iss
  <2>1. iss' = iss /\ storage'.jwks = storage.jwks /\ storage'.discovery = storage.discovery
        /\ storage'.steady = storage.steady
        /\ storage'.account = storage.account /\ storage'.container = storage.container
    BY <1>1, <1>4 DEF I_RemoveFinalizer, Storage
  <2>. QED BY <1>2, <2>1, BystanderKeepsSteady DEF uploadable
<1>5. CASE I_RemoveFinalizer /\ work = iss
  BY <1>1, <1>3, <1>5 DEF I_RemoveFinalizer, Storage
<1>6. CASE I_DeleteAccount
  BY <1>3, <1>6 DEF I_DeleteAccount, NoAccount
<1>. QED BY <1>4, <1>5, <1>6

(***************************************************************************)
(* The inductive invariant, and what follows from it.                      *)
(***************************************************************************)
\* At first there is no issuer, no copy of one and no steady key.
LEMMA InitHistory == Init => HistoryInvariant
<1>. SUFFICES ASSUME Init PROVE HistoryInvariant
  OBVIOUS
<1>1. /\ iss.uid = 0 /\ ~iss.finalizer /\ iss = NoIssuer /\ ciss = NoIssuer
      /\ work = NoIssuer /\ lastUid = 0 /\ ipc = "idle"
  BY NoIssuerFields DEF Init, IInit
<1>2. storage.steady = {}
  BY StartStorageAssumption DEF Init, NoAccount, ForeignAccount
<1>3. CopiesAreBehind
  BY <1>1 DEF CopiesAreBehind, CopyOfIssuer
<1>4. FinalizerKeepsIssuer
  BY <1>1, StepSets DEF FinalizerKeepsIssuer
<1>5. StatusIsBehind
  BY <1>1, StepSets DEF StatusIsBehind
<1>6. SteadyKeysAreReferenced /\ KeysStayServed
  BY <1>1, <1>2, StepSets DEF SteadyKeysAreReferenced, KeysStayServed
<1>. QED BY <1>3, <1>4, <1>5, <1>6, InitInvariant DEF HistoryInvariant

\* Every step keeps it.
LEMMA StepKeepsHistory == HistoryInvariant /\ [Next]_vars => HistoryInvariant'
<1>. SUFFICES ASSUME HistoryInvariant, [Next]_vars PROVE HistoryInvariant'
  OBVIOUS
<1>1. TypeOK /\ Copies /\ Steady
  BY DEF HistoryInvariant, IssuerInvariant, Copies, Steady
<1>2. IssuerInvariant'
  BY StepKeepsInvariant DEF HistoryInvariant
<1>3. Copies' /\ Steady'
  <2>1. CASE INext
    <3>1. Copies'
      BY <1>1, <2>1, ReconcileKeepsCopies, StatusWritersKeepCopies, OtherStepsKeepCopies,
         RemoveFinalizerKeepsCopies DEF INext
    <3>2. Steady'
      BY <1>1, <2>1, QuietStepsKeepSteady, EnsureStorageKeepsSteady, ReadingKeysKeepsSteady,
         UploadsKeepSteady, DeletionKeepsSteady DEF INext
    <3>. QED BY <3>1, <3>2
  <2>2. CASE I_Error
    BY <1>1, <2>2, OtherStepsKeepCopies, QuietStepsKeepSteady
  <2>3. CASE Environment
    BY <1>1, <2>3, EnvironmentKeepsCopies, EnvironmentKeepsSteady
  <2>4. CASE UNCHANGED vars
    <3>1. UNCHANGED <<iss, ciss, lastUid, secrets, storage, ipc, work, loc>>
      BY <2>4 DEF vars, clusterVars, otherVars
    <3>2. Copies'
      BY <1>1, <3>1 DEF Copies, CopiesAreBehind, CopyOfIssuer, FinalizerKeepsIssuer,
         StatusIsBehind, ObservedIsBehind, observesItself
    <3>3. Steady'
      BY <1>1, <3>1 DEF Steady, SteadyKeysAreReferenced, KeysStayServed, retiringKey,
         uploadable
    <3>. QED BY <3>2, <3>3
  <2>. QED BY <2>1, <2>2, <2>3, <2>4 DEF Next
<1>. QED BY <1>2, <1>3 DEF HistoryInvariant, Copies, Steady

\* The cached copy and the copy a reconcile works on are never ahead of the issuer,
\* an issuer with its finalizer does not go while it is reconciled, and what is
\* still to be published refers to every steady key (Reconcile, Publish).
THEOREM HistoryAlways == Spec => []HistoryInvariant
  BY InitHistory, StepKeepsHistory, PTL DEF Spec

\* Publish never withdraws a key, nor its algorithm, to which the specification has
\* referred since it was uploaded, whatever copy a reconcile began with and wherever
\* it fails.
THEOREM KeysAlwaysServed == Spec => []KeysStayServed
<1>1. HistoryInvariant => KeysStayServed
  BY DEF HistoryInvariant
<1>. QED BY <1>1, HistoryAlways, PTL

\* Set points Authentication at this issuer only while the specification asks for it
\* or the status has not yet shown the generation that switched it off.
THEOREM HandoffAlwaysFinal == Spec => HandoffIsFinal
<1>1. ASSUME HistoryInvariant, [Next]_vars
      PROVE  [auth # OwnURL /\ auth' = OwnURL =>
                \/ iss.spec.updateServiceAccountIssuer
                \/ iss.status.observedGeneration # iss.generation]_vars
  <2>. SUFFICES ASSUME auth # OwnURL, auth' = OwnURL
                PROVE  \/ iss.spec.updateServiceAccountIssuer
                       \/ iss.status.observedGeneration # iss.generation
    OBVIOUS
  <2>1. ipc = "setIssuer" => \/ iss.spec.updateServiceAccountIssuer
                             \/ iss.status.observedGeneration # iss.generation
    BY <1>1 DEF HistoryInvariant, StatusIsBehind, observesItself
  <2>2. CASE INext
    <3>1. CASE I_SetIssuer
      BY <2>1, <3>1 DEF I_SetIssuer
    <3>2. CASE \/ I_Reconcile \/ I_EnsureResourceGroup \/ I_GetAccount \/ I_CreateAccount
               \/ I_UpdateAccount \/ I_EnsureBlobContainer \/ I_ReadActiveKey
               \/ I_ReadRetiringKey \/ I_UploadDiscovery \/ I_UploadJWKS
      BY <3>2 DEF I_Reconcile, I_EnsureResourceGroup, I_GetAccount, I_CreateAccount,
         I_UpdateAccount, I_EnsureBlobContainer, I_ReadActiveKey, I_ReadRetiringKey,
         I_UploadDiscovery, I_UploadJWKS, clusterVars
    <3>3. CASE \/ I_SetPublished \/ I_CapturePrevious \/ I_WaitForRollout \/ I_SetReady
               \/ I_SetNotReady \/ I_CheckTokenIssuer \/ I_CheckOpenShiftIssuer
               \/ I_FindAccount \/ I_DeleteAccount \/ I_RemoveFinalizer
      BY <3>3 DEF I_SetPublished, I_CapturePrevious, I_WaitForRollout, I_SetReady,
         I_SetNotReady, I_CheckTokenIssuer, I_CheckOpenShiftIssuer, I_FindAccount,
         I_DeleteAccount, I_RemoveFinalizer, clusterVars
    <3>. QED BY <2>2, <3>1, <3>2, <3>3, Zenon DEF INext
  <2>3. CASE I_Error
    BY <2>3 DEF I_Error, clusterVars
  <2>4. CASE Environment
    <3>1. CASE RestoreAuthentication
      BY <3>1 DEF RestoreAuthentication
    <3>2. CASE ChangeAuthentication
      BY <3>2 DEF ChangeAuthentication, OwnURL
    <3>3. CASE \/ CreateIssuer \/ EditIssuer \/ ValidateDelete \/ DeleteIssuer
               \/ CreateWorkloadIdentity \/ DeleteWorkloadIdentity \/ SyncIssuer
      BY <3>3 DEF CreateIssuer, EditIssuer, ValidateDelete, DeleteIssuer,
         CreateWorkloadIdentity, DeleteWorkloadIdentity, SyncIssuer
    <3>4. CASE \/ SyncWorkloadIdentities \/ SyncAuthentication \/ Rollout \/ ChangeSecret
               \/ DriftStorage \/ Restart
      BY <3>4 DEF SyncWorkloadIdentities, SyncAuthentication, Rollout, ChangeSecret,
         DriftStorage, Restart, clusterVars
    <3>. QED BY <2>4, <3>1, <3>2, <3>3, <3>4, Zenon DEF Environment
  <2>5. CASE UNCHANGED vars
    BY <2>5 DEF vars, clusterVars
  <2>. QED BY <1>1, <2>2, <2>3, <2>4, <2>5 DEF Next
<1>. QED BY <1>1, HistoryAlways, PTL DEF Spec, HandoffIsFinal
==============================================================================
