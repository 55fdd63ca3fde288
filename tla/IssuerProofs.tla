---------------------------- MODULE IssuerProofs ----------------------------
(***************************************************************************)
(* What is proved about IssuerOperator, for any number of successive       *)
(* issuers, any Secrets and keys, any specifications users write, every    *)
(* set of disturbances and any number of them.                             *)
(***************************************************************************)
EXTENDS IssuerProperties, TLAPS

(***************************************************************************)
(* Types of the operators the actions are made of.                         *)
(***************************************************************************)
\* A new OIDCIssuer is one, and so is the absent one.
LEMMA IssuerTypes ==
  /\ \A uid \in UIDs \cup {0}, spec \in OIDCIssuerSpec : newIssuer(uid, spec) \in OIDCIssuer
  /\ NoIssuer \in OIDCIssuer
<1>1. NoStatus \in OIDCIssuerStatus
  BY DEF NoStatus, OIDCIssuerStatus, Condition, Reasons
<1>2. \A uid \in UIDs \cup {0}, spec \in OIDCIssuerSpec : newIssuer(uid, spec) \in OIDCIssuer
  BY <1>1 DEF newIssuer, OIDCIssuer
<1>3. (CHOOSE spec \in OIDCIssuerSpec : TRUE) \in OIDCIssuerSpec
  <2>1. PICK r \in SecretRefs : TRUE
    BY RefsAssumption
  <2>2. [secretRef |-> r, retiringSecretRef |-> NoRef, updateServiceAccountIssuer |-> TRUE,
         deletionPolicy |-> "Retain"] \in OIDCIssuerSpec
    BY <2>1 DEF OIDCIssuerSpec
  <2>. QED BY <2>2
<1>4. NoIssuer \in OIDCIssuer
  BY <1>2, <1>3 DEF NoIssuer
<1>. QED BY <1>2, <1>4

\* The empty storage, and a foreign account.
LEMMA StorageTypes ==
  (\A g \in BOOLEAN : NoAccount(g) \in Storage) /\ ForeignAccount \in Storage
<1>1. \A g \in BOOLEAN : NoAccount(g) \in Storage
  BY DEF NoAccount, Storage
<1>2. ForeignAccount \in Storage
  BY <1>1 DEF ForeignAccount, Storage
<1>. QED BY <1>1, <1>2

\* How a worker goes on.
LEMMA WorkerTypes ==
  ASSUME WorkerTypeOK
  PROVE  /\ \A b \in BOOLEAN : IReturn(b) => WorkerTypeOK'
         /\ \A pc \in ISteps : IGoto(pc) => WorkerTypeOK'
         /\ \A reason \in Reasons : IFail(reason) => WorkerTypeOK'
         /\ \A pc \in ISteps, o \in OIDCIssuer, reason \in Reasons :
              IBegin(pc, o, reason) => WorkerTypeOK'
<1>1. NoLocals \in Locals /\ "idle" \in ISteps /\ "notReady" \in ISteps
  BY DEF NoLocals, Locals, Reasons, ISteps, StatusSteps
<1>2. \A b \in BOOLEAN : IReturn(b) => WorkerTypeOK'
  BY <1>1, IssuerTypes DEF IReturn, WorkerTypeOK
<1>3. \A pc \in ISteps : IGoto(pc) => WorkerTypeOK'
  BY DEF IGoto, WorkerTypeOK
<1>4. \A reason \in Reasons : [loc EXCEPT !.reason = reason] \in Locals
                              /\ [NoLocals EXCEPT !.reason = reason] \in Locals
  BY <1>1 DEF WorkerTypeOK, Locals
<1>5. \A reason \in Reasons : IFail(reason) => WorkerTypeOK'
  BY <1>1, <1>4 DEF IFail, WorkerTypeOK
<1>6. \A pc \in ISteps, o \in OIDCIssuer, reason \in Reasons :
        IBegin(pc, o, reason) => WorkerTypeOK'
  BY <1>4 DEF IBegin, WorkerTypeOK
<1>. QED BY <1>2, <1>3, <1>5, <1>6

\* The steps and the reasons the worker names.
LEMMA StepTypes ==
  /\ {"group", "account", "createAccount", "updateAccount", "container", "activeKey",
      "retiringKey", "discovery", "jwks", "setPublished", "setReady", "notReady", "capture",
      "setIssuer", "rollout", "tokenIssuer", "openShiftIssuer", "findAccount",
      "deleteAccount", "removeFinalizer"} \subseteq ISteps
  /\ {"None", "PublishFailed", "OpenShiftIssuerReadFailed", "OpenShiftIssuerUpdateFailed",
      "OpenShiftIssuerRolloutFailed", "ClusterServiceAccountIssuerCheckFailed",
      "BlockedByClusterServiceAccountIssuer", "BlockedByWorkloadIdentities",
      "BlockedByOpenShiftServiceAccountIssuer", "Published"} \subseteq Reasons
  BY DEF ISteps, PublishSteps, StatusSteps, OpenShiftSteps, DeleteSteps, Reasons,
         FailureReasons, QuietReasons

\* A status patch leaves an OIDCIssuer.
LEMMA PatchTypes ==
  ASSUME WorkerTypeOK, iss \in OIDCIssuer, NEW status \in OIDCIssuerStatus
  PROVE  patched(status) \in OIDCIssuer
<1>1. observed(status) \in OIDCIssuerStatus /\ work.status \in OIDCIssuerStatus
      /\ iss.status \in OIDCIssuerStatus
  BY DEF observed, WorkerTypeOK, OIDCIssuer, OIDCIssuerStatus
<1>2. \A a, b, c \in OIDCIssuerStatus : mergePatch(a, b, c) \in OIDCIssuerStatus
  BY DEF mergePatch, sent, OIDCIssuerStatus
<1>3. mergePatch(work.status, observed(status), iss.status) \in OIDCIssuerStatus
  BY <1>1, <1>2
<1>. QED BY <1>3 DEF patched, OIDCIssuer

\* The same, for the two ways to patch.
LEMMA PatchStepTypes ==
  ASSUME WorkerTypeOK, iss \in OIDCIssuer, NEW status \in OIDCIssuerStatus
  PROVE  /\ \A pc \in ISteps :
              patchOIDCIssuerStatus(status, pc) => iss' \in OIDCIssuer /\ WorkerTypeOK'
         /\ \A b \in BOOLEAN :
              patchAndReturn(status, b) => iss' \in OIDCIssuer /\ WorkerTypeOK'
<1>1. patched(status) \in OIDCIssuer
  BY PatchTypes
<1>2. ASSUME NEW pc \in ISteps, patchOIDCIssuerStatus(status, pc)
      PROVE  iss' \in OIDCIssuer /\ WorkerTypeOK'
  <2>1. CASE iss.uid # 0
    BY <1>1, <1>2, <2>1 DEF patchOIDCIssuerStatus, WorkerTypeOK
  <2>2. CASE iss.uid = 0
    <3>1. UNCHANGED iss /\ IReturn(TRUE)
      BY <1>2, <2>2 DEF patchOIDCIssuerStatus
    <3>. QED BY <3>1, WorkerTypes
  <2>. QED BY <2>1, <2>2
<1>3. ASSUME NEW b \in BOOLEAN, patchAndReturn(status, b)
      PROVE  iss' \in OIDCIssuer /\ WorkerTypeOK'
  <2>1. iss' \in OIDCIssuer
    BY <1>1, <1>3 DEF patchAndReturn
  <2>2. IReturn(b \/ iss.uid = 0) /\ (b \/ iss.uid = 0) \in BOOLEAN
    BY <1>3 DEF patchAndReturn
  <2>. QED BY <2>1, <2>2, WorkerTypes
<1>. QED BY <1>2, <1>3

\* The statuses the reconciler asks for.
LEMMA StatusTypes ==
  ASSUME TypeOK
  PROVE  /\ publishedStatus \in OIDCIssuerStatus /\ readyStatus \in OIDCIssuerStatus
         /\ \A reason \in Reasons :
              [work.status EXCEPT !.ready = condition(reason)] \in OIDCIssuerStatus
         /\ [work.status EXCEPT !.previousServiceAccountIssuer = cauth] \in OIDCIssuerStatus
<1>1. work.status \in OIDCIssuerStatus /\ work.generation \in Nat /\ cauth \in Issuers
      /\ loc.keys \in SUBSET SigningKeyStatus
  BY DEF TypeOK, WorkerTypeOK, OIDCIssuer, Locals
<1>2. \A reason \in Reasons : condition(reason) \in Condition
  BY <1>1 DEF condition, Condition
<1>3. publishedStatus \in OIDCIssuerStatus
  BY <1>1 DEF publishedStatus, OIDCIssuerStatus
<1>4. readyStatus \in OIDCIssuerStatus
  BY <1>2, <1>3, StepTypes DEF readyStatus, OIDCIssuerStatus
<1>5. \A reason \in Reasons :
        [work.status EXCEPT !.ready = condition(reason)] \in OIDCIssuerStatus
  BY <1>1, <1>2 DEF OIDCIssuerStatus
<1>6. [work.status EXCEPT !.previousServiceAccountIssuer = cauth] \in OIDCIssuerStatus
  BY <1>1 DEF OIDCIssuerStatus
<1>. QED BY <1>3, <1>4, <1>5, <1>6

\* The keys a reconcile collects, and the documents made from them.
LEMMA KeyTypes ==
  ASSUME TypeOK, NEW active \in Keys, NEW retiring \in Keys \cup {NoKey}
  PROVE  /\ publishedSigningKeys(active, retiring) \in SUBSET SigningKeyStatus
         /\ JWKSFromPEMs(loc.keys) \in SUBSET Keys
         /\ DiscoveryDocument(loc.keys) \in SUBSET {"RS256", "ES256"}
<1>1. publishedSigningKeys(active, retiring) \in SUBSET SigningKeyStatus
  BY DEF publishedSigningKeys, SigningKeyStatus
<1>2. loc.keys \in SUBSET SigningKeyStatus
  BY DEF TypeOK, WorkerTypeOK, Locals
<1>3. JWKSFromPEMs(loc.keys) \in SUBSET Keys
  BY <1>2 DEF JWKSFromPEMs, SigningKeyStatus
<1>4. DiscoveryDocument(loc.keys) \in SUBSET {"RS256", "ES256"}
  BY DEF DiscoveryDocument, PublicKeyMetadataFromPEM
<1>. QED BY <1>1, <1>3, <1>4

(***************************************************************************)
(* The steps of the worker preserve the types.                             *)
(***************************************************************************)
\* Reconcile, up to its first call out.
LEMMA ReconcileTypes == TypeOK /\ I_Reconcile => TypeOK'
<1>. SUFFICES ASSUME TypeOK, I_Reconcile PROVE TypeOK'
  OBVIOUS
<1>1. ciss \in OIDCIssuer /\ iss \in OIDCIssuer /\ WorkerTypeOK
  BY DEF TypeOK
<1>2. guardStep(ciss) \in ISteps
  BY StepTypes DEF guardStep
<1>3. [ciss EXCEPT !.finalizer = TRUE] \in OIDCIssuer
  BY <1>1 DEF OIDCIssuer
<1>4. reconcileDelete => WorkerTypeOK'
  BY <1>1, <1>2, WorkerTypes, StepTypes DEF reconcileDelete
<1>5. IBegin("group", ciss, "None") => WorkerTypeOK'
  BY <1>1, WorkerTypes, StepTypes
<1>6. IBegin("group", [ciss EXCEPT !.finalizer = TRUE], "None") => WorkerTypeOK'
  BY <1>1, <1>3, WorkerTypes, StepTypes
<1>7. queued' = FALSE /\ UNCHANGED <<iss, ipc, work, loc>> => WorkerTypeOK'
  BY <1>1 DEF WorkerTypeOK
<1>8. UNCHANGED <<iss, queued, ipc, work, loc>> => WorkerTypeOK'
  BY <1>1 DEF WorkerTypeOK
<1>9. WorkerTypeOK' /\ iss' \in OIDCIssuer
  BY <1>1, <1>3, <1>4, <1>5, <1>6, <1>7, <1>8 DEF I_Reconcile
<1>. QED BY <1>9 DEF I_Reconcile, TypeOK, otherVars

\* ensureStorage.
LEMMA EnsureStorageTypes ==
  TypeOK /\ (\/ I_EnsureResourceGroup \/ I_GetAccount \/ I_CreateAccount
             \/ I_UpdateAccount \/ I_EnsureBlobContainer) => TypeOK'
<1>. SUFFICES ASSUME TypeOK,
                     \/ I_EnsureResourceGroup \/ I_GetAccount \/ I_CreateAccount
                     \/ I_UpdateAccount \/ I_EnsureBlobContainer
              PROVE  TypeOK'
  OBVIOUS
<1>1. WorkerTypeOK /\ storage \in Storage /\ work.uid \in UIDs \cup {0} /\ loc.created \in BOOLEAN
  BY DEF TypeOK, WorkerTypeOK, OIDCIssuer, Locals
<1>2. \A b \in BOOLEAN : ownTags(b) \in Storage
  BY <1>1 DEF ownTags, Storage
<1>3. UNCHANGED <<clusterVars, budget>> /\ storage' \in Storage /\ WorkerTypeOK' => TypeOK'
  BY DEF TypeOK, clusterVars, otherVars
<1>4. CASE I_EnsureResourceGroup
  <2>1. storage' \in Storage
    BY <1>1, <1>4 DEF I_EnsureResourceGroup, Storage
  <2>. QED BY <1>1, <1>3, <1>4, <2>1, WorkerTypes, StepTypes DEF I_EnsureResourceGroup
<1>5. CASE I_GetAccount
  <2>1. createdByOperator \in BOOLEAN
    BY <1>1 DEF createdByOperator, Storage
  <2>2. loc' \in Locals
    BY <1>1, <1>5, <2>1 DEF I_GetAccount, WorkerTypeOK, Locals
  <2>3. ipc' \in ISteps
    BY <1>5, StepTypes DEF I_GetAccount
  <2>. QED BY <1>1, <1>3, <1>5, <2>2, <2>3 DEF I_GetAccount, WorkerTypeOK
<1>6. CASE I_CreateAccount
  <2>1. storage' \in Storage
    <3>1. ownTags(TRUE) \in Storage
      BY <1>2
    <3>2. [ownTags(TRUE) EXCEPT !.account = TRUE, !.creator = work.uid] \in Storage
      BY <1>1, <3>1 DEF Storage
    <3>. QED BY <1>1, <1>6, <3>2 DEF I_CreateAccount
  <2>2. WorkerTypeOK'
    BY <1>1, <1>6, WorkerTypes, StepTypes DEF I_CreateAccount
  <2>. QED BY <1>3, <1>6, <2>1, <2>2 DEF I_CreateAccount
<1>7. CASE I_UpdateAccount
  BY <1>1, <1>2, <1>3, <1>7, WorkerTypes, StepTypes DEF I_UpdateAccount
<1>8. CASE I_EnsureBlobContainer
  <2>1. storage' \in Storage
    BY <1>1, <1>8 DEF I_EnsureBlobContainer, Storage
  <2>. QED BY <1>1, <1>3, <1>8, <2>1, WorkerTypes, StepTypes DEF I_EnsureBlobContainer
<1>. QED BY <1>4, <1>5, <1>6, <1>7, <1>8

\* buildOIDCDocuments and the uploads.
LEMMA DocumentTypes ==
  TypeOK /\ ActiveKeyIsRead
    /\ (I_ReadActiveKey \/ I_ReadRetiringKey \/ I_UploadDiscovery \/ I_UploadJWKS)
    => TypeOK'
<1>. SUFFICES ASSUME TypeOK, ActiveKeyIsRead,
                     I_ReadActiveKey \/ I_ReadRetiringKey \/ I_UploadDiscovery \/ I_UploadJWKS
              PROVE  TypeOK'
  OBVIOUS
<1>1. /\ WorkerTypeOK /\ storage \in Storage /\ work.spec \in OIDCIssuerSpec
      /\ secrets \in Secrets
  BY DEF TypeOK, WorkerTypeOK, OIDCIssuer
<1>2. UNCHANGED <<clusterVars, budget>> /\ storage' \in Storage /\ WorkerTypeOK' => TypeOK'
  BY DEF TypeOK, clusterVars, otherVars
<1>3. CASE I_ReadActiveKey
  <2>1. secrets[work.spec.secretRef] \in Keys \cup {NoKey}
    BY <1>1 DEF OIDCIssuerSpec, Secrets
  <2>2. [loc EXCEPT !.active = secrets[work.spec.secretRef]] \in Locals
    BY <1>1, <2>1 DEF WorkerTypeOK, Locals
  <2>3. WorkerTypeOK'
    <3>1. CASE IFail("PublishFailed")
      BY <1>1, <3>1, WorkerTypes, StepTypes
    <3>2. CASE /\ loc' = [loc EXCEPT !.active = secrets[work.spec.secretRef]]
               /\ ipc' = "retiringKey" /\ UNCHANGED <<work, queued>>
      BY <1>1, <2>2, <3>2, StepTypes DEF WorkerTypeOK
    <3>. QED BY <1>3, <3>1, <3>2 DEF I_ReadActiveKey
  <2>. QED BY <1>1, <1>2, <1>3, <2>3 DEF I_ReadActiveKey
<1>4. CASE I_ReadRetiringKey
  <2>1. retiringKey \in Keys \cup {NoKey}
    BY <1>1 DEF retiringKey, OIDCIssuerSpec, Secrets
  <2>2. loc.active \in Keys
    BY <1>1, <1>4 DEF WorkerTypeOK, Locals, ActiveKeyIsRead, I_ReadRetiringKey
  <2>3. [loc EXCEPT !.keys = publishedSigningKeys(loc.active, retiringKey)] \in Locals
    BY <1>1, <2>1, <2>2, KeyTypes DEF WorkerTypeOK, Locals
  <2>4. WorkerTypeOK'
    <3>1. CASE IFail("PublishFailed")
      BY <1>1, <3>1, WorkerTypes, StepTypes
    <3>2. CASE /\ loc' = [loc EXCEPT !.keys = publishedSigningKeys(loc.active, retiringKey)]
               /\ ipc' = "discovery" /\ UNCHANGED <<work, queued>>
      BY <1>1, <2>3, <3>2, StepTypes DEF WorkerTypeOK
    <3>. QED BY <1>4, <3>1, <3>2 DEF I_ReadRetiringKey
  <2>. QED BY <1>1, <1>2, <1>4, <2>4 DEF I_ReadRetiringKey
<1>5. CASE I_UploadDiscovery
  <2>1. DiscoveryDocument(loc.keys) \in SUBSET {"RS256", "ES256"}
    BY DEF DiscoveryDocument, PublicKeyMetadataFromPEM
  <2>2. storage' \in Storage
    BY <1>1, <1>5, <2>1 DEF I_UploadDiscovery, Storage
  <2>. QED BY <1>1, <1>2, <1>5, <2>2, WorkerTypes, StepTypes DEF I_UploadDiscovery
<1>6. CASE I_UploadJWKS
  <2>1. JWKSFromPEMs(loc.keys) \in SUBSET Keys
    BY <1>1 DEF JWKSFromPEMs, SigningKeyStatus, WorkerTypeOK, Locals
  <2>2. newlySteady \in SUBSET Keys
    BY <2>1 DEF newlySteady
  <2>3. storage' \in Storage
    BY <1>1, <1>6, <2>1, <2>2 DEF I_UploadJWKS, Storage
  <2>. QED BY <1>1, <1>2, <1>6, <2>3, WorkerTypes, StepTypes DEF I_UploadJWKS
<1>. QED BY <1>3, <1>4, <1>5, <1>6

\* The status, and the OpenShift issuer.
LEMMA StatusStepTypes ==
  TypeOK /\ (\/ I_SetPublished \/ I_CapturePrevious \/ I_SetIssuer \/ I_WaitForRollout
             \/ I_SetReady \/ I_SetNotReady) => TypeOK'
<1>. SUFFICES ASSUME TypeOK,
                     \/ I_SetPublished \/ I_CapturePrevious \/ I_SetIssuer \/ I_WaitForRollout
                     \/ I_SetReady \/ I_SetNotReady
              PROVE  TypeOK'
  OBVIOUS
<1>1. WorkerTypeOK /\ iss \in OIDCIssuer /\ loc.reason \in Reasons
  BY DEF TypeOK, WorkerTypeOK, Locals
<1>2. UNCHANGED <<otherVars, auth, storage, budget>> /\ iss' \in OIDCIssuer /\ WorkerTypeOK'
        => TypeOK'
  BY DEF TypeOK, otherVars
<1>3. CASE I_SetPublished
  <2>1. afterPublished \in ISteps
    BY StepTypes DEF afterPublished
  <2>. QED BY <1>1, <1>2, <1>3, <2>1, StatusTypes, PatchStepTypes DEF I_SetPublished
<1>4. CASE I_CapturePrevious
  <2>1. CASE IGoto("setIssuer") /\ UNCHANGED iss
    BY <1>1, <1>2, <1>4, <2>1, WorkerTypes, StepTypes DEF I_CapturePrevious
  <2>2. CASE patchOIDCIssuerStatus(
               [work.status EXCEPT !.previousServiceAccountIssuer = cauth], "setIssuer")
    BY <1>1, <1>2, <1>4, <2>2, StatusTypes, PatchStepTypes, StepTypes DEF I_CapturePrevious
  <2>. QED BY <1>4, <2>1, <2>2 DEF I_CapturePrevious
<1>5. CASE I_SetIssuer
  <2>1. WorkerTypeOK'
    BY <1>1, <1>5, WorkerTypes, StepTypes DEF I_SetIssuer
  <2>2. auth' \in Issuers
    BY <1>5 DEF I_SetIssuer, TypeOK, Issuers
  <2>. QED BY <1>5, <2>1, <2>2 DEF I_SetIssuer, TypeOK, otherVars
<1>6. CASE I_WaitForRollout
  <2>1. WorkerTypeOK'
    BY <1>1, <1>6, WorkerTypes, StepTypes DEF I_WaitForRollout
  <2>. QED BY <1>6, <2>1 DEF I_WaitForRollout, TypeOK, clusterVars, otherVars
<1>7. CASE I_SetReady
  BY <1>1, <1>2, <1>7, StatusTypes, PatchStepTypes DEF I_SetReady
<1>8. CASE I_SetNotReady
  <2>1. (loc.reason \notin QuietReasons) \in BOOLEAN
    OBVIOUS
  <2>. QED BY <1>1, <1>2, <1>8, <2>1, StatusTypes, PatchStepTypes DEF I_SetNotReady
<1>. QED BY <1>3, <1>4, <1>5, <1>6, <1>7, <1>8

\* reconcileDelete.
LEMMA DeleteTypes ==
  TypeOK /\ (\/ I_CheckTokenIssuer \/ I_CheckOpenShiftIssuer \/ I_FindAccount
             \/ I_DeleteAccount \/ I_RemoveFinalizer) => TypeOK'
<1>. SUFFICES ASSUME TypeOK,
                     \/ I_CheckTokenIssuer \/ I_CheckOpenShiftIssuer \/ I_FindAccount
                     \/ I_DeleteAccount \/ I_RemoveFinalizer
              PROVE  TypeOK'
  OBVIOUS
<1>1. WorkerTypeOK /\ iss \in OIDCIssuer /\ storage \in Storage
  BY DEF TypeOK
<1>2. UNCHANGED <<clusterVars, budget>> /\ storage' \in Storage /\ WorkerTypeOK' => TypeOK'
  BY DEF TypeOK, clusterVars, otherVars
<1>3. CASE I_CheckTokenIssuer
  BY <1>1, <1>2, <1>3, WorkerTypes, StepTypes DEF I_CheckTokenIssuer
<1>4. CASE I_CheckOpenShiftIssuer
  BY <1>1, <1>2, <1>4, WorkerTypes, StepTypes DEF I_CheckOpenShiftIssuer
<1>5. CASE I_FindAccount
  BY <1>1, <1>2, <1>5, WorkerTypes, StepTypes DEF I_FindAccount
<1>6. CASE I_DeleteAccount
  <2>1. storage' \in Storage
    BY <1>1, <1>6, StorageTypes DEF I_DeleteAccount, Storage
  <2>. QED BY <1>1, <1>2, <1>6, <2>1, WorkerTypes, StepTypes DEF I_DeleteAccount
<1>7. CASE I_RemoveFinalizer
  <2>1. storage' \in Storage /\ iss' \in OIDCIssuer
    BY <1>1, <1>7, IssuerTypes DEF I_RemoveFinalizer, Storage
  <2>2. IReturn(work # iss) /\ (work # iss) \in BOOLEAN
    BY <1>7 DEF I_RemoveFinalizer
  <2>3. WorkerTypeOK'
    BY <1>1, <2>2, WorkerTypes
  <2>. QED BY <1>7, <2>1, <2>3 DEF I_RemoveFinalizer, TypeOK, otherVars
<1>. QED BY <1>3, <1>4, <1>5, <1>6, <1>7

\* A failing call.
LEMMA ErrorTypes == TypeOK /\ I_Error => TypeOK'
<1>. SUFFICES ASSUME TypeOK, I_Error PROVE TypeOK'
  OBVIOUS
<1>1. WorkerTypeOK /\ budget \in 0 .. MaxDisturbances
  BY DEF TypeOK
<1>2. WorkerTypeOK'
  BY <1>1, WorkerTypes, StepTypes DEF I_Error
<1>3. budget' \in 0 .. MaxDisturbances
  BY <1>1, MaxDisturbancesAssumption DEF I_Error
<1>. QED BY <1>2, <1>3 DEF I_Error, TypeOK, clusterVars, otherVars

(***************************************************************************)
(* The steps of the others preserve the types.                             *)
(***************************************************************************)
\* Users and admission.
LEMMA UserTypes ==
  TypeOK /\ (\/ CreateIssuer \/ EditIssuer \/ ValidateDelete \/ DeleteIssuer
             \/ CreateWorkloadIdentity \/ DeleteWorkloadIdentity) => TypeOK'
<1>. SUFFICES ASSUME TypeOK,
                     \/ CreateIssuer \/ EditIssuer \/ ValidateDelete \/ DeleteIssuer
                     \/ CreateWorkloadIdentity \/ DeleteWorkloadIdentity
              PROVE  TypeOK'
  OBVIOUS
<1>1. /\ WorkerTypeOK /\ iss \in OIDCIssuer /\ storage \in Storage
      /\ budget \in 0 .. MaxDisturbances
  BY DEF TypeOK
<1>2. workerUnchanged /\ queued' = queued => WorkerTypeOK'
  BY <1>1 DEF workerUnchanged, WorkerTypeOK
<1>3. \A kind : Disturb(kind) => budget' \in 0 .. MaxDisturbances
  BY <1>1, MaxDisturbancesAssumption DEF Disturb
<1>g. iss.generation + 1 \in Nat
  BY <1>1 DEF OIDCIssuer
<1>4. CASE CreateIssuer
  <2>1. lastUid + 1 \in UIDs /\ lastUid' = lastUid + 1
    BY <1>4, MaxIssuersAssumption DEF CreateIssuer, TypeOK, UIDs
  <2>2. iss' \in OIDCIssuer
    BY <1>4, <2>1, SpecsAssumption, IssuerTypes DEF CreateIssuer
  <2>. QED BY <1>2, <1>4, <2>1, <2>2 DEF CreateIssuer, TypeOK
<1>5. CASE EditIssuer
  <2>1. PICK spec \in Specs \ {iss.spec} :
          /\ iss' = [iss EXCEPT !.spec = spec, !.generation = @ + 1]
          /\ storage' = [storage EXCEPT !.steady = @ \cap referencedKeys(spec, secrets)]
    BY <1>5 DEF EditIssuer
  <2>2. spec \in OIDCIssuerSpec
    BY SpecsAssumption
  <2>3. iss' \in OIDCIssuer
    BY <1>1, <1>g, <2>1, <2>2 DEF OIDCIssuer
  <2>4. storage' \in Storage
    BY <1>1, <2>1 DEF Storage
  <2>. QED BY <1>2, <1>3, <1>5, <2>3, <2>4 DEF EditIssuer, TypeOK
<1>6. CASE ValidateDelete
  <2>1. admitted' \in UIDs \cup {0}
    BY <1>1, <1>6 DEF ValidateDelete, OIDCIssuer
  <2>. QED BY <1>2, <1>6, <2>1 DEF ValidateDelete, TypeOK
<1>7. CASE DeleteIssuer
  <2>1. [iss EXCEPT !.deleting = TRUE, !.generation = @ + 1] \in OIDCIssuer
    BY <1>1, <1>g DEF OIDCIssuer
  <2>2. iss' \in OIDCIssuer
    BY <1>1, <1>7, <2>1, IssuerTypes DEF DeleteIssuer
  <2>3. storage' \in Storage
    BY <1>1, <1>7 DEF DeleteIssuer, Storage
  <2>. QED BY <1>2, <1>7, <2>2, <2>3 DEF DeleteIssuer, TypeOK
<1>8. CASE CreateWorkloadIdentity \/ DeleteWorkloadIdentity
  BY <1>1, <1>2, <1>3, <1>8 DEF CreateWorkloadIdentity, DeleteWorkloadIdentity, TypeOK
<1>. QED BY <1>4, <1>5, <1>6, <1>7, <1>8

\* The informer.
LEMMA InformerTypes ==
  TypeOK /\ (SyncIssuer \/ SyncWorkloadIdentities \/ SyncAuthentication) => TypeOK'
<1>. SUFFICES ASSUME TypeOK, SyncIssuer \/ SyncWorkloadIdentities \/ SyncAuthentication
              PROVE  TypeOK'
  OBVIOUS
<1>1. workerUnchanged /\ queued' \in BOOLEAN => WorkerTypeOK'
  BY DEF workerUnchanged, WorkerTypeOK, TypeOK
<1>2. (queued \/ primaryResourceUpdate(ciss, iss)) \in BOOLEAN
  OBVIOUS
<1>3. queued' \in BOOLEAN
  BY <1>2 DEF SyncIssuer, SyncWorkloadIdentities, SyncAuthentication
<1>. QED BY <1>1, <1>3 DEF SyncIssuer, SyncWorkloadIdentities, SyncAuthentication, TypeOK

\* The cluster, Azure, and a restart.
LEMMA OutsideTypes ==
  TypeOK /\ (\/ Rollout \/ RestoreAuthentication \/ ChangeAuthentication \/ ChangeSecret
             \/ DriftStorage \/ Restart) => TypeOK'
<1>. SUFFICES ASSUME TypeOK,
                     \/ Rollout \/ RestoreAuthentication \/ ChangeAuthentication
                     \/ ChangeSecret \/ DriftStorage \/ Restart
              PROVE  TypeOK'
  OBVIOUS
<1>1. /\ WorkerTypeOK /\ iss \in OIDCIssuer /\ storage \in Storage /\ secrets \in Secrets
      /\ budget \in 0 .. MaxDisturbances
  BY DEF TypeOK
<1>2. workerUnchanged /\ queued' = queued => WorkerTypeOK'
  BY <1>1 DEF workerUnchanged, WorkerTypeOK
<1>3. \A kind : Disturb(kind) => budget' \in 0 .. MaxDisturbances
  BY <1>1, MaxDisturbancesAssumption DEF Disturb
<1>4. CASE Rollout
  BY <1>1, <1>2, <1>4 DEF Rollout, TypeOK
<1>5. CASE RestoreAuthentication
  <2>1. iss.status.previousServiceAccountIssuer \in Issuers \cup {NotCaptured}
    BY <1>1 DEF OIDCIssuer, OIDCIssuerStatus
  <2>2. auth' \in Issuers
    BY <1>5, <2>1 DEF RestoreAuthentication, Issuers
  <2>. QED BY <1>2, <1>5, <2>2 DEF RestoreAuthentication, TypeOK
<1>6. CASE ChangeAuthentication
  <2>1. auth' \in Issuers
    BY <1>6 DEF ChangeAuthentication, Issuers
  <2>. QED BY <1>2, <1>3, <1>6, <2>1 DEF ChangeAuthentication, TypeOK
<1>7. CASE ChangeSecret
  <2>1. PICK r \in SecretRefs, k \in Keys \cup {NoKey} :
          /\ secrets' = [secrets EXCEPT ![r] = k]
          /\ storage' = [storage EXCEPT !.steady = @ \ {secrets[r]}]
    BY <1>7 DEF ChangeSecret
  <2>2. secrets' \in Secrets
    BY <1>1, <2>1 DEF Secrets
  <2>3. storage' \in Storage
    BY <1>1, <2>1 DEF Storage
  <2>. QED BY <1>2, <1>3, <1>7, <2>2, <2>3 DEF ChangeSecret, TypeOK
<1>8. CASE DriftStorage
  <2>1. storage' \in Storage
    <3>1. [storage EXCEPT !.hardened = FALSE] \in Storage
          /\ [storage EXCEPT !.container = "private"] \in Storage
      BY <1>1 DEF Storage
    <3>2. [storage EXCEPT !.container = "absent", !.discovery = {}, !.jwks = {}, !.steady = {}]
            \in Storage
      BY <1>1 DEF Storage
    <3>. QED BY <1>8, <3>1, <3>2, StorageTypes DEF DriftStorage
  <2>. QED BY <1>2, <1>3, <1>8, <2>1 DEF DriftStorage, TypeOK, clusterVars, otherVars
<1>9. CASE Restart
  <2>1. NoLocals \in Locals /\ "idle" \in ISteps
    BY DEF NoLocals, Locals, Reasons, ISteps
  <2>2. WorkerTypeOK'
    BY <1>9, <2>1, IssuerTypes DEF Restart, WorkerTypeOK
  <2>. QED BY <1>3, <1>9, <2>2 DEF Restart, TypeOK
<1>. QED BY <1>4, <1>5, <1>6, <1>7, <1>8, <1>9

(***************************************************************************)
(* Init, and every step.                                                   *)
(***************************************************************************)
\* The program starts in a state of the right types.
LEMMA InitTypes == Init => TypeOK
<1>. SUFFICES ASSUME Init PROVE TypeOK
  OBVIOUS
<1>1. 0 \in 0 .. MaxDisturbances /\ MaxDisturbances \in 0 .. MaxDisturbances
  BY MaxDisturbancesAssumption
<1>2. NoLocals \in Locals /\ "idle" \in ISteps
  BY DEF NoLocals, Locals, Reasons, ISteps
<1>3. WorkerTypeOK
  BY <1>2, IssuerTypes DEF Init, IInit, WorkerTypeOK
<1>4. storage \in Storage
  BY StartStorageAssumption, StorageTypes DEF Init
<1>5. secrets \in Secrets
  BY DEF Init, Secrets
<1>. QED BY <1>1, <1>3, <1>4, <1>5, IssuerTypes DEF Init, TypeOK, Issuers, OwnURL

\* Every step keeps the types, given that the active key is read first.
LEMMA StepKeepsTypes == TypeOK /\ ActiveKeyIsRead /\ [Next]_vars => TypeOK'
<1>. SUFFICES ASSUME TypeOK, ActiveKeyIsRead, [Next]_vars PROVE TypeOK'
  OBVIOUS
<1>1. CASE INext
  BY <1>1, ReconcileTypes, EnsureStorageTypes, DocumentTypes, StatusStepTypes, DeleteTypes
     DEF INext
<1>2. CASE I_Error
  BY <1>2, ErrorTypes
<1>3. CASE Environment
  BY <1>3, UserTypes, InformerTypes, OutsideTypes DEF Environment
<1>4. CASE UNCHANGED vars
  BY <1>4 DEF vars, clusterVars, otherVars, TypeOK, WorkerTypeOK
<1>. QED BY <1>1, <1>2, <1>3, <1>4 DEF Next

(***************************************************************************)
(* The other parts of the invariant.  A step that leaves the worker alone  *)
(* preserves them when it keeps or removes the account and the issuer; a   *)
(* step of the worker when it does not enter one of four program counters. *)
(***************************************************************************)
previous == iss.status.previousServiceAccountIssuer
AccountKept ==
  \/ /\ storage'.account = storage.account /\ storage'.created = storage.created
     /\ storage'.creator = storage.creator /\ storage'.ownerUid = storage.ownerUid
  \/ ~storage'.account /\ ~storage'.created
TagsAgree == storage.created => storage.creator = storage.ownerUid
AbsentIsEmpty == iss.uid = 0 => previous = NotCaptured
Watched == {"retiringKey", "updateAccount", "deleteAccount", "capture"}

\* A step in which the worker does not take part.
LEMMA BystanderKeepsInvariant ==
  ASSUME IssuerInvariant, workerUnchanged, AccountKept,
         previous' \in {previous, NotCaptured}, AbsentIsEmpty'
  PROVE  (ActiveKeyIsRead /\ TagsTellCreator /\ CaptureIsFirst)'
<1>1. ActiveKeyIsRead'
  BY DEF IssuerInvariant, ActiveKeyIsRead, workerUnchanged
<1>2. TagsTellCreator'
  BY DEF IssuerInvariant, TagsTellCreator, workerUnchanged, AccountKept
<1>3. CaptureIsFirst'
  BY DEF IssuerInvariant, CaptureIsFirst, workerUnchanged, previous, AbsentIsEmpty
<1>. QED BY <1>1, <1>2, <1>3

\* A step of the worker to somewhere unremarkable.
LEMMA MoveKeepsInvariant ==
  ASSUME ipc' \notin Watched, TagsAgree', AbsentIsEmpty'
  PROVE  (ActiveKeyIsRead /\ TagsTellCreator /\ CaptureIsFirst)'
  BY DEF Watched, TagsAgree, AbsentIsEmpty, previous, ActiveKeyIsRead, TagsTellCreator,
         CaptureIsFirst

\* The first parts, of the invariant in one state.
LEMMA InvariantParts == IssuerInvariant => TypeOK /\ TagsAgree /\ AbsentIsEmpty
  BY DEF IssuerInvariant, TagsTellCreator, CaptureIsFirst, TagsAgree, AbsentIsEmpty, previous

\* What others do keeps the invariant.
LEMMA EnvironmentKeepsInvariant ==
  ASSUME IssuerInvariant, Environment
  PROVE  (ActiveKeyIsRead /\ TagsTellCreator /\ CaptureIsFirst)'
<1>1. iss \in OIDCIssuer /\ storage \in Storage /\ TagsAgree /\ AbsentIsEmpty
  BY InvariantParts DEF TypeOK
<1>2. UNCHANGED <<iss, storage>> /\ workerUnchanged
        => (ActiveKeyIsRead /\ TagsTellCreator /\ CaptureIsFirst)'
  BY <1>1, BystanderKeepsInvariant DEF AccountKept, previous, AbsentIsEmpty
<1>3. NoIssuer.uid = 0 /\ NoIssuer.status.previousServiceAccountIssuer = NotCaptured
  BY DEF NoIssuer, newIssuer, NoStatus
<1>4. CASE CreateIssuer
  <2>1. previous' = NotCaptured /\ UNCHANGED storage /\ workerUnchanged
    BY <1>4 DEF CreateIssuer, newIssuer, NoStatus, previous
  <2>. QED BY <2>1, BystanderKeepsInvariant DEF AccountKept, AbsentIsEmpty
<1>5. CASE EditIssuer
  <2>1. PICK spec \in Specs \ {iss.spec} :
          /\ iss' = [iss EXCEPT !.spec = spec, !.generation = @ + 1]
          /\ storage' = [storage EXCEPT !.steady = @ \cap referencedKeys(spec, secrets)]
    BY <1>5 DEF EditIssuer
  <2>2. previous' = previous /\ AbsentIsEmpty'
    BY <1>1, <2>1 DEF previous, OIDCIssuer, AbsentIsEmpty
  <2>3. AccountKept
    BY <1>1, <2>1 DEF AccountKept, Storage
  <2>. QED BY <1>5, <2>2, <2>3, BystanderKeepsInvariant DEF EditIssuer
<1>6. CASE ValidateDelete \/ CreateWorkloadIdentity \/ DeleteWorkloadIdentity
  BY <1>2, <1>6 DEF ValidateDelete, CreateWorkloadIdentity, DeleteWorkloadIdentity
<1>7. CASE DeleteIssuer
  <2>1. previous' \in {previous, NotCaptured} /\ AbsentIsEmpty'
    BY <1>1, <1>3, <1>7 DEF DeleteIssuer, previous, OIDCIssuer, AbsentIsEmpty
  <2>2. AccountKept
    BY <1>1, <1>7 DEF DeleteIssuer, AccountKept, Storage
  <2>. QED BY <1>7, <2>1, <2>2, BystanderKeepsInvariant DEF DeleteIssuer
<1>8. CASE SyncIssuer \/ SyncWorkloadIdentities \/ SyncAuthentication
  BY <1>2, <1>8 DEF SyncIssuer, SyncWorkloadIdentities, SyncAuthentication
<1>9. CASE Rollout \/ RestoreAuthentication \/ ChangeAuthentication
  BY <1>2, <1>9 DEF Rollout, RestoreAuthentication, ChangeAuthentication
<1>10. CASE ChangeSecret
  <2>1. AccountKept
    <3>1. PICK r \in SecretRefs : storage' = [storage EXCEPT !.steady = @ \ {secrets[r]}]
      BY <1>10 DEF ChangeSecret
    <3>. QED BY <1>1, <3>1 DEF AccountKept, Storage
  <2>2. UNCHANGED iss /\ workerUnchanged
    BY <1>10 DEF ChangeSecret
  <2>. QED BY <1>1, <2>1, <2>2, BystanderKeepsInvariant DEF previous, AbsentIsEmpty
<1>11. CASE DriftStorage
  <2>1. AccountKept
    <3>1. CASE storage' \in {NoAccount(TRUE), NoAccount(FALSE)}
      BY <3>1 DEF AccountKept, NoAccount
    <3>2. CASE storage' \in {[storage EXCEPT !.hardened = FALSE],
                             [storage EXCEPT !.container = "private"]}
      BY <1>1, <3>2 DEF AccountKept, Storage
    <3>3. CASE storage' = [storage EXCEPT !.container = "absent", !.discovery = {},
                                          !.jwks = {}, !.steady = {}]
      BY <1>1, <3>3 DEF AccountKept, Storage
    <3>. QED BY <1>11, <3>1, <3>2, <3>3 DEF DriftStorage
  <2>2. UNCHANGED iss /\ workerUnchanged
    BY <1>11 DEF DriftStorage, clusterVars
  <2>. QED BY <1>1, <2>1, <2>2, BystanderKeepsInvariant DEF previous, AbsentIsEmpty
<1>12. CASE Restart
  <2>1. ipc' = "idle" /\ UNCHANGED <<iss, storage>>
    BY <1>12 DEF Restart
  <2>. QED BY <1>1, <2>1, MoveKeepsInvariant DEF Watched, TagsAgree, AbsentIsEmpty, previous
<1>. QED BY <1>4, <1>5, <1>6, <1>7, <1>8, <1>9, <1>10, <1>11, <1>12, Zenon DEF Environment

\* Where the ways to go on lead.
LEMMA MoveTargets ==
  /\ \A b : IReturn(b) => ipc' = "idle"
  /\ \A reason : IFail(reason) => ipc' = "notReady"
  /\ \A pc : IGoto(pc) => ipc' = pc /\ UNCHANGED <<work, loc>>
  /\ \A pc, o, reason : IBegin(pc, o, reason) => ipc' = pc
  BY DEF IReturn, IFail, IGoto, IBegin

\* A status patch changes previousServiceAccountIssuer only if asked to.
LEMMA PatchKeepsPrevious ==
  ASSUME TypeOK, NEW status \in OIDCIssuerStatus,
         status.previousServiceAccountIssuer = work.status.previousServiceAccountIssuer
  PROVE  /\ patched(status).status.previousServiceAccountIssuer = previous
         /\ patched(status).uid = iss.uid
<1>1. iss \in OIDCIssuer /\ work.generation \in Nat
  BY DEF TypeOK, WorkerTypeOK, OIDCIssuer
<1>2. observed(status).previousServiceAccountIssuer = work.status.previousServiceAccountIssuer
  BY DEF observed, OIDCIssuerStatus
<1>3. patched(status).status = mergePatch(work.status, observed(status), iss.status)
      /\ patched(status).uid = iss.uid
  BY <1>1 DEF patched, OIDCIssuer
<1>4. mergePatch(work.status, observed(status), iss.status).previousServiceAccountIssuer
        = previous
  BY <1>2 DEF mergePatch, sent, previous
<1>. QED BY <1>3, <1>4

\* The statuses other than a capture do not ask for it.
LEMMA StatusKeepsPrevious ==
  ASSUME TypeOK
  PROVE  /\ publishedStatus.previousServiceAccountIssuer
              = work.status.previousServiceAccountIssuer
         /\ readyStatus.previousServiceAccountIssuer
              = work.status.previousServiceAccountIssuer
         /\ \A reason \in Reasons :
              [work.status EXCEPT !.ready = condition(reason)].previousServiceAccountIssuer
                = work.status.previousServiceAccountIssuer
<1>1. work.status \in OIDCIssuerStatus
  BY DEF TypeOK, WorkerTypeOK, OIDCIssuer
<1>2. publishedStatus \in OIDCIssuerStatus
  BY StatusTypes
<1>3. publishedStatus.previousServiceAccountIssuer = work.status.previousServiceAccountIssuer
  BY <1>1 DEF publishedStatus, OIDCIssuerStatus
<1>4. readyStatus.previousServiceAccountIssuer = publishedStatus.previousServiceAccountIssuer
  BY <1>2 DEF readyStatus, OIDCIssuerStatus
<1>. QED BY <1>1, <1>3, <1>4 DEF OIDCIssuerStatus

\* Of the worker's status writers only I_CapturePrevious changes it.
LEMMA StatusStepsKeepPrevious ==
  ASSUME TypeOK, I_SetPublished \/ I_SetReady \/ I_SetNotReady
  PROVE  previous' = previous /\ iss'.uid = iss.uid /\ UNCHANGED storage
<1>1. loc.reason \in Reasons
  BY DEF TypeOK, WorkerTypeOK, Locals
<1>2. CASE I_SetPublished
  BY <1>2, StatusTypes, StatusKeepsPrevious, PatchKeepsPrevious
     DEF I_SetPublished, patchOIDCIssuerStatus, previous
<1>3. CASE I_SetReady
  BY <1>3, StatusTypes, StatusKeepsPrevious, PatchKeepsPrevious
     DEF I_SetReady, patchAndReturn, previous
<1>4. CASE I_SetNotReady
  BY <1>1, <1>4, StatusTypes, StatusKeepsPrevious, PatchKeepsPrevious
     DEF I_SetNotReady, patchAndReturn, previous
<1>. QED BY <1>2, <1>3, <1>4

\* The account as the worker's steps leave it.
LEMMA EnsureStorageKeepsInvariant ==
  ASSUME IssuerInvariant,
         \/ I_EnsureResourceGroup \/ I_GetAccount \/ I_CreateAccount
         \/ I_UpdateAccount \/ I_EnsureBlobContainer
  PROVE  (ActiveKeyIsRead /\ TagsTellCreator /\ CaptureIsFirst)'
<1>1. TypeOK /\ storage \in Storage /\ TagsAgree /\ AbsentIsEmpty
  BY InvariantParts DEF TypeOK
<1>2. AbsentIsEmpty' /\ UNCHANGED iss
  BY <1>1 DEF I_EnsureResourceGroup, I_GetAccount, I_CreateAccount, I_UpdateAccount,
              I_EnsureBlobContainer, clusterVars, AbsentIsEmpty, previous
<1>3. \A b \in BOOLEAN : ownTags(b).ownerUid = work.uid /\ ownTags(b).created = b
                         /\ ownTags(b).creator = storage.creator
  BY <1>1 DEF ownTags, Storage
<1>4. CASE I_EnsureResourceGroup
  <2>1. TagsAgree'
    BY <1>1, <1>4 DEF I_EnsureResourceGroup, TagsAgree, Storage
  <2>2. ipc' = "account"
    BY <1>4, MoveTargets DEF I_EnsureResourceGroup
  <2>. QED BY <1>2, <2>1, <2>2, MoveKeepsInvariant DEF Watched
<1>5. CASE I_GetAccount
  <2>1. /\ UNCHANGED <<storage, work>> /\ loc' = [loc EXCEPT !.created = createdByOperator]
        /\ ipc' \in {"createAccount", "updateAccount", "container"}
    BY <1>5 DEF I_GetAccount
  <2>2. loc'.created = createdByOperator
    BY <1>1, <2>1 DEF TypeOK, WorkerTypeOK, Locals
  <2>3. createdByOperator => storage.creator = work.uid
    BY <1>1 DEF createdByOperator, TagsAgree
  <2>4. TagsTellCreator'
    BY <1>1, <2>1, <2>2, <2>3 DEF TagsTellCreator, TagsAgree
  <2>. QED BY <1>2, <2>1, <2>4 DEF ActiveKeyIsRead, CaptureIsFirst, AbsentIsEmpty, previous
<1>6. CASE I_CreateAccount
  <2>1. TagsAgree'
    <3>1. CASE UNCHANGED storage
      BY <1>1, <3>1 DEF TagsAgree
    <3>2. CASE storage' = [ownTags(TRUE) EXCEPT !.account = TRUE, !.creator = work.uid]
      <4>1. ownTags(TRUE) \in Storage
        BY <1>1 DEF ownTags, Storage, TypeOK, WorkerTypeOK, OIDCIssuer
      <4>. QED BY <1>3, <3>2, <4>1 DEF TagsAgree, Storage
    <3>. QED BY <1>6, <3>1, <3>2 DEF I_CreateAccount
  <2>2. ipc' \in {"container", "notReady"}
    BY <1>6, MoveTargets DEF I_CreateAccount
  <2>. QED BY <1>2, <2>1, <2>2, MoveKeepsInvariant DEF Watched
<1>7. CASE I_UpdateAccount
  <2>1. loc.created \in BOOLEAN
    BY <1>1 DEF TypeOK, WorkerTypeOK, Locals
  <2>2. TagsAgree'
    BY <1>1, <1>3, <1>7, <2>1
       DEF I_UpdateAccount, TagsAgree, IssuerInvariant, TagsTellCreator
  <2>3. ipc' \in {"container", "notReady"}
    BY <1>7, MoveTargets DEF I_UpdateAccount
  <2>. QED BY <1>2, <2>2, <2>3, MoveKeepsInvariant DEF Watched
<1>8. CASE I_EnsureBlobContainer
  <2>1. TagsAgree'
    BY <1>1, <1>8 DEF I_EnsureBlobContainer, TagsAgree, Storage
  <2>2. ipc' \in {"activeKey", "notReady"}
    BY <1>8, MoveTargets DEF I_EnsureBlobContainer
  <2>. QED BY <1>2, <2>1, <2>2, MoveKeepsInvariant DEF Watched
<1>. QED BY <1>4, <1>5, <1>6, <1>7, <1>8

\* Reconcile, the Secrets and the uploads.
LEMMA PublishKeepsInvariant ==
  ASSUME IssuerInvariant,
         \/ I_Reconcile \/ I_ReadActiveKey \/ I_ReadRetiringKey
         \/ I_UploadDiscovery \/ I_UploadJWKS
  PROVE  (ActiveKeyIsRead /\ TagsTellCreator /\ CaptureIsFirst)'
<1>1. TypeOK /\ storage \in Storage /\ TagsAgree /\ AbsentIsEmpty
  BY InvariantParts DEF TypeOK
<1>2. CASE I_Reconcile
  <2>1. ipc' \notin Watched
    BY <1>2, MoveTargets DEF I_Reconcile, reconcileDelete, guardStep, Watched
  <2>2. previous' = previous /\ iss'.uid = iss.uid
    <3>1. iss \in OIDCIssuer
      BY <1>1 DEF TypeOK
    <3>2. iss' = iss \/ iss' = [iss EXCEPT !.finalizer = TRUE]
      BY <1>2 DEF I_Reconcile
    <3>. QED BY <3>1, <3>2 DEF previous, OIDCIssuer
  <2>3. TagsAgree' /\ AbsentIsEmpty'
    BY <1>1, <1>2, <2>2 DEF I_Reconcile, TagsAgree, AbsentIsEmpty
  <2>. QED BY <2>1, <2>3, MoveKeepsInvariant
<1>3. CASE I_ReadActiveKey
  <2>1. UNCHANGED <<iss, storage>>
    BY <1>3 DEF I_ReadActiveKey, clusterVars
  <2>2. CASE IFail("PublishFailed")
    BY <1>1, <2>1, <2>2, MoveTargets, MoveKeepsInvariant
       DEF Watched, TagsAgree, AbsentIsEmpty, previous
  <2>3. CASE /\ secrets[work.spec.secretRef] # NoKey /\ ipc' = "retiringKey"
             /\ loc' = [loc EXCEPT !.active = secrets[work.spec.secretRef]]
    <3>1. loc'.active # NoKey
      BY <1>1, <2>3 DEF TypeOK, WorkerTypeOK, Locals
    <3>. QED BY <1>1, <2>1, <2>3, <3>1
         DEF ActiveKeyIsRead, TagsTellCreator, CaptureIsFirst, TagsAgree, AbsentIsEmpty,
             previous
  <2>. QED BY <1>3, <2>2, <2>3 DEF I_ReadActiveKey
<1>4. CASE I_ReadRetiringKey
  <2>1. ipc' \in {"discovery", "notReady"} /\ UNCHANGED <<iss, storage>>
    BY <1>4, MoveTargets DEF I_ReadRetiringKey, clusterVars
  <2>. QED BY <1>1, <2>1, MoveKeepsInvariant DEF Watched, TagsAgree, AbsentIsEmpty, previous
<1>5. CASE I_UploadDiscovery
  <2>1. TagsAgree' /\ UNCHANGED iss
    BY <1>1, <1>5 DEF I_UploadDiscovery, TagsAgree, Storage, clusterVars
  <2>2. ipc' \in {"jwks", "notReady"}
    BY <1>5, MoveTargets DEF I_UploadDiscovery
  <2>. QED BY <1>1, <2>1, <2>2, MoveKeepsInvariant DEF Watched, AbsentIsEmpty, previous
<1>6. CASE I_UploadJWKS
  <2>1. TagsAgree' /\ UNCHANGED iss
    BY <1>1, <1>6 DEF I_UploadJWKS, TagsAgree, Storage, clusterVars
  <2>2. ipc' \in {"setPublished", "notReady"}
    BY <1>6, MoveTargets DEF I_UploadJWKS
  <2>. QED BY <1>1, <2>1, <2>2, MoveKeepsInvariant DEF Watched, AbsentIsEmpty, previous
<1>. QED BY <1>2, <1>3, <1>4, <1>5, <1>6

\* The capture replaces nothing.
LEMMA CaptureReplacesNothing ==
  ASSUME IssuerInvariant, I_CapturePrevious
  PROVE  /\ previous = NotCaptured /\ UNCHANGED storage /\ iss'.uid = iss.uid
         /\ ipc' \in {"setIssuer", "idle"} /\ AbsentIsEmpty'
<1>1. TypeOK /\ iss \in OIDCIssuer /\ AbsentIsEmpty
  BY InvariantParts DEF TypeOK
<1>2. previous = NotCaptured /\ UNCHANGED storage
  BY DEF IssuerInvariant, CaptureIsFirst, I_CapturePrevious, previous
<1>3. \A status : patched(status).uid = iss.uid
  BY <1>1 DEF patched, OIDCIssuer
<1>4. iss'.uid = iss.uid /\ (iss.uid = 0 => iss' = iss)
  BY <1>3 DEF I_CapturePrevious, patchOIDCIssuerStatus
<1>5. ipc' \in {"setIssuer", "idle"}
  BY MoveTargets DEF I_CapturePrevious, patchOIDCIssuerStatus
<1>. QED BY <1>1, <1>2, <1>4, <1>5 DEF AbsentIsEmpty, previous

\* The status and the OpenShift issuer.
LEMMA StatusKeepsInvariant ==
  ASSUME IssuerInvariant,
         \/ I_SetPublished \/ I_CapturePrevious \/ I_SetIssuer \/ I_WaitForRollout
         \/ I_SetReady \/ I_SetNotReady
  PROVE  (ActiveKeyIsRead /\ TagsTellCreator /\ CaptureIsFirst)'
<1>1. TypeOK /\ TagsAgree /\ AbsentIsEmpty
  BY InvariantParts
<1>2. CASE I_SetPublished
  <2>1. previous' = previous /\ iss'.uid = iss.uid /\ UNCHANGED storage
    BY <1>1, <1>2, StatusStepsKeepPrevious
  <2>2. ipc' \in {"setReady", "capture", "setIssuer", "idle"}
    BY <1>2, MoveTargets DEF I_SetPublished, patchOIDCIssuerStatus, afterPublished
  <2>3. ipc' = "capture" => previous = NotCaptured
    <3>1. patched(publishedStatus).status.previousServiceAccountIssuer = previous
      BY <1>1, StatusTypes, StatusKeepsPrevious, PatchKeepsPrevious
    <3>2. ipc' = afterPublished \/ ipc' = "idle"
      BY <1>2, MoveTargets DEF I_SetPublished, patchOIDCIssuerStatus
    <3>. QED BY <3>1, <3>2 DEF afterPublished
  <2>. QED BY <1>1, <2>1, <2>2, <2>3
       DEF ActiveKeyIsRead, TagsTellCreator, CaptureIsFirst, TagsAgree, AbsentIsEmpty, previous
<1>3. CASE I_CapturePrevious
  BY <1>1, <1>3, CaptureReplacesNothing, MoveKeepsInvariant DEF Watched, TagsAgree
<1>4. CASE I_SetIssuer \/ I_WaitForRollout
  <2>1. ipc' \in {"setReady", "rollout", "notReady"} /\ UNCHANGED <<iss, storage>>
    BY <1>4, MoveTargets DEF I_SetIssuer, I_WaitForRollout, clusterVars
  <2>. QED BY <1>1, <2>1, MoveKeepsInvariant DEF Watched, TagsAgree, AbsentIsEmpty, previous
<1>5. CASE I_SetReady \/ I_SetNotReady
  <2>1. previous' = previous /\ iss'.uid = iss.uid /\ UNCHANGED storage
    BY <1>1, <1>5, StatusStepsKeepPrevious
  <2>2. ipc' = "idle"
    BY <1>5, MoveTargets DEF I_SetReady, I_SetNotReady, patchAndReturn
  <2>. QED BY <1>1, <2>1, <2>2, MoveKeepsInvariant DEF Watched, TagsAgree, AbsentIsEmpty
<1>. QED BY <1>2, <1>3, <1>4, <1>5

\* Deletion, and errors.
LEMMA DeleteKeepsInvariant ==
  ASSUME IssuerInvariant,
         \/ I_CheckTokenIssuer \/ I_CheckOpenShiftIssuer \/ I_FindAccount
         \/ I_DeleteAccount \/ I_RemoveFinalizer \/ I_Error
  PROVE  (ActiveKeyIsRead /\ TagsTellCreator /\ CaptureIsFirst)'
<1>1. TypeOK /\ storage \in Storage /\ TagsAgree /\ AbsentIsEmpty
  BY InvariantParts DEF TypeOK
<1>2. CASE I_CheckTokenIssuer \/ I_CheckOpenShiftIssuer
  <2>1. ipc' \in {"openShiftIssuer", "findAccount", "removeFinalizer", "notReady"}
        /\ UNCHANGED <<iss, storage>>
    BY <1>2, MoveTargets DEF I_CheckTokenIssuer, I_CheckOpenShiftIssuer, clusterVars
  <2>. QED BY <1>1, <2>1, MoveKeepsInvariant DEF Watched, TagsAgree, AbsentIsEmpty, previous
<1>3. CASE I_FindAccount
  <2>1. /\ ipc' \in {"deleteAccount", "removeFinalizer"}
        /\ ipc' = "deleteAccount" => createdByOperator
        /\ UNCHANGED <<iss, storage, work>>
    BY <1>3, MoveTargets DEF I_FindAccount, clusterVars
  <2>2. createdByOperator => storage.creator = work.uid
    BY <1>1 DEF createdByOperator, TagsAgree
  <2>. QED BY <1>1, <2>1, <2>2
       DEF ActiveKeyIsRead, TagsTellCreator, CaptureIsFirst, TagsAgree, AbsentIsEmpty, previous
<1>4. CASE I_DeleteAccount
  <2>1. TagsAgree' /\ UNCHANGED iss /\ ipc' = "removeFinalizer"
    BY <1>4, MoveTargets DEF I_DeleteAccount, NoAccount, TagsAgree, clusterVars
  <2>. QED BY <1>1, <2>1, MoveKeepsInvariant DEF Watched, AbsentIsEmpty, previous
<1>5. CASE I_RemoveFinalizer
  <2>1. TagsAgree'
    BY <1>1, <1>5 DEF I_RemoveFinalizer, TagsAgree, Storage
  <2>2. AbsentIsEmpty'
    BY <1>1, <1>5 DEF I_RemoveFinalizer, AbsentIsEmpty, previous, NoIssuer, newIssuer, NoStatus
  <2>3. ipc' = "idle"
    BY <1>5, MoveTargets DEF I_RemoveFinalizer
  <2>. QED BY <2>1, <2>2, <2>3, MoveKeepsInvariant DEF Watched
<1>6. CASE I_Error
  <2>1. ipc' \in {"notReady", "idle"} /\ UNCHANGED <<iss, storage>>
    BY <1>6, MoveTargets DEF I_Error, clusterVars
  <2>. QED BY <1>1, <2>1, MoveKeepsInvariant DEF Watched, TagsAgree, AbsentIsEmpty, previous
<1>. QED BY <1>2, <1>3, <1>4, <1>5, <1>6

(***************************************************************************)
(* The theorems.                                                           *)
(***************************************************************************)
\* The invariant holds at first: the operator made no account yet.
LEMMA InitInvariant == Init => IssuerInvariant
<1>. SUFFICES ASSUME Init PROVE IssuerInvariant
  OBVIOUS
<1>1. TypeOK
  BY InitTypes
<1>2. ~storage.created
  BY StartStorageAssumption DEF Init, NoAccount, ForeignAccount
<1>3. ipc = "idle" /\ previous = NotCaptured
  BY DEF Init, IInit, NoIssuer, newIssuer, NoStatus, previous
<1>. QED BY <1>1, <1>2, <1>3
     DEF IssuerInvariant, ActiveKeyIsRead, TagsTellCreator, CaptureIsFirst, previous

\* Every step keeps it.
LEMMA StepKeepsInvariant == IssuerInvariant /\ [Next]_vars => IssuerInvariant'
<1>. SUFFICES ASSUME IssuerInvariant, [Next]_vars PROVE IssuerInvariant'
  OBVIOUS
<1>1. TypeOK'
  BY StepKeepsTypes DEF IssuerInvariant
<1>2. (ActiveKeyIsRead /\ TagsTellCreator /\ CaptureIsFirst)'
  <2>1. CASE INext
    BY <2>1, EnsureStorageKeepsInvariant, PublishKeepsInvariant, StatusKeepsInvariant,
       DeleteKeepsInvariant DEF INext
  <2>2. CASE I_Error
    BY <2>2, DeleteKeepsInvariant
  <2>3. CASE Environment
    BY <2>3, EnvironmentKeepsInvariant
  <2>4. CASE UNCHANGED vars
    BY <2>4 DEF vars, clusterVars, IssuerInvariant, ActiveKeyIsRead, TagsTellCreator,
                CaptureIsFirst
  <2>. QED BY <2>1, <2>2, <2>3, <2>4 DEF Next
<1>. QED BY <1>1, <1>2 DEF IssuerInvariant

\* The types and the inductive parts hold for ever: in particular the tags of the
\* storage account never name an issuer that did not create it.
THEOREM InvariantAlways == Spec => []IssuerInvariant
  BY InitInvariant, StepKeepsInvariant, PTL DEF Spec

\* The OIDCIssuer controller keeps the types of everything it reads and writes.
THEOREM TypesAlways == Spec => []TypeOK
<1>1. IssuerInvariant => TypeOK
  BY DEF IssuerInvariant
<1>. QED BY <1>1, InvariantAlways, PTL

\* reconcileDelete deletes the storage account only for the issuer whose request
\* made it, however often issuers are replaced, accounts adopted and answers lost.
THEOREM OwnAccountOnly == Spec => DeletesOnlyItsOwnAccount
<1>1. ASSUME IssuerInvariant, [Next]_vars
      PROVE  [DeletesAccount => storage.creator = work.uid]_vars
  <2>. SUFFICES ASSUME DeletesAccount PROVE storage.creator = work.uid
    OBVIOUS
  <2>1. storage \in Storage /\ storage.account /\ ~storage'.account /\ ipc' # ipc
    BY <1>1 DEF IssuerInvariant, TypeOK, DeletesAccount
  <2>2. I_DeleteAccount \/ UNCHANGED storage \/ storage'.account = storage.account
    <3>1. CASE INext
      <4>1. \A b \in BOOLEAN : ownTags(b).account = storage.account
        BY <2>1 DEF ownTags, Storage
      <4>2. CASE I_EnsureResourceGroup \/ I_EnsureBlobContainer \/ I_UploadDiscovery
                 \/ I_UploadJWKS \/ I_RemoveFinalizer
        BY <2>1, <4>2 DEF I_EnsureResourceGroup, I_EnsureBlobContainer, I_UploadDiscovery,
                          I_UploadJWKS, I_RemoveFinalizer, Storage
      <4>3. CASE I_CreateAccount
        <5>1. ownTags(TRUE) \in Storage
          BY <1>1 DEF IssuerInvariant, TypeOK, WorkerTypeOK, OIDCIssuer, ownTags, Storage
        <5>. QED BY <2>1, <4>3, <5>1 DEF I_CreateAccount, Storage
      <4>4. CASE I_UpdateAccount
        <5>1. loc.created \in BOOLEAN
          BY <1>1 DEF IssuerInvariant, TypeOK, WorkerTypeOK, Locals
        <5>. QED BY <4>1, <4>4, <5>1 DEF I_UpdateAccount
      <4>5. CASE I_Reconcile \/ I_GetAccount \/ I_ReadActiveKey \/ I_ReadRetiringKey
        BY <4>5 DEF I_Reconcile, I_GetAccount, I_ReadActiveKey, I_ReadRetiringKey
      <4>6. CASE I_SetPublished \/ I_CapturePrevious \/ I_SetIssuer \/ I_WaitForRollout
                 \/ I_SetReady \/ I_SetNotReady
        BY <4>6 DEF I_SetPublished, I_CapturePrevious, I_SetIssuer, I_WaitForRollout,
                    I_SetReady, I_SetNotReady
      <4>7. CASE I_CheckTokenIssuer \/ I_CheckOpenShiftIssuer \/ I_FindAccount
        BY <4>7 DEF I_CheckTokenIssuer, I_CheckOpenShiftIssuer, I_FindAccount
      <4>. QED BY <3>1, <4>2, <4>3, <4>4, <4>5, <4>6, <4>7, Zenon DEF INext
    <3>2. CASE I_Error
      BY <3>2 DEF I_Error
    <3>3. CASE Environment
      <4>1. CASE Restart
        BY <4>1 DEF Restart
      <4>2. CASE workerUnchanged
        BY <2>1, <4>2 DEF workerUnchanged
      <4>3. Environment => Restart \/ workerUnchanged
        BY DEF Environment, CreateIssuer, EditIssuer, ValidateDelete, DeleteIssuer,
               CreateWorkloadIdentity, DeleteWorkloadIdentity, SyncIssuer,
               SyncWorkloadIdentities, SyncAuthentication, Rollout, RestoreAuthentication,
               ChangeAuthentication, ChangeSecret, DriftStorage
      <4>. QED BY <3>3, <4>1, <4>2, <4>3
    <3>4. CASE UNCHANGED vars
      BY <3>4 DEF vars
    <3>. QED BY <1>1, <3>1, <3>2, <3>3, <3>4 DEF Next
  <2>3. I_DeleteAccount
    BY <2>1, <2>2
  <2>. QED BY <1>1, <2>1, <2>3 DEF IssuerInvariant, TagsTellCreator, I_DeleteAccount
<1>. QED BY <1>1, InvariantAlways, PTL DEF Spec, DeletesOnlyItsOwnAccount

\* capturePreviousServiceAccountIssuer writes the issuer to restore at most once in
\* the life of an OIDCIssuer, and no status patch drops it.
THEOREM CaptureAlwaysFirst == Spec => CapturedOnce
<1>1. ASSUME IssuerInvariant, [Next]_vars
      PROVE  [iss.uid # 0 /\ iss'.uid = iss.uid
                /\ iss.status.previousServiceAccountIssuer # NotCaptured =>
              iss'.status.previousServiceAccountIssuer
                = iss.status.previousServiceAccountIssuer]_vars
  <2>. SUFFICES ASSUME iss.uid # 0, iss'.uid = iss.uid, previous # NotCaptured
                PROVE  previous' = previous
    BY DEF previous
  <2>1. iss \in OIDCIssuer /\ TypeOK /\ lastUid \in UIDs \cup {0}
    BY <1>1 DEF IssuerInvariant, TypeOK
  <2>2. UNCHANGED iss => previous' = previous
    BY DEF previous
  <2>3. NoIssuer.uid = 0
    BY DEF NoIssuer, newIssuer
  <2>4. CASE INext
    <3>1. CASE I_Reconcile
      <4>1. iss' = iss \/ iss' = [iss EXCEPT !.finalizer = TRUE]
        BY <3>1 DEF I_Reconcile
      <4>. QED BY <2>1, <4>1 DEF previous, OIDCIssuer
    <3>2. CASE I_SetPublished \/ I_SetReady \/ I_SetNotReady
      BY <2>1, <3>2, StatusStepsKeepPrevious
    <3>3. CASE I_CapturePrevious
      BY <1>1, <3>3, CaptureReplacesNothing
    <3>4. CASE I_RemoveFinalizer
      BY <2>2, <2>3, <3>4 DEF I_RemoveFinalizer
    <3>5. CASE \/ I_EnsureResourceGroup \/ I_GetAccount \/ I_CreateAccount
               \/ I_UpdateAccount \/ I_EnsureBlobContainer
      BY <2>2, <3>5 DEF I_EnsureResourceGroup, I_GetAccount, I_CreateAccount,
                        I_UpdateAccount, I_EnsureBlobContainer, clusterVars
    <3>6. CASE \/ I_ReadActiveKey \/ I_ReadRetiringKey \/ I_UploadDiscovery \/ I_UploadJWKS
               \/ I_SetIssuer \/ I_WaitForRollout
      BY <2>2, <3>6 DEF I_ReadActiveKey, I_ReadRetiringKey, I_UploadDiscovery, I_UploadJWKS,
                        I_SetIssuer, I_WaitForRollout, clusterVars
    <3>7. CASE \/ I_CheckTokenIssuer \/ I_CheckOpenShiftIssuer \/ I_FindAccount
               \/ I_DeleteAccount
      BY <2>2, <3>7 DEF I_CheckTokenIssuer, I_CheckOpenShiftIssuer, I_FindAccount,
                        I_DeleteAccount, clusterVars
    <3>. QED BY <2>4, <3>1, <3>2, <3>3, <3>4, <3>5, <3>6, <3>7, Zenon DEF INext
  <2>5. CASE I_Error
    BY <2>2, <2>5 DEF I_Error, clusterVars
  <2>6. CASE Environment
    <3>1. CASE EditIssuer
      BY <2>1, <3>1 DEF EditIssuer, previous, OIDCIssuer
    <3>2. CASE DeleteIssuer
      BY <2>1, <2>3, <3>2 DEF DeleteIssuer, previous, OIDCIssuer
    <3>3. CASE CreateIssuer
      BY <3>3 DEF CreateIssuer
    <3>4. CASE \/ ValidateDelete \/ CreateWorkloadIdentity \/ DeleteWorkloadIdentity
               \/ SyncIssuer \/ SyncWorkloadIdentities \/ SyncAuthentication
      BY <2>2, <3>4 DEF ValidateDelete, CreateWorkloadIdentity, DeleteWorkloadIdentity,
                        SyncIssuer, SyncWorkloadIdentities, SyncAuthentication
    <3>5. CASE \/ Rollout \/ RestoreAuthentication \/ ChangeAuthentication \/ ChangeSecret
               \/ DriftStorage \/ Restart
      BY <2>2, <3>5 DEF Rollout, RestoreAuthentication, ChangeAuthentication, ChangeSecret,
                        DriftStorage, Restart, clusterVars
    <3>. QED BY <2>6, <3>1, <3>2, <3>3, <3>4, <3>5, Zenon DEF Environment
  <2>7. CASE UNCHANGED vars
    BY <2>2, <2>7 DEF vars, clusterVars
  <2>. QED BY <1>1, <2>4, <2>5, <2>6, <2>7 DEF Next
<1>. QED BY <1>1, InvariantAlways, PTL DEF Spec, CapturedOnce
=============================================================================
