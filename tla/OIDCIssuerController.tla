------------------------ MODULE OIDCIssuerController ------------------------
(***************************************************************************)
(* The OIDCIssuer reconciler (internal/controller/oidcissuer_controller.go) *)
(* with the calls it makes: the publisher (internal/azure/                 *)
(* oidc_publisher.go), the deletion guard (internal/oidcissuer) and the    *)
(* OpenShift client (internal/openshift).                                  *)
(*                                                                         *)
(* There is one OIDCIssuer, named "default"; its successive instances have *)
(* the UIDs 1, 2, ...  All of them publish to the same storage account, so *)
(* the issuer URL is one value, OwnURL.  One worker; steps as in           *)
(* WorkloadIdentityController.                                             *)
(***************************************************************************)
EXTENDS OIDCDocuments

CONSTANTS
  MaxIssuers,       \* how many OIDCIssuers are created, one after the other
  TokenGuard,       \* the operator can mint tokens for its own ServiceAccount
  Disturbances,     \* the kinds of disturbance of this instance
  MaxDisturbances   \* how many of them happen, over all kinds

ASSUME MaxIssuersAssumption == MaxIssuers \in Nat \ {0}
ASSUME TokenGuardAssumption == TokenGuard \in BOOLEAN
ASSUME MaxDisturbancesAssumption == MaxDisturbances \in Nat

VARIABLES
  iss,      \* the OIDCIssuer in the API server
  ciss,     \* the informer's copy of it
  lastUid,  \* the last UID given out
  admitted, \* UID of the issuer whose deletion admission let through, or 0
  wis,      \* a WorkloadIdentity exists
  cwis,     \* one exists in the informer's cache
  auth,     \* Authentication/cluster.spec.serviceAccountIssuer
  cauth,    \* the informer's copy of it
  tokens,   \* the issuer of newly minted ServiceAccount tokens
  secrets,  \* Secret reference -> key
  storage,  \* resource group, storage account, container and blobs
  queued,   \* "default" is in the work queue
  budget,   \* disturbances left
  ipc,      \* what the running reconcile does next
  work,     \* its OIDCIssuer, replaced by every answer of the API server
  loc       \* its other local variables

otherVars == <<ciss, lastUid, admitted, wis, cwis, cauth, tokens, secrets>>
clusterVars == <<iss, auth, otherVars>>
vars == <<clusterVars, storage, queued, budget, ipc, work, loc>>

(***************************************************************************)
(* Objects.                                                                *)
(***************************************************************************)
UIDs == 1 .. MaxIssuers
OwnURL == "own"
Issuers == {OwnURL, "default", "custom"}
NotCaptured == "notCaptured"

\* The Ready condition: "Published" when True, its reason when False.
FailureReasons ==
  {"PublishFailed", "OpenShiftIssuerReadFailed", "OpenShiftIssuerUpdateFailed",
   "OpenShiftIssuerRolloutFailed", "ClusterServiceAccountIssuerCheckFailed",
   "BlockedByClusterServiceAccountIssuer"}

\* Mutant: a deletion blocked by the issuer of tokens waits for an event, too.
QuietReasons_Tokens == {"BlockedByWorkloadIdentities", "BlockedByOpenShiftServiceAccountIssuer",
                        "BlockedByClusterServiceAccountIssuer"}

QuietReasons == {"BlockedByWorkloadIdentities", "BlockedByOpenShiftServiceAccountIssuer"}
Reasons == {"None", "Published"} \cup FailureReasons \cup QuietReasons
Condition == [reason : Reasons, generation : Nat]

OIDCIssuerSpec ==
  [secretRef : SecretRefs, retiringSecretRef : SecretRefs \cup {NoRef},
   updateServiceAccountIssuer : BOOLEAN, deletionPolicy : {"Retain", "Delete"}]

\* issuerURL: whether it is set; it is OwnURL then.
OIDCIssuerStatus ==
  [issuerURL : BOOLEAN, observedGeneration : Nat,
   signingKeys : SUBSET SigningKeyStatus,
   previousServiceAccountIssuer : Issuers \cup {NotCaptured}, ready : Condition]

NoStatus ==
  [issuerURL |-> FALSE, observedGeneration |-> 0, signingKeys |-> {},
   previousServiceAccountIssuer |-> NotCaptured,
   ready |-> [reason |-> "None", generation |-> 0]]

OIDCIssuer ==
  [uid : UIDs \cup {0}, deleting : BOOLEAN, finalizer : BOOLEAN, generation : Nat,
   spec : OIDCIssuerSpec, status : OIDCIssuerStatus]

newIssuer(uid, spec) ==
  [uid |-> uid, deleting |-> FALSE, finalizer |-> FALSE, generation |-> 1,
   spec |-> spec, status |-> NoStatus]

\* No object; its specification is of no interest.
NoIssuer == newIssuer(0, CHOOSE spec \in OIDCIssuerSpec : TRUE)

\* ownerUid and created are the tags of the account.  creator is history: whose
\* request made the account (0: not the operator).  hardened: the account's
\* properties are as convergeStorageAccount wants them.  steady is history: the
\* keys that were in a key set uploaded from the then current specification and to
\* which the specification has referred ever since.
Storage ==
  [group : BOOLEAN, account : BOOLEAN, ownerUid : UIDs \cup {0}, created : BOOLEAN,
   creator : UIDs \cup {0}, hardened : BOOLEAN,
   container : {"absent", "private", "public"},
   discovery : SUBSET {"RS256", "ES256"}, jwks : SUBSET Keys,
   steady : SUBSET Keys]

NoAccount(group) ==
  [group |-> group, account |-> FALSE, ownerUid |-> 0, created |-> FALSE, creator |-> 0,
   hardened |-> FALSE, container |-> "absent", discovery |-> {}, jwks |-> {},
   steady |-> {}]
ForeignAccount == [NoAccount(TRUE) EXCEPT !.account = TRUE]

(***************************************************************************)
(* The worker.                                                             *)
(***************************************************************************)
PublishSteps == {"group", "account", "createAccount", "updateAccount", "container",
                 "activeKey", "retiringKey", "discovery", "jwks"}
StatusSteps == {"setPublished", "setReady", "notReady"}
OpenShiftSteps == {"capture", "setIssuer", "rollout"}
DeleteSteps == {"tokenIssuer", "openShiftIssuer", "findAccount", "deleteAccount",
                "removeFinalizer"}
ISteps == {"idle"} \cup PublishSteps \cup StatusSteps \cup OpenShiftSteps \cup DeleteSteps

\* created: what the account's tags said; active: the active key; keys: the keys
\* to publish, then published; reason: why the status is about to be NotReady.
Locals == [created : BOOLEAN, active : Keys \cup {NoKey},
           keys : SUBSET SigningKeyStatus, reason : Reasons]
NoLocals == [created |-> FALSE, active |-> NoKey, keys |-> {}, reason |-> "None"]

WorkerTypeOK ==
  ipc \in ISteps /\ work \in OIDCIssuer /\ loc \in Locals /\ queued \in BOOLEAN

IInit == ipc = "idle" /\ work = NoIssuer /\ loc = NoLocals

IReturn(requeue) ==
  ipc' = "idle" /\ work' = NoIssuer /\ loc' = NoLocals /\ queued' = (queued \/ requeue)
IGoto(pc) == ipc' = pc /\ UNCHANGED <<work, loc, queued>>
IBegin(pc, issuer, reason) ==
  /\ ipc' = pc /\ work' = issuer /\ loc' = [NoLocals EXCEPT !.reason = reason]
  /\ queued' = FALSE
IFail(reason) ==
  /\ ipc' = "notReady" /\ loc' = [loc EXCEPT !.reason = reason]
  /\ UNCHANGED <<work, queued>>

(***************************************************************************)
(* patchOIDCIssuerStatus: a merge patch without a resource version.  What  *)
(* equals the worker's copy is not sent; conditions travel as a list.  The *)
(* object in the answer, with the specification as it is by then, replaces *)
(* the worker's copy.                                                      *)
(***************************************************************************)
sent(original, modified, current) == IF modified # original THEN modified ELSE current

mergePatch(original, modified, current) ==
  [issuerURL |-> sent(original.issuerURL, modified.issuerURL, current.issuerURL),
   observedGeneration |-> sent(original.observedGeneration, modified.observedGeneration,
                               current.observedGeneration),
   signingKeys |-> sent(original.signingKeys, modified.signingKeys, current.signingKeys),
   previousServiceAccountIssuer |->
     sent(original.previousServiceAccountIssuer, modified.previousServiceAccountIssuer,
          current.previousServiceAccountIssuer),
   ready |-> sent(original.ready, modified.ready, current.ready)]

\* Mutant: the generation is read again just before the patch.
observed_Current(status) == [status EXCEPT !.observedGeneration = iss.generation]

observed(status) == [status EXCEPT !.observedGeneration = work.generation]

patched(status) ==
  [iss EXCEPT !.status = mergePatch(work.status, observed(status), iss.status)]

condition(reason) == [reason |-> reason, generation |-> work.generation]

\* The worker goes on at pc with the answer; NotFound ends the reconcile.
patchOIDCIssuerStatus(status, pc) ==
  IF iss.uid # 0
    THEN /\ iss' = patched(status) /\ work' = patched(status)
         /\ ipc' = pc /\ UNCHANGED <<loc, queued>>
    ELSE UNCHANGED iss /\ IReturn(TRUE)

\* The same as the last thing a reconcile does.
patchAndReturn(status, requeue) ==
  /\ iss' = IF iss.uid = 0 THEN iss ELSE patched(status)
  /\ IReturn(requeue \/ iss.uid = 0)

(***************************************************************************)
(* Reconcile up to its first call out, from the informer's copy.           *)
(***************************************************************************)
\* The guards that follow the list of WorkloadIdentities apply to an issuer whose
\* URL was published.
guardStep(issuer) ==
  CASE issuer.status.issuerURL -> "tokenIssuer"
    [] ~issuer.status.issuerURL /\ issuer.spec.deletionPolicy = "Delete" -> "findAccount"
    [] OTHER -> "removeFinalizer"

reconcileDelete ==
  \/ cwis /\ IBegin("notReady", ciss, "BlockedByWorkloadIdentities")
  \/ ~cwis /\ IBegin(guardStep(ciss), ciss, "None")

\* Both writes of the finalizer carry the resource version.
I_Reconcile ==
  /\ ipc = "idle" /\ queued
  /\ \/ /\ ciss.uid = 0 \/ (ciss.deleting /\ ~ciss.finalizer)
        /\ queued' = FALSE /\ UNCHANGED <<iss, ipc, work, loc>>
     \/ /\ ciss.uid # 0 /\ ciss.deleting /\ ciss.finalizer
        /\ reconcileDelete /\ UNCHANGED iss
     \/ /\ ciss.uid # 0 /\ ~ciss.deleting /\ ciss.finalizer
        /\ IBegin("group", ciss, "None") /\ UNCHANGED iss
     \/ /\ ciss.uid # 0 /\ ~ciss.deleting /\ ~ciss.finalizer /\ ciss = iss
        /\ iss' = [ciss EXCEPT !.finalizer = TRUE]
        /\ IBegin("group", [ciss EXCEPT !.finalizer = TRUE], "None")
     \/ /\ ciss.uid # 0 /\ ~ciss.deleting /\ ~ciss.finalizer /\ ciss # iss
        /\ UNCHANGED <<iss, queued, ipc, work, loc>>
  /\ UNCHANGED <<otherVars, auth, storage, budget>>

(***************************************************************************)
(* Publish: ensureStorage.                                                 *)
(***************************************************************************)
ownTags(created) ==
  [storage EXCEPT !.ownerUid = work.uid, !.created = created, !.hardened = TRUE]

\* Mutant: the marker of a resource the operator created is not tied to the UID.
createdByOperator_AnyUid == storage.created

\* wasOIDCIssuerResourceCreatedByOperator
createdByOperator == storage.created /\ storage.ownerUid = work.uid

I_EnsureResourceGroup ==
  /\ ipc = "group"
  /\ storage' = [storage EXCEPT !.group = TRUE]
  /\ IGoto("account")
  /\ UNCHANGED <<clusterVars, budget>>

\* GetProperties; convergeStorageAccount's comparison.
I_GetAccount ==
  /\ ipc = "account"
  /\ loc' = [loc EXCEPT !.created = createdByOperator]
  /\ ipc' = CASE ~storage.account -> "createAccount"
              [] storage.account /\ storage # ownTags(createdByOperator) -> "updateAccount"
              [] OTHER -> "container"
  /\ UNCHANGED <<clusterVars, storage, queued, budget, work>>

\* BeginCreate and PollUntilDone.
I_CreateAccount ==
  /\ ipc = "createAccount"
  /\ \/ /\ storage.group
        /\ storage' = [ownTags(TRUE) EXCEPT !.account = TRUE, !.creator = work.uid]
        /\ IGoto("container")
     \/ ~storage.group /\ UNCHANGED storage /\ IFail("PublishFailed")
  /\ UNCHANGED <<clusterVars, budget>>

I_UpdateAccount ==
  /\ ipc = "updateAccount"
  /\ \/ storage.account /\ storage' = ownTags(loc.created) /\ IGoto("container")
     \/ ~storage.account /\ UNCHANGED storage /\ IFail("PublishFailed")
  /\ UNCHANGED <<clusterVars, budget>>

\* Mutant: a container that exists is left as it is.
I_EnsureBlobContainer_CreatesOnly ==
  /\ ipc = "container"
  /\ \/ /\ storage.account
        /\ storage' = [storage EXCEPT !.container = IF @ = "absent" THEN "public" ELSE @]
        /\ IGoto("activeKey")
     \/ ~storage.account /\ UNCHANGED storage /\ IFail("PublishFailed")
  /\ UNCHANGED <<clusterVars, budget>>

\* ensureBlobContainer: get, then create or make public.
I_EnsureBlobContainer ==
  /\ ipc = "container"
  /\ \/ /\ storage.account
        /\ storage' = [storage EXCEPT !.container = "public"]
        /\ IGoto("activeKey")
     \/ ~storage.account /\ UNCHANGED storage /\ IFail("PublishFailed")
  /\ UNCHANGED <<clusterVars, budget>>

(***************************************************************************)
(* Publish: buildOIDCDocuments reads the Secrets one after the other from  *)
(* the API server, then the two documents are uploaded one after the other. *)
(***************************************************************************)
I_ReadActiveKey ==
  /\ ipc = "activeKey"
  /\ LET k == secrets[work.spec.secretRef] IN
       \/ /\ k # NoKey
          /\ loc' = [loc EXCEPT !.active = k]
          /\ ipc' = "retiringKey" /\ UNCHANGED <<work, queued>>
       \/ k = NoKey /\ IFail("PublishFailed")
  /\ UNCHANGED <<clusterVars, storage, budget>>

retiringKey == IF work.spec.retiringSecretRef = NoRef THEN NoKey
               ELSE secrets[work.spec.retiringSecretRef]

I_ReadRetiringKey ==
  /\ ipc = "retiringKey"
  /\ \/ /\ work.spec.retiringSecretRef = NoRef \/ retiringKey # NoKey
        /\ loc' = [loc EXCEPT !.keys = publishedSigningKeys(loc.active, retiringKey)]
        /\ ipc' = "discovery" /\ UNCHANGED <<work, queued>>
     \/ /\ work.spec.retiringSecretRef # NoRef /\ retiringKey = NoKey
        /\ IFail("PublishFailed")
  /\ UNCHANGED <<clusterVars, storage, budget>>

uploadable == storage.account /\ storage.container # "absent"

I_UploadDiscovery ==
  /\ ipc = "discovery"
  /\ \/ /\ uploadable
        /\ storage' = [storage EXCEPT !.discovery = DiscoveryDocument(loc.keys)]
        /\ IGoto("jwks")
     \/ ~uploadable /\ UNCHANGED storage /\ IFail("PublishFailed")
  /\ UNCHANGED <<clusterVars, budget>>

newlySteady ==
  IF work.uid = iss.uid /\ work.generation = iss.generation
    THEN JWKSFromPEMs(loc.keys) \cap referencedKeys(iss.spec, secrets) ELSE {}

I_UploadJWKS ==
  /\ ipc = "jwks"
  /\ \/ /\ uploadable
        /\ storage' = [storage EXCEPT !.jwks = JWKSFromPEMs(loc.keys),
                                      !.steady = @ \cup newlySteady]
        /\ IGoto("setPublished")
     \/ ~uploadable /\ UNCHANGED storage /\ IFail("PublishFailed")
  /\ UNCHANGED <<clusterVars, budget>>

(***************************************************************************)
(* Status, and the OpenShift issuer where the specification asks for it.   *)
(***************************************************************************)
publishedStatus ==
  [work.status EXCEPT !.issuerURL = TRUE, !.signingKeys = loc.keys]

\* Mutant: decided on the copy the reconcile began with.
afterPublished_FromCopy ==
  CASE ~work.spec.updateServiceAccountIssuer -> "setReady"
    [] /\ work.spec.updateServiceAccountIssuer
       /\ work.status.previousServiceAccountIssuer = NotCaptured -> "capture"
    [] OTHER -> "setIssuer"

\* What follows is decided on the answer, hence on the current specification.
afterPublished ==
  CASE ~iss.spec.updateServiceAccountIssuer -> "setReady"
    [] /\ iss.spec.updateServiceAccountIssuer
       /\ patched(publishedStatus).status.previousServiceAccountIssuer = NotCaptured -> "capture"
    [] OTHER -> "setIssuer"

I_SetPublished ==
  /\ ipc = "setPublished"
  /\ patchOIDCIssuerStatus(publishedStatus, afterPublished)
  /\ UNCHANGED <<otherVars, auth, storage, budget>>

\* Get from the cache, and capturePreviousServiceAccountIssuer.
I_CapturePrevious ==
  /\ ipc = "capture"
  /\ \/ cauth = OwnURL /\ IGoto("setIssuer") /\ UNCHANGED iss
     \/ /\ cauth # OwnURL
        /\ patchOIDCIssuerStatus(
             [work.status EXCEPT !.previousServiceAccountIssuer = cauth], "setIssuer")
  /\ UNCHANGED <<otherVars, auth, storage, budget>>

\* Set: another cached read, then a merge patch of this one field.
I_SetIssuer ==
  /\ ipc = "setIssuer"
  /\ \/ cauth = OwnURL /\ IGoto("setReady") /\ UNCHANGED auth
     \/ cauth # OwnURL /\ auth' = OwnURL /\ IGoto("rollout")
  /\ UNCHANGED <<otherVars, iss, storage, budget>>

\* WaitForKubeAPIServerRollout: the rollout is seen to be over, or not in time.
I_WaitForRollout ==
  /\ ipc = "rollout"
  /\ \/ tokens = auth /\ IGoto("setReady")
     \/ IFail("OpenShiftIssuerRolloutFailed")
  /\ UNCHANGED <<clusterVars, storage, budget>>

readyStatus == [publishedStatus EXCEPT !.ready = condition("Published")]

I_SetReady ==
  /\ ipc = "setReady"
  /\ patchAndReturn(readyStatus, TRUE)
  /\ UNCHANGED <<otherVars, auth, storage, budget>>

\* A blocked deletion is not requeued where a watch will wake it.
I_SetNotReady ==
  /\ ipc = "notReady"
  /\ patchAndReturn([work.status EXCEPT !.ready = condition(loc.reason)],
                    loc.reason \notin QuietReasons)
  /\ UNCHANGED <<otherVars, auth, storage, budget>>

(***************************************************************************)
(* Deletion: the two handoff guards, the account, the finalizer.           *)
(***************************************************************************)
\* CheckTokenIssuerHandoff mints a token; without a client OpenShift's guard is
\* left to decide.
I_CheckTokenIssuer ==
  /\ ipc = "tokenIssuer"
  /\ \/ TokenGuard /\ tokens = OwnURL /\ IFail("BlockedByClusterServiceAccountIssuer")
     \/ (TokenGuard => tokens # OwnURL) /\ IGoto("openShiftIssuer")
  /\ UNCHANGED <<clusterVars, storage, budget>>

I_CheckOpenShiftIssuer ==
  /\ ipc = "openShiftIssuer"
  /\ \/ cauth = OwnURL /\ IFail("BlockedByOpenShiftServiceAccountIssuer")
     \/ /\ cauth # OwnURL
        /\ IGoto(IF work.spec.deletionPolicy = "Delete" THEN "findAccount"
                 ELSE "removeFinalizer")
  /\ UNCHANGED <<clusterVars, storage, budget>>

I_FindAccount ==
  /\ ipc = "findAccount"
  /\ IGoto(IF storage.account /\ createdByOperator THEN "deleteAccount"
           ELSE "removeFinalizer")
  /\ UNCHANGED <<clusterVars, storage, budget>>

I_DeleteAccount ==
  /\ ipc = "deleteAccount"
  /\ storage' = NoAccount(storage.group)
  /\ IGoto("removeFinalizer")
  /\ UNCHANGED <<clusterVars, budget>>

I_RemoveFinalizer ==
  /\ ipc = "removeFinalizer"
  /\ iss' = IF work = iss THEN NoIssuer ELSE iss
  /\ storage' = [storage EXCEPT !.steady = IF work = iss THEN {} ELSE @]
  /\ IReturn(work # iss)
  /\ UNCHANGED <<otherVars, auth, budget>>

(***************************************************************************)
(* A call fails, or took effect and its answer was lost; the error then    *)
(* strikes before the next step.                                           *)
(***************************************************************************)
I_Error ==
  /\ "fault" \in Disturbances /\ budget > 0 /\ budget' = budget - 1
  /\ \/ ipc \in PublishSteps \cup {"setPublished"} /\ IFail("PublishFailed")
     \/ ipc = "capture" /\ IFail("OpenShiftIssuerReadFailed")
     \/ ipc \in {"setIssuer", "rollout"} /\ IFail("OpenShiftIssuerUpdateFailed")
     \/ ipc = "tokenIssuer" /\ IFail("ClusterServiceAccountIssuerCheckFailed")
     \/ /\ ipc \in StatusSteps \cup {"group", "capture", "setIssuer", "openShiftIssuer",
                                    "findAccount", "deleteAccount", "removeFinalizer"}
        /\ IReturn(TRUE)
  /\ UNCHANGED <<clusterVars, storage>>

INext ==
  \/ I_Reconcile \/ I_EnsureResourceGroup \/ I_GetAccount \/ I_CreateAccount
  \/ I_UpdateAccount \/ I_EnsureBlobContainer \/ I_ReadActiveKey \/ I_ReadRetiringKey
  \/ I_UploadDiscovery \/ I_UploadJWKS \/ I_SetPublished \/ I_CapturePrevious
  \/ I_SetIssuer \/ I_WaitForRollout \/ I_SetReady \/ I_SetNotReady
  \/ I_CheckTokenIssuer \/ I_CheckOpenShiftIssuer \/ I_FindAccount \/ I_DeleteAccount
  \/ I_RemoveFinalizer
=============================================================================
