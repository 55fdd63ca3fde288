--------------------------- MODULE IssuerProperties ---------------------------
(***************************************************************************)
(* What IssuerOperator guarantees, and, at the end, what the documentation *)
(* says of it that it does not.                                            *)
(***************************************************************************)
EXTENDS IssuerOperator

(***************************************************************************)
(* Instances: the specifications users write.                              *)
(***************************************************************************)
CONSTANTS s1, s2   \* two Secret references

specification(active, retiring, update, policy) ==
  [secretRef |-> active, retiringSecretRef |-> retiring,
   updateServiceAccountIssuer |-> update, deletionPolicy |-> policy]

PlainSpecs == {specification(s1, NoRef, FALSE, "Retain")}
\* A rotation from s1 to s2 with an overlap; OpenShift is to use the issuer then.
RotationSpecs == {specification(s1, NoRef, FALSE, "Retain"),
                  specification(s2, s1, FALSE, "Retain"),
                  specification(s2, NoRef, TRUE, "Retain")}
\* OpenShift management, switched off before the deletion.
ManagedSpecs == {specification(s1, NoRef, TRUE, "Retain")}
HandoffSpecs == ManagedSpecs \cup {specification(s1, NoRef, FALSE, "Delete")}
\* Managed to the end.
ManagedDeleteSpecs == {specification(s1, NoRef, TRUE, "Delete")}
EmptyAzure == {NoAccount(FALSE)}
AnyAzure == {NoAccount(FALSE), ForeignAccount}

(***************************************************************************)
(* Safety.                                                                 *)
(***************************************************************************)
\* A key to which the specification has referred without a break since it was
\* uploaded stays usable: it is in the published key set, and discovery advertises
\* its algorithm, whatever fails in the middle of a rotation (Publish uploads the
\* two documents separately, from keys read earlier, under a copy of the
\* specification).
KeysStayServed ==
  /\ storage.steady \subseteq storage.jwks
  /\ \A k \in storage.steady : PublicKeyMetadataFromPEM(k) \in storage.discovery

\* The worker takes the storage account away.
DeletesAccount == storage.account /\ ~storage'.account /\ ipc' # ipc

\* The storage account is deleted only for the issuer whose request made it: not
\* when it was adopted, and not when a predecessor made it, through retagging,
\* lost answers and recreated issuers (convergeStorageAccount, Delete).
DeletesOnlyItsOwnAccount == [][DeletesAccount => storage.creator = work.uid]_vars

\* The handoff of docs/content/guides/oidc-issuer.md is safe: once management is
\* switched off and the status shows the generation that did it, the operator does
\* not touch Authentication again, whatever reconcile was under way
\* (patchOIDCIssuerStatus and its answer, Set).
HandoffIsFinal ==
  [][auth # OwnURL /\ auth' = OwnURL =>
       iss.spec.updateServiceAccountIssuer \/ iss.status.observedGeneration # iss.generation]_vars

\* The issuer to restore is captured once, and no later reconcile overwrites or
\* drops it, although reconciles start from cached copies without it and patch
\* without a resource version (capturePreviousServiceAccountIssuer).
CapturedOnce ==
  [][iss.uid # 0 /\ iss'.uid = iss.uid
       /\ iss.status.previousServiceAccountIssuer # NotCaptured =>
     iss'.status.previousServiceAccountIssuer = iss.status.previousServiceAccountIssuer]_vars

(***************************************************************************)
(* The inductive invariant behind TypeOK and the action properties.        *)
(***************************************************************************)
\* The retiring key is read after the active one.
ActiveKeyIsRead == ipc = "retiringKey" => loc.active # NoKey

\* The tags tell who made the account, and what the worker read of them is so.
TagsTellCreator ==
  /\ storage.created => storage.creator = storage.ownerUid
  /\ ipc = "updateAccount" /\ storage.account /\ loc.created => storage.creator = work.uid
  /\ ipc = "deleteAccount" /\ storage.account => storage.creator = work.uid

\* The worker captures only where nothing is captured yet.
CaptureIsFirst ==
  /\ iss.uid = 0 => iss.status.previousServiceAccountIssuer = NotCaptured
  /\ ipc = "capture" => iss.status.previousServiceAccountIssuer = NotCaptured

IssuerInvariant == TypeOK /\ ActiveKeyIsRead /\ TagsTellCreator /\ CaptureIsFirst

(***************************************************************************)
(* The inductive invariant behind KeysStayServed and HandoffIsFinal.       *)
(***************************************************************************)
ForwardSteps == PublishSteps \cup {"setPublished", "setReady"} \cup OpenShiftSteps

\* A copy of the issuer that exists is not ahead of it; a copy of its generation
\* has its specification; a deletion is not taken back.
CopyOfIssuer(o) ==
  o.uid = iss.uid /\ o.uid # 0 =>
    /\ o.generation <= iss.generation
    /\ o.generation = iss.generation => o.spec = iss.spec
    /\ o.deleting => iss.deleting

CopiesAreBehind ==
  /\ iss.uid <= lastUid /\ ciss.uid <= lastUid /\ work.uid <= lastUid
  /\ CopyOfIssuer(ciss) /\ CopyOfIssuer(work)

\* An issuer gets its finalizer from the worker, hence when the cache knows it; it
\* keeps it until the worker, deleting it, takes it away.
FinalizerKeepsIssuer ==
  /\ iss.finalizer => iss.uid # 0 /\ ciss.uid = iss.uid /\ work.uid \in {0, iss.uid}
  /\ ciss.finalizer /\ ~ciss.deleting => iss.finalizer
  /\ ipc \in ForwardSteps => iss.finalizer /\ work.uid = iss.uid
  /\ ipc \in DeleteSteps => work.deleting /\ (ciss.uid = work.uid => ciss.deleting)
  /\ ipc # "idle" => work.uid # 0

\* The generation the status shows is not ahead where it is not sent again.
ObservedIsBehind == iss.status.observedGeneration <= iss.generation
observesItself(o) == o.status.observedGeneration = o.generation
StatusIsBehind ==
  /\ iss.finalizer /\ observesItself(ciss) => ObservedIsBehind
  /\ ipc \in PublishSteps \cup {"setPublished"} /\ observesItself(work) => ObservedIsBehind
  /\ ipc \in {"capture", "setIssuer"} =>
       /\ ObservedIsBehind
       /\ ipc = "capture" => work.spec.updateServiceAccountIssuer
       /\ iss.spec.updateServiceAccountIssuer \/ ~observesItself(iss)

\* Every copy that is still to be published refers to the steady keys.
BeforeKeys == {"group", "account", "createAccount", "updateAccount", "container", "activeKey"}
SteadyKeysAreReferenced ==
  /\ iss.uid = 0 => storage.steady = {}
  /\ storage.steady \subseteq referencedKeys(iss.spec, secrets)
  /\ storage.steady \subseteq referencedKeys(ciss.spec, secrets)
  /\ ipc \in PublishSteps => work.generation <= ciss.generation
  /\ ipc \in BeforeKeys => storage.steady \subseteq referencedKeys(work.spec, secrets)
  /\ ipc = "retiringKey" => storage.steady \subseteq {loc.active, retiringKey}
  /\ ipc \in {"discovery", "jwks"} => storage.steady \subseteq JWKSFromPEMs(loc.keys)
  /\ ipc = "jwks" /\ uploadable => storage.discovery = DiscoveryDocument(loc.keys)

HistoryInvariant ==
  /\ IssuerInvariant /\ CopiesAreBehind /\ FinalizerKeepsIssuer /\ StatusIsBehind
  /\ SteadyKeysAreReferenced /\ KeysStayServed

(***************************************************************************)
(* Progress.                                                               *)
(***************************************************************************)
upToDate ==
  LET keys == referencedKeys(iss.spec, secrets) IN
    /\ iss.status.ready = [reason |-> "Published", generation |-> iss.generation]
    /\ iss.status.observedGeneration = iss.generation
    /\ iss.status.issuerURL /\ JWKSFromPEMs(iss.status.signingKeys) = keys
    /\ storage.account /\ storage.ownerUid = iss.uid /\ storage.hardened
    /\ storage.container = "public" /\ storage.jwks = keys
    /\ storage.discovery = {PublicKeyMetadataFromPEM(k) : k \in keys}
    /\ iss.spec.updateServiceAccountIssuer => tokens = OwnURL

\* Once disturbances stop, an issuer with readable Secrets is Ready for good, and
\* what it reports is what is published, although Secrets are not watched and
\* status patches start from copies that may be old (Reconcile's refresh).
IssuerConverges ==
  <>[](iss.uid # 0 /\ ~iss.deleting /\ NoKey \notin referencedKeys(iss.spec, secrets)
         => upToDate)

\* A deletion that was blocked goes on when what blocked it is gone, although only
\* one of the blocked paths requeues itself (reconcileDelete and the watches).
DeletionCompletes ==
  <>[](~wis /\ auth # OwnURL) => (iss.deleting ~> ~iss.deleting)

(***************************************************************************)
(* Said of the operator, and not so.                                       *)
(***************************************************************************)
\* "These checks prevent a public key endpoint from disappearing while the cluster
\* still produces tokens that depend on it", one of them being that "OpenShift no
\* longer points at this issuer" (docs/content/architecture/oidc-publishing.md;
\* reconcileDelete).
EndpointOutlivesUse == [][DeletesAccount => auth # OwnURL /\ tokens # OwnURL]_vars
=============================================================================
