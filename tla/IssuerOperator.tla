---------------------------- MODULE IssuerOperator ----------------------------
(***************************************************************************)
(* The OIDCIssuer controller among those it meets: users and admission     *)
(* (internal/webhook/v1alpha1/oidcissuer_webhook.go), the informer with    *)
(* its watches, kube-apiserver's rollouts, whoever changes Secrets, the    *)
(* Authentication resource and the storage account, faults and restarts.   *)
(***************************************************************************)
EXTENDS OIDCIssuerController

CONSTANTS
  Specs,        \* the specifications users write
  StartSpecs,   \* those they create an issuer with
  StartStorage, \* what is in Azure at first
  Deletable     \* users delete the issuer

ASSUME SpecsAssumption == StartSpecs \subseteq Specs /\ Specs \subseteq OIDCIssuerSpec
ASSUME StartStorageAssumption ==
  StartStorage \subseteq {NoAccount(FALSE), NoAccount(TRUE), ForeignAccount}
ASSUME DeletableAssumption == Deletable \in BOOLEAN

TypeOK ==
  /\ iss \in OIDCIssuer /\ ciss \in OIDCIssuer
  /\ lastUid \in UIDs \cup {0} /\ admitted \in UIDs \cup {0}
  /\ wis \in BOOLEAN /\ cwis \in BOOLEAN
  /\ auth \in Issuers /\ cauth \in Issuers /\ tokens \in Issuers
  /\ secrets \in Secrets /\ storage \in Storage
  /\ budget \in 0 .. MaxDisturbances /\ WorkerTypeOK

\* Every Secret has a key of its own at first.
Init ==
  /\ iss = NoIssuer /\ ciss = NoIssuer /\ lastUid = 0 /\ admitted = 0
  /\ wis = FALSE /\ cwis = FALSE
  /\ auth = "default" /\ cauth = "default" /\ tokens = "default"
  /\ secrets \in [SecretRefs -> Keys]
  /\ \A r, q \in SecretRefs : secrets[r] = secrets[q] => r = q
  /\ storage \in StartStorage
  /\ queued = FALSE /\ budget = MaxDisturbances /\ IInit

Disturb(kind) == kind \in Disturbances /\ budget > 0 /\ budget' = budget - 1

workerUnchanged == UNCHANGED <<ipc, work, loc>>

(***************************************************************************)
(* Users and admission.                                                    *)
(***************************************************************************)
\* validateOIDCIssuerSigningKey
validateOIDCIssuer(spec) == spec.retiringSecretRef # spec.secretRef

CreateIssuer ==
  /\ iss.uid = 0 /\ lastUid < MaxIssuers
  /\ \E spec \in StartSpecs :
       validateOIDCIssuer(spec) /\ iss' = newIssuer(lastUid + 1, spec)
  /\ lastUid' = lastUid + 1
  /\ UNCHANGED <<ciss, wis, cwis, auth, cauth, tokens, secrets, storage, queued, budget,
                 admitted>>
  /\ workerUnchanged

EditIssuer ==
  /\ Disturb("edit") /\ iss.uid # 0
  /\ \E spec \in Specs \ {iss.spec} :
       /\ validateOIDCIssuer(spec)
       /\ iss' = [iss EXCEPT !.spec = spec, !.generation = @ + 1]
       /\ storage' = [storage EXCEPT !.steady = @ \cap referencedKeys(spec, secrets)]
  /\ UNCHANGED <<ciss, lastUid, wis, cwis, auth, cauth, tokens, secrets, queued, admitted>>
  /\ workerUnchanged

\* ValidateDelete: the guards of reconcileDelete, read from the API server.
ValidateDelete ==
  /\ Deletable /\ iss.uid # 0 /\ ~iss.deleting /\ admitted = 0
  /\ ~wis
  /\ iss.status.issuerURL => (TokenGuard => tokens # OwnURL) /\ auth # OwnURL
  /\ admitted' = iss.uid
  /\ UNCHANGED <<iss, ciss, lastUid, wis, cwis, auth, cauth, tokens, secrets, storage,
                 queued, budget>>
  /\ workerUnchanged

\* The API server acts on the admitted request; a deletion timestamp counts as a
\* new generation.
DeleteIssuer ==
  /\ admitted # 0 /\ admitted' = 0
  /\ iss' = CASE iss.uid = admitted /\ iss.finalizer ->
                   [iss EXCEPT !.deleting = TRUE, !.generation = @ + 1]
              [] iss.uid = admitted /\ ~iss.finalizer -> NoIssuer
              [] OTHER -> iss
  /\ storage' = [storage EXCEPT !.steady = IF iss'.uid = 0 THEN {} ELSE @]
  /\ UNCHANGED <<ciss, lastUid, wis, cwis, auth, cauth, tokens, secrets, queued, budget>>
  /\ workerUnchanged

CreateWorkloadIdentity ==
  /\ Disturb("identity") /\ ~wis /\ wis' = TRUE
  /\ UNCHANGED <<iss, ciss, lastUid, cwis, auth, cauth, tokens, secrets, storage, queued,
                 admitted>>
  /\ workerUnchanged

DeleteWorkloadIdentity ==
  /\ wis /\ wis' = FALSE
  /\ UNCHANGED <<iss, ciss, lastUid, cwis, auth, cauth, tokens, secrets, storage, queued,
                 budget, admitted>>
  /\ workerUnchanged

(***************************************************************************)
(* The informer.  Secrets are not watched.                                 *)
(***************************************************************************)
primaryResourceUpdate(old, new) ==
  \/ old.uid # new.uid
  \/ ~old.deleting /\ new.deleting
  \/ old.generation # new.generation

SyncIssuer ==
  /\ ciss # iss /\ ciss' = iss
  /\ queued' = (queued \/ primaryResourceUpdate(ciss, iss))
  /\ UNCHANGED <<iss, lastUid, wis, cwis, auth, cauth, tokens, secrets, storage, budget,
                 admitted>>
  /\ workerUnchanged

SyncWorkloadIdentities ==
  /\ cwis # wis /\ cwis' = wis /\ queued' = TRUE
  /\ UNCHANGED <<iss, ciss, lastUid, wis, auth, cauth, tokens, secrets, storage, budget,
                 admitted>>
  /\ workerUnchanged

SyncAuthentication ==
  /\ cauth # auth /\ cauth' = auth /\ queued' = TRUE
  /\ UNCHANGED <<iss, ciss, lastUid, wis, cwis, auth, tokens, secrets, storage, budget,
                 admitted>>
  /\ workerUnchanged

(***************************************************************************)
(* The cluster and Azure.                                                  *)
(***************************************************************************)
\* kube-apiserver comes to use the configured issuer.
Rollout ==
  /\ tokens # auth /\ tokens' = auth
  /\ UNCHANGED <<iss, ciss, lastUid, wis, cwis, auth, cauth, secrets, storage, queued,
                 budget, admitted>>
  /\ workerUnchanged

\* The end of the documented handoff: management was switched off, and the status
\* shows the generation that did it.
RestoreAuthentication ==
  /\ iss.uid # 0 /\ auth = OwnURL
  /\ ~iss.spec.updateServiceAccountIssuer /\ iss.status.observedGeneration = iss.generation
  /\ auth' = IF iss.status.previousServiceAccountIssuer = NotCaptured THEN "default"
             ELSE iss.status.previousServiceAccountIssuer
  /\ UNCHANGED <<iss, ciss, lastUid, wis, cwis, cauth, tokens, secrets, storage, queued,
                 budget, admitted>>
  /\ workerUnchanged

\* An administrator configures an issuer of their own.
ChangeAuthentication ==
  /\ Disturb("authentication")
  /\ auth # "custom" /\ auth' = "custom"
  /\ UNCHANGED <<iss, ciss, lastUid, wis, cwis, cauth, tokens, secrets, storage, queued,
                 admitted>>
  /\ workerUnchanged

\* A Secret gets a key that is in no Secret, or is lost.
ChangeSecret ==
  /\ Disturb("secret")
  /\ \E r \in SecretRefs, k \in (Keys \ {secrets[q] : q \in SecretRefs}) \cup {NoKey} :
       /\ secrets' = [secrets EXCEPT ![r] = k]
       /\ storage' = [storage EXCEPT !.steady = @ \ {secrets[r]}]
  /\ UNCHANGED <<iss, ciss, lastUid, wis, cwis, auth, cauth, tokens, queued, admitted>>
  /\ workerUnchanged

\* The account is deleted with or without its group, the container with its blobs,
\* or settings change.
DriftStorage ==
  /\ Disturb("storage") /\ storage.account /\ storage.container = "public"
  /\ storage' \in {NoAccount(TRUE), NoAccount(FALSE), [storage EXCEPT !.hardened = FALSE],
                   [storage EXCEPT !.container = "private"],
                   [storage EXCEPT !.container = "absent", !.discovery = {}, !.jwks = {},
                                   !.steady = {}]}
  /\ UNCHANGED <<clusterVars, queued>>
  /\ workerUnchanged

\* The process starts again: it lists everything and reconciles what it finds.
Restart ==
  /\ Disturb("restart")
  /\ ipc' = "idle" /\ work' = NoIssuer /\ loc' = NoLocals
  /\ ciss' = iss /\ cwis' = wis /\ cauth' = auth /\ queued' = TRUE
  /\ UNCHANGED <<iss, lastUid, wis, auth, tokens, secrets, storage, admitted>>

Environment ==
  \/ CreateIssuer \/ EditIssuer \/ ValidateDelete \/ DeleteIssuer
  \/ CreateWorkloadIdentity \/ DeleteWorkloadIdentity
  \/ SyncIssuer \/ SyncWorkloadIdentities \/ SyncAuthentication
  \/ Rollout \/ RestoreAuthentication \/ ChangeAuthentication \/ ChangeSecret \/ DriftStorage \/ Restart

Next == INext \/ I_Error \/ Environment

Spec == Init /\ [][Next]_vars

(***************************************************************************)
(* Fairness: a reconcile goes on, a queued name is taken, the informer     *)
(* catches up, kube-apiserver rolls out.                                   *)
(***************************************************************************)
Fairness ==
  /\ WF_vars(INext)
  /\ WF_vars(SyncIssuer)
  /\ WF_vars(SyncWorkloadIdentities)
  /\ WF_vars(SyncAuthentication)
  /\ WF_vars(Rollout)

FairSpec == Spec /\ Fairness
=============================================================================
