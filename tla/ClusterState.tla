---------------------------- MODULE ClusterState ----------------------------
(***************************************************************************)
(* The state the two controllers share: the Kubernetes objects in the API  *)
(* server, the informer's cached copies of them, the Azure identity with   *)
(* its federated credential, and the two work queues.                      *)
(*                                                                         *)
(* There is one WorkloadIdentity name.  Its successive instances (deleted  *)
(* and recreated, or rebuilt in a new cluster) have the UIDs 1, 2, ...     *)
(* A resource version is not a number here: an optimistic-lock write based *)
(* on a copy succeeds exactly when the copy still equals the object.       *)
(***************************************************************************)
EXTENDS AzureOwnership

CONSTANTS
  Starts,           \* what the operator finds when it starts: see StateInit
  Disturbances,     \* the kinds of disturbance of this instance
  MaxDisturbances   \* how many of them happen, over all kinds

ASSUME MaxDisturbancesAssumption == MaxDisturbances \in Nat

VARIABLES
  wi,       \* the WorkloadIdentity in the API server
  cwi,      \* the informer's copy of it
  rec,      \* recovery UID -> the WorkloadIdentityRecovery in the API server
  crec,     \* recovery UID -> the informer's copy
  sa,       \* the ServiceAccount in the API server
  csa,      \* the informer's copy
  uami,     \* the user-assigned identity in Azure
  fic,      \* its federated identity credentials
  issuerReady,  \* OIDCIssuer "default" exists and is Ready
  lastUid,  \* the last WorkloadIdentity UID the API server gave out
  wq,       \* the name is in the WorkloadIdentity work queue
  rq,       \* the recoveries in the recovery work queue
  budget    \* disturbances left

stateVars == <<wi, cwi, rec, crec, sa, csa, uami, fic, issuerReady, lastUid,
               wq, rq, budget>>

(***************************************************************************)
(* Objects.                                                                *)
(***************************************************************************)
\* The Ready condition: its reason when False, "Ready" when True, "None" when
\* not set; "NotReady" stands for every reason no code looks at.
Ready == {"None", "Ready", "NotReady", "RecoveryRequired", "RecoveryInProgress",
          "RecoveryCompleted", "RecoveryCancelled"}
Provenances == {"None", "Created", "Adopted"}

\* observedGeneration is the Ready condition's.
\* previousUid: status.recovery's evidence.  provenance # "None" also stands
\* for the other fields setWorkloadIdentityReady records.
WorkloadIdentity ==
  [uid : UIDOrNone, deleting : BOOLEAN, finalizer : BOOLEAN,
   policy : {"Retain", "Delete"}, ready : Ready, generation : Nat,
   observedGeneration : Nat, previousUid : UIDOrNone, provenance : Provenances]

NoWI == [uid |-> 0, deleting |-> FALSE, finalizer |-> FALSE, policy |-> "Retain",
         ready |-> "None", generation |-> 0, observedGeneration |-> 0,
         previousUid |-> 0, provenance |-> "None"]

\* plan: the instance of the planned identity, 0 before preflight.
\* outcome: the condition that is True among Blocked, Failed and Complete.
Recovery ==
  [phase : {"new", "live", "gone"}, deleting : BOOLEAN, finalizer : BOOLEAN,
   source : UIDOrNone, target : UIDOrNone, plan : Nat,
   mutationStarted : BOOLEAN, commitVerified : BOOLEAN,
   outcome : {"None", "Blocked", "Failed", "Complete"}]

NewRecovery ==
  [phase |-> "new", deleting |-> FALSE, finalizer |-> FALSE, source |-> 0,
   target |-> 0, plan |-> 0, mutationStarted |-> FALSE,
   commitVerified |-> FALSE, outcome |-> "None"]

\* owner is the workload-identity-uid label, createdBy the created-by-operator
\* label, annotated whether client and tenant annotations are present.
ServiceAccount == [exists : BOOLEAN, owner : UIDOrNone, createdBy : BOOLEAN,
                   annotated : BOOLEAN]

NoSA == [exists |-> FALSE, owner |-> 0, createdBy |-> FALSE, annotated |-> FALSE]
UserSA == [NoSA EXCEPT !.exists = TRUE]
OperatorSA(uid, created) ==
  [exists |-> TRUE, owner |-> uid, createdBy |-> created, annotated |-> TRUE]

\* The credential of the configured name: absent, with another trust tuple,
\* exact; "ambiguous" is exact with a second credential beside it.
Credentials == {"absent", "drifted", "exact", "ambiguous"}

StateTypeOK ==
  /\ wi \in WorkloadIdentity /\ cwi \in WorkloadIdentity
  /\ rec \in [Recoveries -> Recovery] /\ crec \in [Recoveries -> Recovery]
  /\ sa \in ServiceAccount /\ csa \in ServiceAccount
  /\ uami \in Uami /\ fic \in Credentials
  /\ issuerReady \in BOOLEAN /\ lastUid \in UIDOrNone
  /\ wq \in BOOLEAN /\ rq \subseteq Recoveries
  /\ budget \in 0 .. MaxDisturbances

(***************************************************************************)
(* What the operator may find: an empty cluster; an identity that somebody *)
(* else made; or what instance 1 retained, either the Azure side only or   *)
(* anything up to its ServiceAccount ("rebuilt").                          *)
(***************************************************************************)
retainedUami == CreateOrUpdate(NoUami, workloadIdentityTags(1))
Leftovers == {NoSA, OperatorSA(1, TRUE), OperatorSA(1, FALSE)}

StateInit ==
  /\ wi = NoWI /\ cwi = NoWI
  /\ rec = [r \in Recoveries |-> NewRecovery] /\ crec = rec
  /\ \/ /\ "empty" \in Starts
        /\ lastUid = 0 /\ sa \in {NoSA, UserSA} /\ uami = NoUami /\ fic = "absent"
     \/ /\ "foreign" \in Starts
        /\ lastUid = 0 /\ sa = NoSA /\ uami = CreateOrUpdate(NoUami, workloadIdentityTags(0)) /\ fic = "absent"
     \/ /\ "retained" \in Starts
        /\ lastUid = 1 /\ sa = NoSA /\ uami = retainedUami /\ fic = "exact"
     \/ /\ "rebuilt" \in Starts
        /\ lastUid = 1 /\ sa \in Leftovers /\ uami = retainedUami
        /\ fic \in {"absent", "exact"}
  /\ csa = sa
  /\ issuerReady = FALSE
  /\ wq = FALSE /\ rq = {} /\ budget = MaxDisturbances

\* A disturbance of this kind happens, if the instance has one left.
Disturb(kind) == kind \in Disturbances /\ budget > 0 /\ budget' = budget - 1

(***************************************************************************)
(* Predicates both controllers use.                                        *)
(***************************************************************************)
live(r) == rec[r].phase = "live"
recoveryIsComplete(o) == o.outcome = "Complete"
recoveryIsFailed(o) == o.outcome = "Failed"
recoveryIsTerminal(o) == recoveryIsComplete(o) \/ recoveryIsFailed(o)

\* status.recovery is set and Ready is False with this reason.
recoveryReasonIs(id, reason) == id.previousUid # 0 /\ id.ready = reason
workloadIdentityRecoveryIsInProgress(id) == recoveryReasonIs(id, "RecoveryInProgress")
workloadIdentityRecoveryStateIsActive(id) ==
  recoveryReasonIs(id, "RecoveryRequired") \/ recoveryReasonIs(id, "RecoveryInProgress")

(***************************************************************************)
(* Watch predicates: which change of a cached object wakes which           *)
(* controller.  Create and delete events always pass.                      *)
(***************************************************************************)
\* uid differs: the object was replaced, which is a delete and a create event.
primaryResourceUpdate(old, new) ==
  \/ old.uid # new.uid
  \/ ~old.deleting /\ new.deleting
  \/ old.generation # new.generation

workloadIdentityRecoveryWakeTransition(old, new) ==
  \/ ~workloadIdentityRecoveryIsInProgress(old) /\ workloadIdentityRecoveryIsInProgress(new)
  \/ old.ready # new.ready /\ new.ready \in {"RecoveryCompleted", "RecoveryCancelled"}

workloadIdentityRecoveryStateChanged(old, new) ==
  \/ old.previousUid # new.previousUid
  \/ /\ old.previousUid # 0
     /\ old.ready # new.ready \/ old.observedGeneration # new.observedGeneration

\* recoveriesForWorkloadIdentity, from the cached index.
recoveriesForWorkloadIdentity ==
  {r \in Recoveries : /\ crec[r].phase = "live"
                      /\ ~crec[r].deleting /\ ~recoveryIsTerminal(crec[r])}
=============================================================================
