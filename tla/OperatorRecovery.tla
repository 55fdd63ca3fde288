-------------------------- MODULE OperatorRecovery --------------------------
(***************************************************************************)
(* The operator process with its two identity controllers, in a cluster    *)
(* where users create and delete objects, the informer cache lags behind   *)
(* the API server, calls fail and the process restarts.                    *)
(***************************************************************************)
EXTENDS WorkloadIdentityController, WorkloadIdentityRecoveryController

CONSTANTS
  Policies,    \* the deletion policies users choose
  Deletable    \* what users delete: "identity", "recovery"

ASSUME PoliciesAssumption == Policies \subseteq {"Retain", "Delete"}

vars == <<stateVars, wVars, rVars>>

TypeOK == StateTypeOK /\ WTypeOK /\ RTypeOK

Init == StateInit /\ WInit /\ RInit

(***************************************************************************)
(* Users.                                                                  *)
(***************************************************************************)
CreateWorkloadIdentity(policy) ==
  /\ wi.uid = 0 /\ lastUid < MaxUID
  /\ lastUid' = lastUid + 1
  /\ wi' = [NoWI EXCEPT !.uid = lastUid + 1, !.policy = policy, !.generation = 1]
  /\ UNCHANGED <<cwi, rec, crec, sa, csa, uami, fic, issuerReady, wq, rq, budget, wVars, rVars>>

\* Without the finalizer the object goes at once.
DeleteWorkloadIdentity ==
  /\ "identity" \in Deletable /\ wi.uid # 0 /\ ~wi.deleting
  /\ wi' = IF wi.finalizer THEN [wi EXCEPT !.deleting = TRUE, !.generation = @ + 1] ELSE NoWI
  /\ UNCHANGED <<cwi, rec, crec, sa, csa, uami, fic, issuerReady, lastUid, wq, rq, budget,
                 wVars, rVars>>

\* The deletion policy is the mutable field of the spec.
EditWorkloadIdentity ==
  /\ Disturb("edit")
  /\ wi.uid # 0
  /\ wi' = [wi EXCEPT !.policy = IF @ = "Retain" THEN "Delete" ELSE "Retain",
                     !.generation = @ + 1]
  /\ UNCHANGED <<cwi, rec, crec, sa, csa, uami, fic, issuerReady, lastUid, wq, rq,
                 wVars, rVars>>

\* WorkloadIdentityRecoveryValidator: the target is read uncached.
ValidateCreate(source, target) ==
  /\ source # target /\ wi.uid = target /\ ~wi.deleting
  /\ wi.observedGeneration = wi.generation /\ wi.ready = "RecoveryRequired" /\ wi.previousUid = source

\* The search for duplicates is advisory: it looks into the cache of whichever
\* replica serves the request (an "admission" disturbance is one whose cache is
\* behind this process's), and a failed search is only logged.
duplicateSeen(source) == \E x \in Recoveries : crec[x].phase = "live" /\ crec[x].source = source

CreateRecovery(r) ==
  /\ rec[r].phase = "new"
  /\ \E source \in UIDs : \E target \in UIDs :
       /\ ValidateCreate(source, target)
       /\ \/ ~duplicateSeen(source) /\ UNCHANGED budget
          \/ duplicateSeen(source) /\ Disturb("admission")
       /\ rec' = [rec EXCEPT ![r] = [NewRecovery EXCEPT !.phase = "live",
                                       !.source = source, !.target = target]]
  /\ UNCHANGED <<wi, cwi, crec, sa, csa, uami, fic, issuerReady, lastUid, wq, rq, wVars, rVars>>

DeleteRecovery(r) ==
  /\ "recovery" \in Deletable /\ live(r) /\ ~rec[r].deleting
  /\ rec' = [rec EXCEPT ![r] = IF @.finalizer THEN [@ EXCEPT !.deleting = TRUE]
                                              ELSE [@ EXCEPT !.phase = "gone"]]
  /\ UNCHANGED <<wi, cwi, crec, sa, csa, uami, fic, issuerReady, lastUid, wq, rq, budget,
                 wVars, rVars>>

ChangeServiceAccount ==
  /\ Disturb("serviceAccount")
  /\ sa' = IF sa.exists THEN NoSA ELSE UserSA
  /\ UNCHANGED <<wi, cwi, rec, crec, csa, uami, fic, issuerReady, lastUid, wq, rq,
                 wVars, rVars>>

(***************************************************************************)
(* Outside the two controllers.                                            *)
(***************************************************************************)
\* Somebody edits the credentials in Azure, or repairs what was edited.
DriftCredential ==
  /\ Disturb("drift")
  /\ uami.exists /\ fic' \in Credentials \ {fic}
  /\ UNCHANGED <<wi, cwi, rec, crec, sa, csa, uami, issuerReady, lastUid, wq, rq,
                 wVars, rVars>>

\* Somebody deletes the identity in Azure.
DeleteAzureIdentity ==
  /\ Disturb("azure")
  /\ uami.exists /\ uami' = DeleteIdentity(uami) /\ fic' = "absent"
  /\ UNCHANGED <<wi, cwi, rec, crec, sa, csa, issuerReady, lastUid, wq, rq, wVars, rVars>>

IssuerLost ==
  /\ Disturb("issuer")
  /\ issuerReady /\ issuerReady' = FALSE
  /\ wq' = (wq \/ cwi.uid # 0)
  /\ UNCHANGED <<wi, cwi, rec, crec, sa, csa, uami, fic, lastUid, rq, wVars, rVars>>

IssuerBecomesReady ==
  /\ ~issuerReady /\ issuerReady' = TRUE
  /\ wq' = (wq \/ cwi.uid # 0)
  /\ UNCHANGED <<wi, cwi, rec, crec, sa, csa, uami, fic, lastUid, rq, budget, wVars, rVars>>

(***************************************************************************)
(* The informer: the cached copy catches up, and the watch predicates      *)
(* decide who is queued.                                                   *)
(***************************************************************************)
SyncWorkloadIdentity ==
  /\ cwi # wi /\ cwi' = wi
  /\ wq' = \/ wq
           \/ primaryResourceUpdate(cwi, wi) \/ workloadIdentityRecoveryWakeTransition(cwi, wi)
  /\ rq' = IF \/ primaryResourceUpdate(cwi, wi)
              \/ workloadIdentityRecoveryStateChanged(cwi, wi)
             THEN rq \cup recoveriesForWorkloadIdentity ELSE rq
  /\ UNCHANGED <<wi, rec, crec, sa, csa, uami, fic, issuerReady, lastUid, budget, wVars, rVars>>

SyncRecovery(r) ==
  /\ crec[r] # rec[r] /\ crec' = [crec EXCEPT ![r] = rec[r]]
  /\ rq' = IF crec[r].phase # rec[r].phase \/ (~crec[r].deleting /\ rec[r].deleting)
             THEN rq \cup {r} ELSE rq
  /\ UNCHANGED <<wi, cwi, rec, sa, csa, uami, fic, issuerReady, lastUid, wq, budget, wVars, rVars>>

SyncServiceAccount ==
  /\ csa # sa /\ csa' = sa
  /\ wq' = (wq \/ cwi.uid # 0)
  /\ UNCHANGED <<wi, cwi, rec, crec, sa, uami, fic, issuerReady, lastUid, rq, budget, wVars, rVars>>

\* The process stops anywhere; its successor lists every object and queues it.
Restart ==
  /\ Disturb("restart")
  /\ wpc' = "idle" /\ wid' = NoWI /\ wsa' = "None" /\ wout' = NoWI
  /\ rpc' = "idle" /\ rcur' = 0 /\ rdel' = FALSE /\ rplan' = 0 /\ ruami' = NoUami /\ rsa' = FALSE
  /\ rreason' = "RecoveryCompleted" /\ rgen' = 0
  /\ cwi' = wi /\ crec' = rec /\ csa' = sa
  /\ wq' = (wi.uid # 0) /\ rq' = {r \in Recoveries : live(r)}
  /\ UNCHANGED <<wi, rec, sa, uami, fic, issuerReady, lastUid>>

Users ==
  \/ \E policy \in Policies : CreateWorkloadIdentity(policy)
  \/ DeleteWorkloadIdentity \/ EditWorkloadIdentity \/ ChangeServiceAccount
  \/ \E r \in Recoveries : CreateRecovery(r) \/ DeleteRecovery(r)

Environment == DriftCredential \/ DeleteAzureIdentity \/ IssuerLost \/ IssuerBecomesReady \/ Restart

Informer == \/ SyncWorkloadIdentity \/ SyncServiceAccount
            \/ \E r \in Recoveries : SyncRecovery(r)

WController == (WStep \/ WFault) /\ UNCHANGED rVars
RController == (RStep \/ R_Error) /\ UNCHANGED wVars

Next == WController \/ RController \/ Informer \/ Users \/ Environment

Spec == Init /\ [][Next]_vars

(***************************************************************************)
(* Fairness.  A running reconcile goes on and a queued item is taken: both *)
(* work queues are FIFO, so no recovery is passed over for ever.  The      *)
(* informer catches up and an issuer that is down comes back.  Users,      *)
(* faults and restarts owe nothing.                                        *)
(***************************************************************************)
Fairness ==
  /\ WF_vars(WStep /\ UNCHANGED rVars)
  /\ WF_vars(RStep /\ UNCHANGED wVars)
  /\ \A r \in Recoveries : SF_vars(RTake(r) /\ UNCHANGED wVars)
  /\ WF_vars(SyncWorkloadIdentity) /\ WF_vars(SyncServiceAccount)
  /\ \A r \in Recoveries : WF_vars(SyncRecovery(r))
  /\ WF_vars(IssuerBecomesReady)

FairSpec == Spec /\ Fairness
=============================================================================
