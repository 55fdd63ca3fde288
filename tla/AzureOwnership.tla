--------------------------- MODULE AzureOwnership ---------------------------
(***************************************************************************)
(* What the Azure tags of one user-assigned managed identity mean to the   *)
(* operator: who owns it, whether a recovery has fenced it, and how far    *)
(* that recovery has come.  Pure operators, translated from                *)
(* internal/azure/workload_identity.go, workload_identity_recovery.go and  *)
(* ownership.go.                                                           *)
(*                                                                         *)
(* Kubernetes UIDs are natural numbers; 0 is the absent tag.  An identity  *)
(* that exists without the operator's ownership tags or with another       *)
(* logical key has owner 0.                                                *)
(***************************************************************************)
EXTENDS Naturals

CONSTANTS
  MaxUID,         \* WorkloadIdentity instances: UIDs 1..MaxUID, in creation order
  NumRecoveries   \* WorkloadIdentityRecovery objects: UIDs 1..NumRecoveries

ASSUME MaxUIDAssumption == MaxUID \in Nat \ {0}
ASSUME NumRecoveriesAssumption == NumRecoveries \in Nat

UIDs == 1 .. MaxUID
UIDOrNone == 0 .. MaxUID
Recoveries == 1 .. NumRecoveries
RecoveryOrNone == 0 .. NumRecoveries

\* The tags of the identity (owner, the two fence tags, the audit tag) and which
\* identity of that name it is: client, principal and tenant ID.  The instance
\* of an identity that is gone is the last one there was.
Uami == [exists : BOOLEAN, instance : Nat, owner : UIDOrNone,
         recoveryUid : RecoveryOrNone, targetUid : UIDOrNone,
         lastUid : RecoveryOrNone]

NoUami == [exists |-> FALSE, instance |-> 0, owner |-> 0, recoveryUid |-> 0,
           targetUid |-> 0, lastUid |-> 0]

\* The tags of a new identity of the WorkloadIdentity uid.
workloadIdentityTags(uid) == [NoUami EXCEPT !.exists = TRUE, !.owner = uid]

\* Azure's side of the calls, on the identity u of that name.
CreateOrUpdate(u, tags) == [tags EXCEPT !.instance = IF u.exists THEN u.instance ELSE u.instance + 1]
updateRecoveryTags(u, tags) == [tags EXCEPT !.instance = u.instance]
DeleteIdentity(u) == [NoUami EXCEPT !.instance = u.instance]

Fenced(u) == u.recoveryUid # 0 \/ u.targetUid # 0

(***************************************************************************)
(* Normal reconciliation: may the instance uid write to the identity u?    *)
(***************************************************************************)
OwnershipVerdicts == {"Owned", "RecoveryInProgress", "RecoveryRequired", "Conflict"}

\* Mutant: the fence tags are not looked at.
validateUserAssignedIdentityOwnership_IgnoresFence(uid, u) ==
  CASE u.owner \notin {0, uid} -> "RecoveryRequired"
    [] u.owner = 0 -> "Conflict"
    [] OTHER -> "Owned"

\* Mutant: the UID tag is not compared, the logical key alone decides.
validateUserAssignedIdentityOwnership_KeyOnly(uid, u) ==
  CASE Fenced(u) -> "RecoveryInProgress"
    [] ~Fenced(u) /\ u.owner = 0 -> "Conflict"
    [] OTHER -> "Owned"

validateUserAssignedIdentityOwnership(uid, u) ==
  CASE u.recoveryUid # 0 /\ u.targetUid # 0 -> "RecoveryInProgress"
    [] Fenced(u) /\ (u.recoveryUid = 0 \/ u.targetUid = 0) -> "Conflict"
    [] ~Fenced(u) /\ u.owner \notin {0, uid} -> "RecoveryRequired"
    [] ~Fenced(u) /\ u.owner = 0 -> "Conflict"
    [] OTHER -> "Owned"

(***************************************************************************)
(* Recovery: how far has recovery r, from source to target, come on u?     *)
(* "MarkerConflict" is the blocking error of the default branch.           *)
(***************************************************************************)
Stages == {"NotStarted", "InProgress", "CommittedFenced", "Complete", "MarkerConflict"}

\* Mutant: an identity that is committed and still fenced is not recognised.
recoveryStage_NoCommittedFenced(r, source, target, u) ==
  CASE u.owner = target /\ u.recoveryUid = 0 /\ u.targetUid = 0 /\ u.lastUid = r
         -> "Complete"
    [] u.owner = source /\ u.recoveryUid = r /\ u.targetUid = target -> "InProgress"
    [] u.owner = source /\ u.recoveryUid = 0 /\ u.targetUid = 0 -> "NotStarted"
    [] OTHER -> "MarkerConflict"

recoveryStage(r, source, target, u) ==
  CASE u.owner = target /\ u.recoveryUid = 0 /\ u.targetUid = 0 /\ u.lastUid = r
         -> "Complete"
    [] u.owner = target /\ u.recoveryUid = r /\ u.targetUid = target /\ u.lastUid = r
         -> "CommittedFenced"
    [] u.owner = source /\ u.recoveryUid = r /\ u.targetUid = target -> "InProgress"
    [] u.owner = source /\ u.recoveryUid = 0 /\ u.targetUid = 0 -> "NotStarted"
    [] OTHER -> "MarkerConflict"

\* Mutant: the identity is not compared with the plan.
loadedStage_NoPlan(r, source, target, plan, u) ==
  IF u.exists /\ u.owner # 0 THEN recoveryStage(r, source, target, u) ELSE "MarkerConflict"

\* loadAndValidateRecoveryState: an identity that is missing, foreign or not the
\* planned one also blocks.
loadedStage(r, source, target, plan, u) ==
  IF u.exists /\ u.owner # 0 /\ u.instance = plan
    THEN recoveryStage(r, source, target, u) ELSE "MarkerConflict"

\* The three tag updates.  Each sends the whole tag map that was read, changed.
fencedTags(u, r, target) == [u EXCEPT !.recoveryUid = r, !.targetUid = target]

\* Mutant: the commit also clears the fence.
committedTags_ClearsFence(u, r, target) ==
  [u EXCEPT !.owner = target, !.lastUid = r, !.recoveryUid = 0, !.targetUid = 0]

committedTags(u, r, target) == [u EXCEPT !.owner = target, !.lastUid = r]
finalizedTags(u) == [u EXCEPT !.recoveryUid = 0, !.targetUid = 0]
=============================================================================
