------------------------ MODULE RecoveryProperties ------------------------
(***************************************************************************)
(* What OperatorRecovery guarantees, and, at the end, what the             *)
(* documentation says of it that it does not.                              *)
(***************************************************************************)
EXTENDS OperatorRecovery

(***************************************************************************)
(* Safety of a transfer.                                                   *)
(***************************************************************************)
\* A fence in Azure has somebody to finish it: it names a recovery that still
\* exists, kept by its finalizer, that went forward-only, has not reported
\* Complete, and was written for this very target.  Should that recovery have
\* been marked Failed, its deletion is under way and drives it
\* (startRecovery before MarkInProgress; reconcileDelete).
FenceHasDriver ==
  Fenced(uami) =>
    /\ uami.recoveryUid \in Recoveries
    /\ LET o == rec[uami.recoveryUid] IN
       /\ o.phase = "live" /\ o.finalizer /\ o.mutationStarted
       /\ ~recoveryIsComplete(o) /\ (recoveryIsFailed(o) => o.deleting)
       /\ o.target = uami.targetUid
       /\ uami.owner \in {o.source, o.target}

\* As long as no recovery is deleted, the target of a fence stays where it is
\* and stays locked, whatever happens to it in between: a status patch under
\* way, an edit, a deletion by its owner (patchWorkloadIdentityStatus's
\* optimistic lock; reconcileWorkloadIdentityDelete).
FencedTargetIsLocked ==
  Fenced(uami) => wi.uid = uami.targetUid /\ workloadIdentityRecoveryIsInProgress(wi)

\* Two recoveries of one source never both go forward, although the search for
\* duplicates and the checkpoint are separate calls and admission only sees the
\* cache (recoveryWinnerForSource, startRecovery).
AtMostOneStarted ==
  \A x, y \in Recoveries :
     /\ live(x) /\ hasStarted(rec[x])
     /\ live(y) /\ hasStarted(rec[y])
     /\ rec[x].source = rec[y].source
     => x = y

\* The worker between its search for duplicates and its checkpoint: nobody else
\* has started meanwhile.
StartWindow == {"readTarget", "lockTarget", "saveStarted"}
StartIsExclusive ==
  rpc \in StartWindow =>
    \A x \in Recoveries \ {rcur} :
       ~(live(x) /\ hasStarted(rec[x]) /\ rec[x].source = rec[rcur].source)

\* What the worker and the cache remember of a recovery is still so.
ForwardSteps == {"mark", "markCall", "ensureFic", "transferSA", "commitCheck", "commit",
                 "commitCall", "commitVerify", "saveCommit"}
ForwardOnly ==
  /\ \A r \in Recoveries :
       /\ rec[r].phase = "new" => rec[r] = NewRecovery
       /\ crec[r].mutationStarted => rec[r].mutationStarted
       /\ crec[r].phase # "new" => rec[r].phase # "new"
  /\ rpc # "idle" => rec[rcur].phase # "new"
  /\ rpc \in ForwardSteps => rec[rcur].mutationStarted

\* The inductive invariant behind AtMostOneStarted.
StartInvariant == TypeOK /\ AtMostOneStarted /\ StartIsExclusive /\ ForwardOnly

\* An instance that reports Ready owns the identity it reports, and no recovery
\* is taking it away, over three instances of the name
\* (setWorkloadIdentityReady after several Azure calls).
ReadyOwns ==
  wi.ready = "Ready" /\ ~wi.deleting =>
     uami.exists /\ uami.owner = wi.uid /\ ~Fenced(uami)

\* A recovery that reports Complete transferred the identity it planned to,
\* even when the identity was deleted and made anew on the way
\* (validateRecoveryIdentityPlan after every blind update of the tags).  A fence is
\* left out: the next recovery, writing the tags it read onto an identity made anew,
\* carries the audit tag over to it, and then stops.
CompletedIsPlanned ==
  \A r \in Recoveries :
     live(r) /\ recoveryIsComplete(rec[r]) /\ uami.exists /\ ~Fenced(uami) /\ uami.lastUid = r
       => uami.instance = rec[r].plan

\* Normal reconciliation does not write to Azure while the identity is fenced,
\* although it checks the fence in one call and writes in another
\* (ensureUserAssignedIdentity, ensureFederatedIdentityCredential, delete).
NoNormalWriteWhileFenced ==
  [][Fenced(uami) /\ wpc' # wpc => UNCHANGED <<uami, fic>>]_vars

\* The operator deletes the identity only for an owner that is, at that moment,
\* being deleted, and never under a fence; the check and the call are separate
\* and work from a cached copy (identityClients.delete).
OnlyDeletingOwnerDeletes ==
  [][uami.exists /\ ~uami.exists' /\ wpc' # wpc =>
       ~Fenced(uami) /\ uami.owner = wi.uid /\ wi.deleting]_vars

(***************************************************************************)
(* The inductive invariant behind FenceHasDriver, the two properties above *)
(* and the refinement.                                                     *)
(***************************************************************************)
\* Nobody deletes the identity behind the operator's back, or there is no recovery.
NobodyElseDeletes == "azure" \notin Disturbances \/ Recoveries = {}

EnsureSteps == {"detect", "ensureUami", "createUami", "ensureFic", "ensureSA", "status",
                "statusQuiet"}
DeleteSteps == {"deleteUami", "deleteUamiCall", "deleteSA", "removeFinalizer"}

\* Every UID that is written anywhere was given out, and the WorkloadIdentity that
\* exists has the last one; a recovery goes from an earlier instance to a later.
GivenOut(id) == id.uid <= lastUid /\ id.previousUid <= lastUid
UIDsAreGivenOut ==
  /\ wi.uid \in {0, lastUid}
  /\ \A id \in {wi, cwi} : id.uid = 0 => id = NoWI
  /\ GivenOut(wi) /\ GivenOut(cwi) /\ GivenOut(wid) /\ GivenOut(wout)
  /\ sa.owner <= lastUid /\ csa.owner <= lastUid
  /\ uami.owner <= lastUid /\ ruami.owner <= lastUid
  /\ \A r \in Recoveries :
       rec[r].phase # "new" =>
         0 < rec[r].source /\ rec[r].source < rec[r].target /\ rec[r].target <= lastUid

\* id is not ahead of the newer copy; what only a new generation changes agrees.
NotAhead(id, newer) ==
  id.uid = newer.uid /\ id.uid # 0 =>
    /\ id.generation <= newer.generation
    /\ id.generation = newer.generation => id.policy = newer.policy
    /\ id.deleting => newer.deleting
IdentityCopiesAreBehind == NotAhead(cwi, wi) /\ (wpc # "idle" => NotAhead(wid, cwi))

\* The worker gives an instance its finalizer, hence when the cache knows it; only
\* the worker, deleting it, takes it away.
FinalizerKeepsIdentity ==
  /\ wi.finalizer => wi.uid # 0 /\ cwi.uid = wi.uid /\ (wpc # "idle" => wid.uid = wi.uid)
  /\ wi.previousUid # 0 => wi.finalizer
  /\ cwi.finalizer /\ ~cwi.deleting => wi.finalizer
  /\ \A id \in {cwi, wid} : id.finalizer /\ id.uid = wi.uid => wi.finalizer
  /\ wpc \in EnsureSteps => wi.finalizer /\ wid.finalizer /\ ~wid.deleting
  /\ wpc \in DeleteSteps => wid.finalizer /\ wid.deleting
  /\ IF wpc = "idle" THEN wid = NoWI
                     ELSE wid.uid # 0 /\ ~workloadIdentityRecoveryIsInProgress(wid)

\* The status about to be patched changes nothing else, and only the recovery
\* controller reports the end of a recovery.
StatusIsDerived ==
  wpc \in {"detect", "status", "statusQuiet"} =>
    /\ wout.uid = wid.uid /\ wout.deleting = wid.deleting /\ wout.finalizer = wid.finalizer
    /\ wout.policy = wid.policy /\ wout.generation = wid.generation
    /\ wout.ready \notin ReleaseReasons
EndIsReported ==
  /\ rpc \in {"lockTarget", "release"} => wi.ready \notin ReleaseReasons
  /\ \A id \in {cwi, wid} :
       id.uid = wi.uid /\ id.deleting /\ id.ready \in ReleaseReasons
         => wi.ready \in ReleaseReasons

IdentityCopies ==
  /\ UIDsAreGivenOut /\ IdentityCopiesAreBehind /\ FinalizerKeepsIdentity
  /\ StatusIsDerived /\ EndIsReported

\* The cached copy of a recovery does not know more than is so.  A recovery that is
\* gone is not taken from the queue as one to carry on.
RecoveryCopies ==
  \A r \in Recoveries :
    /\ crec[r].phase = "new" => crec[r] = NewRecovery
    /\ crec[r].deleting => rec[r].deleting
    /\ crec[r].finalizer => rec[r].finalizer \/ rec[r].phase = "gone"
    /\ rec[r].mutationStarted => rec[r].finalizer \/ rec[r].phase = "gone"
    /\ rec[r].commitVerified => rec[r].mutationStarted
    /\ crec[r].commitVerified => crec[r].mutationStarted
    /\ crec[r].mutationStarted /\ recoveryIsFailed(rec[r]) => recoveryIsFailed(crec[r])
    /\ crec[r].phase = "live" /\ crec[r].finalizer /\ rec[r].phase = "gone"
         => crec[r].deleting /\ r \notin rq

\* The recovery that is reconciled exists; mayFail: it is Failed only while it is
\* being deleted.
FenceSteps == ForwardSteps \cup {"finalize", "finalizeCall", "finalizeVerify", "saveComplete"}
mayFail(r) == recoveryIsFailed(rec[r]) \/ recoveryIsFailed(crec[r]) => rec[r].deleting
ReconciledExists ==
  /\ rpc # "idle" => crec[rcur].phase = "live" /\ live(rcur) /\ rec[rcur].finalizer
  /\ rpc # "idle" /\ (rdel \/ rpc \in {"cancel", "removeFinalizer"})
       => crec[rcur].deleting /\ rcur \notin rq
  /\ rpc \in FenceSteps => crec[rcur].mutationStarted /\ mayFail(rcur)

\* r is known to be Complete; then the identity u was given away: its owner is a
\* later instance for ever.
knownComplete(r) == recoveryIsComplete(rec[r]) \/ recoveryIsComplete(crec[r])
givenAway(r, u) == u.owner # rec[r].source /\ u.recoveryUid # r
CompleteIsGivenAway == \A r \in Recoveries : knownComplete(r) => givenAway(r, uami)

\* What the recovery worker read of the identity, and of its target, before it
\* writes the tags; outside the part of a reconcile that needs the fence it has none.
CallSteps == {"markCall", "commitCall", "finalizeCall"}
fencedBy(r, u) == u.recoveryUid = r /\ u.targetUid = rec[r].target
ReadIsPlanned ==
  /\ rpc \in CallSteps =>
       ruami.exists /\ \A r \in Recoveries : knownComplete(r) => givenAway(r, ruami)
  /\ rpc = "markCall" => ruami.owner = src /\ ~Fenced(ruami)
  /\ rpc = "commitCall" => ruami.owner = src /\ fencedBy(rcur, ruami)
  /\ rpc = "finalizeCall" => ruami.owner = tgt /\ fencedBy(rcur, ruami)
  /\ rpc \in {"commit", "commitCall"} =>
       wi.uid = tgt /\ workloadIdentityRecoveryIsInProgress(wi)
  /\ rpc = "saveComplete" => givenAway(rcur, uami)
  /\ rpc \notin FenceSteps \cup {"idle"} => uami.recoveryUid # rcur

FenceIsKnown ==
  Fenced(uami) =>
    uami.targetUid # 0 /\ crec[uami.recoveryUid].mutationStarted /\ mayFail(uami.recoveryUid)

\* If nobody else deletes the identity, what was read is still so when it is used,
\* by the recovery worker and by the identity worker.
\* removed: an instance that is gone, having been told to delete, owns nothing.
removed(id) ==
  id.uid # wi.uid /\ id.deleting /\ id.policy = "Delete" => uami.owner # id.uid
ReadIsCurrent == rpc \in CallSteps => uami.exists /\ ruami = uami
WorkerOwnsIt ==
  /\ ~uami.exists => uami.owner = 0 /\ ~Fenced(uami)
  /\ wpc = "createUami" => ~uami.exists
  /\ wpc = "ensureFic" /\ uami.exists => ~Fenced(uami) /\ uami.owner = wi.uid
  /\ removed(cwi)
  /\ wpc = "deleteUami" => removed(wid) /\ wid.policy = "Delete"
  /\ wpc = "deleteUamiCall" =>
       /\ wid.policy = "Delete"
       /\ uami.exists => ~Fenced(uami) /\ uami.owner = wi.uid /\ wi.uid = wid.uid
  /\ wpc \in {"deleteSA", "removeFinalizer"} /\ wid.policy = "Delete" /\ uami.owner = wid.uid =>
       /\ wi.uid = wid.uid /\ wid.ready \notin ReleaseReasons /\ wi.previousUid # 0
       /\ wi.ready \in ReleaseReasons \cup {"RecoveryInProgress"}

CopiesInvariant == StartInvariant /\ IdentityCopies /\ RecoveryCopies /\ ReconciledExists
FenceInvariant == CompleteIsGivenAway /\ ReadIsPlanned /\ FenceIsKnown /\ FenceHasDriver
TransferInvariant == CopiesInvariant /\ FenceInvariant /\ ReadIsCurrent /\ WorkerOwnsIt

(***************************************************************************)
(* The inductive invariants behind FencedTargetIsLocked and ReadyOwns.     *)
(***************************************************************************)
\* status.recovery names an instance before the one it is written to.
Earlier(id) == id.previousUid # 0 => id.previousUid < id.uid
PreviousIsEarlier ==
  /\ Earlier(wi) /\ Earlier(cwi)
  /\ wpc \in EnsureSteps => Earlier(wid)
  /\ wpc \in {"detect", "status", "statusQuiet"} => Earlier(wout)

\* Instance s does not own the identity, and no tag update under way gives it back.
givenUp(s) == uami.owner # s /\ (rpc \in CallSteps => ruami.owner # s)
lockedFor(source, target) ==
  wi.uid = target /\ wi.previousUid = source /\ workloadIdentityRecoveryIsInProgress(wi)

\* A lock, once seen, stays until the source has given the identity up; and what
\* unlocks a target is a recovery that went forward.
FenceIsLocked == Fenced(uami) => lockedFor(rec[uami.recoveryUid].source, uami.targetUid)
CachedLockIsKnown ==
  workloadIdentityRecoveryIsInProgress(cwi) =>
    lockedFor(cwi.previousUid, cwi.uid) \/ givenUp(cwi.previousUid)
ReconcileKnowsLock ==
  /\ rpc \in {"mark", "markCall"} => lockedFor(src, tgt) \/ givenUp(src)
  /\ rpc \in {"commit", "commitCall", "release"} => lockedFor(src, tgt)
  /\ rpc \in {"readRelease", "release"} => rec[rcur].mutationStarted /\ givenUp(src)

\* No recovery is deleted; each goes forward before it is Complete.
RecordsAreKept ==
  \A r \in Recoveries :
    /\ ~rec[r].deleting
    /\ \A o \in {rec[r], crec[r]} : recoveryIsComplete(o) => o.mutationStarted
    /\ crec[r].phase # "new" => crec[r].source = rec[r].source /\ crec[r].target = rec[r].target
LockInvariant ==
  /\ CopiesInvariant /\ FenceInvariant /\ PreviousIsEarlier /\ RecordsAreKept
  /\ FenceIsLocked /\ CachedLockIsKnown /\ ReconcileKnowsLock

\* The instance owns the identity from the checks of Ensure until it reports Ready.
owned == uami.exists /\ uami.owner = wi.uid /\ ~Fenced(uami)
ReadyIsOwned ==
  /\ ReadyOwns
  /\ wpc = "ensureSA" => owned
  /\ wpc \in {"detect", "status", "statusQuiet"} /\ wout.ready = "Ready" => owned

(***************************************************************************)
(* The inductive invariant behind CompletedIsPlanned.                      *)
(***************************************************************************)
\* A recovery goes forward with a plan that the cache knows, and the plan of one that
\* went forward is not replaced.
PlanSteps == {"winner", "readTarget", "lockTarget", "saveStarted"}
EndSteps == {"finalize", "finalizeCall", "finalizeVerify", "saveComplete"}
PlanIsSettled ==
  /\ \A r \in Recoveries :
       /\ knownComplete(r) => rec[r].mutationStarted
       /\ crec[r].plan # 0 => rec[r].plan # 0
       /\ rec[r].mutationStarted => crec[r].plan # 0
       /\ crec[r].commitVerified => crec[r].plan = rec[r].plan
  /\ rpc \in {"preflight", "savePlan"} => ~rec[rcur].mutationStarted
  /\ rpc = "savePlan" => rplan # 0
  /\ rpc \in PlanSteps => crec[rcur].plan # 0
  /\ rpc \in EndSteps => rplan = rec[rcur].plan

\* The unfenced identity with r's audit tag is the planned one, once r is Complete.
endedAsPlanned(r) ==
  uami.exists /\ ~Fenced(uami) /\ uami.lastUid = r => uami.instance = rec[r].plan
EndIsPlanned ==
  /\ uami.exists => uami.instance # 0
  /\ \A r \in Recoveries : knownComplete(r) => endedAsPlanned(r)
  /\ rpc = "finalizeCall" => ruami.lastUid = rcur
  /\ rpc = "saveComplete" => endedAsPlanned(rcur)
PlanInvariant == CopiesInvariant /\ FenceInvariant /\ PlanIsSettled /\ EndIsPlanned

(***************************************************************************)
(* Refinement: all that the operator does to the identity is a transfer of *)
(* ownership in three steps.                                               *)
(***************************************************************************)
ownershipPhase(u) ==
  CASE ~u.exists -> "absent"
    [] u.exists /\ ~Fenced(u) -> "held"
    [] u.exists /\ Fenced(u) /\ u.owner # u.targetUid -> "fenced"
    [] u.exists /\ Fenced(u) /\ u.owner = u.targetUid -> "transferred"

Ownership == INSTANCE OwnershipTransfer WITH
  Instances <- UIDs, Requests <- Recoveries, None <- 0, phase <- ownershipPhase(uami),
  holder <- uami.owner, request <- uami.recoveryUid, heir <- uami.targetUid

\* The identity is created, fenced, handed over, unfenced and deleted in that
\* order, through crashes and retries of MarkInProgress, Commit and Finalize.
TransfersOwnership == Ownership!Spec

(***************************************************************************)
(* Progress.                                                               *)
(***************************************************************************)
\* A fence does not stay: once written it is carried through and cleared
\* (advanceRecovery and finalizeRecovery, resumed after faults and restarts).
FenceIsCleared == Fenced(uami) ~> ~Fenced(uami)

\* After a transfer the new instance is put into service
\* (releaseCompletedTarget, then normal reconciliation).
CompletedTargetBecomesReady ==
  \A r \in Recoveries : live(r) /\ recoveryIsComplete(rec[r]) ~> wi.ready = "Ready"

\* A target is not left locked when two recoveries compete for it.
LockIsReleased ==
  workloadIdentityRecoveryIsInProgress(wi) ~> ~workloadIdentityRecoveryIsInProgress(wi)

\* A recovery settles by itself, through all its requeues: it becomes terminal or
\* says for good that it is blocked (saveStatus, block).
RecoverySettles ==
  \A r \in Recoveries :
     live(r) ~> recoveryIsTerminal(rec[r]) \/ [](rec[r].outcome = "Blocked")

\* Once disturbances stop, an identity becomes Ready for good and everything it
\* stands for is in place: ServiceAccount, owner tag and credential
\* (Reconcile's periodic refresh).
ConvergesToReady ==
  <>[](wi.uid # 0 =>
         /\ wi.ready = "Ready" /\ uami.owner = wi.uid
         /\ sa.exists /\ sa.owner = wi.uid /\ sa.annotated
         /\ fic \in {"exact", "ambiguous"})

(***************************************************************************)
(* Said of the operator, and not so.                                       *)
(***************************************************************************)
\* 'the finalizer converts deletion into "finish, then delete"'
\* (docs/content/architecture/recovery.md).
DeletionFinishes == \A r \in Recoveries : live(r) /\ rec[r].deleting ~> ~live(r)

\* Blocked: "A correctable external conflict prevents progress"
\* (docs/content/guides/recovery.md); here nothing outside is in conflict.
StartedRecoveryEnds ==
  \A r \in Recoveries : live(r) /\ rec[r].mutationStarted ~> recoveryIsTerminal(rec[r])
=============================================================================
