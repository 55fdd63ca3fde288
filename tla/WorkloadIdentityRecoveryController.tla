------------------ MODULE WorkloadIdentityRecoveryController ------------------
(***************************************************************************)
(* The WorkloadIdentityRecovery reconciler (internal/controller/           *)
(* workloadidentityrecovery_*.go) and the Azure recovery manager it calls  *)
(* (internal/azure/workload_identity_recovery.go).  One worker for all     *)
(* recoveries (MaxConcurrentReconciles is 1).                              *)
(*                                                                         *)
(* The recovery and its target are first read from the informer cache;     *)
(* the list of rivals, the target before its condition is patched, the     *)
(* ServiceAccount and everything before the commit are read from the API   *)
(* server.  Status patches of the recovery are computed from the cached    *)
(* copy and carry no resource version.                                     *)
(***************************************************************************)
EXTENDS ClusterState

VARIABLES
  rpc,      \* what the running reconcile does next
  rcur,     \* the recovery it reconciles
  rdel,     \* it runs reconcileDelete
  rplan,    \* the plan it works from
  ruami,    \* the identity it read, whose tags the next update changes
  rsa,      \* transferRecoveryServiceAccount found a ServiceAccount
  rreason,  \* the reason releasing the target will publish
  rgen      \* the generation of the target whose condition it is about to patch

rVars == <<rpc, rcur, rdel, rplan, ruami, rsa, rreason, rgen>>

RSteps == {"idle", "preflight", "savePlan", "winner", "readTarget", "lockTarget",
           "saveStarted", "mark", "markCall", "ensureFic", "transferSA",
           "commitCheck", "commit", "commitCall", "commitVerify", "saveCommit",
           "finalize", "finalizeCall", "finalizeVerify", "saveComplete",
           "cancel", "readRelease", "release", "removeFinalizer"}
ReleaseReasons == {"RecoveryCompleted", "RecoveryCancelled"}

RTypeOK == /\ rpc \in RSteps /\ rcur \in RecoveryOrNone
           /\ (rpc # "idle" => rcur \in Recoveries)
           /\ rdel \in BOOLEAN /\ rplan \in Nat /\ ruami \in Uami /\ rsa \in BOOLEAN
           /\ rreason \in ReleaseReasons /\ rgen \in Nat

RInit == /\ rpc = "idle" /\ rcur = 0 /\ rdel = FALSE /\ rplan = 0 /\ ruami = NoUami /\ rsa = FALSE
         /\ rreason = "RecoveryCompleted" /\ rgen = 0

\* The reconcile returns; requeue stands for Requeue, RequeueAfter and an error.
RReturn(requeue) ==
  /\ rpc' = "idle" /\ rcur' = 0 /\ rdel' = FALSE /\ rplan' = 0 /\ ruami' = NoUami /\ rsa' = FALSE
  /\ rreason' = "RecoveryCompleted" /\ rgen' = 0
  /\ rq' = IF requeue THEN rq \cup {rcur} ELSE rq

RGoto(pc) == rpc' = pc /\ UNCHANGED <<rcur, rdel, rplan, ruami, rsa, rreason, rgen, rq>>

\* Mutant: the request is not the one taken from the queue.
RBegin_KeepsCurrent(r, pc, deleting, reason) ==
  /\ rpc' = pc /\ rdel' = deleting /\ rreason' = reason
  /\ rplan' = crec[r].plan /\ rq' = rq \ {r} /\ UNCHANGED <<rcur, ruami, rsa, rgen>>

\* Taking r from the queue, and taking it only to return at once.
RBegin(r, pc, deleting, reason) ==
  /\ rpc' = pc /\ rcur' = r /\ rdel' = deleting /\ rreason' = reason
  /\ rplan' = crec[r].plan /\ rq' = rq \ {r} /\ UNCHANGED <<ruami, rsa, rgen>>

RSkip(r, requeue) == /\ rq' = IF requeue THEN rq ELSE rq \ {r}
                     /\ UNCHANGED rVars

(***************************************************************************)
(* Status.  patchRecoveryStatus sends the difference between the cached    *)
(* copy and its mutated form; the conditions travel as one list, so they   *)
(* replace the server's unless the list did not change at all.  Equal      *)
(* outcomes may differ in reason or message, hence the choice.             *)
(***************************************************************************)
mergedRecovery(server, cached, new, outcome) ==
  [server EXCEPT
     !.plan = IF new.plan # cached.plan THEN new.plan ELSE @,
     !.mutationStarted =
        IF new.mutationStarted # cached.mutationStarted THEN new.mutationStarted ELSE @,
     !.commitVerified =
        IF new.commitVerified # cached.commitVerified THEN new.commitVerified ELSE @,
     !.outcome = outcome]

\* The cached Get and the patch both find the object.
found(r) == crec[r].phase = "live" /\ live(r)

patchRecoveryStatus(r, new) ==
  \E outcome \in {new.outcome, rec[r].outcome} :
     /\ new.outcome # crec[r].outcome => outcome = new.outcome
     /\ rec' = [rec EXCEPT ![r] = mergedRecovery(rec[r], crec[r], new, outcome)]

\* block and fail, without the return.
setOutcome(r, outcome) ==
  IF found(r) THEN patchRecoveryStatus(r, [crec[r] EXCEPT !.outcome = outcome])
              ELSE UNCHANGED rec

\* A blocked recovery is retried after an interval.
block == setOutcome(rcur, "Blocked") /\ RReturn(TRUE)
fail == setOutcome(rcur, "Failed") /\ RReturn(~found(rcur))

\* Mutant: the requeue is forgotten.
saveStatus_NoRequeue(new) ==
  /\ IF found(rcur) THEN patchRecoveryStatus(rcur, new) ELSE UNCHANGED rec
  /\ RReturn(FALSE)

\* A status patch of a step that succeeded, followed by a requeue.
saveStatus(new) == /\ IF found(rcur) THEN patchRecoveryStatus(rcur, new) ELSE UNCHANGED rec
                   /\ RReturn(TRUE)

clearBlocked(outcome) == IF outcome = "Blocked" THEN "None" ELSE outcome

(***************************************************************************)
(* validateRecoveryControllerTarget: is id still the target of o?          *)
(***************************************************************************)
validateRecoveryControllerTarget(o, id) ==
  /\ id.uid = o.target /\ o.source # id.uid
  /\ id.previousUid = o.source
  /\ \/ id.ready = "RecoveryInProgress"
     \/ /\ ~o.mutationStarted
        /\ ~id.deleting /\ id.observedGeneration = id.generation
        /\ id.ready = "RecoveryRequired"

(***************************************************************************)
(* Reconcile.  o is the cached copy of the recovery.                       *)
(***************************************************************************)
\* Mutant: a completed recovery does not release its target.
R_Reconcile_NoRelease(r) ==
  /\ rpc = "idle" /\ r \in rq
  /\ crec[r].phase = "live" /\ ~crec[r].deleting
  /\ ~crec[r].finalizer \/ recoveryIsTerminal(crec[r])
  /\ rec' = IF ~crec[r].finalizer /\ crec[r] = rec[r]
              THEN [rec EXCEPT ![r].finalizer = TRUE] ELSE rec
  /\ RSkip(r, ~crec[r].finalizer)
  /\ UNCHANGED <<wi, cwi, crec, sa, csa, uami, fic, issuerReady, lastUid, wq, budget>>

R_Reconcile(r) ==
  /\ rpc = "idle" /\ r \in rq
  /\ LET o == crec[r] IN
     \/ o.phase # "live" /\ UNCHANGED rec /\ RSkip(r, FALSE)
     \/ /\ o.phase = "live" /\ ~o.deleting /\ ~o.finalizer
        /\ rec' = IF o = rec[r] THEN [rec EXCEPT ![r].finalizer = TRUE] ELSE rec
        /\ RSkip(r, TRUE)
     \/ /\ o.phase = "live" /\ ~o.deleting /\ o.finalizer /\ recoveryIsComplete(o)
        /\ UNCHANGED rec /\ RBegin(r, "readRelease", FALSE, "RecoveryCompleted")
     \/ /\ o.phase = "live" /\ ~o.deleting /\ o.finalizer /\ recoveryIsFailed(o)
        /\ UNCHANGED rec /\ RSkip(r, FALSE)
  /\ UNCHANGED <<wi, cwi, crec, sa, csa, uami, fic, issuerReady, lastUid, wq, budget>>

\* reconcileForward: the target is read from the cache.
R_ReconcileForward(r) ==
  /\ rpc = "idle" /\ r \in rq
  /\ LET o == crec[r]
         accepted == /\ cwi.uid # 0 /\ validateRecoveryControllerTarget(o, cwi)
                     /\ o.plan # 0 \/ ~(o.mutationStarted \/ o.commitVerified)
     IN
     /\ o.phase = "live" /\ o.finalizer
     /\ IF o.deleting THEN o.mutationStarted /\ ~recoveryIsComplete(o)
                      ELSE ~recoveryIsTerminal(o)
     /\ \/ /\ ~accepted /\ o.mutationStarted
           /\ setOutcome(r, "Blocked") /\ RSkip(r, TRUE)
        \/ /\ ~accepted /\ ~o.mutationStarted
           /\ setOutcome(r, "Failed") /\ RSkip(r, ~found(r))
        \/ /\ accepted /\ UNCHANGED rec
           /\ RBegin(r, CASE o.commitVerified -> "finalize"
                          [] ~o.commitVerified /\ o.plan = 0 -> "preflight"
                          [] ~o.commitVerified /\ o.plan # 0 /\ ~o.mutationStarted -> "winner"
                          [] OTHER -> "mark", o.deleting, "RecoveryCompleted")
  /\ UNCHANGED <<wi, cwi, crec, sa, csa, uami, fic, issuerReady, lastUid, wq, budget>>

\* Mutant: deletion cancels whether or not mutation has started.
R_ReconcileDelete_AlwaysCancels(r) ==
  /\ rpc = "idle" /\ r \in rq
  /\ crec[r].phase = "live" /\ crec[r].deleting /\ crec[r].finalizer
  /\ RBegin(r, "cancel", TRUE, "RecoveryCancelled")
  /\ UNCHANGED <<wi, cwi, rec, crec, sa, csa, uami, fic, issuerReady, lastUid, wq, budget>>

R_ReconcileDelete(r) ==
  /\ rpc = "idle" /\ r \in rq
  /\ crec[r].phase = "live" /\ crec[r].deleting /\ crec[r].finalizer
  /\ \/ /\ ~crec[r].mutationStarted
        /\ RBegin(r, "cancel", TRUE, "RecoveryCancelled")
     \/ /\ crec[r].mutationStarted /\ recoveryIsComplete(crec[r])
        /\ RBegin(r, "readRelease", TRUE, "RecoveryCompleted")
  /\ UNCHANGED <<wi, cwi, rec, crec, sa, csa, uami, fic, issuerReady, lastUid, wq, budget>>

src == rec[rcur].source    \* the spec is immutable
tgt == rec[rcur].target
stageOf(u) == loadedStage(rcur, src, tgt, rplan, u)

(***************************************************************************)
(* preflightRecovery: reads only, then persists the plan.                  *)
(***************************************************************************)
\* validateRecoverableServiceAccount.
validateRecoverableServiceAccount(source, target, s) ==
  \/ s.owner \in {source, target}
  \/ s.owner = 0 /\ ~s.createdBy /\ ~s.annotated

R_Preflight ==
  /\ rpc = "preflight"
  /\ LET passed == /\ issuerReady
                   /\ loadedStage(rcur, src, tgt, uami.instance, uami) # "MarkerConflict"
                   /\ fic # "ambiguous"
                   /\ sa.exists => validateRecoverableServiceAccount(src, tgt, sa)
     IN \/ ~passed /\ block
        \/ /\ passed /\ rpc' = "savePlan" /\ rplan' = uami.instance
           /\ UNCHANGED <<rec, rcur, rdel, ruami, rsa, rreason, rgen, rq>>
  /\ UNCHANGED <<wi, cwi, crec, sa, csa, uami, fic, issuerReady, lastUid, wq, budget>>

R_SavePlan ==
  /\ rpc = "savePlan"
  /\ saveStatus([crec[rcur] EXCEPT !.plan = rplan, !.outcome = clearBlocked(@)])
  /\ UNCHANGED <<wi, cwi, crec, sa, csa, uami, fic, issuerReady, lastUid, wq, budget>>

(***************************************************************************)
(* startRecovery: settle duplicates, lock the target, go forward-only.     *)
(***************************************************************************)
\* recoveryWinnerForSource, an uncached list: recoveries that have started
\* beat the others, then the earlier one (recoveryPrecedes, here <) wins.
rivals(r) == {x \in Recoveries : live(x) /\ rec[x].source = rec[r].source}
hasStarted(o) == o.mutationStarted \/ o.commitVerified
incumbents(r) == {x \in rivals(r) : hasStarted(rec[x])}

\* Mutant: the oldest recovery wins even when another one has started.
isWinner_OldestOnly(r) == \A x \in rivals(r) : r <= x

isWinner(r) ==
  LET pool == IF incumbents(r) # {} THEN incumbents(r) ELSE rivals(r)
  IN  pool = {} \/ (r \in pool /\ \A x \in pool : r <= x)

R_Winner ==
  /\ rpc = "winner"
  /\ \/ ~isWinner(rcur) /\ fail
     \/ isWinner(rcur) /\ RGoto("readTarget") /\ UNCHANGED rec
  /\ UNCHANGED <<wi, cwi, crec, sa, csa, uami, fic, issuerReady, lastUid, wq, budget>>

\* patchTargetRecoveryCondition reads the target uncached and, when it is not
\* (or no longer) the one to patch, returns without an error.
patchesTarget(fromReasons) ==
  wi.uid = tgt /\ wi.previousUid = src /\ wi.ready \in fromReasons

\* The target was read: its generation goes into the patch.
RGotoPatch(pc) ==
  rpc' = pc /\ rgen' = wi.generation /\ UNCHANGED <<rcur, rdel, rplan, ruami, rsa, rreason, rq>>

\* markTargetRecoveryInProgress.
R_ReadTarget ==
  /\ rpc = "readTarget"
  /\ LET patches == patchesTarget({"RecoveryRequired", "RecoveryInProgress"}) IN
     \/ patches /\ RGotoPatch("lockTarget")
     \/ ~patches /\ RGoto("saveStarted")
  /\ UNCHANGED <<wi, cwi, rec, crec, sa, csa, uami, fic, issuerReady, lastUid, wq, budget>>

\* The patch names the object and carries neither UID nor resource version.
setTargetReason(reason) ==
  wi' = [wi EXCEPT !.ready = reason, !.observedGeneration = rgen]

R_LockTarget ==
  /\ rpc = "lockTarget"
  /\ \/ wi.uid # 0 /\ setTargetReason("RecoveryInProgress") /\ RGoto("saveStarted")
     \/ wi.uid = 0 /\ UNCHANGED wi /\ RReturn(TRUE)
  /\ UNCHANGED <<cwi, rec, crec, sa, csa, uami, fic, issuerReady, lastUid, wq, budget>>

R_SaveStarted ==
  /\ rpc = "saveStarted"
  /\ saveStatus([crec[rcur] EXCEPT !.mutationStarted = TRUE, !.outcome = clearBlocked(@)])
  /\ UNCHANGED <<wi, cwi, crec, sa, csa, uami, fic, issuerReady, lastUid, wq, budget>>

(***************************************************************************)
(* advanceRecovery: fence, credential, ServiceAccount, commit.             *)
(***************************************************************************)
\* MarkInProgress.
R_Mark ==
  /\ rpc = "mark"
  /\ \/ stageOf(uami) = "MarkerConflict" /\ block
     \/ /\ stageOf(uami) = "NotStarted" /\ UNCHANGED <<rec, rcur, rdel, rplan, rsa, rreason, rgen, rq>>
        /\ ruami' = uami /\ rpc' = "markCall"
     \/ stageOf(uami) \notin {"MarkerConflict", "NotStarted"} /\ RGoto("ensureFic")
        /\ UNCHANGED rec
  /\ UNCHANGED <<wi, cwi, crec, sa, csa, uami, fic, issuerReady, lastUid, wq, budget>>

\* Azure replaces the tags by the map that was read plus the fence.
R_MarkCall ==
  /\ rpc = "markCall"
  /\ \/ uami.exists /\ uami' = updateRecoveryTags(uami, fencedTags(ruami, rcur, tgt)) /\ RGoto("ensureFic")
     \/ ~uami.exists /\ UNCHANGED uami /\ RReturn(TRUE)
  /\ UNCHANGED <<wi, cwi, rec, crec, sa, csa, fic, issuerReady, lastUid, wq, budget>>

\* EnsureFederatedIdentityCredential; its first read is also the read that
\* verifies the fence.
R_EnsureFederatedIdentityCredential ==
  /\ rpc = "ensureFic"
  /\ LET repaired == IF stageOf(uami) = "InProgress" /\ fic # "ambiguous"
                       THEN "exact" ELSE fic
     IN \/ /\ stageOf(uami) \in {"MarkerConflict", "NotStarted"}
           /\ UNCHANGED fic /\ block
        \/ /\ stageOf(uami) \notin {"MarkerConflict", "NotStarted"}
           /\ fic' = repaired
           /\ \/ repaired = "exact" /\ RGoto("transferSA") /\ UNCHANGED rec
              \/ repaired # "exact" /\ block
  /\ UNCHANGED <<wi, cwi, crec, sa, csa, uami, issuerReady, lastUid, wq, budget>>

\* transferRecoveryServiceAccount: uncached read, patch with resource version.
R_TransferServiceAccount ==
  /\ rpc = "transferSA"
  /\ \/ /\ ~sa.exists /\ UNCHANGED <<sa, rec>>
        /\ rsa' = FALSE /\ rpc' = "commitCheck" /\ UNCHANGED <<rcur, rdel, rplan, ruami, rreason, rgen, rq>>
     \/ /\ sa.exists /\ validateRecoverableServiceAccount(src, tgt, sa)
        /\ sa' = [sa EXCEPT !.owner = tgt, !.annotated = TRUE] /\ UNCHANGED rec
        /\ rsa' = TRUE /\ rpc' = "commitCheck" /\ UNCHANGED <<rcur, rdel, rplan, ruami, rreason, rgen, rq>>
     \/ /\ sa.exists /\ ~validateRecoverableServiceAccount(src, tgt, sa)
        /\ UNCHANGED sa /\ block
  /\ UNCHANGED <<wi, cwi, crec, csa, uami, fic, issuerReady, lastUid, wq, budget>>

\* commitRecovery: uncached re-read of the recovery, target and ServiceAccount.
R_CommitCheck ==
  /\ rpc = "commitCheck"
  /\ LET targetOK == validateRecoveryControllerTarget(rec[rcur], wi)
         saOK == IF rsa THEN sa.exists /\ sa.owner = tgt /\ sa.annotated ELSE ~sa.exists
     IN \/ /\ ~live(rcur) \/ wi.uid = 0 \/ (targetOK /\ rsa /\ ~sa.exists)
           /\ UNCHANGED rec /\ RReturn(TRUE)          \* plain errors
        \/ live(rcur) /\ wi.uid # 0 /\ ~targetOK /\ block
        \/ /\ live(rcur) /\ wi.uid # 0 /\ targetOK /\ ~saOK /\ ~(rsa /\ ~sa.exists)
           /\ block
        \/ /\ live(rcur) /\ wi.uid # 0 /\ targetOK /\ saOK
           /\ rpc' = "commit" /\ rplan' = rec[rcur].plan
           /\ UNCHANGED <<rec, rcur, rdel, ruami, rsa, rreason, rgen, rq>>
  /\ UNCHANGED <<wi, cwi, crec, sa, csa, uami, fic, issuerReady, lastUid, wq, budget>>

\* Commit up to the tag update.
R_Commit ==
  /\ rpc = "commit"
  /\ LET stage == stageOf(uami) IN
     \/ (stage \in {"MarkerConflict", "NotStarted"} \/ fic # "exact") /\ block
     \/ /\ stage \in {"CommittedFenced", "Complete"} /\ fic = "exact"
        /\ UNCHANGED rec /\ RGoto("saveCommit")
     \/ /\ stage = "InProgress" /\ fic = "exact" /\ UNCHANGED <<rec, rcur, rdel, rplan, rsa, rreason, rgen, rq>>
        /\ ruami' = uami /\ rpc' = "commitCall"
  /\ UNCHANGED <<wi, cwi, crec, sa, csa, uami, fic, issuerReady, lastUid, wq, budget>>

R_CommitCall ==
  /\ rpc = "commitCall"
  /\ \/ uami.exists /\ uami' = updateRecoveryTags(uami, committedTags(ruami, rcur, tgt)) /\ RGoto("commitVerify")
     \/ ~uami.exists /\ UNCHANGED uami /\ RReturn(TRUE)
  /\ UNCHANGED <<wi, cwi, rec, crec, sa, csa, fic, issuerReady, lastUid, wq, budget>>

R_CommitVerify ==
  /\ rpc = "commitVerify"
  /\ LET verified == stageOf(uami) = "CommittedFenced" /\ fic = "exact" IN
     \/ verified /\ UNCHANGED rec /\ RGoto("saveCommit")
     \/ ~verified /\ block
  /\ UNCHANGED <<wi, cwi, crec, sa, csa, uami, fic, issuerReady, lastUid, wq, budget>>

R_SaveCommit ==
  /\ rpc = "saveCommit"
  /\ saveStatus([crec[rcur] EXCEPT !.commitVerified = TRUE, !.outcome = "None"])
  /\ UNCHANGED <<wi, cwi, crec, sa, csa, uami, fic, issuerReady, lastUid, wq, budget>>

(***************************************************************************)
(* finalizeRecovery: clear the fence, report Complete.                     *)
(***************************************************************************)
R_Finalize ==
  /\ rpc = "finalize"
  /\ LET stage == stageOf(uami) IN
     \/ (stage \notin {"CommittedFenced", "Complete"} \/ fic # "exact") /\ block
     \/ stage = "Complete" /\ fic = "exact" /\ UNCHANGED rec /\ RGoto("saveComplete")
     \/ /\ stage = "CommittedFenced" /\ fic = "exact"
        /\ UNCHANGED <<rec, rcur, rdel, rplan, rsa, rreason, rgen, rq>>
        /\ ruami' = uami /\ rpc' = "finalizeCall"
  /\ UNCHANGED <<wi, cwi, crec, sa, csa, uami, fic, issuerReady, lastUid, wq, budget>>

R_FinalizeCall ==
  /\ rpc = "finalizeCall"
  /\ \/ uami.exists /\ uami' = updateRecoveryTags(uami, finalizedTags(ruami)) /\ RGoto("finalizeVerify")
     \/ ~uami.exists /\ UNCHANGED uami /\ RReturn(TRUE)
  /\ UNCHANGED <<wi, cwi, rec, crec, sa, csa, fic, issuerReady, lastUid, wq, budget>>

R_FinalizeVerify ==
  /\ rpc = "finalizeVerify"
  /\ LET verified == stageOf(uami) = "Complete" /\ fic = "exact" IN
     \/ verified /\ UNCHANGED rec /\ RGoto("saveComplete")
     \/ ~verified /\ block
  /\ UNCHANGED <<wi, cwi, crec, sa, csa, uami, fic, issuerReady, lastUid, wq, budget>>

\* When the recovery is being deleted, reconcileDelete goes on to release the
\* target and to remove the finalizer.
R_SaveComplete ==
  /\ rpc = "saveComplete"
  /\ \/ /\ found(rcur) /\ rdel
        /\ patchRecoveryStatus(rcur, [crec[rcur] EXCEPT !.outcome = "Complete"])
        /\ RGoto("readRelease")
     \/ /\ ~found(rcur) \/ ~rdel
        /\ saveStatus([crec[rcur] EXCEPT !.outcome = "Complete"])
  /\ UNCHANGED <<wi, cwi, crec, sa, csa, uami, fic, issuerReady, lastUid, wq, budget>>

(***************************************************************************)
(* Releasing the target, cancelling, removing the finalizer.               *)
(***************************************************************************)
\* reconcileDelete before mutation: only the winner releases the target.
R_Cancel ==
  /\ rpc = "cancel"
  /\ RGoto(IF isWinner(rcur) THEN "readRelease" ELSE "removeFinalizer")
  /\ UNCHANGED <<wi, cwi, rec, crec, sa, csa, uami, fic, issuerReady, lastUid, wq, budget>>

afterRelease == IF rdel THEN RGoto("removeFinalizer") ELSE RReturn(FALSE)

R_ReadRelease ==
  /\ rpc = "readRelease"
  /\ \/ patchesTarget({"RecoveryInProgress"}) /\ RGotoPatch("release")
     \/ ~patchesTarget({"RecoveryInProgress"}) /\ afterRelease
  /\ UNCHANGED <<wi, cwi, rec, crec, sa, csa, uami, fic, issuerReady, lastUid, wq, budget>>

R_Release ==
  /\ rpc = "release"
  /\ \/ wi.uid # 0 /\ setTargetReason(rreason) /\ afterRelease
     \/ wi.uid = 0 /\ UNCHANGED wi /\ RReturn(TRUE)
  /\ UNCHANGED <<cwi, rec, crec, sa, csa, uami, fic, issuerReady, lastUid, wq, budget>>

\* A fresh cached Get, then an Update with its resource version.
R_RemoveFinalizer ==
  /\ rpc = "removeFinalizer"
  /\ \/ /\ crec[rcur].phase = "live" /\ crec[rcur] = rec[rcur]
        /\ rec' = [rec EXCEPT ![rcur] = [@ EXCEPT !.phase = "gone", !.finalizer = FALSE]]
        /\ RReturn(FALSE)
     \/ crec[rcur].phase = "live" /\ crec[rcur] # rec[rcur] /\ UNCHANGED rec /\ RReturn(TRUE)
     \/ crec[rcur].phase # "live" /\ UNCHANGED rec /\ RReturn(FALSE)
  /\ UNCHANGED <<wi, cwi, crec, sa, csa, uami, fic, issuerReady, lastUid, wq, budget>>

\* Any call fails, or its answer is lost: the error is returned and retried.
R_Error ==
  /\ Disturb("fault")
  /\ rpc # "idle" /\ RReturn(TRUE)
  /\ UNCHANGED <<wi, cwi, rec, crec, sa, csa, uami, fic, issuerReady, lastUid, wq>>

RTake(r) == R_Reconcile(r) \/ R_ReconcileForward(r) \/ R_ReconcileDelete(r)

RStep ==
  \/ \E r \in Recoveries : RTake(r)
  \/ R_Preflight \/ R_SavePlan
  \/ R_Winner \/ R_ReadTarget \/ R_LockTarget \/ R_SaveStarted
  \/ R_Mark \/ R_MarkCall \/ R_EnsureFederatedIdentityCredential
  \/ R_TransferServiceAccount \/ R_CommitCheck
  \/ R_Commit \/ R_CommitCall \/ R_CommitVerify \/ R_SaveCommit
  \/ R_Finalize \/ R_FinalizeCall \/ R_FinalizeVerify \/ R_SaveComplete
  \/ R_Cancel \/ R_ReadRelease \/ R_Release \/ R_RemoveFinalizer
=============================================================================
