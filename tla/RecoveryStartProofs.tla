------------------------ MODULE RecoveryStartProofs ------------------------
(***************************************************************************)
(* Two recoveries of one source never both go forward, for any number of   *)
(* recoveries and instances, however the informer lags, users create and   *)
(* delete recoveries, calls fail and the process restarts.                 *)
(*                                                                         *)
(* The search for rivals and the checkpoint are separate calls, so the     *)
(* invariant also speaks of the time between them (StartIsExclusive); and  *)
(* a forward run begins from a cached copy, so it says that what the cache *)
(* holds of a recovery's progress is not taken back (ForwardOnly).         *)
(***************************************************************************)
EXTENDS RecoveryTypeProofs

\* No recovery comes, goes or advances in this step.
ProgressKept ==
  \A x \in Recoveries :
     /\ rec'[x].phase = rec[x].phase /\ rec'[x].source = rec[x].source
     /\ rec'[x].mutationStarted = rec[x].mutationStarted
     /\ rec'[x].commitVerified = rec[x].commitVerified
     /\ rec[x].phase = "new" => rec'[x] = rec[x]

\* The worker ends its reconcile or goes on inside the same part of it.
WorkerKept ==
  \/ rpc' = "idle"
  \/ /\ rpc # "idle" /\ rcur' = rcur
     /\ rpc' \in StartWindow => rpc \in StartWindow
     /\ rpc' \in ForwardSteps => rpc \in ForwardSteps

\* A step of this kind keeps the invariant.
LEMMA KeptStart ==
  ASSUME StartInvariant, TypeOK', ProgressKept, WorkerKept, UNCHANGED crec
  PROVE  StartInvariant'
<1>. USE DEF StartInvariant
<1>1. \A x \in Recoveries : (live(x) <=> live(x)') /\ (hasStarted(rec[x]) <=> hasStarted(rec'[x]))
  BY DEF ProgressKept, live, hasStarted
<1>2. AtMostOneStarted'
  BY <1>1 DEF AtMostOneStarted, ProgressKept
<1>3. rpc # "idle" => rcur \in Recoveries
  BY DEF TypeOK, RTypeOK
<1>4. StartIsExclusive'
  BY <1>1, <1>3 DEF StartIsExclusive, ProgressKept, WorkerKept, StartWindow
<1>5. ForwardOnly'
  BY <1>3 DEF ForwardOnly, ProgressKept, WorkerKept, ForwardSteps
<1>. QED BY <1>2, <1>4, <1>5

(***************************************************************************)
(* What a status patch does to the progress of recoveries.                 *)
(***************************************************************************)
\* The patch touches one live recovery, and takes no checkpoint from a copy
\* that does not change it.
LEMMA PatchProgress ==
  ASSUME TypeOK, NEW r \in Recoveries, NEW new \in Recovery, found(r),
         patchRecoveryStatus(r, new)
  PROVE  /\ \A x \in Recoveries \ {r} : rec'[x] = rec[x]
         /\ rec'[r].phase = "live" /\ rec[r].phase = "live"
         /\ rec'[r].source = rec[r].source
         /\ rec'[r].mutationStarted =
              IF new.mutationStarted # crec[r].mutationStarted
                THEN new.mutationStarted ELSE rec[r].mutationStarted
         /\ rec'[r].commitVerified =
              IF new.commitVerified # crec[r].commitVerified
                THEN new.commitVerified ELSE rec[r].commitVerified
<1>1. PICK outcome \in {new.outcome, rec[r].outcome} :
        rec' = [rec EXCEPT ![r] = mergedRecovery(rec[r], crec[r], new, outcome)]
  BY DEF patchRecoveryStatus
<1>2. rec \in [Recoveries -> Recovery] /\ rec[r] \in Recovery
  BY DEF TypeOK, StateTypeOK
<1>3. rec'[r] = mergedRecovery(rec[r], crec[r], new, outcome)
  BY <1>1, <1>2
<1>4. /\ rec'[r].phase = rec[r].phase /\ rec'[r].source = rec[r].source
      /\ rec'[r].mutationStarted =
           IF new.mutationStarted # crec[r].mutationStarted
             THEN new.mutationStarted ELSE rec[r].mutationStarted
      /\ rec'[r].commitVerified =
           IF new.commitVerified # crec[r].commitVerified
             THEN new.commitVerified ELSE rec[r].commitVerified
  BY <1>2, <1>3 DEF mergedRecovery, Recovery
<1>. QED BY <1>1, <1>2, <1>4 DEF found, live

\* Only the outcome, or the plan, is written.
LEMMA PlainPatch ==
  ASSUME TypeOK, NEW r \in Recoveries, NEW new \in Recovery, found(r),
         patchRecoveryStatus(r, new),
         new.mutationStarted = crec[r].mutationStarted,
         new.commitVerified = crec[r].commitVerified
  PROVE  ProgressKept
BY PatchProgress DEF ProgressKept

\* block and fail.
LEMMA OutcomeProgress ==
  ASSUME TypeOK, NEW r \in Recoveries, NEW outcome \in {"Blocked", "Failed"},
         setOutcome(r, outcome)
  PROVE  ProgressKept
<1>1. crec[r] \in Recovery
  BY DEF TypeOK, StateTypeOK
<1>2. /\ [crec[r] EXCEPT !.outcome = outcome] \in Recovery
      /\ [crec[r] EXCEPT !.outcome = outcome].mutationStarted = crec[r].mutationStarted
      /\ [crec[r] EXCEPT !.outcome = outcome].commitVerified = crec[r].commitVerified
  BY <1>1 DEF Recovery
<1>3. CASE found(r)
  <2>1. patchRecoveryStatus(r, [crec[r] EXCEPT !.outcome = outcome])
    BY <1>3 DEF setOutcome
  <2>. QED BY <1>2, <1>3, <2>1, PlainPatch
<1>4. CASE ~found(r)
  BY <1>4 DEF setOutcome, ProgressKept
<1>. QED BY <1>3, <1>4

\* The ends of a running reconcile.
LEMMA EndProgress ==
  ASSUME TypeOK, rpc # "idle"
  PROVE  /\ block => ProgressKept /\ WorkerKept
         /\ fail => ProgressKept /\ WorkerKept
         /\ \A b : RReturn(b) => WorkerKept
         /\ \A new \in Recovery :
              /\ saveStatus(new)
              /\ new.mutationStarted = crec[rcur].mutationStarted
              /\ new.commitVerified = crec[rcur].commitVerified
              => ProgressKept /\ WorkerKept
<1>1. rcur \in Recoveries
  BY DEF TypeOK, RTypeOK
<1>2. ASSUME NEW b, RReturn(b) PROVE WorkerKept
  BY <1>2 DEF RReturn, WorkerKept
<1>3. block => ProgressKept /\ WorkerKept
  BY <1>1, <1>2, OutcomeProgress DEF block
<1>4. fail => ProgressKept /\ WorkerKept
  <2>. SUFFICES ASSUME fail PROVE ProgressKept /\ WorkerKept
    OBVIOUS
  <2>1. setOutcome(rcur, "Failed") /\ RReturn(~found(rcur))
    BY DEF fail
  <2>. QED BY <1>1, <1>2, <2>1, OutcomeProgress
<1>5. ASSUME NEW new \in Recovery, saveStatus(new),
             new.mutationStarted = crec[rcur].mutationStarted,
             new.commitVerified = crec[rcur].commitVerified
      PROVE  ProgressKept /\ WorkerKept
  <2>1. CASE found(rcur)
    BY <1>1, <1>2, <1>5, <2>1, PlainPatch DEF saveStatus
  <2>2. CASE ~found(rcur)
    BY <1>2, <1>5, <2>2 DEF saveStatus, ProgressKept
  <2>. QED BY <2>1, <2>2
<1>. QED BY <1>2, <1>3, <1>4, <1>5

(***************************************************************************)
(* Steps of the recovery controller that neither start nor take one.       *)
(***************************************************************************)
QuietStep ==
  \/ R_Preflight \/ R_SavePlan \/ R_ReadTarget \/ R_LockTarget
  \/ R_Mark \/ R_MarkCall \/ R_EnsureFederatedIdentityCredential
  \/ R_TransferServiceAccount \/ R_CommitCheck
  \/ R_Commit \/ R_CommitCall \/ R_CommitVerify
  \/ R_Finalize \/ R_FinalizeCall \/ R_FinalizeVerify \/ R_SaveComplete
  \/ R_Cancel \/ R_ReadRelease \/ R_Release \/ R_Error

\* The steps of both controllers that read, write to Azure or to the target, or
\* patch an outcome or a plan keep the progress of every recovery.
LEMMA QuietSteps ==
  ASSUME TypeOK, QuietStep
  PROVE  ProgressKept /\ WorkerKept /\ UNCHANGED crec
<1>. USE DEF StartWindow, ForwardSteps
<1>0. UNCHANGED rec => ProgressKept
  BY DEF ProgressKept
<1>1. rpc # "idle" => rcur \in Recoveries /\ crec[rcur] \in Recovery
  BY DEF TypeOK, StateTypeOK, RTypeOK
<1>2. CASE R_Preflight
  BY <1>0, <1>2, EndProgress DEF R_Preflight, WorkerKept
<1>3. CASE R_SavePlan
  <2>1. rpc # "idle" /\ rplan \in Nat
    BY <1>3 DEF R_SavePlan, TypeOK, RTypeOK
  <2>. DEFINE new == [crec[rcur] EXCEPT !.plan = rplan, !.outcome = clearBlocked(@)]
  <2>2. /\ new \in Recovery /\ new.mutationStarted = crec[rcur].mutationStarted
        /\ new.commitVerified = crec[rcur].commitVerified
    BY <1>1, <2>1 DEF Recovery, clearBlocked
  <2>3. saveStatus(new) /\ UNCHANGED crec
    BY <1>3 DEF R_SavePlan
  <2>. HIDE DEF new
  <2>. QED BY <2>1, <2>2, <2>3, EndProgress
<1>4. CASE R_ReadTarget
  BY <1>0, <1>4 DEF R_ReadTarget, RGoto, RGotoPatch, WorkerKept
<1>5. CASE R_LockTarget
  BY <1>0, <1>5, EndProgress DEF R_LockTarget, RGoto, WorkerKept
<1>6. CASE R_Mark
  BY <1>0, <1>6, EndProgress DEF R_Mark, RGoto, WorkerKept
<1>7. CASE R_MarkCall
  BY <1>0, <1>7, EndProgress DEF R_MarkCall, RGoto, WorkerKept
<1>8. CASE R_EnsureFederatedIdentityCredential
  BY <1>0, <1>8, EndProgress DEF R_EnsureFederatedIdentityCredential, RGoto, WorkerKept
<1>9. CASE R_TransferServiceAccount
  BY <1>0, <1>9, EndProgress DEF R_TransferServiceAccount, WorkerKept
<1>10. CASE R_CommitCheck
  BY <1>0, <1>10, EndProgress DEF R_CommitCheck, WorkerKept
<1>11. CASE R_Commit
  BY <1>0, <1>11, EndProgress DEF R_Commit, RGoto, WorkerKept
<1>12. CASE R_CommitCall
  BY <1>0, <1>12, EndProgress DEF R_CommitCall, RGoto, WorkerKept
<1>13. CASE R_CommitVerify
  BY <1>0, <1>13, EndProgress DEF R_CommitVerify, RGoto, WorkerKept
<1>14. CASE R_Finalize
  BY <1>0, <1>14, EndProgress DEF R_Finalize, RGoto, WorkerKept
<1>15. CASE R_FinalizeCall
  BY <1>0, <1>15, EndProgress DEF R_FinalizeCall, RGoto, WorkerKept
<1>16. CASE R_FinalizeVerify
  BY <1>0, <1>16, EndProgress DEF R_FinalizeVerify, RGoto, WorkerKept
<1>17. CASE R_SaveComplete
  <2>1. rpc # "idle"
    BY <1>17 DEF R_SaveComplete
  <2>. DEFINE new == [crec[rcur] EXCEPT !.outcome = "Complete"]
  <2>2. /\ new \in Recovery /\ new.mutationStarted = crec[rcur].mutationStarted
        /\ new.commitVerified = crec[rcur].commitVerified
    BY <1>1, <2>1 DEF Recovery
  <2>3. /\ UNCHANGED crec
        /\ \/ found(rcur) /\ patchRecoveryStatus(rcur, new) /\ RGoto("readRelease")
           \/ saveStatus(new)
    BY <1>17 DEF R_SaveComplete
  <2>. HIDE DEF new
  <2>4. RGoto("readRelease") => WorkerKept
    BY <2>1 DEF RGoto, WorkerKept
  <2>. QED BY <1>1, <2>1, <2>2, <2>3, <2>4, EndProgress, PlainPatch
<1>18. CASE R_Cancel
  BY <1>0, <1>18 DEF R_Cancel, RGoto, WorkerKept
<1>19. CASE R_ReadRelease
  BY <1>0, <1>19, EndProgress DEF R_ReadRelease, afterRelease, RGoto, RGotoPatch, WorkerKept
<1>20. CASE R_Release
  BY <1>0, <1>20, EndProgress DEF R_Release, afterRelease, RGoto, WorkerKept
<1>21. CASE R_Error
  BY <1>0, <1>21, EndProgress DEF R_Error
<1>. QED BY <1>2, <1>3, <1>4, <1>5, <1>6, <1>7, <1>8, <1>9, <1>10, <1>11, <1>12, <1>13,
            <1>14, <1>15, <1>16, <1>17, <1>18, <1>19, <1>20, <1>21 DEF QuietStep

(***************************************************************************)
(* The steps the invariant is about.                                       *)
(***************************************************************************)
\* A recovery is taken from the queue: a forward run begins past the start only
\* when the cached copy says so.
LEMMA TakeStart ==
  ASSUME StartInvariant, TypeOK', NEW r \in Recoveries, RTake(r)
  PROVE  StartInvariant'
<1>. USE DEF StartInvariant
<1>1. rec \in [Recoveries -> Recovery] /\ crec \in [Recoveries -> Recovery] /\ UNCHANGED crec
  BY DEF TypeOK, StateTypeOK, RTake, R_Reconcile, R_ReconcileForward, R_ReconcileDelete
<1>2. ProgressKept
  <2>1. CASE UNCHANGED rec
    BY <2>1 DEF ProgressKept
  <2>2. CASE rec' = [rec EXCEPT ![r].finalizer = TRUE] /\ rec[r].phase = "live"
    BY <1>1, <2>2 DEF ProgressKept, Recovery
  <2>3. CASE setOutcome(r, "Blocked") \/ setOutcome(r, "Failed")
    BY <2>3, OutcomeProgress
  <2>. QED BY <2>1, <2>2, <2>3 DEF RTake, R_Reconcile, R_ReconcileForward, R_ReconcileDelete
<1>3. CASE UNCHANGED rVars
  <2>1. WorkerKept
    BY <1>3, <1>2 DEF rVars, WorkerKept
  <2>. QED BY <1>1, <1>2, <2>1, KeptStart
<1>4. CASE /\ rcur' = r /\ crec[r].phase = "live" /\ rpc' \notin StartWindow
           /\ (rpc' \in ForwardSteps => crec[r].mutationStarted)
  <2>1. AtMostOneStarted'
    BY <1>2 DEF ProgressKept, AtMostOneStarted, live, hasStarted
  <2>2. StartIsExclusive'
    BY <1>4 DEF StartIsExclusive
  <2>3. ForwardOnly'
    BY <1>1, <1>2, <1>4 DEF ProgressKept, ForwardOnly
  <2>. QED BY <2>1, <2>2, <2>3
<1>5. \/ UNCHANGED rVars
      \/ /\ rcur' = r /\ crec[r].phase = "live" /\ rpc' \notin StartWindow
         /\ (rpc' \in ForwardSteps => crec[r].mutationStarted)
  BY DEF RTake, R_Reconcile, R_ReconcileForward, R_ReconcileDelete, RBegin, RSkip,
         StartWindow, ForwardSteps
<1>. QED BY <1>3, <1>4, <1>5

\* The winner of the search is the incumbent, or there is none.
LEMMA WinnerStart ==
  ASSUME StartInvariant, TypeOK', R_Winner
  PROVE  StartInvariant'
<1>. USE DEF StartInvariant
<1>1. rpc = "winner" /\ rcur \in Recoveries /\ UNCHANGED crec
  BY DEF R_Winner, TypeOK, RTypeOK
<1>2. CASE fail
  BY <1>1, <1>2, EndProgress, KeptStart
<1>3. CASE isWinner(rcur) /\ RGoto("readTarget") /\ UNCHANGED rec
  <2>1. ASSUME NEW x \in Recoveries \ {rcur}, live(x), hasStarted(rec[x]),
               rec[x].source = rec[rcur].source
        PROVE  FALSE
    <3>1. x \in incumbents(rcur)
      BY <2>1 DEF incumbents, rivals
    <3>2. rcur \in incumbents(rcur)
      BY <1>3, <3>1 DEF isWinner
    <3>3. live(rcur) /\ hasStarted(rec[rcur])
      BY <3>2 DEF incumbents, rivals
    <3>. QED BY <1>1, <2>1, <3>3 DEF AtMostOneStarted
  <2>2. StartIsExclusive'
    BY <1>1, <1>3, <2>1 DEF StartIsExclusive, RGoto, live
  <2>3. AtMostOneStarted' /\ ForwardOnly'
    BY <1>1, <1>3 DEF AtMostOneStarted, ForwardOnly, RGoto, live, ForwardSteps
  <2>. QED BY <2>2, <2>3
<1>. QED BY <1>2, <1>3 DEF R_Winner

\* The checkpoint: mutationStarted is written for a recovery without rival.
LEMMA SaveStartedStart ==
  ASSUME StartInvariant, TypeOK', R_SaveStarted
  PROVE  StartInvariant'
<1>. USE DEF StartInvariant
<1>. DEFINE new == [crec[rcur] EXCEPT !.mutationStarted = TRUE, !.outcome = clearBlocked(@)]
<1>1. rpc = "saveStarted" /\ rcur \in Recoveries /\ UNCHANGED crec /\ rpc' = "idle"
  BY DEF R_SaveStarted, TypeOK, RTypeOK, saveStatus, RReturn
<1>2. crec[rcur] \in Recovery /\ rec[rcur] \in Recovery
  BY <1>1 DEF TypeOK, StateTypeOK
<1>3. new \in Recovery /\ new.mutationStarted = TRUE /\ new.commitVerified = crec[rcur].commitVerified
  BY <1>2 DEF Recovery, clearBlocked
<1>4. IF found(rcur) THEN patchRecoveryStatus(rcur, new) ELSE UNCHANGED rec
  BY DEF R_SaveStarted, saveStatus
<1>5. WorkerKept
  BY <1>1 DEF WorkerKept
<1>. HIDE DEF new
<1>6. CASE ~found(rcur)
  <2>1. ProgressKept
    BY <1>4, <1>6 DEF ProgressKept
  <2>. QED BY <1>1, <1>5, <2>1, KeptStart
<1>7. CASE found(rcur)
  <2>1. /\ \A x \in Recoveries \ {rcur} : rec'[x] = rec[x]
        /\ rec'[rcur].phase = "live" /\ rec[rcur].phase = "live"
        /\ rec'[rcur].source = rec[rcur].source
        /\ rec'[rcur].mutationStarted = IF new.mutationStarted # crec[rcur].mutationStarted
                                          THEN new.mutationStarted ELSE rec[rcur].mutationStarted
    BY <1>1, <1>3, <1>4, <1>7, PatchProgress
  <2>2. rec'[rcur].mutationStarted
    BY <1>1, <1>2, <1>3, <2>1 DEF ForwardOnly, Recovery
  <2>3. \A x \in Recoveries \ {rcur} :
          ~(live(x) /\ hasStarted(rec[x]) /\ rec[x].source = rec[rcur].source)
    BY <1>1 DEF StartIsExclusive, StartWindow
  <2>4. AtMostOneStarted'
    BY <2>1, <2>3, <1>1 DEF AtMostOneStarted, live, hasStarted
  <2>5. StartIsExclusive'
    BY <1>1 DEF StartIsExclusive, StartWindow
  <2>6. ForwardOnly'
    BY <1>1, <2>1, <2>2 DEF ForwardOnly, ForwardSteps
  <2>. QED BY <2>4, <2>5, <2>6
<1>. QED BY <1>6, <1>7

\* The second checkpoint is only written for a recovery that has started.
LEMMA SaveCommitStart ==
  ASSUME StartInvariant, TypeOK', R_SaveCommit
  PROVE  StartInvariant'
<1>. USE DEF StartInvariant
<1>. DEFINE new == [crec[rcur] EXCEPT !.commitVerified = TRUE, !.outcome = "None"]
<1>1. rpc = "saveCommit" /\ rcur \in Recoveries /\ UNCHANGED crec /\ rpc' = "idle"
  BY DEF R_SaveCommit, TypeOK, RTypeOK, saveStatus, RReturn
<1>2. crec[rcur] \in Recovery /\ rec[rcur].mutationStarted
  BY <1>1 DEF TypeOK, StateTypeOK, ForwardOnly, ForwardSteps
<1>3. new \in Recovery /\ new.mutationStarted = crec[rcur].mutationStarted
  BY <1>2 DEF Recovery
<1>4. IF found(rcur) THEN patchRecoveryStatus(rcur, new) ELSE UNCHANGED rec
  BY DEF R_SaveCommit, saveStatus
<1>5. WorkerKept
  BY <1>1 DEF WorkerKept
<1>. HIDE DEF new
<1>6. CASE ~found(rcur)
  <2>1. ProgressKept
    BY <1>4, <1>6 DEF ProgressKept
  <2>. QED BY <1>1, <1>5, <2>1, KeptStart
<1>7. CASE found(rcur)
  <2>1. /\ \A x \in Recoveries \ {rcur} : rec'[x] = rec[x]
        /\ rec'[rcur].phase = "live" /\ rec[rcur].phase = "live"
        /\ rec'[rcur].source = rec[rcur].source
        /\ rec'[rcur].mutationStarted = rec[rcur].mutationStarted
    BY <1>1, <1>3, <1>4, <1>7, PatchProgress
  <2>2. AtMostOneStarted'
    BY <1>1, <1>2, <2>1 DEF AtMostOneStarted, live, hasStarted
  <2>3. StartIsExclusive'
    BY <1>1 DEF StartIsExclusive, StartWindow
  <2>4. ForwardOnly'
    BY <1>1, <2>1 DEF ForwardOnly, ForwardSteps
  <2>. QED BY <2>2, <2>3, <2>4
<1>. QED BY <1>6, <1>7

\* A live recovery goes, or is marked for deletion, by its finalizer or a user.
LEMMA GoneStart ==
  ASSUME StartInvariant, TypeOK', NEW r \in Recoveries, rec[r].phase = "live",
         rec' = [rec EXCEPT ![r] = rec'[r]],
         rec'[r].phase # "new", rec'[r].source = rec[r].source,
         rec'[r].mutationStarted = rec[r].mutationStarted,
         rec'[r].commitVerified = rec[r].commitVerified,
         WorkerKept, UNCHANGED crec
  PROVE  StartInvariant'
<1>. USE DEF StartInvariant
<1>1. \A x \in Recoveries \ {r} : rec'[x] = rec[x]
  BY DEF TypeOK, StateTypeOK
<1>2. \A x \in Recoveries : /\ live(x)' => live(x)
                            /\ rec'[x].source = rec[x].source
                            /\ hasStarted(rec'[x]) => hasStarted(rec[x])
  BY <1>1 DEF live, hasStarted
<1>3. rpc # "idle" => rcur \in Recoveries
  BY DEF TypeOK, RTypeOK
<1>4. AtMostOneStarted'
  BY <1>2 DEF AtMostOneStarted
<1>5. StartIsExclusive'
  BY <1>2, <1>3 DEF StartIsExclusive, WorkerKept, StartWindow
<1>6. ForwardOnly'
  BY <1>1, <1>3 DEF ForwardOnly, WorkerKept, ForwardSteps
<1>. QED BY <1>4, <1>5, <1>6

\* removeRecoveryFinalizer: the recovery goes with its finalizer.
LEMMA RemoveFinalizerStart ==
  ASSUME StartInvariant, TypeOK', R_RemoveFinalizer
  PROVE  StartInvariant'
<1>. USE DEF StartInvariant
<1>1. rpc # "idle" /\ rcur \in Recoveries /\ rec \in [Recoveries -> Recovery] /\ UNCHANGED crec
  BY DEF R_RemoveFinalizer, TypeOK, StateTypeOK, RTypeOK
<1>2. WorkerKept
  BY <1>1, EndProgress DEF R_RemoveFinalizer
<1>3. CASE UNCHANGED rec
  BY <1>1, <1>2, <1>3, KeptStart DEF ProgressKept
<1>4. CASE /\ rec[rcur].phase = "live"
           /\ rec' = [rec EXCEPT ![rcur] = [@ EXCEPT !.phase = "gone", !.finalizer = FALSE]]
  <2>1. rec'[rcur] = [rec[rcur] EXCEPT !.phase = "gone", !.finalizer = FALSE]
    BY <1>1, <1>4
  <2>2. /\ rec'[rcur].phase = "gone" /\ rec'[rcur].source = rec[rcur].source
        /\ rec'[rcur].mutationStarted = rec[rcur].mutationStarted
        /\ rec'[rcur].commitVerified = rec[rcur].commitVerified
    BY <1>1, <2>1 DEF Recovery
  <2>3. rec' = [rec EXCEPT ![rcur] = rec'[rcur]]
    BY <1>1, <1>4, <2>1
  <2>. QED BY <1>1, <1>2, <1>4, <2>2, <2>3, GoneStart
<1>. QED BY <1>3, <1>4 DEF R_RemoveFinalizer

\* Users: a new recovery has not started, and its slot was never used.
LEMMA CreateStart ==
  ASSUME StartInvariant, TypeOK', NEW r \in Recoveries, CreateRecovery(r)
  PROVE  StartInvariant'
<1>. USE DEF StartInvariant
<1>1. PICK source \in UIDs, target \in UIDs :
        rec' = [rec EXCEPT ![r] = [NewRecovery EXCEPT !.phase = "live",
                                     !.source = source, !.target = target]]
  BY DEF CreateRecovery
<1>2. rec \in [Recoveries -> Recovery]
  BY DEF TypeOK, StateTypeOK
<1>3. /\ \A x \in Recoveries \ {r} : rec'[x] = rec[x]
      /\ rec'[r].phase = "live" /\ rec'[r].mutationStarted = FALSE
      /\ rec'[r].commitVerified = FALSE
  BY <1>1, <1>2 DEF NewRecovery
<1>4. rec[r].phase = "new" /\ UNCHANGED <<crec, rpc, rcur>>
  BY DEF CreateRecovery, rVars
<1>5. rec[r].mutationStarted = FALSE
  BY <1>4 DEF ForwardOnly, NewRecovery
<1>6. rpc # "idle" => rcur \in Recoveries \ {r}
  BY <1>4 DEF TypeOK, RTypeOK, ForwardOnly
<1>7. AtMostOneStarted'
  BY <1>3 DEF AtMostOneStarted, live, hasStarted
<1>8. StartIsExclusive'
  BY <1>3, <1>4, <1>6 DEF StartIsExclusive, StartWindow, live, hasStarted
<1>9. ForwardOnly'
  BY <1>3, <1>4, <1>5, <1>6 DEF ForwardOnly, ForwardSteps
<1>. QED BY <1>7, <1>8, <1>9

\* A user deletes a recovery: it goes, or waits for its finalizer.
LEMMA DeleteStart ==
  ASSUME StartInvariant, TypeOK', NEW r \in Recoveries, DeleteRecovery(r)
  PROVE  StartInvariant'
<1>. USE DEF StartInvariant
<1>1. rec \in [Recoveries -> Recovery] /\ rec[r].phase = "live" /\ UNCHANGED <<crec, rpc, rcur>>
  BY DEF DeleteRecovery, TypeOK, StateTypeOK, live, rVars
<1>2. \/ rec'[r] = [rec[r] EXCEPT !.deleting = TRUE]
      \/ rec'[r] = [rec[r] EXCEPT !.phase = "gone"]
  BY <1>1 DEF DeleteRecovery
<1>3. /\ rec'[r].phase # "new" /\ rec'[r].source = rec[r].source
      /\ rec'[r].mutationStarted = rec[r].mutationStarted
      /\ rec'[r].commitVerified = rec[r].commitVerified
  BY <1>1, <1>2 DEF Recovery
<1>4. rec' = [rec EXCEPT ![r] = rec'[r]]
  BY <1>1 DEF DeleteRecovery
<1>5. WorkerKept
  BY <1>1 DEF WorkerKept
<1>. QED BY <1>1, <1>3, <1>4, <1>5, GoneStart

\* The informer and a restart only copy what is there.
LEMMA CopyStart ==
  ASSUME StartInvariant, TypeOK', UNCHANGED rec,
         \A r \in Recoveries : crec'[r] \in {crec[r], rec[r]},
         UNCHANGED <<rpc, rcur>> \/ rpc' = "idle"
  PROVE  StartInvariant'
<1>. USE DEF StartInvariant
<1>1. AtMostOneStarted' /\ StartIsExclusive'
  BY DEF AtMostOneStarted, StartIsExclusive, StartWindow, live
<1>2. ForwardOnly'
  BY DEF ForwardOnly, ForwardSteps
<1>. QED BY <1>1, <1>2

\* Every step keeps the invariant.
LEMMA NextStart == StartInvariant /\ [Next]_vars => StartInvariant'
<1>. SUFFICES ASSUME StartInvariant, [Next]_vars PROVE StartInvariant'
  OBVIOUS
<1>0. TypeOK /\ TypeOK'
  BY NextTypes DEF StartInvariant
<1>1. CASE UNCHANGED <<rec, crec, rpc, rcur>>
  BY <1>0, <1>1, CopyStart
<1>2. CASE UNCHANGED vars
  BY <1>1, <1>2 DEF vars, stateVars, rVars
<1>3. CASE WController
  <2>1. UNCHANGED <<rec, crec, rpc, rcur>>
    BY <1>3 DEF WController, WStep, WFault, rVars, W_Reconcile, W_DetectRecovery,
                W_EnsureUserAssignedIdentity, W_CreateUserAssignedIdentity,
                W_EnsureFederatedIdentityCredential, W_EnsureServiceAccount, W_PatchStatus,
                W_ReconcileDelete, W_DeleteCheck, W_DeleteUserAssignedIdentity,
                W_DeleteServiceAccountIfOwned, W_RemoveFinalizer, W_EnsureError, W_OtherError
  <2>. QED BY <1>1, <2>1
<1>4. CASE RController
  <2>1. CASE QuietStep
    BY <1>0, <2>1, QuietSteps, KeptStart
  <2>2. CASE \E r \in Recoveries : RTake(r)
    BY <1>0, <2>2, TakeStart
  <2>3. CASE R_Winner \/ R_SaveStarted \/ R_SaveCommit \/ R_RemoveFinalizer
    BY <1>0, <2>3, WinnerStart, SaveStartedStart, SaveCommitStart, RemoveFinalizerStart
  <2>. QED BY <1>4, <2>1, <2>2, <2>3 DEF RController, RStep, QuietStep
<1>5. CASE Informer
  <2>1. CASE SyncWorkloadIdentity \/ SyncServiceAccount
    BY <1>1, <2>1 DEF SyncWorkloadIdentity, SyncServiceAccount, rVars
  <2>2. ASSUME NEW r \in Recoveries, SyncRecovery(r) PROVE StartInvariant'
    <3>1. /\ UNCHANGED <<rec, rpc, rcur>>
          /\ \A x \in Recoveries : crec'[x] \in {crec[x], rec[x]}
      BY <1>0, <2>2 DEF SyncRecovery, rVars, TypeOK, StateTypeOK
    <3>. QED BY <1>0, <3>1, CopyStart
  <2>. QED BY <1>5, <2>1, <2>2 DEF Informer
<1>6. CASE Users
  <2>1. ASSUME NEW policy \in Policies, CreateWorkloadIdentity(policy) PROVE StartInvariant'
    BY <1>1, <2>1 DEF CreateWorkloadIdentity, rVars
  <2>2. CASE DeleteWorkloadIdentity \/ EditWorkloadIdentity \/ ChangeServiceAccount
    BY <1>1, <2>2 DEF DeleteWorkloadIdentity, EditWorkloadIdentity, ChangeServiceAccount, rVars
  <2>3. ASSUME NEW r \in Recoveries, CreateRecovery(r) \/ DeleteRecovery(r)
        PROVE  StartInvariant'
    BY <1>0, <2>3, CreateStart, DeleteStart
  <2>. QED BY <1>6, <2>1, <2>2, <2>3 DEF Users
<1>7. CASE Environment
  <2>1. CASE DriftCredential \/ DeleteAzureIdentity \/ IssuerLost \/ IssuerBecomesReady
    BY <1>1, <2>1 DEF DriftCredential, DeleteAzureIdentity, IssuerLost, IssuerBecomesReady, rVars
  <2>2. CASE Restart
    BY <1>0, <2>2, CopyStart DEF Restart
  <2>. QED BY <1>7, <2>1, <2>2 DEF Environment
<1>. QED BY <1>2, <1>3, <1>4, <1>5, <1>6, <1>7 DEF Next

\* Before anything happened there is no recovery.
LEMMA InitStart == Init => StartInvariant
<1>. SUFFICES ASSUME Init PROVE StartInvariant
  OBVIOUS
<1>1. TypeOK
  BY InitTypes
<1>2. \A r \in Recoveries : rec[r] = NewRecovery /\ crec[r] = NewRecovery
  BY DEF Init, StateInit
<1>3. rpc = "idle"
  BY DEF Init, RInit
<1>4. AtMostOneStarted
  BY <1>2 DEF AtMostOneStarted, live, NewRecovery
<1>5. StartIsExclusive
  BY <1>3 DEF StartIsExclusive, StartWindow
<1>6. ForwardOnly
  BY <1>2, <1>3 DEF ForwardOnly, ForwardSteps, NewRecovery
<1>. QED BY <1>1, <1>4, <1>5, <1>6 DEF StartInvariant

\* The inductive invariant holds (recoveryWinnerForSource, startRecovery).
THEOREM StartInvariantHolds == Spec => []StartInvariant
<1>1. Init => StartInvariant
  BY InitStart
<1>2. StartInvariant /\ [Next]_vars => StartInvariant'
  BY NextStart
<1>. QED BY <1>1, <1>2, PTL DEF Spec

\* Of the recoveries of one source that exist, at most one has gone forward, for
\* any number of rivals, faults and restarts and however far the cache lags
\* (recoveryWinnerForSource, startRecovery).
THEOREM ExclusiveStart == Spec => []AtMostOneStarted
<1>1. StartInvariant => AtMostOneStarted
  BY DEF StartInvariant
<1>. QED BY <1>1, StartInvariantHolds, PTL
=============================================================================
