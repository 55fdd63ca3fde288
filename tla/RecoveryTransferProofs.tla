----------------------- MODULE RecoveryTransferProofs -----------------------
(***************************************************************************)
(* The transfer of the identity from one instance to a later one.  First,  *)
(* in every instance of the model, a fence always has its recovery         *)
(* (FenceInvariant).  Then, for an identity that nobody deletes in Azure   *)
(* behind the operator's back: what either worker read of the identity     *)
(* still holds when it writes (ReadIsCurrent, WorkerOwnsIt), and so the    *)
(* controllers together do to the identity only what OwnershipTransfer     *)
(* allows.  Without that hypothesis this is not so: the tags are replaced  *)
(* as a whole, and an update computed from an identity that was deleted    *)
(* and made anew in between writes the old owner back.                     *)
(***************************************************************************)
EXTENDS RecoveryCopiesProofs

(***************************************************************************)
(* Instances and stages.                                                   *)
(***************************************************************************)
\* The source of a recovery is an instance that is gone.
LEMMA Sources ==
  ASSUME CopiesInvariant
  PROVE  /\ lastUid \in Nat /\ wi.uid \in {0, lastUid} /\ 0 \notin Recoveries
         /\ \A r \in Recoveries :
              rec[r].phase # "new" =>
                /\ rec[r].source \notin {0, lastUid, wi.uid, rec[r].target}
                /\ rec[r].target # 0 /\ rec[r].target \in UIDs /\ rec[r].source \in UIDs
<1>1. lastUid \in Nat /\ wi.uid \in {0, lastUid} /\ 0 \notin Recoveries /\ UIDOrNone \subseteq Nat
  BY UIDNumbers, NumRecoveriesAssumption
     DEF CopiesInvariant, StartInvariant, IdentityCopies, UIDsAreGivenOut, Recoveries
<1>2. ASSUME NEW r \in Recoveries, rec[r].phase # "new"
      PROVE  /\ rec[r].source \notin {0, lastUid, wi.uid, rec[r].target}
             /\ rec[r].target # 0 /\ rec[r].target \in UIDs /\ rec[r].source \in UIDs
  <2>1. rec[r].source \in UIDOrNone /\ rec[r].target \in UIDOrNone
    BY DEF CopiesInvariant, StartInvariant, TypeOK, StateTypeOK, Recovery
  <2>2. 0 < rec[r].source /\ rec[r].source < rec[r].target /\ rec[r].target <= lastUid
    BY <1>2 DEF CopiesInvariant, IdentityCopies, UIDsAreGivenOut
  <2>3. \A uid \in UIDOrNone : uid # 0 => uid \in UIDs
    BY MaxUIDAssumption DEF UIDOrNone, UIDs
  <2>4. rec[r].source \in Nat /\ rec[r].target \in Nat
    BY <1>1, <2>1
  <2>5. rec[r].source \notin {0, lastUid, rec[r].target} /\ rec[r].target # 0
    BY <1>1, <2>2, <2>4
  <2>. QED BY <1>1, <2>1, <2>3, <2>5
<1>. QED BY <1>1, <1>2

\* A recovery that is reconciled, or known to be Complete, was created.
LEMMA WasCreated ==
  ASSUME CopiesInvariant
  PROVE  /\ rpc # "idle" => rcur \in Recoveries /\ live(rcur) /\ rec[rcur].phase # "new"
         /\ \A r \in Recoveries :
              knownComplete(r) => rec[r].phase # "new"
<1>1. rpc # "idle" => rcur \in Recoveries /\ live(rcur)
  BY DEF CopiesInvariant, ReconciledExists, StartInvariant, TypeOK, RTypeOK
<1>2. ASSUME NEW r \in Recoveries, rec[r].phase = "new"
      PROVE  rec[r] = NewRecovery /\ crec[r] = NewRecovery
  BY <1>2 DEF CopiesInvariant, StartInvariant, ForwardOnly, RecoveryCopies
<1>. QED BY <1>1, <1>2 DEF live, knownComplete, recoveryIsComplete, NewRecovery

LEMMA StageMeans ==
  ASSUME CopiesInvariant, rpc # "idle"
  PROVE  /\ stageOf(uami) = "NotStarted" => uami.exists /\ uami.owner = src /\ ~Fenced(uami)
         /\ stageOf(uami) = "InProgress" => uami.exists /\ uami.owner = src /\ fencedBy(rcur, uami)
         /\ stageOf(uami) = "CommittedFenced" => uami.exists /\ uami.owner = tgt /\ fencedBy(rcur, uami)
         /\ stageOf(uami) = "Complete" => uami.exists /\ uami.owner = tgt /\ ~Fenced(uami)
<1>1. src # tgt /\ rcur # 0
  BY Sources, WasCreated DEF src, tgt
<1>2. stageOf(uami) # "MarkerConflict" =>
        uami.exists /\ stageOf(uami) = recoveryStage(rcur, src, tgt, uami)
  BY DEF stageOf, loadedStage
<1>. QED BY <1>1, <1>2 DEF recoveryStage, Fenced, fencedBy, src, tgt

(***************************************************************************)
(* A step that leaves the identity alone keeps its fence.                  *)
(***************************************************************************)
\* Recovery x after the step, as far as a fence relies on it.
RecordStays(x) ==
  /\ rec[x].phase # "new" =>
       rec'[x].source = rec[x].source /\ rec'[x].target = rec[x].target
  /\ (knownComplete(x))' => knownComplete(x) \/ (x = rcur /\ rpc = "saveComplete")
  /\ /\ x = uami.recoveryUid /\ live(x) /\ rec[x].finalizer /\ rec[x].mutationStarted
     /\ crec[x].mutationStarted /\ mayFail(x)
     => /\ (live(x))' /\ rec'[x].finalizer /\ rec'[x].mutationStarted
        /\ crec'[x].mutationStarted /\ (mayFail(x))'
RecordsStay == \A x \in Recoveries : RecordStays(x)

\* The part of FenceInvariant that does not speak of the worker.
FenceStands == CompleteIsGivenAway /\ FenceIsKnown /\ FenceHasDriver

\* The identity has an owner that no recovery takes it from, and no fence.
HeldByTheLast ==
  /\ uami'.owner \in {0, lastUid, wi.uid} /\ uami'.recoveryUid = 0 /\ uami'.targetUid = 0

LEMMA FenceKept ==
  ASSUME CopiesInvariant, FenceInvariant, RecordsStay, UNCHANGED uami \/ HeldByTheLast
  PROVE  FenceStands'
<1>1. ASSUME NEW r \in Recoveries, (knownComplete(r))'
      PROVE  (givenAway(r, uami))'
  <2>1. knownComplete(r) \/ (r = rcur /\ rpc = "saveComplete")
    BY <1>1 DEF RecordsStay, RecordStays
  <2>2. rec[r].phase # "new" /\ givenAway(r, uami)
    BY <2>1, WasCreated DEF FenceInvariant, CompleteIsGivenAway, ReadIsPlanned
  <2>3. rec'[r].source = rec[r].source
    BY <2>2 DEF RecordsStay, RecordStays
  <2>. QED BY <2>2, <2>3, Sources DEF givenAway, HeldByTheLast
<1>2. ASSUME Fenced(uami)'
      PROVE  FenceIsKnown' /\ FenceHasDriver'
  <2>1. UNCHANGED uami /\ Fenced(uami)
    BY <1>2 DEF Fenced, HeldByTheLast
  <2>. DEFINE x == uami.recoveryUid
  <2>2. /\ x \in Recoveries /\ live(x) /\ rec[x].finalizer /\ rec[x].mutationStarted
        /\ ~recoveryIsComplete(rec[x]) /\ rec[x].target = uami.targetUid
        /\ uami.owner \in {rec[x].source, rec[x].target}
    BY <2>1 DEF FenceInvariant, FenceHasDriver, live
  <2>3. uami.targetUid # 0 /\ crec[x].mutationStarted /\ mayFail(x)
    BY <2>1 DEF FenceInvariant, FenceIsKnown
  <2>4. /\ (live(x))' /\ rec'[x].finalizer /\ rec'[x].mutationStarted
        /\ crec'[x].mutationStarted /\ (mayFail(x))'
        /\ rec'[x].source = rec[x].source /\ rec'[x].target = rec[x].target
    BY <2>1, <2>2, <2>3 DEF RecordsStay, RecordStays, live
  <2>5. ~recoveryIsComplete(rec'[x])
    BY <1>1, <2>1, <2>2 DEF givenAway, knownComplete
  <2>6. recoveryIsFailed(rec'[x]) => rec'[x].deleting
    BY <2>1, <2>4 DEF mayFail
  <2>. QED BY <2>1, <2>2, <2>3, <2>4, <2>5, <2>6 DEF FenceIsKnown, FenceHasDriver, live
<1>3. FenceIsKnown' /\ FenceHasDriver'
  BY <1>2 DEF FenceIsKnown, FenceHasDriver
<1>. QED BY <1>1, <1>3 DEF FenceStands, CompleteIsGivenAway

(***************************************************************************)
(* A running reconcile of a recovery.                                      *)
(***************************************************************************)
LEMMA KeptStays ==
  ASSUME RecordsKept
  PROVE  RecordsStay
BY DEF RecordsKept, RecordKept, RecordsStay, RecordStays, knownComplete, mayFail, live

LEMMA RunSteps ==
  ASSUME CopiesInvariant, RunStep
  PROVE  /\ rpc # "idle" /\ RecordsKept /\ RunKept
         /\ rpc' # "idle" => rcur' = rcur /\ src' = src /\ tgt' = tgt
<1>1. rpc # "idle"
  BY DEF RunStep, QuietStep, R_Winner, R_SaveStarted, R_SaveCommit, R_Preflight,
         R_SavePlan, R_ReadTarget, R_LockTarget, R_Mark, R_MarkCall,
         R_EnsureFederatedIdentityCredential, R_TransferServiceAccount, R_CommitCheck,
         R_Commit, R_CommitCall, R_CommitVerify, R_Finalize, R_FinalizeCall,
         R_FinalizeVerify, R_SaveComplete, R_Cancel, R_ReadRelease, R_Release, R_Error
<1>2. RecordsKept /\ RunKept
  BY RunRecords DEF CopiesInvariant, RecoveryCopiesInvariant
<1>3. rpc' # "idle" => rcur' = rcur
  BY <1>2 DEF RunKept
<1>4. rpc' # "idle" => src' = src /\ tgt' = tgt
  BY <1>1, <1>2, <1>3, WasCreated DEF RecordsKept, RecordKept, src, tgt
<1>. QED BY <1>1, <1>2, <1>3, <1>4

\* What the worker has read of the identity and is about to use.
ReadSteps == {"markCall", "commitCall", "finalizeCall", "commit", "saveComplete"}

\* Steps that leave the identity alone and read nothing they rely on later.
LEMMA PlainRun ==
  ASSUME CopiesInvariant, FenceInvariant, RunStep, UNCHANGED uami, rpc' \notin ReadSteps
  PROVE  FenceInvariant'
<1>1. FenceStands'
  BY RunSteps, KeptStays, FenceKept
<1>2. rpc' \notin FenceSteps \cup {"idle"} => uami.recoveryUid # rcur /\ rcur' = rcur
  <2>. SUFFICES ASSUME rpc' \notin FenceSteps \cup {"idle"}
                PROVE  uami.recoveryUid # rcur /\ rcur' = rcur
    OBVIOUS
  <2>1. rcur' = rcur /\ (rpc \notin FenceSteps \/ rpc = "saveComplete") /\ rpc # "idle"
    BY RunSteps DEF RunKept
  <2>. QED BY <2>1 DEF FenceInvariant, ReadIsPlanned, givenAway
<1>3. ReadIsPlanned'
  BY <1>2 DEF ReadIsPlanned, ReadSteps, CallSteps, FenceSteps, ForwardSteps
<1>. QED BY <1>1, <1>3 DEF FenceInvariant, FenceStands

\* Steps that read the identity, or the target, before a call.
LEMMA ReadRun ==
  ASSUME CopiesInvariant, FenceInvariant,
         R_Mark \/ R_CommitCheck \/ R_Commit \/ R_Finalize \/ R_FinalizeVerify
  PROVE  FenceInvariant'
<1>. USE DEF FenceSteps, ForwardSteps, ReadSteps, CallSteps
<1>0. RunStep /\ UNCHANGED <<uami, wi>>
  BY DEF RunStep, QuietStep, R_Mark, R_CommitCheck, R_Commit, R_Finalize, R_FinalizeVerify
<1>1. FenceStands'
  BY <1>0, RunSteps, KeptStays, FenceKept
<1>2. /\ rpc # "idle" /\ (rpc' # "idle" => rcur' = rcur /\ src' = src /\ tgt' = tgt)
      /\ src # tgt /\ rcur # 0
  BY <1>0, RunSteps, Sources, WasCreated DEF src, tgt
<1>3. CASE rpc' \notin ReadSteps
  BY <1>0, <1>3, PlainRun
<1>4. ASSUME rpc' \in ReadSteps
      PROVE  /\ rpc' \in CallSteps => uami.exists /\ ruami' = uami
             /\ rpc' = "markCall" => uami.owner = src /\ ~Fenced(uami)
             /\ rpc' = "commitCall" => uami.owner = src /\ fencedBy(rcur, uami)
             /\ rpc' = "finalizeCall" => uami.owner = tgt /\ fencedBy(rcur, uami)
             /\ rpc' \in {"commit", "commitCall"} =>
                  wi.uid = tgt /\ workloadIdentityRecoveryIsInProgress(wi)
             /\ rpc' = "saveComplete" => uami.owner = tgt /\ ~Fenced(uami)
  <2>1. CASE R_Mark
    BY <1>2, <1>4, <2>1, StageMeans DEF R_Mark, block, RReturn, RGoto
  <2>2. CASE R_CommitCheck
    <3>1. validateRecoveryControllerTarget(rec[rcur], wi) /\ rpc' = "commit"
      BY <1>4, <2>2 DEF R_CommitCheck, block, RReturn
    <3>2. rec[rcur].mutationStarted /\ src # 0
      BY <1>2, <2>2, Sources, WasCreated
         DEF R_CommitCheck, CopiesInvariant, StartInvariant, ForwardOnly, src
    <3>3. wi.uid = tgt /\ wi.previousUid = src /\ wi.ready = "RecoveryInProgress"
      BY <3>1, <3>2 DEF validateRecoveryControllerTarget, src, tgt
    <3>. QED BY <3>1, <3>2, <3>3 DEF workloadIdentityRecoveryIsInProgress, recoveryReasonIs
  <2>3. CASE R_Commit
    <3>1. rpc = "commit" /\ rpc' = "commitCall" /\ stageOf(uami) = "InProgress" /\ ruami' = uami
      BY <1>4, <2>3 DEF R_Commit, block, RReturn, RGoto
    <3>. QED BY <1>2, <3>1, StageMeans DEF FenceInvariant, ReadIsPlanned
  <2>4. CASE R_Finalize
    BY <1>2, <1>4, <2>4, StageMeans DEF R_Finalize, block, RReturn, RGoto
  <2>5. CASE R_FinalizeVerify
    BY <1>2, <1>4, <2>5, StageMeans DEF R_FinalizeVerify, block, RReturn, RGoto
  <2>. QED BY <2>1, <2>2, <2>3, <2>4, <2>5
<1>5. CASE rpc' \in ReadSteps
  <2>1. rcur' = rcur /\ src' = src /\ tgt' = tgt /\ rcur \in Recoveries
    BY <1>2, <1>5, WasCreated
  <2>2. rpc' = "saveComplete" => (givenAway(rcur, uami))'
    BY <1>0, <1>2, <1>4, <1>5, <2>1 DEF givenAway, Fenced, src, tgt
  <2>3. rpc' \in CallSteps =>
          (\A r \in Recoveries : knownComplete(r) => givenAway(r, ruami))'
    BY <1>0, <1>1, <1>4, <1>5 DEF FenceStands, CompleteIsGivenAway, givenAway
  <2>4. ReadIsPlanned'
    BY <1>0, <1>4, <1>5, <2>1, <2>2, <2>3 DEF ReadIsPlanned, fencedBy, src, tgt
  <2>. QED BY <1>1, <2>4 DEF FenceInvariant, FenceStands
<1>. QED BY <1>3, <1>5

(***************************************************************************)
(* The three updates of the tags.  Each writes what was read, changed,     *)
(* whatever there is by now.                                               *)
(***************************************************************************)
LEMMA TagUpdates ==
  ASSUME CopiesInvariant, ReadIsPlanned, R_MarkCall \/ R_CommitCall \/ R_FinalizeCall
  PROVE  /\ RunStep /\ UNCHANGED <<rec, crec, wi>> /\ rcur \in Recoveries /\ rpc \in CallSteps
         /\ \/ UNCHANGED uami /\ rpc' = "idle"
            \/ /\ uami.exists /\ uami'.exists
               /\ rcur' = rcur /\ rpc' \in {"ensureFic", "commitVerify", "finalizeVerify"}
               /\ \/ /\ R_MarkCall /\ rpc = "markCall" /\ uami'.owner = ruami.owner
                     /\ ruami.owner = src /\ ~Fenced(ruami)
                     /\ uami'.recoveryUid = rcur /\ uami'.targetUid = tgt
                  \/ /\ R_CommitCall /\ rpc = "commitCall" /\ uami'.owner = tgt
                     /\ ruami.owner = src /\ fencedBy(rcur, ruami)
                     /\ uami'.recoveryUid = rcur /\ uami'.targetUid = tgt
                     /\ wi.uid = tgt /\ workloadIdentityRecoveryIsInProgress(wi)
                  \/ /\ R_FinalizeCall /\ rpc = "finalizeCall" /\ uami'.owner = ruami.owner
                     /\ ruami.owner = tgt /\ fencedBy(rcur, ruami)
                     /\ uami'.recoveryUid = 0 /\ uami'.targetUid = 0
<1>. USE DEF CallSteps
<1>0. /\ RunStep /\ UNCHANGED <<rec, crec, wi>> /\ ruami \in Uami
      /\ rcur \in RecoveryOrNone /\ tgt \in UIDOrNone /\ rcur \in Recoveries
  <2>1. RunStep /\ UNCHANGED <<rec, crec, wi>> /\ rpc # "idle"
    BY RunSteps DEF RunStep, QuietStep, R_MarkCall, R_CommitCall, R_FinalizeCall
  <2>. QED BY <2>1, WasCreated
           DEF CopiesInvariant, StartInvariant, TypeOK, StateTypeOK, RTypeOK, Recovery, tgt
<1>1. CASE R_MarkCall
  <2>1. CASE ~uami.exists
    BY <1>0, <1>1, <2>1 DEF R_MarkCall, RReturn
  <2>2. CASE uami.exists
    <3>1. /\ rpc = "markCall" /\ rpc' = "ensureFic" /\ rcur' = rcur
          /\ uami' = [[ruami EXCEPT !.recoveryUid = rcur, !.targetUid = tgt]
                        EXCEPT !.instance = uami.instance]
      BY <1>1, <2>2 DEF R_MarkCall, updateRecoveryTags, fencedTags, RGoto
    <3>2. /\ uami'.recoveryUid = rcur /\ uami'.targetUid = tgt /\ uami'.owner = ruami.owner
          /\ uami'.exists = ruami.exists
      BY <1>0, <3>1 DEF Uami
    <3>. QED BY <1>0, <1>1, <2>2, <3>1, <3>2 DEF ReadIsPlanned
  <2>. QED BY <2>1, <2>2
<1>2. CASE R_CommitCall
  <2>1. CASE ~uami.exists
    BY <1>0, <1>2, <2>1 DEF R_CommitCall, RReturn
  <2>2. CASE uami.exists
    <3>1. /\ rpc = "commitCall" /\ rpc' = "commitVerify" /\ rcur' = rcur
          /\ uami' = [[ruami EXCEPT !.owner = tgt, !.lastUid = rcur]
                        EXCEPT !.instance = uami.instance]
      BY <1>2, <2>2 DEF R_CommitCall, updateRecoveryTags, committedTags, RGoto
    <3>2. /\ uami'.recoveryUid = ruami.recoveryUid /\ uami'.targetUid = ruami.targetUid
          /\ uami'.owner = tgt /\ uami'.exists = ruami.exists
      BY <1>0, <3>1 DEF Uami
    <3>. QED BY <1>0, <1>2, <2>2, <3>1, <3>2 DEF ReadIsPlanned, fencedBy, tgt
  <2>. QED BY <2>1, <2>2
<1>3. CASE R_FinalizeCall
  <2>1. CASE ~uami.exists
    BY <1>0, <1>3, <2>1 DEF R_FinalizeCall, RReturn
  <2>2. CASE uami.exists
    <3>1. /\ rpc = "finalizeCall" /\ rpc' = "finalizeVerify" /\ rcur' = rcur
          /\ uami' = [[ruami EXCEPT !.recoveryUid = 0, !.targetUid = 0]
                        EXCEPT !.instance = uami.instance]
      BY <1>3, <2>2 DEF R_FinalizeCall, updateRecoveryTags, finalizedTags, RGoto
    <3>2. /\ uami'.recoveryUid = 0 /\ uami'.targetUid = 0 /\ uami'.owner = ruami.owner
          /\ uami'.exists = ruami.exists
      BY <1>0, <3>1 DEF Uami
    <3>. QED BY <1>0, <1>3, <2>2, <3>1, <3>2 DEF ReadIsPlanned
  <2>. QED BY <2>1, <2>2
<1>. QED BY <1>1, <1>2, <1>3

LEMMA CallRun ==
  ASSUME CopiesInvariant, FenceInvariant, R_MarkCall \/ R_CommitCall \/ R_FinalizeCall
  PROVE  FenceInvariant'
<1>. USE DEF FenceInvariant
<1>0. /\ RunStep /\ UNCHANGED <<rec, crec, wi>> /\ rcur \in Recoveries /\ rpc # "idle"
      /\ live(rcur) /\ src # tgt /\ tgt # 0 /\ rcur # 0 /\ rpc \in CallSteps
  BY TagUpdates, RunSteps, WasCreated, Sources DEF src, tgt
<1>1. CASE UNCHANGED uami /\ rpc' = "idle"
  BY <1>0, <1>1, PlainRun DEF ReadSteps, CallSteps
<1>2. CASE rcur' = rcur /\ rpc' \in {"ensureFic", "commitVerify", "finalizeVerify"}
  <2>. SUFFICES CompleteIsGivenAway' /\ FenceIsKnown' /\ FenceHasDriver'
    <3>1. ReadIsPlanned'
      BY <1>2 DEF ReadIsPlanned, FenceSteps, ForwardSteps, CallSteps
    <3>. QED BY <3>1
  <2>1. \A r \in Recoveries :
          knownComplete(r) =>
            rec[r].phase # "new" /\ ruami.owner # rec[r].source /\ ruami.recoveryUid # r
    BY <1>0, WasCreated DEF ReadIsPlanned, givenAway
  <2>2. ~knownComplete(rcur)
    BY <1>0, <2>1 DEF ReadIsPlanned, CallSteps, fencedBy, src
  <2>3. CASE uami'.recoveryUid = rcur /\ uami'.targetUid = tgt /\ rpc # "finalizeCall"
    <3>1. /\ rec[rcur].mutationStarted /\ rec[rcur].finalizer
          /\ crec[rcur].mutationStarted /\ mayFail(rcur)
      BY <1>0, <2>3 DEF CopiesInvariant, StartInvariant, ForwardOnly, ReconciledExists,
                        ForwardSteps, FenceSteps, CallSteps
    <3>2. CASE uami'.owner = ruami.owner /\ ruami.owner = src
      <4>1. CompleteIsGivenAway'
        BY <1>0, <2>1, <2>2, <2>3, <3>2 DEF CompleteIsGivenAway, knownComplete, givenAway
      <4>2. FenceIsKnown'
        BY <1>0, <2>3, <3>1 DEF FenceIsKnown, mayFail
      <4>3. FenceHasDriver'
        BY <1>0, <2>2, <2>3, <3>1, <3>2
           DEF FenceHasDriver, knownComplete, mayFail, live, src, tgt
      <4>. QED BY <4>1, <4>2, <4>3
    <3>3. CASE uami'.owner = tgt /\ wi.uid = tgt
      <4>1. CompleteIsGivenAway'
        BY <1>0, <2>1, <2>2, <2>3, <3>3, Sources DEF CompleteIsGivenAway, knownComplete, givenAway
      <4>2. FenceIsKnown'
        BY <1>0, <2>3, <3>1 DEF FenceIsKnown, mayFail
      <4>3. FenceHasDriver'
        BY <1>0, <2>2, <2>3, <3>1, <3>3
           DEF FenceHasDriver, knownComplete, mayFail, live, src, tgt
      <4>. QED BY <4>1, <4>2, <4>3
    <3>. QED BY <1>0, <1>2, <2>3, <3>2, <3>3, TagUpdates
  <2>4. CASE uami'.owner = ruami.owner /\ uami'.recoveryUid = 0 /\ uami'.targetUid = 0
    <3>1. CompleteIsGivenAway'
      BY <1>0, <2>1, <2>4, Sources DEF CompleteIsGivenAway, knownComplete, givenAway
    <3>2. FenceIsKnown' /\ FenceHasDriver'
      BY <2>4 DEF FenceIsKnown, FenceHasDriver, Fenced
    <3>. QED BY <3>1, <3>2
  <2>. QED BY <1>0, <1>2, <2>3, <2>4, TagUpdates
<1>. QED BY <1>1, <1>2, TagUpdates

(***************************************************************************)
(* Every step of the recovery controller keeps the fence.                  *)
(***************************************************************************)
LEMMA RunFence ==
  ASSUME CopiesInvariant, FenceInvariant, RunStep
  PROVE  FenceInvariant'
<1>. USE DEF ReadSteps
<1>1. CASE R_Preflight \/ R_SavePlan \/ R_SaveStarted \/ R_SaveCommit \/ R_Winner \/ R_SaveComplete
  BY <1>1, PlainRun DEF R_Preflight, R_SavePlan, R_SaveStarted, R_SaveCommit, R_Winner,
                        R_SaveComplete, block, fail, saveStatus, RReturn, RGoto
<1>2. CASE R_ReadTarget \/ R_LockTarget \/ R_Cancel \/ R_ReadRelease \/ R_Release \/ R_Error
  BY <1>2, PlainRun DEF R_ReadTarget, R_LockTarget, R_Cancel, R_ReadRelease, R_Release, R_Error,
                        afterRelease, RGotoPatch, RReturn, RGoto
<1>3. CASE R_EnsureFederatedIdentityCredential \/ R_TransferServiceAccount \/ R_CommitVerify
  BY <1>3, PlainRun DEF R_EnsureFederatedIdentityCredential, R_TransferServiceAccount,
                        R_CommitVerify, block, RReturn, RGoto
<1>4. CASE R_Mark \/ R_CommitCheck \/ R_Commit \/ R_Finalize \/ R_FinalizeVerify
  BY <1>4, ReadRun
<1>5. CASE R_MarkCall \/ R_CommitCall \/ R_FinalizeCall
  BY <1>5, CallRun
<1>. QED BY <1>1, <1>2, <1>3, <1>4, <1>5 DEF RunStep, QuietStep

\* A recovery is taken from the queue: what is not started, or Complete, has no fence.
LEMMA TakeFence ==
  ASSUME CopiesInvariant, FenceInvariant, NEW r \in Recoveries, RTake(r)
  PROVE  FenceInvariant'
<1>0. UNCHANGED <<uami, wi>> /\ rpc = "idle" /\ r # 0
  BY Sources DEF RTake, R_Reconcile, R_ReconcileForward, R_ReconcileDelete
<1>1. Begins(r) \/ Skips
  BY TakeSkipsOrBegins DEF CopiesInvariant, RecoveryCopiesInvariant
<1>2. CASE Skips
  <2>1. FenceStands' /\ rpc' = "idle"
    BY <1>0, <1>2, KeptStays, FenceKept DEF Skips, rVars
  <2>2. ReadIsPlanned'
    BY <2>1 DEF ReadIsPlanned, CallSteps
  <2>. QED BY <2>1, <2>2 DEF FenceInvariant, FenceStands
<1>3. CASE Begins(r)
  <2>1. RecordsStay
    BY <1>0, <1>3 DEF Begins, RecordsStay, RecordStays, knownComplete, mayFail, live
  <2>2. FenceStands'
    BY <1>0, <2>1, FenceKept
  <2>3. rpc' \notin FenceSteps => uami.recoveryUid # r
    BY <1>0, <1>3
       DEF Begins, FenceInvariant, CompleteIsGivenAway, knownComplete, givenAway, FenceIsKnown, Fenced
  <2>4. ReadIsPlanned' /\ rpc' # "saveComplete"
    BY <1>0, <1>3, <2>3 DEF Begins, ReadIsPlanned, FenceSteps, ForwardSteps, CallSteps
  <2>. QED BY <2>2, <2>4 DEF FenceInvariant, FenceStands
<1>. QED BY <1>1, <1>2, <1>3

\* A recovery loses its finalizer: the fence is not its own.
LEMMA RemoveFence ==
  ASSUME CopiesInvariant, FenceInvariant, R_RemoveFinalizer
  PROVE  FenceInvariant'
<1>1. /\ rpc = "removeFinalizer" /\ rcur \in Recoveries /\ UNCHANGED <<crec, uami>>
      /\ rpc' = "idle" /\ rec \in [Recoveries -> Recovery]
  BY DEF R_RemoveFinalizer, RReturn, CopiesInvariant, StartInvariant, TypeOK, StateTypeOK, RTypeOK
<1>2. uami.recoveryUid # rcur
  BY <1>1 DEF FenceInvariant, ReadIsPlanned, FenceSteps, ForwardSteps
<1>3. RecordsStay
  <2>1. CASE UNCHANGED rec
    BY <1>1, <2>1 DEF RecordsStay, RecordStays, knownComplete, mayFail, live
  <2>2. CASE rec' = [rec EXCEPT ![rcur] = [@ EXCEPT !.phase = "gone", !.finalizer = FALSE]]
    <3>1. rec'[rcur] = [rec[rcur] EXCEPT !.phase = "gone", !.finalizer = FALSE]
      BY <1>1, <2>2
    <3>2. /\ rec'[rcur].source = rec[rcur].source /\ rec'[rcur].target = rec[rcur].target
          /\ rec'[rcur].outcome = rec[rcur].outcome
      BY <1>1, <3>1 DEF Recovery
    <3>3. \A x \in Recoveries \ {rcur} : rec'[x] = rec[x]
      BY <1>1, <2>2
    <3>4. ASSUME NEW x \in Recoveries, x = rcur PROVE RecordStays(x)
      BY <1>1, <1>2, <3>2, <3>4 DEF RecordStays, knownComplete, recoveryIsComplete
    <3>5. ASSUME NEW x \in Recoveries, x # rcur PROVE RecordStays(x)
      BY <1>1, <3>3, <3>5 DEF RecordStays, knownComplete, mayFail, live
    <3>. QED BY <3>4, <3>5 DEF RecordsStay
  <2>. QED BY <2>1, <2>2 DEF R_RemoveFinalizer
<1>4. FenceStands'
  BY <1>1, <1>3, FenceKept
<1>5. ReadIsPlanned'
  BY <1>1 DEF ReadIsPlanned, CallSteps
<1>. QED BY <1>1, <1>4, <1>5 DEF FenceInvariant, FenceStands

LEMMA RControllerFence ==
  ASSUME CopiesInvariant, FenceInvariant, RController
  PROVE  FenceInvariant'
BY RunFence, TakeFence, RemoveFence DEF RController, RStep, RunStep, QuietStep

(***************************************************************************)
(* Steps outside the recovery controller.                                  *)
(***************************************************************************)
Outside == WController \/ Informer \/ Users \/ Environment

\* They do not unlock a target.
LEMMA LockKept ==
  ASSUME CopiesInvariant, workloadIdentityRecoveryIsInProgress(wi), Outside
  PROVE  /\ wi'.uid = wi.uid /\ wi'.previousUid = wi.previousUid
         /\ workloadIdentityRecoveryIsInProgress(wi')
<1>. USE DEF workloadIdentityRecoveryIsInProgress, recoveryReasonIs
<1>0. /\ wi \in WorkloadIdentity /\ wi.finalizer /\ wi.uid # 0
      /\ (wpc # "idle" => ~workloadIdentityRecoveryIsInProgress(wid))
      /\ (cwi.uid = wi.uid /\ ~cwi.finalizer => cwi # wi)
  BY DEF CopiesInvariant, StartInvariant, TypeOK, StateTypeOK, IdentityCopies,
         FinalizerKeepsIdentity
<1>1. CASE WController
  <2>1. CASE W_PatchStatus \/ W_RemoveFinalizer
    BY <1>0, <2>1 DEF W_PatchStatus, W_RemoveFinalizer, lockHeld
  <2>2. CASE UNCHANGED wi
    BY <2>2
  <2>3. CASE W_Reconcile
    BY <1>0, <2>2, <2>3 DEF W_Reconcile
  <2>. QED BY <1>1, <2>1, <2>2, <2>3
           DEF WController, WStep, WFault, W_DetectRecovery, W_EnsureUserAssignedIdentity,
               W_CreateUserAssignedIdentity, W_EnsureFederatedIdentityCredential,
               W_EnsureServiceAccount, W_ReconcileDelete, W_DeleteCheck,
               W_DeleteUserAssignedIdentity, W_DeleteServiceAccountIfOwned,
               W_EnsureError, W_OtherError
<1>2. CASE DeleteWorkloadIdentity \/ EditWorkloadIdentity
  BY <1>0, <1>2 DEF DeleteWorkloadIdentity, EditWorkloadIdentity, WorkloadIdentity
<1>3. ASSUME NEW policy \in Policies, CreateWorkloadIdentity(policy) PROVE FALSE
  BY <1>0, <1>3 DEF CreateWorkloadIdentity
<1>4. CASE UNCHANGED wi
  BY <1>4
<1>. QED BY <1>1, <1>2, <1>3, <1>4
         DEF Outside, Informer, SyncWorkloadIdentity, SyncServiceAccount, SyncRecovery, Users,
             ChangeServiceAccount, CreateRecovery, DeleteRecovery, Environment, DriftCredential,
             DeleteAzureIdentity, IssuerLost, IssuerBecomesReady, Restart

\* And at most they give the identity a new owner, or none, and no fence.
LEMMA OutsideFence ==
  ASSUME CopiesInvariant, FenceInvariant, Outside, RecordsStay, UNCHANGED <<rpc, rcur, ruami>>,
         UNCHANGED uami \/ HeldByTheLast
  PROVE  FenceInvariant'
<1>1. FenceStands'
  BY FenceKept
<1>2. rpc # "idle" =>
        /\ rcur \in Recoveries /\ rcur # 0 /\ src' = src /\ tgt' = tgt
        /\ src \notin {0, lastUid, wi.uid}
        /\ rec'[rcur].target = rec[rcur].target /\ rec'[rcur].source = rec[rcur].source
  BY WasCreated, Sources DEF RecordsStay, RecordStays, src, tgt
<1>3. rpc \in {"commit", "commitCall"} =>
        wi'.uid = tgt /\ workloadIdentityRecoveryIsInProgress(wi')
  BY LockKept DEF FenceInvariant, ReadIsPlanned
<1>4. ASSUME rpc \in CallSteps, NEW r \in Recoveries, (knownComplete(r))'
      PROVE  (givenAway(r, ruami))'
  <2>1. knownComplete(r)
    BY <1>4 DEF RecordsStay, RecordStays, CallSteps
  <2>2. rec'[r].source = rec[r].source
    BY <2>1, WasCreated DEF RecordsStay, RecordStays
  <2>3. givenAway(r, ruami)
    BY <1>4, <2>1 DEF FenceInvariant, ReadIsPlanned
  <2>. QED BY <2>2, <2>3 DEF givenAway
<1>5. rpc = "saveComplete" => (givenAway(rcur, uami))'
  BY <1>2, Sources DEF FenceInvariant, ReadIsPlanned, givenAway, HeldByTheLast, src
<1>6. rpc \notin FenceSteps \cup {"idle"} => uami'.recoveryUid # rcur
  BY <1>2 DEF FenceInvariant, ReadIsPlanned, HeldByTheLast
<1>7. /\ rpc = "markCall" => ruami.owner = src /\ ~Fenced(ruami)
      /\ rpc = "commitCall" => ruami.owner = src /\ fencedBy(rcur, ruami)
      /\ rpc = "finalizeCall" => ruami.owner = tgt /\ fencedBy(rcur, ruami)
      /\ rpc \in CallSteps => ruami.exists
  BY DEF FenceInvariant, ReadIsPlanned
<1>8. ReadIsPlanned'
  BY <1>2, <1>3, <1>4, <1>5, <1>6, <1>7 DEF ReadIsPlanned, fencedBy, CallSteps
<1>. QED BY <1>1, <1>8 DEF FenceInvariant, FenceStands

\* What its two calls that touch the identity leave.
LEMMA WorkerWrites ==
  ASSUME CopiesInvariant, W_CreateUserAssignedIdentity \/ W_DeleteUserAssignedIdentity
  PROVE  HeldByTheLast
<1>1. CASE W_CreateUserAssignedIdentity
  <2>1. wid.uid = wi.uid
    BY <1>1 DEF W_CreateUserAssignedIdentity, CopiesInvariant, IdentityCopies,
                FinalizerKeepsIdentity, EnsureSteps
  <2>2. uami'.owner = wid.uid /\ uami'.recoveryUid = 0 /\ uami'.targetUid = 0
    BY <1>1 DEF W_CreateUserAssignedIdentity, CreateOrUpdate, workloadIdentityTags, NoUami
  <2>. QED BY <2>1, <2>2 DEF HeldByTheLast
<1>2. CASE W_DeleteUserAssignedIdentity
  BY <1>2 DEF W_DeleteUserAssignedIdentity, DeleteIdentity, NoUami, HeldByTheLast
<1>. QED BY <1>1, <1>2

LEMMA WControllerFence ==
  ASSUME CopiesInvariant, FenceInvariant, WController
  PROVE  FenceInvariant'
<1>1. /\ UNCHANGED <<rec, crec, rpc, rcur, ruami>>
      /\ UNCHANGED uami \/ W_CreateUserAssignedIdentity \/ W_DeleteUserAssignedIdentity
  BY DEF WController, WStep, WFault, W_Reconcile, W_DetectRecovery, W_EnsureUserAssignedIdentity,
         W_CreateUserAssignedIdentity, W_EnsureFederatedIdentityCredential,
         W_EnsureServiceAccount, W_PatchStatus, W_ReconcileDelete, W_DeleteCheck,
         W_DeleteUserAssignedIdentity, W_DeleteServiceAccountIfOwned, W_RemoveFinalizer,
         W_EnsureError, W_OtherError, rVars
<1>2. RecordsStay
  BY <1>1 DEF RecordsStay, RecordStays, knownComplete, mayFail, live
<1>. QED BY <1>1, <1>2, WorkerWrites, OutsideFence DEF Outside

LEMMA OtherStay ==
  ASSUME CopiesInvariant, Informer \/ Users \/ Environment
  PROVE  RecordsStay
<1>. USE DEF RecordStays, knownComplete, recoveryIsComplete, recoveryIsFailed
<1>0. rec \in [Recoveries -> Recovery] /\ crec \in [Recoveries -> Recovery]
  BY DEF CopiesInvariant, StartInvariant, TypeOK, StateTypeOK
<1>1. CASE UNCHANGED <<rec, crec>>
  BY <1>1 DEF RecordsStay, mayFail, live
<1>2. ASSUME NEW r \in Recoveries, UNCHANGED crec, RecordStays(r),
             \A x \in Recoveries \ {r} : rec'[x] = rec[x]
      PROVE  RecordsStay
  <2>1. \A x \in Recoveries \ {r} : RecordStays(x)
    BY <1>2 DEF mayFail, live
  <2>. QED BY <1>2, <2>1 DEF RecordsStay
<1>3. ASSUME NEW r \in Recoveries, CreateRecovery(r) PROVE RecordsStay
  <2>1. PICK source \in UIDs, target \in UIDs :
          rec' = [rec EXCEPT ![r] = [NewRecovery EXCEPT !.phase = "live",
                                       !.source = source, !.target = target]]
    BY <1>3 DEF CreateRecovery
  <2>2. rec'[r].outcome = "None" /\ rec[r].phase = "new" /\ UNCHANGED crec
    BY <1>0, <1>3, <2>1 DEF CreateRecovery, NewRecovery
  <2>3. RecordStays(r) /\ \A x \in Recoveries \ {r} : rec'[x] = rec[x]
    BY <1>0, <2>1, <2>2 DEF live
  <2>. QED BY <1>2, <2>2, <2>3
<1>4. ASSUME NEW r \in Recoveries, DeleteRecovery(r) PROVE RecordsStay
  <2>1. /\ rec' = [rec EXCEPT ![r] = IF @.finalizer THEN [@ EXCEPT !.deleting = TRUE]
                                                    ELSE [@ EXCEPT !.phase = "gone"]]
        /\ UNCHANGED crec /\ rec[r] \in Recovery
    BY <1>0, <1>4 DEF DeleteRecovery
  <2>2. rec'[r] = IF rec[r].finalizer THEN [rec[r] EXCEPT !.deleting = TRUE]
                                      ELSE [rec[r] EXCEPT !.phase = "gone"]
    BY <1>0, <2>1
  <2>3. /\ rec'[r].source = rec[r].source /\ rec'[r].target = rec[r].target
        /\ rec'[r].outcome = rec[r].outcome /\ rec'[r].finalizer = rec[r].finalizer
        /\ rec'[r].mutationStarted = rec[r].mutationStarted
        /\ rec[r].finalizer => rec'[r].phase = rec[r].phase /\ rec'[r].deleting
    BY <2>1, <2>2 DEF Recovery
  <2>4. RecordStays(r) /\ \A x \in Recoveries \ {r} : rec'[x] = rec[x]
    BY <1>0, <2>1, <2>3 DEF mayFail, live
  <2>. QED BY <1>2, <2>1, <2>4
<1>5. ASSUME UNCHANGED rec, \A x \in Recoveries : crec'[x] \in {crec[x], rec[x]}
      PROVE  RecordsStay
  BY <1>5 DEF RecordsStay, mayFail, live
<1>6. CASE Informer
  BY <1>0, <1>1, <1>5, <1>6 DEF Informer, SyncWorkloadIdentity, SyncServiceAccount, SyncRecovery
<1>7. CASE Environment
  BY <1>1, <1>5, <1>7 DEF Environment, DriftCredential, DeleteAzureIdentity, IssuerLost,
                          IssuerBecomesReady, Restart
<1>8. CASE Users
  BY <1>1, <1>3, <1>4, <1>8 DEF Users, CreateWorkloadIdentity, DeleteWorkloadIdentity,
                                EditWorkloadIdentity, ChangeServiceAccount
<1>. QED BY <1>6, <1>7, <1>8

LEMMA OtherFence ==
  ASSUME CopiesInvariant, FenceInvariant, Informer \/ Users \/ Environment
  PROVE  FenceInvariant'
<1>0. RecordsStay
  BY OtherStay
<1>1. CASE Restart
  <2>1. FenceStands' /\ rpc' = "idle"
    BY <1>0, <1>1, FenceKept DEF Restart
  <2>2. ReadIsPlanned'
    BY <2>1 DEF ReadIsPlanned, CallSteps
  <2>. QED BY <2>1, <2>2 DEF FenceInvariant, FenceStands
<1>2. CASE UNCHANGED <<rpc, rcur, ruami, uami>>
  BY <1>0, <1>2, OutsideFence DEF Outside
<1>3. CASE DeleteAzureIdentity
  <2>1. HeldByTheLast /\ UNCHANGED <<rpc, rcur, ruami>>
    BY <1>3 DEF DeleteAzureIdentity, DeleteIdentity, NoUami, HeldByTheLast, rVars
  <2>. QED BY <1>0, <2>1, OutsideFence DEF Outside
<1>. QED BY <1>1, <1>2, <1>3
         DEF Informer, SyncWorkloadIdentity, SyncServiceAccount, SyncRecovery, Users,
             CreateWorkloadIdentity, DeleteWorkloadIdentity, EditWorkloadIdentity,
             ChangeServiceAccount, CreateRecovery, DeleteRecovery, Environment, DriftCredential,
             IssuerLost, IssuerBecomesReady, rVars

(***************************************************************************)
(* A fence has its recovery.                                               *)
(***************************************************************************)
LEMMA NextFence ==
  CopiesInvariant /\ FenceInvariant /\ [Next]_vars => (CopiesInvariant /\ FenceInvariant)'
<1>. SUFFICES ASSUME CopiesInvariant, FenceInvariant, [Next]_vars
              PROVE  (CopiesInvariant /\ FenceInvariant)'
  OBVIOUS
<1>0. CopiesInvariant'
  BY NextCopies
<1>1. CASE UNCHANGED vars
  <2>1. RecordsStay
    BY <1>1 DEF RecordsStay, RecordStays, knownComplete, mayFail, live, vars, stateVars
  <2>2. FenceStands'
    BY <1>1, <2>1, FenceKept DEF vars, stateVars
  <2>3. ReadIsPlanned'
    BY <1>1 DEF FenceInvariant, ReadIsPlanned, knownComplete, givenAway, fencedBy, src, tgt,
                vars, stateVars, rVars, CallSteps, FenceSteps, ForwardSteps,
                workloadIdentityRecoveryIsInProgress, recoveryReasonIs
  <2>. QED BY <1>0, <2>2, <2>3 DEF FenceInvariant, FenceStands
<1>. QED BY <1>0, <1>1, RControllerFence, WControllerFence, OtherFence DEF Next

LEMMA InitialIdentity ==
  ASSUME Init
  PROVE  uami.recoveryUid = 0 /\ uami.targetUid = 0 /\ (~uami.exists => uami.owner = 0)
<1>1. \A uid : /\ CreateOrUpdate(NoUami, workloadIdentityTags(uid)).recoveryUid = 0
               /\ CreateOrUpdate(NoUami, workloadIdentityTags(uid)).targetUid = 0
               /\ CreateOrUpdate(NoUami, workloadIdentityTags(uid)).exists
  BY DEF CreateOrUpdate, workloadIdentityTags, NoUami
<1>2. NoUami.recoveryUid = 0 /\ NoUami.targetUid = 0 /\ NoUami.owner = 0
  BY DEF NoUami
<1>3. uami = NoUami \/ \E uid : uami = CreateOrUpdate(NoUami, workloadIdentityTags(uid))
  BY DEF Init, StateInit, retainedUami
<1>. QED BY <1>1, <1>2, <1>3

LEMMA InitFence == Init => CopiesInvariant /\ FenceInvariant
<1>. SUFFICES ASSUME Init PROVE CopiesInvariant /\ FenceInvariant
  OBVIOUS
<1>1. CopiesInvariant
  BY InitCopies
<1>2. rpc = "idle" /\ \A r \in Recoveries : rec[r] = NewRecovery /\ crec[r] = NewRecovery
  BY DEF Init, StateInit, RInit
<1>3. \A r \in Recoveries : ~knownComplete(r)
  BY <1>2 DEF knownComplete, recoveryIsComplete, NewRecovery
<1>4. ~Fenced(uami)
  BY InitialIdentity DEF Fenced
<1>5. CompleteIsGivenAway /\ FenceIsKnown /\ FenceHasDriver
  BY <1>3, <1>4 DEF CompleteIsGivenAway, FenceIsKnown, FenceHasDriver
<1>6. ReadIsPlanned
  BY <1>2 DEF ReadIsPlanned, CallSteps
<1>. QED BY <1>1, <1>5, <1>6 DEF FenceInvariant

\* A fence, the recovery it names and what the worker read of the identity agree, in
\* every instance of the model (advanceRecovery, finalizeRecovery).
THEOREM FenceAlways == Spec => [](CopiesInvariant /\ FenceInvariant)
<1>1. CopiesInvariant /\ FenceInvariant /\ [Next]_vars => (CopiesInvariant /\ FenceInvariant)'
  BY NextFence
<1>. QED BY <1>1, InitFence, PTL DEF Spec

\* A fence in Azure always names a recovery that exists, went forward and will be
\* driven to its end, whatever else happens to the identity (startRecovery before
\* MarkInProgress; reconcileDelete).
THEOREM FenceAlwaysHasDriver == Spec => []FenceHasDriver
<1>1. CopiesInvariant /\ FenceInvariant => FenceHasDriver
  BY DEF FenceInvariant
<1>. QED BY <1>1, FenceAlways, PTL

(***************************************************************************)
(* From here on nobody else deletes the identity.  The recovery worker.    *)
(***************************************************************************)
\* Neither the identity nor the instance changes but for the condition, and then
\* to one that the recovery controller sets.
LEMMA OwnsKept ==
  ASSUME WorkerOwnsIt, UNCHANGED <<uami, cwi, wpc, wid>>,
         wi'.uid = wi.uid, wi'.previousUid = wi.previousUid,
         wi'.ready = wi.ready \/ wi'.ready \in ReleaseReasons \cup {"RecoveryInProgress"}
  PROVE  WorkerOwnsIt'
BY DEF WorkerOwnsIt, removed, ReleaseReasons

LEMMA ConditionOwns ==
  ASSUME TypeOK, WorkerOwnsIt, UNCHANGED <<uami, cwi, wpc, wid>>,
         NEW reason \in ReleaseReasons \cup {"RecoveryInProgress"}, setTargetReason(reason)
  PROVE  WorkerOwnsIt'
<1>1. /\ wi'.uid = wi.uid /\ wi'.previousUid = wi.previousUid /\ wi'.ready = reason
  BY DEF setTargetReason, TypeOK, StateTypeOK, WorkloadIdentity
<1>. QED BY <1>1, OwnsKept

\* A tag update finds the worker where it does not own the identity.
LEMMA CallOwns ==
  ASSUME CopiesInvariant, FenceInvariant, ReadIsCurrent, WorkerOwnsIt,
         R_MarkCall \/ R_CommitCall \/ R_FinalizeCall, UNCHANGED <<cwi, wpc, wid>>
  PROVE  WorkerOwnsIt'
<1>0. /\ UNCHANGED wi /\ rcur # 0 /\ src # wi.uid /\ src # 0 /\ ruami = uami /\ uami.exists
  BY TagUpdates, RunSteps, WasCreated, Sources
     DEF src, FenceInvariant, ReadIsCurrent, CallSteps
<1>1. CASE UNCHANGED uami
  BY <1>0, <1>1, OwnsKept
<1>2. CASE uami'.exists /\ uami'.owner = uami.owner /\ uami.owner = src
  BY <1>0, <1>2 DEF WorkerOwnsIt, removed
<1>3. CASE /\ uami'.exists /\ uami'.owner = tgt /\ fencedBy(rcur, uami)
           /\ wi.uid = tgt /\ workloadIdentityRecoveryIsInProgress(wi)
  <2>1. /\ wi.previousUid # 0 /\ wi.ready = "RecoveryInProgress" /\ Fenced(uami)
        /\ wi.ready \notin ReleaseReasons
    BY <1>0, <1>3 DEF workloadIdentityRecoveryIsInProgress, recoveryReasonIs, fencedBy, Fenced,
                      ReleaseReasons
  <2>2. wpc \in DeleteSteps /\ wid.uid = wi.uid => wid.ready \notin ReleaseReasons
    BY <2>1 DEF CopiesInvariant, IdentityCopies, FinalizerKeepsIdentity, EndIsReported
  <2>. QED BY <1>0, <1>3, <2>1, <2>2 DEF WorkerOwnsIt, removed, DeleteSteps
<1>4. CASE uami'.exists /\ uami'.owner = uami.owner /\ fencedBy(rcur, uami)
  <2>1. Fenced(uami)
    BY <1>0, <1>4 DEF fencedBy, Fenced
  <2>. QED BY <1>0, <1>4, <2>1 DEF WorkerOwnsIt, removed
<1>. QED BY <1>0, <1>1, <1>2, <1>3, <1>4, TagUpdates DEF FenceInvariant

LEMMA RControllerOwns ==
  ASSUME CopiesInvariant, FenceInvariant, ReadIsCurrent, WorkerOwnsIt, RController
  PROVE  WorkerOwnsIt'
<1>0. UNCHANGED <<cwi, wpc, wid>> /\ TypeOK
  BY RunOwners DEF CopiesInvariant, RecoveryCopiesInvariant, StartInvariant
<1>1. CASE R_Preflight \/ R_SavePlan \/ R_SaveStarted \/ R_SaveCommit \/ R_Winner \/ R_SaveComplete
  BY <1>0, <1>1, OwnsKept DEF R_Preflight, R_SavePlan, R_SaveStarted, R_SaveCommit, R_Winner,
                              R_SaveComplete
<1>2. CASE R_ReadTarget \/ R_Cancel \/ R_ReadRelease \/ R_Error \/ R_RemoveFinalizer
  BY <1>0, <1>2, OwnsKept DEF R_ReadTarget, R_Cancel, R_ReadRelease, R_Error, R_RemoveFinalizer
<1>3. CASE R_EnsureFederatedIdentityCredential \/ R_TransferServiceAccount \/ R_CommitVerify
           \/ R_Mark \/ R_CommitCheck \/ R_Commit \/ R_Finalize \/ R_FinalizeVerify
  BY <1>0, <1>3, OwnsKept
     DEF R_EnsureFederatedIdentityCredential, R_TransferServiceAccount, R_CommitVerify, R_Mark,
         R_CommitCheck, R_Commit, R_Finalize, R_FinalizeVerify
<1>4. CASE R_LockTarget \/ R_Release
  <2>1. rreason \in ReleaseReasons /\ UNCHANGED uami
    BY <1>0, <1>4 DEF TypeOK, RTypeOK, R_LockTarget, R_Release
  <2>2. \/ UNCHANGED wi \/ setTargetReason("RecoveryInProgress") \/ setTargetReason(rreason)
    BY <1>4 DEF R_LockTarget, R_Release
  <2>. QED BY <1>0, <2>1, <2>2, OwnsKept, ConditionOwns
<1>5. CASE R_MarkCall \/ R_CommitCall \/ R_FinalizeCall
  BY <1>0, <1>5, CallOwns
<1>6. ASSUME NEW r \in Recoveries, RTake(r) PROVE WorkerOwnsIt'
  BY <1>0, <1>6, OwnsKept DEF RTake, R_Reconcile, R_ReconcileForward, R_ReconcileDelete
<1>. QED BY <1>1, <1>2, <1>3, <1>4, <1>5, <1>6 DEF RController, RStep

\* Only the three reads lead to an update of the tags.
LEMMA CallsAreRead ==
  ASSUME CopiesInvariant, FenceInvariant, RController, ~(R_Mark \/ R_Commit \/ R_Finalize)
  PROVE  rpc' \notin CallSteps
<1>. USE DEF CallSteps
<1>1. CASE R_Preflight \/ R_SavePlan \/ R_SaveStarted \/ R_SaveCommit \/ R_Winner \/ R_SaveComplete
  BY <1>1 DEF R_Preflight, R_SavePlan, R_SaveStarted, R_SaveCommit, R_Winner,
              R_SaveComplete, block, fail, saveStatus, RReturn, RGoto
<1>2. CASE R_ReadTarget \/ R_LockTarget \/ R_Cancel \/ R_ReadRelease \/ R_Release \/ R_Error
           \/ R_RemoveFinalizer
  BY <1>2 DEF R_ReadTarget, R_LockTarget, R_Cancel, R_ReadRelease, R_Release, R_Error,
              R_RemoveFinalizer, afterRelease, RGotoPatch, RReturn, RGoto
<1>3. CASE R_EnsureFederatedIdentityCredential \/ R_TransferServiceAccount \/ R_CommitVerify
           \/ R_CommitCheck \/ R_FinalizeVerify
  BY <1>3 DEF R_EnsureFederatedIdentityCredential, R_TransferServiceAccount,
              R_CommitVerify, R_CommitCheck, R_FinalizeVerify, block, RReturn, RGoto
<1>4. CASE R_MarkCall \/ R_CommitCall \/ R_FinalizeCall
  BY <1>4, TagUpdates DEF FenceInvariant
<1>5. ASSUME NEW r \in Recoveries, RTake(r) PROVE rpc' \notin CallSteps
  <2>1. Begins(r) \/ Skips
    BY <1>5, TakeSkipsOrBegins DEF CopiesInvariant, RecoveryCopiesInvariant
  <2>2. rpc = "idle"
    BY <1>5 DEF RTake, R_Reconcile, R_ReconcileForward, R_ReconcileDelete
  <2>. QED BY <2>1, <2>2 DEF Begins, Skips, rVars
<1>. QED BY <1>1, <1>2, <1>3, <1>4, <1>5 DEF RController, RStep

\* What was read is current when it is read, and one call uses it.
LEMMA RControllerRead ==
  ASSUME CopiesInvariant, FenceInvariant, RController
  PROVE  ReadIsCurrent'
<1>1. CASE R_Mark \/ R_Commit \/ R_Finalize
  <2>1. rpc' \in CallSteps => ruami' = uami /\ stageOf(uami) # "MarkerConflict"
    BY <1>1 DEF R_Mark, R_Commit, R_Finalize, block, RReturn, RGoto, CallSteps
  <2>2. UNCHANGED uami
    BY <1>1 DEF R_Mark, R_Commit, R_Finalize
  <2>. QED BY <2>1, <2>2 DEF ReadIsCurrent, stageOf, loadedStage
<1>2. CASE rpc' \notin CallSteps
  BY <1>2 DEF ReadIsCurrent
<1>. QED BY <1>1, <1>2, CallsAreRead

(***************************************************************************)
(* The identity worker.                                                    *)
(***************************************************************************)
\* What those two calls find and do.
LEMMA WorkerCalls ==
  ASSUME CopiesInvariant, FenceInvariant, ReadIsCurrent, WorkerOwnsIt,
         W_CreateUserAssignedIdentity \/ W_DeleteUserAssignedIdentity
  PROVE  /\ ~(Fenced(uami))' /\ rpc \notin CallSteps
         /\ W_CreateUserAssignedIdentity =>
              ~uami.exists /\ uami'.exists /\ uami'.owner = wi.uid /\ wi.uid # 0 /\ wid.uid = wi.uid
         /\ W_DeleteUserAssignedIdentity =>
              /\ ~uami'.exists /\ uami'.owner = 0
              /\ uami.exists =>
                   ~Fenced(uami) /\ uami.owner = wi.uid /\ wi.uid = wid.uid /\ wi.uid # 0
<1>. USE DEF CallSteps
<1>1. rpc # "idle" => src # wi.uid /\ rcur # 0
  BY WasCreated, Sources DEF src
<1>2. CASE W_CreateUserAssignedIdentity
  <2>1. wi.uid # 0 /\ wid.uid = wi.uid
    BY <1>2 DEF W_CreateUserAssignedIdentity, CopiesInvariant, IdentityCopies,
                FinalizerKeepsIdentity, EnsureSteps
  <2>2. uami'.owner = wid.uid /\ uami'.recoveryUid = 0 /\ uami'.targetUid = 0 /\ uami'.exists
    BY <1>2 DEF W_CreateUserAssignedIdentity, CreateOrUpdate, workloadIdentityTags, NoUami
  <2>3. wpc = "createUami" /\ ~uami.exists
    BY <1>2 DEF W_CreateUserAssignedIdentity, WorkerOwnsIt
  <2>4. rpc \notin CallSteps
    BY <2>3 DEF ReadIsCurrent
  <2>5. ~(Fenced(uami))' /\ ~W_DeleteUserAssignedIdentity
    BY <2>2, <2>3 DEF Fenced, W_DeleteUserAssignedIdentity
  <2>. QED BY <2>1, <2>2, <2>3, <2>4, <2>5
<1>3. CASE W_DeleteUserAssignedIdentity
  <2>1. ~uami'.exists /\ uami'.owner = 0 /\ uami'.recoveryUid = 0 /\ uami'.targetUid = 0
    BY <1>3 DEF W_DeleteUserAssignedIdentity, DeleteIdentity, NoUami
  <2>2. /\ wpc = "deleteUamiCall" /\ wid.uid # 0
        /\ uami.exists => ~Fenced(uami) /\ uami.owner = wi.uid /\ wi.uid = wid.uid
    BY <1>3 DEF W_DeleteUserAssignedIdentity, WorkerOwnsIt, CopiesInvariant, IdentityCopies,
                FinalizerKeepsIdentity
  <2>3. rpc \notin CallSteps
    BY <1>1, <2>2 DEF FenceInvariant, ReadIsPlanned, ReadIsCurrent, fencedBy, Fenced
  <2>4. ~(Fenced(uami))' /\ ~W_CreateUserAssignedIdentity
    BY <2>1, <2>2 DEF Fenced, W_CreateUserAssignedIdentity
  <2>. QED BY <2>1, <2>2, <2>3, <2>4
<1>. QED BY <1>2, <1>3

LEMMA WControllerRead ==
  ASSUME CopiesInvariant, FenceInvariant, ReadIsCurrent, WorkerOwnsIt, WController
  PROVE  ReadIsCurrent'
<1>1. /\ UNCHANGED <<rpc, ruami>>
      /\ UNCHANGED uami \/ W_CreateUserAssignedIdentity \/ W_DeleteUserAssignedIdentity
  BY DEF WController, WStep, WFault, W_Reconcile, W_DetectRecovery, W_EnsureUserAssignedIdentity,
         W_CreateUserAssignedIdentity, W_EnsureFederatedIdentityCredential,
         W_EnsureServiceAccount, W_PatchStatus, W_ReconcileDelete, W_DeleteCheck,
         W_DeleteUserAssignedIdentity, W_DeleteServiceAccountIfOwned, W_RemoveFinalizer,
         W_EnsureError, W_OtherError, rVars
<1>. QED BY <1>1, WorkerCalls DEF ReadIsCurrent

\* The worker's own steps between its reading of the identity and its call.
LEMMA WControllerOwns ==
  ASSUME CopiesInvariant, CopiesInvariant', FenceInvariant, ReadIsCurrent, WorkerOwnsIt,
         WController
  PROVE  WorkerOwnsIt'
<1>. USE DEF EnsureSteps, DeleteSteps
<1>0. /\ UNCHANGED cwi /\ FinalizerKeepsIdentity /\ (cwi.uid = 0 => ~cwi.deleting)
      /\ wi \in WorkloadIdentity /\ cwi \in WorkloadIdentity /\ wid \in WorkloadIdentity
      /\ (wpc # "idle" => wid.uid # 0)
  <2>1. UNCHANGED cwi
    BY DEF WController, WStep, WFault, W_Reconcile, W_DetectRecovery,
         W_EnsureUserAssignedIdentity, W_CreateUserAssignedIdentity,
         W_EnsureFederatedIdentityCredential,
         W_EnsureServiceAccount, W_PatchStatus, W_ReconcileDelete, W_DeleteCheck,
         W_DeleteUserAssignedIdentity, W_DeleteServiceAccountIfOwned, W_RemoveFinalizer,
         W_EnsureError, W_OtherError
  <2>. QED BY <2>1, UIDNumbers, EmptyIdentity
           DEF CopiesInvariant, StartInvariant, IdentityCopies, UIDsAreGivenOut,
               FinalizerKeepsIdentity
<1>. DEFINE quietly == /\ UNCHANGED uami /\ wi'.uid = wi.uid
                       /\ wpc' \in {"idle", "detect", "ensureUami", "ensureSA", "status", "statusQuiet"}
<1>1. CASE quietly
  BY <1>0, <1>1 DEF WorkerOwnsIt, removed
<1>2. CASE W_Reconcile
  <2>1. UNCHANGED uami /\ wi'.uid = wi.uid
    BY <1>0, <1>2 DEF W_Reconcile, WorkloadIdentity
  <2>2. wpc = "idle" /\ wpc' \in {"idle", "detect", "ensureUami", "status"}
    BY <1>2 DEF W_Reconcile, observe, WSkip, WBegin
  <2>. QED BY <1>1, <2>1, <2>2
<1>3. CASE W_PatchStatus
  <2>1. UNCHANGED uami /\ wpc' = "idle" /\ wi' \in {wi, wout} /\ (wi' # wi => wid = wi)
    BY <1>3 DEF W_PatchStatus, WReturn, lockHeld
  <2>2. wout.uid = wid.uid
    BY <1>3 DEF W_PatchStatus, CopiesInvariant, IdentityCopies, StatusIsDerived
  <2>. QED BY <1>1, <2>1, <2>2
<1>4. CASE W_DetectRecovery \/ W_EnsureFederatedIdentityCredential \/ W_EnsureServiceAccount \/ WFault
  BY <1>1, <1>4 DEF W_DetectRecovery, W_EnsureFederatedIdentityCredential,
                    W_EnsureServiceAccount, WFault, W_EnsureError, W_OtherError, WGoto, WPatch, WReturn
<1>5. CASE W_EnsureUserAssignedIdentity
  <2>1. wpc = "ensureUami" /\ UNCHANGED <<uami, wi>> /\ wid.uid = wi.uid /\ wi.uid # 0
    BY <1>0, <1>5 DEF W_EnsureUserAssignedIdentity, FinalizerKeepsIdentity
  <2>2. \/ wpc' = "status"
        \/ wpc' = "createUami" /\ ~uami.exists
        \/ /\ wpc' = "ensureFic"
           /\ validateUserAssignedIdentityOwnership(wid.uid, uami) = "Owned"
    BY <1>5 DEF W_EnsureUserAssignedIdentity, WGoto, WPatch
  <2>3. validateUserAssignedIdentityOwnership(wid.uid, uami) = "Owned" =>
          ~Fenced(uami) /\ uami.owner = wid.uid
    BY DEF validateUserAssignedIdentityOwnership, Fenced
  <2>. QED BY <1>0, <2>1, <2>2, <2>3 DEF WorkerOwnsIt, removed
<1>6. CASE W_CreateUserAssignedIdentity
  <2>1. /\ wpc' = "ensureFic" /\ UNCHANGED wi /\ uami'.exists /\ uami'.owner = wi.uid
        /\ ~(Fenced(uami))'
    BY <1>6, WorkerCalls
       DEF W_CreateUserAssignedIdentity, WGoto, HeldByTheLast, Fenced
  <2>2. cwi.uid = wi.uid
    BY <1>0, <1>6 DEF W_CreateUserAssignedIdentity, FinalizerKeepsIdentity
  <2>. QED BY <1>0, <2>1, <2>2 DEF WorkerOwnsIt, removed
<1>7. CASE W_ReconcileDelete
  <2>1. /\ wpc = "idle" /\ UNCHANGED <<uami, wi>>
        /\ \/ wpc' = "idle"
           \/ wpc' = "deleteUami" /\ wid' = cwi /\ cwi.policy = "Delete"
           \/ wpc' = "removeFinalizer" /\ wid' = cwi /\ cwi.policy = "Retain"
    BY <1>7 DEF W_ReconcileDelete, WSkip, WBegin
  <2>. QED BY <1>0, <2>1 DEF WorkerOwnsIt, removed
<1>8. CASE W_DeleteCheck
  <2>1. /\ wpc = "deleteUami" /\ UNCHANGED <<uami, wi>> /\ wid.deleting
        /\ removed(wid) /\ wid.policy = "Delete" /\ wid.uid # 0
    BY <1>0, <1>8 DEF W_DeleteCheck, WorkerOwnsIt, FinalizerKeepsIdentity
  <2>2. \/ wpc' = "idle"
        \/ wpc' = "deleteSA" /\ ~uami.exists /\ UNCHANGED wid
        \/ /\ wpc' = "deleteUamiCall" /\ UNCHANGED wid
           /\ validateUserAssignedIdentityOwnership(wid.uid, uami) = "Owned"
        \/ /\ wpc' = "removeFinalizer" /\ UNCHANGED wid
           /\ validateUserAssignedIdentityOwnership(wid.uid, uami) = "RecoveryRequired"
    BY <1>8 DEF W_DeleteCheck, WGoto, WReturn
  <2>3. /\ validateUserAssignedIdentityOwnership(wid.uid, uami) = "Owned" =>
             ~Fenced(uami) /\ uami.owner = wid.uid
        /\ validateUserAssignedIdentityOwnership(wid.uid, uami) = "RecoveryRequired" =>
             uami.owner # wid.uid
    BY DEF validateUserAssignedIdentityOwnership, Fenced
  <2>. QED BY <1>0, <2>1, <2>2, <2>3 DEF WorkerOwnsIt, removed
<1>9. CASE W_DeleteUserAssignedIdentity
  <2>1. wpc = "deleteUamiCall" /\ wpc' = "deleteSA" /\ UNCHANGED <<wid, wi>> /\ wid.uid # 0
    BY <1>0, <1>9 DEF W_DeleteUserAssignedIdentity, WGoto
  <2>2. ~uami'.exists /\ uami'.owner = 0 /\ ~(Fenced(uami))'
    BY <1>9, WorkerCalls DEF Fenced
  <2>. QED BY <1>0, <2>1, <2>2 DEF WorkerOwnsIt, removed
<1>10. CASE W_DeleteServiceAccountIfOwned
  <2>1. /\ wpc = "deleteSA" /\ UNCHANGED <<uami, wi>>
        /\ wpc' = "idle" \/ (wpc' = "removeFinalizer" /\ UNCHANGED wid)
    BY <1>10 DEF W_DeleteServiceAccountIfOwned, WGoto, WReturn
  <2>. QED BY <1>0, <2>1 DEF WorkerOwnsIt, removed
<1>11. CASE W_RemoveFinalizer
  <2>1. wpc = "removeFinalizer" /\ wpc' = "idle" /\ UNCHANGED uami
    BY <1>11 DEF W_RemoveFinalizer, WReturn
  <2>2. CASE UNCHANGED wi
    BY <1>0, <2>1, <2>2 DEF WorkerOwnsIt, removed
  <2>3. CASE wid = wi /\ wi' = NoWI
    <3>1. wi.finalizer /\ cwi.uid = wi.uid /\ ~workloadIdentityRecoveryIsInProgress(wi)
      BY <1>0, <2>1, <2>3 DEF FinalizerKeepsIdentity
    <3>2. cwi.policy = wid.policy
      <4>1. NotAhead(wid, cwi) /\ NotAhead(cwi, wi) /\ cwi.uid # 0
        BY <1>0, <2>1, <2>3, <3>1 DEF CopiesInvariant, IdentityCopies, IdentityCopiesAreBehind
      <4>2. wid.generation \in Nat /\ cwi.generation \in Nat
        BY <1>0 DEF WorkloadIdentity
      <4>3. wid.generation = cwi.generation
        BY <2>3, <3>1, <4>1, <4>2 DEF NotAhead
      <4>. QED BY <2>3, <3>1, <4>1, <4>3 DEF NotAhead
    <3>3. wid.policy = "Delete" => uami.owner # wid.uid
      BY <2>1, <2>3, <3>1
         DEF WorkerOwnsIt, workloadIdentityRecoveryIsInProgress, recoveryReasonIs
    <3>4. (removed(cwi))'
      BY <1>0, <2>1, <2>3, <3>1, <3>2, <3>3 DEF removed
    <3>. QED BY <1>0, <2>1, <3>4 DEF WorkerOwnsIt
  <2>. QED BY <1>11, <2>2, <2>3 DEF W_RemoveFinalizer, lockHeld
<1>. QED BY <1>2, <1>3, <1>4, <1>5, <1>6, <1>7, <1>8, <1>9, <1>10, <1>11 DEF WController, WStep

(***************************************************************************)
(* Users, the informer, and the rest of the world.                         *)
(***************************************************************************)
LEMMA OtherRead ==
  ASSUME NobodyElseDeletes, CopiesInvariant, ReadIsCurrent, Informer \/ Users \/ Environment
  PROVE  ReadIsCurrent'
<1>1. CASE DeleteAzureIdentity
  <2>1. Recoveries = {} /\ UNCHANGED rpc
    BY <1>1 DEF NobodyElseDeletes, DeleteAzureIdentity, Disturb, rVars
  <2>2. rpc = "idle"
    BY <2>1, WasCreated
  <2>. QED BY <2>1, <2>2 DEF ReadIsCurrent, CallSteps
<1>2. CASE UNCHANGED <<rpc, ruami, uami>>
  BY <1>2 DEF ReadIsCurrent
<1>3. CASE Restart
  BY <1>3 DEF Restart, ReadIsCurrent, CallSteps
<1>. QED BY <1>1, <1>2, <1>3
         DEF Informer, SyncWorkloadIdentity, SyncServiceAccount, SyncRecovery, Users,
             CreateWorkloadIdentity, DeleteWorkloadIdentity, EditWorkloadIdentity,
             ChangeServiceAccount, CreateRecovery, DeleteRecovery, Environment, DriftCredential,
             IssuerLost, IssuerBecomesReady, rVars

LEMMA OtherOwns ==
  ASSUME CopiesInvariant, WorkerOwnsIt, Informer \/ Users \/ Environment
  PROVE  WorkerOwnsIt'
<1>. USE DEF EnsureSteps, DeleteSteps
<1>0. /\ (cwi.uid = 0 => ~cwi.deleting) /\ (wpc # "idle" => wid.uid # 0)
      /\ (wpc \in EnsureSteps => wi.finalizer)
      /\ (wpc \in DeleteSteps => wid.finalizer /\ wid.deleting)
      /\ (wid.finalizer /\ wid.uid = wi.uid => wi.finalizer)
      /\ (wi.finalizer => wi.uid # 0)
      /\ (cwi.uid = wi.uid /\ wi.uid # 0 /\ cwi.deleting => wi.deleting)
      /\ wi \in WorkloadIdentity
  BY UIDNumbers, EmptyIdentity
     DEF CopiesInvariant, StartInvariant, IdentityCopies, UIDsAreGivenOut,
         FinalizerKeepsIdentity, IdentityCopiesAreBehind, NotAhead
<1>1. CASE UNCHANGED <<uami, cwi, wpc, wid, wi>>
  BY <1>1, OwnsKept
<1>2. CASE SyncWorkloadIdentity \/ Restart
  BY <1>2 DEF SyncWorkloadIdentity, Restart, wVars, WorkerOwnsIt, removed, Fenced
<1>3. CASE DeleteAzureIdentity
  <2>1. /\ ~uami'.exists /\ uami'.owner = 0 /\ ~(Fenced(uami))'
        /\ UNCHANGED <<cwi, wpc, wid, wi>>
    BY <1>3 DEF DeleteAzureIdentity, DeleteIdentity, NoUami, Fenced, wVars
  <2>. QED BY <1>0, <2>1 DEF WorkerOwnsIt, removed
<1>4. CASE EditWorkloadIdentity
  <2>1. /\ wi'.uid = wi.uid /\ wi'.previousUid = wi.previousUid /\ wi'.ready = wi.ready
        /\ UNCHANGED <<uami, cwi, wpc, wid>>
    BY <1>0, <1>4 DEF EditWorkloadIdentity, WorkloadIdentity, wVars
  <2>. QED BY <2>1, OwnsKept
<1>5. CASE DeleteWorkloadIdentity /\ wi.finalizer
  <2>1. /\ wi'.uid = wi.uid /\ wi'.previousUid = wi.previousUid /\ wi'.ready = wi.ready
        /\ UNCHANGED <<uami, cwi, wpc, wid>>
    BY <1>0, <1>5 DEF DeleteWorkloadIdentity, WorkloadIdentity, wVars
  <2>. QED BY <2>1, OwnsKept
<1>6. CASE /\ ~wi.finalizer /\ (wi.uid # 0 => ~wi.deleting)
           /\ UNCHANGED <<uami, cwi, wpc, wid>>
  BY <1>0, <1>6 DEF WorkerOwnsIt, removed
<1>7. CASE DeleteWorkloadIdentity /\ ~wi.finalizer
  BY <1>6, <1>7 DEF DeleteWorkloadIdentity, wVars
<1>8. ASSUME NEW policy \in Policies, CreateWorkloadIdentity(policy) PROVE WorkerOwnsIt'
  BY <1>0, <1>6, <1>8 DEF CreateWorkloadIdentity, wVars
<1>. QED BY <1>1, <1>2, <1>3, <1>4, <1>5, <1>7, <1>8
         DEF Informer, SyncServiceAccount, SyncRecovery, Users,
             ChangeServiceAccount, CreateRecovery, DeleteRecovery, Environment, DriftCredential,
             IssuerLost, IssuerBecomesReady, wVars

(***************************************************************************)
(* The invariant.                                                          *)
(***************************************************************************)
LEMMA NextTransfer ==
  ASSUME NobodyElseDeletes
  PROVE  TransferInvariant /\ [Next]_vars => TransferInvariant'
<1>. SUFFICES ASSUME TransferInvariant, [Next]_vars PROVE TransferInvariant'
  OBVIOUS
<1>. USE DEF TransferInvariant
<1>0. CopiesInvariant' /\ FenceInvariant'
  BY NextFence
<1>1. CASE UNCHANGED vars
  <2>1. ReadIsCurrent'
    BY <1>1 DEF ReadIsCurrent, vars, stateVars, rVars
  <2>. QED BY <1>0, <1>1, <2>1, OwnsKept DEF vars, stateVars, wVars
<1>. QED BY <1>0, <1>1, RControllerOwns, RControllerRead, WControllerOwns, WControllerRead,
            OtherOwns, OtherRead DEF Next

LEMMA InitTransfer == Init => TransferInvariant
<1>. SUFFICES ASSUME Init PROVE TransferInvariant
  OBVIOUS
<1>1. CopiesInvariant /\ FenceInvariant
  BY InitFence
<1>2. wpc = "idle" /\ rpc = "idle" /\ cwi = NoWI
  BY DEF Init, StateInit, WInit, RInit
<1>3. WorkerOwnsIt
  BY <1>2, InitialIdentity, EmptyIdentity DEF WorkerOwnsIt, removed, Fenced
<1>4. ReadIsCurrent
  BY <1>2 DEF ReadIsCurrent, CallSteps
<1>. QED BY <1>1, <1>3, <1>4 DEF TransferInvariant

\* Whatever the two controllers, users, the informer and faults do, what each
\* worker knows of the identity and its fence is so (advanceRecovery,
\* ensureUserAssignedIdentity, identityClients.delete).
THEOREM TransferAlways ==
  ASSUME NobodyElseDeletes
  PROVE  Spec => []TransferInvariant
<1>1. TransferInvariant /\ [Next]_vars => TransferInvariant'
  BY NextTransfer
<1>. QED BY <1>1, InitTransfer, PTL DEF Spec

(***************************************************************************)
(* What the identity worker may do to the identity.                        *)
(***************************************************************************)
\* Normal reconciliation writes neither tags nor credentials while the identity is
\* fenced, although it checks the fence in one call and writes in another
\* (ensureUserAssignedIdentity, ensureFederatedIdentityCredential, delete).
THEOREM NeverWritesWhileFenced ==
  ASSUME NobodyElseDeletes
  PROVE  Spec => NoNormalWriteWhileFenced
<1>1. ASSUME TransferInvariant, [Next]_vars
      PROVE  [Fenced(uami) /\ wpc' # wpc => UNCHANGED <<uami, fic>>]_vars
  <2>. SUFFICES ASSUME Fenced(uami), wpc' # wpc PROVE UNCHANGED <<uami, fic>>
    OBVIOUS
  <2>. USE DEF TransferInvariant
  <2>1. ~W_CreateUserAssignedIdentity
    BY <1>1, WorkerCalls DEF WorkerOwnsIt
  <2>2. ~W_DeleteUserAssignedIdentity
    BY <1>1, WorkerCalls DEF WorkerOwnsIt
  <2>3. CASE W_EnsureFederatedIdentityCredential
    BY <1>1, <2>3 DEF W_EnsureFederatedIdentityCredential, WorkerOwnsIt
  <2>4. CASE WController
    BY <2>1, <2>2, <2>3, <2>4
       DEF WController, WStep, WFault, W_Reconcile, W_DetectRecovery,
           W_EnsureUserAssignedIdentity, W_EnsureServiceAccount, W_PatchStatus,
           W_ReconcileDelete, W_DeleteCheck, W_DeleteServiceAccountIfOwned,
           W_RemoveFinalizer, W_EnsureError, W_OtherError
  <2>5. CASE Restart
    BY <2>5 DEF Restart
  <2>. QED BY <1>1, <2>4, <2>5
           DEF Next, vars, wVars, RController, Informer, SyncWorkloadIdentity,
               SyncServiceAccount, SyncRecovery, Users, CreateWorkloadIdentity,
               DeleteWorkloadIdentity, EditWorkloadIdentity, ChangeServiceAccount,
               CreateRecovery, DeleteRecovery, Environment, DriftCredential,
               DeleteAzureIdentity, IssuerLost, IssuerBecomesReady
<1>. QED BY <1>1, TransferAlways, PTL DEF Spec, NoNormalWriteWhileFenced

\* The operator deletes the identity only for the instance that owns it and is
\* being deleted, and never under a fence, though it decides on a cached copy and
\* checks in a separate call (reconcileWorkloadIdentityDelete, identityClients.delete).
THEOREM OnlyTheDeletingOwnerDeletes ==
  ASSUME NobodyElseDeletes
  PROVE  Spec => OnlyDeletingOwnerDeletes
<1>1. ASSUME TransferInvariant, [Next]_vars
      PROVE  [uami.exists /\ ~uami.exists' /\ wpc' # wpc =>
                ~Fenced(uami) /\ uami.owner = wi.uid /\ wi.deleting]_vars
  <2>. SUFFICES ASSUME uami.exists, ~uami.exists', wpc' # wpc
                PROVE  ~Fenced(uami) /\ uami.owner = wi.uid /\ wi.deleting
    OBVIOUS
  <2>. USE DEF TransferInvariant
  <2>1. CASE W_DeleteUserAssignedIdentity
    <3>1. ~Fenced(uami) /\ uami.owner = wi.uid /\ wi.uid = wid.uid /\ wi.uid # 0
      BY <1>1, <2>1, WorkerCalls
    <3>2. wpc \in DeleteSteps /\ wpc # "idle"
      BY <2>1 DEF W_DeleteUserAssignedIdentity, DeleteSteps
    <3>3. wid.deleting /\ cwi.uid = wi.uid
      BY <1>1, <3>1, <3>2 DEF CopiesInvariant, IdentityCopies, FinalizerKeepsIdentity
    <3>. QED BY <1>1, <3>1, <3>2, <3>3
             DEF CopiesInvariant, IdentityCopies, IdentityCopiesAreBehind, NotAhead
  <2>2. ~W_CreateUserAssignedIdentity
    BY <1>1, WorkerCalls
  <2>3. CASE WController
    BY <2>1, <2>2, <2>3
       DEF WController, WStep, WFault, W_Reconcile, W_DetectRecovery,
           W_EnsureUserAssignedIdentity, W_EnsureFederatedIdentityCredential,
           W_EnsureServiceAccount, W_PatchStatus, W_ReconcileDelete, W_DeleteCheck,
           W_DeleteServiceAccountIfOwned, W_RemoveFinalizer, W_EnsureError, W_OtherError
  <2>4. CASE Restart
    BY <2>4 DEF Restart
  <2>. QED BY <1>1, <2>3, <2>4
           DEF Next, vars, wVars, RController, Informer, SyncWorkloadIdentity,
               SyncServiceAccount, SyncRecovery, Users, CreateWorkloadIdentity,
               DeleteWorkloadIdentity, EditWorkloadIdentity, ChangeServiceAccount,
               CreateRecovery, DeleteRecovery, Environment, DriftCredential,
               DeleteAzureIdentity, IssuerLost, IssuerBecomesReady
<1>. QED BY <1>1, TransferAlways, PTL DEF Spec, OnlyDeletingOwnerDeletes

(***************************************************************************)
(* Refinement.                                                             *)
(***************************************************************************)
\* The stages of the identity, as OwnershipTransfer sees them.
LEMMA Phases ==
  ASSUME NEW u
  PROVE  /\ ~u.exists => ownershipPhase(u) = "absent"
         /\ u.exists /\ ~Fenced(u) => ownershipPhase(u) = "held"
         /\ u.exists /\ Fenced(u) /\ u.owner # u.targetUid => ownershipPhase(u) = "fenced"
         /\ u.exists /\ Fenced(u) /\ u.owner = u.targetUid => ownershipPhase(u) = "transferred"
BY DEF ownershipPhase

\* A tag update is a step of the transfer.
LEMMA CallTransfers ==
  ASSUME TransferInvariant, R_MarkCall \/ R_CommitCall \/ R_FinalizeCall
  PROVE  [Ownership!Next]_(Ownership!transferVars)
<1>. USE DEF TransferInvariant
<1>0. /\ rcur \in Recoveries /\ rcur # 0 /\ src \notin {0, tgt} /\ tgt # 0 /\ tgt \in UIDs
      /\ ruami = uami /\ uami.exists
  BY TagUpdates, RunSteps, WasCreated, Sources DEF FenceInvariant, ReadIsCurrent, src, tgt
<1>1. CASE UNCHANGED uami
  BY <1>1 DEF Ownership!transferVars
<1>2. CASE /\ uami'.exists /\ uami'.owner = uami.owner /\ uami.owner = src /\ ~Fenced(uami)
           /\ uami'.recoveryUid = rcur /\ uami'.targetUid = tgt
  <2>1. ownershipPhase(uami) = "held" /\ ownershipPhase(uami)' = "fenced"
    BY <1>0, <1>2, Phases DEF Fenced
  <2>2. Ownership!Fence(rcur, tgt)
    BY <1>0, <1>2, <2>1 DEF Ownership!Fence
  <2>. QED BY <1>0, <2>2 DEF Ownership!Next
<1>3. CASE /\ uami'.exists /\ uami'.owner = tgt /\ uami.owner = src /\ fencedBy(rcur, uami)
           /\ uami'.recoveryUid = rcur /\ uami'.targetUid = tgt
  <2>1. uami.recoveryUid = rcur /\ uami.targetUid = tgt
    BY <1>3 DEF fencedBy, tgt
  <2>2. ownershipPhase(uami) = "fenced" /\ ownershipPhase(uami)' = "transferred"
    BY <1>0, <1>3, <2>1, Phases DEF Fenced
  <2>3. Ownership!Transfer
    BY <1>3, <2>1, <2>2 DEF Ownership!Transfer
  <2>. QED BY <2>3 DEF Ownership!Next
<1>4. CASE /\ uami'.exists /\ uami'.owner = uami.owner /\ uami.owner = tgt
           /\ fencedBy(rcur, uami) /\ uami'.recoveryUid = 0 /\ uami'.targetUid = 0
  <2>1. uami.recoveryUid = rcur /\ uami.targetUid = tgt
    BY <1>4 DEF fencedBy, tgt
  <2>2. ownershipPhase(uami) = "transferred" /\ ownershipPhase(uami)' = "held"
    BY <1>0, <1>4, <2>1, Phases DEF Fenced
  <2>3. Ownership!Unfence
    BY <1>4, <2>2 DEF Ownership!Unfence, Ownership!Unfenced
  <2>. QED BY <2>3 DEF Ownership!Next
<1>. QED BY <1>0, <1>1, <1>2, <1>3, <1>4, TagUpdates DEF FenceInvariant

LEMMA WorkerTransfers ==
  ASSUME TransferInvariant, W_CreateUserAssignedIdentity \/ W_DeleteUserAssignedIdentity
  PROVE  [Ownership!Next]_(Ownership!transferVars)
<1>. USE DEF TransferInvariant
<1>1. wi.uid \in UIDOrNone /\ (wi.uid # 0 => wi.uid \in UIDs)
  BY MaxUIDAssumption
     DEF CopiesInvariant, StartInvariant, TypeOK, StateTypeOK, WorkloadIdentity, UIDOrNone, UIDs
<1>2. uami'.recoveryUid = 0 /\ uami'.targetUid = 0
  BY WorkerCalls DEF Fenced
<1>3. CASE W_CreateUserAssignedIdentity
  <2>1. ~uami.exists /\ uami'.exists /\ uami'.owner = wi.uid /\ wi.uid \in UIDs
    BY <1>1, <1>3, WorkerCalls
  <2>2. ownershipPhase(uami) = "absent" /\ ownershipPhase(uami)' = "held"
    BY <1>2, <2>1, Phases DEF Fenced
  <2>3. Ownership!Create(wi.uid)
    BY <1>2, <2>1, <2>2 DEF Ownership!Create, Ownership!Unfenced
  <2>. QED BY <2>1, <2>3 DEF Ownership!Next
<1>4. CASE W_DeleteUserAssignedIdentity
  <2>1. ~uami'.exists /\ uami'.owner = 0 /\ ownershipPhase(uami)' = "absent"
    BY <1>4, WorkerCalls, Phases
  <2>2. CASE uami.exists
    <3>1. ~Fenced(uami) /\ uami.owner = wi.uid /\ wi.uid # 0
      BY <1>4, <2>2, WorkerCalls
    <3>2. ownershipPhase(uami) = "held"
      BY <2>2, <3>1, Phases
    <3>3. Ownership!Delete
      BY <1>2, <2>1, <3>1, <3>2 DEF Ownership!Delete, Ownership!Unfenced
    <3>. QED BY <3>3 DEF Ownership!Next
  <2>3. CASE ~uami.exists
    <3>1. uami.owner = 0 /\ uami.recoveryUid = 0 /\ uami.targetUid = 0
      BY <2>3 DEF WorkerOwnsIt, Fenced
    <3>2. ownershipPhase(uami) = "absent"
      BY <2>3, Phases
    <3>. QED BY <1>2, <2>1, <3>1, <3>2 DEF Ownership!transferVars
  <2>. QED BY <2>2, <2>3
<1>. QED BY <1>3, <1>4

LEMMA NextTransfers ==
  ASSUME "azure" \notin Disturbances, TransferInvariant, [Next]_vars
  PROVE  [Ownership!Next]_(Ownership!transferVars)
<1>1. CASE UNCHANGED uami
  BY <1>1 DEF Ownership!transferVars
<1>2. CASE R_MarkCall \/ R_CommitCall \/ R_FinalizeCall
  BY <1>2, CallTransfers
<1>3. CASE W_CreateUserAssignedIdentity \/ W_DeleteUserAssignedIdentity
  BY <1>3, WorkerTransfers
<1>4. CASE WController
  BY <1>1, <1>3, <1>4
     DEF WController, WStep, WFault, W_Reconcile, W_DetectRecovery, W_EnsureUserAssignedIdentity,
         W_EnsureFederatedIdentityCredential, W_EnsureServiceAccount, W_PatchStatus,
         W_ReconcileDelete, W_DeleteCheck, W_DeleteServiceAccountIfOwned, W_RemoveFinalizer,
         W_EnsureError, W_OtherError
<1>5. CASE RController
  BY <1>1, <1>2, <1>5
     DEF RController, RStep, RTake, R_Reconcile, R_ReconcileForward, R_ReconcileDelete,
         R_Preflight, R_SavePlan, R_SaveStarted, R_SaveCommit, R_Winner, R_SaveComplete,
         R_ReadTarget, R_LockTarget, R_Cancel, R_ReadRelease, R_Release, R_Error,
         R_RemoveFinalizer, R_EnsureFederatedIdentityCredential, R_TransferServiceAccount,
         R_CommitVerify, R_Mark, R_CommitCheck, R_Commit, R_Finalize, R_FinalizeVerify
<1>6. CASE Informer \/ Users \/ Environment
  BY <1>1, <1>6
     DEF Informer, SyncWorkloadIdentity, SyncServiceAccount, SyncRecovery, Users,
         CreateWorkloadIdentity, DeleteWorkloadIdentity, EditWorkloadIdentity,
         ChangeServiceAccount, CreateRecovery, DeleteRecovery, Environment, DriftCredential,
         DeleteAzureIdentity, Disturb, IssuerLost, IssuerBecomesReady, Restart
<1>7. CASE UNCHANGED vars
  BY <1>1, <1>7 DEF vars, stateVars
<1>. QED BY <1>4, <1>5, <1>6, <1>7 DEF Next

LEMMA InitTransfers == Init => Ownership!Init
<1>. SUFFICES ASSUME Init PROVE Ownership!Init
  OBVIOUS
<1>1. ~Fenced(uami) /\ uami.recoveryUid = 0 /\ uami.targetUid = 0
  BY InitialIdentity DEF Fenced
<1>2. uami.owner \in UIDs \cup {0}
  <2>1. uami \in Uami
    BY InitFence DEF CopiesInvariant, StartInvariant, TypeOK, StateTypeOK
  <2>. QED BY <2>1, MaxUIDAssumption DEF Uami, UIDOrNone, UIDs
<1>3. CASE ~uami.exists
  BY <1>1, <1>3, InitialIdentity, Phases DEF Ownership!Init
<1>4. CASE uami.exists
  BY <1>1, <1>2, <1>4, Phases DEF Ownership!Init
<1>. QED BY <1>3, <1>4

\* The identity is created, fenced for one heir, handed to that heir, unfenced and
\* deleted, and nothing else happens to it, through crashes, retries and stale
\* copies (MarkInProgress, Commit, Finalize, Ensure, Delete).
THEOREM ImplementsOwnershipTransfer ==
  ASSUME "azure" \notin Disturbances
  PROVE  Spec => TransfersOwnership
<1>1. Spec => []TransferInvariant
  BY TransferAlways DEF NobodyElseDeletes
<1>2. TransferInvariant /\ [Next]_vars => [Ownership!Next]_(Ownership!transferVars)
  BY NextTransfers
<1>. QED BY <1>1, <1>2, InitTransfers, PTL DEF Spec, TransfersOwnership, Ownership!Spec
=============================================================================
