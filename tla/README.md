# Verification of the Azure workload identity operator

This directory holds TLA+ modules, TLC configurations and TLAPS proofs for the
operator in this repository. They concern its two hard parts. One is several
instances of one `WorkloadIdentity` name competing for one user-assigned managed
identity in Azure, and the controlled recovery (`WorkloadIdentityRecovery`) that
hands the identity from an instance that is gone to its successor. The other is
the `OIDCIssuer`: publishing signing keys while they rotate, managing OpenShift's
service account issuer and giving it back, and deleting the endpoint only when
nobody needs it.

## Inventory

| Component | State it keeps | Operations | What makes it correct |
|---|---|---|---|
| WorkloadIdentity controller (`internal/controller/workloadidentity_controller.go`) | status and finalizer of the object, labels and annotations of a ServiceAccount | reconcile, delete | never touches an identity of another instance or under a recovery; ends Ready; deletes only what its owner gives up |
| Azure identity manager (`internal/azure/workload_identity.go`) | identity with tags, federated credential | ensure, delete, detect recovery | ownership is checked before anything is written |
| WorkloadIdentityRecovery controller (`workloadidentityrecovery_*.go`) | status, finalizer, the target's Ready condition | preflight, start, advance, commit, finalize, release, cancel | at most one recovery per source; forward-only once started; always finished; target locked meanwhile |
| Azure recovery manager (`internal/azure/workload_identity_recovery.go`) | fence, owner and audit tags | Inspect, MarkInProgress, EnsureFederatedIdentityCredential, Commit, Finalize | each call idempotent; transfers the planned identity only |
| Recovery webhook | none | validate create and update | only sensible requests; immutable spec |
| WorkloadIdentity webhook | none | validate create, update | names do not collide |
| OIDCIssuer controller (`oidcissuer_controller.go`) | status and finalizer of the object | publish, manage OpenShift's issuer, delete | ends Ready with what it reports; captures once; hands off for good; a blocked deletion resumes |
| Publisher, documents, signing keys (`internal/azure/oidc_publisher.go`, `internal/oidc`, `internal/signingkey`) | resource group, storage account with tags, container, two blobs | Publish, Delete | keys in use stay published; deletes only an account it made |
| Deletion guard and OIDCIssuer webhook (`internal/oidcissuer`) | none | three checks, in admission and in the finalizer | the endpoint outlives its use |
| OpenShift and token issuer clients | `Authentication/cluster`, rollouts of kube-apiserver | Get, Set, wait, CurrentIssuer | – |
| Scope anchor, telemetry, wiring | – | – | – |

Interactions. The two identity controllers run in one process but share nothing
in memory: they meet in the WorkloadIdentity's status (the lock: Ready is False
with reason `RecoveryInProgress` and the evidence `status.recovery` is set), in the
identity's tags (the fence: recovery UID and target UID), in the ServiceAccount
and in the federated credential. Each is woken by watch events filtered by
predicates, by its own requeues and by a restart. Reads go to an informer cache
that lags, except where the code asks for an uncached reader. The OIDCIssuer
controller meets the others in two places: an issuer that is Ready is what a
WorkloadIdentity waits for, and the existence of a WorkloadIdentity blocks the
issuer's deletion. It also shares the issuer's object with users, `Authentication`
with administrators and kube-apiserver, and the storage account with whoever has
access to the subscription.

What is hard here: a decision from a cached copy while the object moves on; a
check and a write that are separate Azure calls; a crash or a lost answer between
any two calls; status patches without a resource version; progress that depends
on one's own requeue; competing recoveries.

## Modules

| Module | Contents |
|---|---|
| `AzureOwnership` | pure operators on the identity's tags: ownership verdict, recovery stage, the three tag updates |
| `ClusterState` | the shared variables (objects, cached copies, Azure, queues), what the operator may find at first, watch predicates |
| `WorkloadIdentityController` | the WorkloadIdentity reconciler with the Azure manager's calls |
| `WorkloadIdentityRecoveryController` | the recovery reconciler with the Azure recovery manager's calls |
| `OperatorRecovery` | both controllers with users, admission, informer, issuer, faults, restarts; fairness |
| `OwnershipTransfer` | the abstract specification: create, fence, transfer, unfence, delete |
| `RecoveryProperties` | properties, the inductive invariants, the refinement mapping, and the documented statements the code does not keep |
| `RecoveryTypeProofs`, `RecoveryStartProofs`, `RecoveryCopiesProofs`, `RecoveryTransferProofs`, `RecoveryLockProofs`, `RecoveryPlanProofs` | the proofs, each extending the one before |
| `OIDCDocuments` | pure operators on signing keys: what is published and advertised |
| `OIDCIssuerController` | the OIDCIssuer reconciler with the calls of publisher, deletion guard and OpenShift client |
| `IssuerOperator` | that controller with users, admission, informer, kube-apiserver, Secrets, Azure, faults, restarts; fairness |
| `IssuerProperties` | the instances' specifications, properties, the inductive invariants, and one documented statement the code does not keep |
| `IssuerProofs`, `IssuerHistoryProofs` | the proofs |

The runs `issuer_*` and `endpoint_outlives_use` use module `IssuerProperties`, the
others `RecoveryProperties`; the instance is in `MC_<run>.cfg`. The two models meet
where one abstracts the other: in `OperatorRecovery` the issuer is a Boolean that
goes down and comes back, which `IssuerConverges` justifies; in `IssuerOperator` the
WorkloadIdentities are a Boolean that comes and goes.

### How state and actions correspond to the code

* `wi`, `rec[r]`, `sa` are the objects in the API server, `cwi`, `crec[r]`, `csa` the
  informer's copies. A recovery is named by its UID. Only fields the controllers
  read are kept. The Ready condition is one value: its reason, `"Ready"` when
  True; reasons no code looks at are one value. `provenance` also stands for the
  other fields `setWorkloadIdentityReady` records together with it.
* `uami` holds the tags and the instance number, which stands for client,
  principal and tenant ID; the plan of a recovery is that number.
* A reconcile is a sequence of actions; `wpc` and `rpc` say which call comes next
  and the other variables of a controller are the locals that are still used.
  Cached reads happen in the action that uses them. A call to the API server or
  to Azure that others can race with is an action of its own.
* `W_Reconcile`, `R_Reconcile`, `R_ReconcileForward` and `R_ReconcileDelete` take a name
  from the queue; `WReturn` and `RReturn` end the reconcile, with or without a
  requeue.
* An optimistic-lock write succeeds exactly when the copy it is based on equals
  the object: every edit and every deletion changes `generation` or `deleting`, so
  equal values mean equal resource versions for the purpose of these writes.
* `patchRecoveryStatus` is a merge patch from the cached copy: fields that did not
  change are not sent; conditions travel as a list.
* `Sync...` is the informer catching up, with the watch predicates deciding who is
  queued. `Restart` ends both reconciles anywhere and lists everything again.
* `W_EnsureError`, `W_OtherError` and `R_Error` are a failed call, or one that took
  effect and whose answer was lost (the error then strikes before the next step).

For the issuer:

* `iss` is the object in the API server, `ciss` the informer's copy, `work` the
  reconciler's own copy, which every answer of the API server replaces,
  specification and generation included. That is why what follows `setPublished`
  is decided on the current specification (`afterPublished`), and why a later patch
  of the same reconcile carries the current generation.
* `patched` is the merge patch without a resource version: a field that equals the
  worker's copy is not sent, and a successor of the object may receive the patch.
* `auth` is `Authentication/cluster`, `cauth` its cached copy, `tokens` the issuer of
  newly minted tokens, which follows `auth` by `Rollout`.
* `storage` is everything in Azure. `ownerUid` and `created` are the tags the code
  looks at; `creator` and `steady` are history variables for two properties.
* `ValidateDelete` and `DeleteIssuer` are separate: admission decides on one state,
  the API server acts on a later one. `RestoreAuthentication` is the documented last
  step of a handoff, taken when its documented condition holds.
* A key is its key ID; a Secret that is missing, lacks the data key or holds no
  usable key is `NoKey`, since each of them fails the publication.

### Abstractions

One name, one identity, one credential name. The read that verifies an Azure
write is merged with the next read of the same reconcile where nothing is
decided in between. A status patch that ends a failed check is one step with the
check. An informer update goes to the current version and may skip versions. A
`RequeueAfter` makes the request eligible at once: delays only remove behaviours.
`recoveryPrecedes` is an order on UIDs that is independent of the order of creation,
because creation times have one-second resolution. The OIDC issuer is a Boolean.
Not modelled: managers that are not configured, users who edit the operator's
labels or tags or remove finalizers by force, the Progressing condition.

For the issuer: it is always named "default"; publisher and OpenShift are
configured; all instances use the same storage account and so the same URL, which
is the hard case for ownership; `lastReconciledTime` and `azureResources` are left out
of the status; equality of values stands for equality of resource versions in the
two writes of the finalizer; a deletion timestamp counts as a new generation, as in
the API server. A get and the create or update that follows it are one step for
resource group and container, which nothing tells apart, and two for the account.

## Runs

Users create instances while UIDs are left (`MaxUID`) and recoveries while there are
any (`NumRecoveries`). `Disturbances` names the kinds of disturbance and
`MaxDisturbances` how many happen: `fault`, `restart`, `edit` (deletion policy),
`serviceAccount` (deleted or made by a user), `drift` (credential), `issuer` (goes
down), `azure` (identity deleted by somebody else), `admission` (a duplicate recovery
is let through because the serving replica's cache lags or its search failed).

| Run | Instance | Shows |
|---|---|---|
| `identity_lifecycle` | 2 instances, no recovery, 2 disturbances of any kind | `OnlyDeletingOwnerDeletes` |
| `identity_converges` | 1 instance, 2 disturbances | `ConvergesToReady` |
| `recovery_ownership` | 2 successors of an instance that retained its identity, 1 recovery, deletions, a fault or restart | `TypeOK`, `FenceHasDriver`, `ReadyOwns`, `NoNormalWriteWhileFenced`, `TransfersOwnership` |
| `target_lock` | instance 2 recovers what 1 left, ServiceAccount included; no deletion of recoveries, any one disturbance, the identity deleted in Azure included | `FencedTargetIsLocked`, `CompletedIsPlanned` |
| `rival_recoveries` | 2 recoveries of one source, restarts | `AtMostOneStarted`, `StartInvariant`, `LockIsReleased` |
| `recovery_progress` | a fault, a restart or a ServiceAccount change | `FenceIsCleared`, `RecoverySettles`, `CompletedTargetBecomesReady` |
| `issuer_rotation` | 1 issuer, 2 Secrets, 3 keys of both algorithms, a rotation with overlap and OpenShift management at its end, 2 disturbances | `TypeOK`, `KeysStayServed`, `IssuerConverges` |
| `issuer_handoff` | 1 managed issuer that is handed off, no token guard, 2 disturbances of five kinds | `HandoffIsFinal`, `CapturedOnce` |
| `issuer_deletion` | 2 issuers in turn, an account that is absent or foreign at first, one edit or WorkloadIdentity | `DeletesOnlyItsOwnAccount`, `DeletionCompletes` |

Disturbances of the issuer: `edit` (one of the specifications of the instance),
`secret` (replaced by a new key, or lost), `storage` (account, group or container
deleted, settings changed), `authentication` (an administrator sets another issuer),
`identity` (a WorkloadIdentity is created), `fault`, `restart`.

Why the bounds are enough. Two instances are a source and a target; a third is a
target that is replaced. Two recoveries are all that a race needs. For safety the
bounds do not matter: each invariant and action property of the runs is also a
theorem for every value of the constants, under the hypotheses listed under Proofs.
For progress they do. One fault or restart can strike between any two calls,
which is every place a transfer can be interrupted. `identity_lifecycle` and
`identity_converges` allow two, so that a repair is itself disturbed. A rotation is
two edits; two Secrets and a third key are an old key, a new one and a replaced
one. A second issuer is what can be confused with the first; the theorems cover
any number.

`azure` is left out of the runs on progress and of `recovery_ownership`: somebody
else who deletes the identity is outside what the operator promises. The fence goes
with the tags, an identity in use may vanish, and one that is made anew may get the
tags of the old one (see Proofs). What holds all the same is checked with it:
`target_lock` has it, and of the theorems those without that hypothesis.

In `CompletedIsPlanned` a fenced identity is left out. A recovery that read the
identity before it was deleted and remade writes the old tags back with its fence,
the audit tag of an earlier recovery among them; it then finds that the identity is
not the planned one and blocks. With one recovery, as in `target_lock`, this leaves
nothing out.

Deadlock is checked where the system must always have something to do. It is
switched off where it may rest: users may have deleted everything, and a target
that was reported RecoveryRequired because of its ServiceAccount is not requeued
until somebody creates a recovery.

### Fairness

Weak fairness of each controller's steps (a reconcile goes on; a queued name is
taken), strong fairness of taking each recovery (the work queue is first in, first
out, so none is passed over for ever), weak fairness of the informer and of an
issuer that is down coming back. Users, faults and restarts owe nothing and are
bounded.

For the issuer: weak fairness of the reconciler's steps, of each informer and of
`Rollout`. Users do not have to finish a handoff: `DeletionCompletes` supposes that
what blocks the deletion is gone for good.

`recovery_progress` does not include `issuer` and `drift`: with them a Failed recovery
that was woken before its cached copy showed Failed can be overwritten by Blocked,
and whether it settles again depends on what the outside does next.

### What the documentation says and the code does not do

Three runs are expected to end in a violation; each checks a sentence of the
documentation.

| Run | Sentence | What happens |
|---|---|---|
| `deletion_hangs` | "finish, then delete" | after a conflict on the finalizer, a stale retry replaces Complete by Blocked |
| `blocked_for_ever` | Blocked: "A correctable external conflict prevents progress" | locking the target is skipped silently, the checkpoint is saved all the same |
| `endpoint_outlives_use` | "These checks prevent a public key endpoint from disappearing while the cluster still produces tokens that depend on it" | a reconcile that began before the deletion sets Authentication; the finalizer, from older copies, skips the guards and deletes the account |

`deletion_hangs` and `endpoint_outlives_use` need no fault at all, only a cache that
lags. None of them gives an identity to two owners: the safety properties above
hold in the same model.

## Proofs

For identities and recoveries. Assumptions: `MaxUID` is a positive natural number,
`NumRecoveries` and `MaxDisturbances` are natural numbers, `Policies` is a subset of
the two deletion policies. `Starts`, `Disturbances` and `Deletable` are arbitrary,
except where a theorem below names a hypothesis.

* `TypeCorrect` (`RecoveryTypeProofs`): `Spec => []TypeOK`. One lemma per operator
  that makes an object, then one step per action.
* `StartInvariantHolds`, `ExclusiveStart` (`RecoveryStartProofs`):
  `Spec => []AtMostOneStarted`. The property is not inductive: the search for rivals
  (`R_Winner`) and the checkpoint (`R_SaveStarted`) are different steps, so
  `StartIsExclusive` says that no rival has started as long as the worker is between
  them; and a forward run begins from a cached copy and writes `commitVerified`
  later, so `ForwardOnly` says that what cache and worker remember of a recovery's
  progress is still true. `StartInvariant` is their conjunction with `TypeOK`. Most
  actions neither start nor finish a recovery; they are handled together
  (`ProgressKept`, `WorkerKept`, `KeptStart`), and the eight that do have a lemma each.
  What carries the argument is that one worker reconciles all recoveries and that
  the list of rivals is read from the API server.
* `CopiesAlways` (`RecoveryCopiesProofs`): `Spec => []CopiesInvariant`, what cached
  copies and the workers' copies are worth. A copy of an instance is not newer than the
  instance; an instance with its finalizer stays until the worker, deleting it, takes
  the finalizer away, so a worker that ensures the identity works for the instance
  there is; a copy of a recovery does not know more than is so; the recovery that is
  reconciled exists. Everything after rests on it.
* `FenceAlways`, `FenceAlwaysHasDriver` (`RecoveryTransferProofs`):
  `Spec => []FenceHasDriver`. A fence is written only after the checkpoint was read
  from the cache; from then on the cached deletion of the recovery is not taken for a
  cancellation. That a fence does not come back after Complete needs
  `CompleteIsGivenAway`: the owner of the identity is a later instance for ever, and
  no tag update under way can restore the source (`ReadIsPlanned`). No hypothesis.
* `TransferAlways`, and from it `NeverWritesWhileFenced`
  (`Spec => NoNormalWriteWhileFenced`), `OnlyTheDeletingOwnerDeletes`
  (`Spec => OnlyDeletingOwnerDeletes`) and `ImplementsOwnershipTransfer`
  (`Spec => TransfersOwnership`). What either worker read of the identity still holds
  when it writes (`ReadIsCurrent`, `WorkerOwnsIt`): the identity worker acts for the
  owner, the recovery worker for a source that is gone, and a fence changes hands
  only with the target locked. Hypothesis `NobodyElseDeletes`: nobody deletes the
  identity behind the operator's back, or there is no recovery. (The refinement needs
  the first of the two, since a deletion by somebody else is no step of
  `OwnershipTransfer`.) The hypothesis is needed: the tags are replaced as a whole, so
  an update computed from an identity that was deleted and remade in between writes
  the old owner and a fence onto the new one, and each of the three can be violated.
* `LockAlways`, `FencedTargetAlwaysLocked` (`RecoveryLockProofs`):
  `Spec => []FencedTargetIsLocked`, if no recovery is deleted. (A deletion that comes
  while the start is being saved is taken for a cancellation when the cached copy has
  the deletion and not yet the checkpoint: the lock is released, removing the
  finalizer then fails, and the next reconcile goes on to fence the identity from an old
  copy of the target.) A lock once seen, in the cluster or in the cache, stays until
  the source has given the identity up, which is for good (`GivenUpStays`); a lock is released only by a recovery that went forward
  and is Complete, and by `AtMostOneStarted` the fence is not another's
  (`ReleaseIsUnfenced`). The identity may be deleted by others.
* `ReadyAlwaysOwns`: `Spec => []ReadyOwns`, if nobody else deletes the identity. The
  inductive `ReadyIsOwned` adds that the worker's instance owns the identity
  from `ensureServiceAccount` on and whenever the status it is about to patch says
  Ready. A recovery takes an identity only from its source, which was gone before the
  instance there is now was made.
* `PlanAlways`, `CompletedAlwaysPlanned` (`RecoveryPlanProofs`):
  `Spec => []CompletedIsPlanned`, without a hypothesis. `PlanIsSettled`: the plan is in
  the cache before the recovery goes forward and is not replaced afterwards, so what
  `finalizeRecovery` compares is the recorded plan. `EndIsPlanned`: an unfenced
  identity with the audit tag of a Complete recovery is the planned one. A new
  identity has no audit tag, and the only update that could bring it back unfenced is
  the end of that recovery, which is then not Complete yet.

For the issuer (`IssuerProofs`, `IssuerHistoryProofs`). Assumptions: the keys include
the RSA keys, some Secret reference exists, `NoRef` and `NoKey` are none of them, users write
specifications of the right type, the account found at first is absent or foreign;
numbers and kinds of disturbances are arbitrary.

* `InvariantAlways`: `Spec => []IssuerInvariant`, and from it `TypesAlways`.
* `OwnAccountOnly`: `Spec => DeletesOnlyItsOwnAccount`.
* `CaptureAlwaysFirst`: `Spec => CapturedOnce`.
* `HistoryAlways`: `Spec => []HistoryInvariant`, and from it `KeysAlwaysServed`
  (`Spec => []KeysStayServed`) and `HandoffAlwaysFinal` (`Spec => HandoffIsFinal`).

`IssuerInvariant` adds three parts to the types. `ActiveKeyIsRead` is what the type of
the published keys needs, since both keys are read in separate steps.
`TagsTellCreator` says that the tags name the account's maker; because
`convergeStorageAccount` rewrites the tags from what it read one call earlier, and
`Delete` deletes one call after it looked, it also says so of what the worker
remembers in between. It survives drift because an account that vanished in between
cannot be updated. `CaptureIsFirst` says that the worker is about to capture only
where nothing is captured: `setPublished` decides it on the patch's answer, no other
worker writes the field, and a new object begins without it. Steps in which the
worker takes no part are handled together (`BystanderKeepsInvariant`), as are the
worker's steps to places the invariant says nothing about (`MoveKeepsInvariant`).

`HistoryInvariant` is about copies. An issuer gets its finalizer from the worker, so
the cache knows it by then, and loses it only to the worker that deletes it;
hence the worker's copy belongs to the issuer there is. A copy is of an earlier
generation or has the same specification (`CopiesAreBehind`). A key is steady while
every specification since its upload has referred to it; the copy a reconcile
publishes from, the cached copy and the object all refer to the steady keys, in every
step of an upload (`SteadyKeysAreReferenced`), so the two documents keep them even
when they are uploaded from an old copy or only one of them is. For the handoff,
`StatusIsBehind` says that between the answer that says management is on and the
write, either the specification still says so or the status shows an earlier
generation.

Each of these invariants was first checked by TLC on instances of the runs, and the
larger ones also by simulation with more instances, recoveries and disturbances.

Only model-checked is what concerns progress: `ConvergesToReady`, `FenceIsCleared`,
`RecoverySettles`, `CompletedTargetBecomesReady`, `LockIsReleased`, `IssuerConverges`
and `DeletionCompletes`. It needs fairness and `ENABLED`, which are out of the
prover's reach. The sentences of the three violated runs are counterexamples and so
nothing to prove.

A limit of the model that the theorems share: an answer that is lost strikes before
the next step of the same reconcile, so the answer to the last call of a
reconcile (that removes the finalizer, for example) is not lost.

## Plan

Done: ownership, both identity controllers, recovery admission; the issuer with its
publisher, guards and admission; proofs of every invariant and action property that a
run checks, and of the refinement. Worth doing next:

1. ServiceAccount provenance across instances (adopted, created, recreated by
   users).
2. Several WorkloadIdentity names, for the webhook's check against collisions.
3. Which part of `TransferInvariant` survives a deletion by somebody else: an
   instance that never had a recovery keeps its guarantees, for instance.

## Not modelled

Telemetry, process wiring and leader election (one process reconciles), generated
code, charts and manifests, the documentation site, end-to-end tests, parsing of
keys, formatting of names. The WorkloadIdentity webhook is left out because its
checks matter between several names, and the models have one. The scope anchor runs
once, before any controller.
