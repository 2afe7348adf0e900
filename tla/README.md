# TLA+ verification of the outposts operator

The operator (Rust, `src/src/`) runs Devin sessions of an upstream queue as worker
pods in Kubernetes. This directory holds TLA+ models of its core, the TLC
configurations that check them on small instances, and TLAPS proofs of the most
important properties for every instance.

## Inventory

| Part | State | Operations | Hard behaviour |
|---|---|---|---|
| Reconciler, `controller/reconcile.rs` | none that survives a pass; all is re-listed | one pass per pool: list queue, list pods, gc, plan, execute, recycle, clean up | calls that fail or lose their answer, a crash at any await, a listing that is stale when it is acted on |
| Planner, `controller/plan.rs` | none (pure) | `plan` | slots counted before they are free, actions planned for pods already on their way out |
| Snapshot providers, `snapshot/*.rs` | volumes, triggers, snapshots in the cluster | `prepare`, `verify_restore`, `on_suspend`, `on_terminate`, `gc` | a checkpoint races deletion, retries and the give-up clock |
| Session queue, `api/*.rs` and the server | rows: phase, acceptor, deadline, status | list, claim/renew, release, startup-failure | other acceptors, claims that lapse, rows that vanish |
| Leader election, `elector.rs` | the lease; `last_renewed` | `try_acquire`, `become_leader`, `hold` | races of candidates, a leader cut off from the API server |
| Queue watcher, `controller/queue_watch.rs` | a task and a cursor per pool | `ensure`, `cursor`, `remove` | a watcher replaced or cut off, a cursor ahead of the listings, passes that trigger passes |
| Acceptor id, `controller/context.rs` | a ConfigMap, a per-process cell | `acceptor_id` | concurrent creation, a call that lands after its process ended |
| Pool finalizer, `reconcile.rs` `cleanup` | - | stop the watcher, release every claim | a release that fails, a deletion that meets a running pass |
| Network policies, `network_policy/` | one or two policy objects per session, the detected provider | `detect`, `apply` before and after pod creation | owner hand-over over several calls, late pods, claims over a running pod, allow lists that change |
| Worker pod, `controller/pod.rs` | the home volume and its marker, the layer directory | init containers, worker | interrupted copies, restarts, the next pod on the same volume |
| Image push, `image_push.rs` | layer and result files, the registry | `main`, `push` | a sidecar that dies anywhere, declined mounts, repeated pushes |
| Listing, `api/client.rs` `list_all` | a cursor and what it collected | one request per page | rows that move between two pages |
| CRD, config, metrics, telemetry | - | parse, count | data only |

How they interact: the leader runs one pass per pool at a time. A pass calls the queue
API, the planner and the snapshot provider, and the Kubernetes API. Between any two of
these calls the queue, other acceptors and the kubelet move on. The next pass starts
from the listings again, so correctness rests on what a pass leaves behind in the queue
(the claim), in the pod (found by its deterministic name), in the token secret (which
carries the restore-retried marker, and is the retry handle for artifact cleanup) and
in the provider's artifacts.

What makes the parts correct:

- reconciler: no session is served twice; a claim gets a worker; a worker has its token;
  pods of lost sessions go; a suspend keeps the state; cleanup is retried until done;
- planner: `maxConcurrentSessions` holds; at most one agenda per session;
- providers: only a snapshot of the present pod satisfies a suspend; shelved state goes
  after its TTL and not before; a crashed restore is retried without its pin;
- triggers: a change of the queue is never forgotten, and the operator's own writes do not
  keep it running;
- election: the lease moves only after it expired; a cut-off leader stops; all leaders act
  under one identity;
- policies: a worker reaches what its session may and no more, from its first moment to its
  last, whatever call failed;
- worker pod: a used home is never copied over; a captured layer is answered exactly by its
  own result, and an image that was named is whole;
- listing: the pages add up to one reading of the queue, and end.

`PROJECT.json` lists the hazards at their lines, with the property that covers each.

## Modules

`SessionQueue` -> `Planner` -> `SnapshotProvider` -> `PoolReconciler` is a chain of
EXTENDS; the first three are operators only, the last one is the state machine.

- **SessionQueue**: one row and what each operation does to it. The server is not in the
  repository; the model follows its mock, `tests/mock_server/mod.rs`. A deadline is `far`,
  `near` (inside the renew margin) or `past`. A tombstoned row keeps only its status.
- **Planner**: `plan()` over one observation. A pod's status is reduced to the verdict of
  the planner's predicates (table in the module). Claims are taken oldest first; which
  session is older is chosen anew for each plan, which covers every order of creation.
- **SnapshotProvider**: artifacts per session and the operations of the three policies.
  `fresh`/`old` say whether a snapshot is newer than the present pod. A TTL is assumed
  to be configured.
- **PoolReconciler**: the pass. `pc` follows `apply`; the running action is `cur` and the
  API `calls` it still has to make, so every await is a point of interleaving and every
  call is one step (`CallClaim`, `CallCreatePod`, ...). A call takes effect and returns,
  takes effect and loses its answer, or never arrives (`CallFails`); an error drops the
  rest of its action, as `?` does in `execute`. `Crash` ends the pass anywhere: process
  death, lost leadership, or a failed list. `listed` and `seen` are the pass's possibly
  stale view. They are reset when the code has no further use for them, which keeps
  the state space small and loses nothing.
  The outside world: `Enqueue`, `SetSessionStatus`, `Tombstone`, `RivalActs`,
  `ClaimAges` (queue), `KubeletReports`, `PodKilled`, `PodGone`, `ImageRollout`,
  `CheckpointDone`, `CheckpointFails`, `ArtifactAges` (cluster). `Disturbances` says
  which of the optional ones an instance includes.
- **Contract**: what an outpost promises, without a plan, a listing or a sequence of calls: per
  session how far its claim and its worker are, and the operator's hand on one session at a time.
  A granted claim leads to the start, the start to the creation, and nothing else does; a stop
  spares a waiting worker of a claim to serve; a release waits for the worker, or the claim is
  overdue; a report ends the claim. PoolReconciler implements it (`KeepsContract`): a row maps to
  what has become of its claim, a pod to how far the worker is (`ClaimOf`, `WorkerOf`), the next
  API call to what the hand is about to do (`HandOn`). Listing the pods and planning are stutters.
- **MCPoolReconciler**: the disturbances of each run.
- **QueueWatch**: what starts a pass, and the pool's own life. `watch_loop` connects, moves its
  cursor and sends the trigger in separate steps; a pass reads its token, ensures the watcher,
  lists, acts and patches the pool's status, which comes back as an event of the pool. The pool
  object gets its finalizer in a pass of its own, and a deleted pool is cleaned up step by step:
  stop the watcher, list our claims, release, take the finalizer off. The queue is one row
  and a position `feed`; the sessions' life is PoolReconciler's subject and reduced here to
  whether a worker is due. `unlisted` and `unreleased` are history variables. Waiting triggers
  coalesce, as in the controller's scheduler. An outage (`Break`) lasts until `Mend`. One
  pool: a trigger of another pool's watcher would only add passes.
- **Elector**: `try_acquire` as read clock, get, put under the fetched resourceVersion;
  `become_leader` and `hold` around it; crash and restart. One clock; an attempt takes
  at most `CallBound` ticks, and a live replica whose timer is due acts before time
  goes on.
- **Failover** extends Elector by the acceptor id: the ConfigMap, each process's cell, and the
  generated id on its way. Only a leader asks for it; its get and its apply are two steps, and an
  apply of a process that ended may still land. Configured ids are left out. `overlapped`
  records that two replicas have led at once.
- **Listing**, **ListAll**: the abstract listing (one answer: the queue of one moment, plus rows
  that left while it ran) and `list_all` page by page over the mock's server. ListAll implements
  Listing (`Implements`), which is what lets PoolReconciler take a listing for one step.
- **Egress**: allow lists, Cilium's and GKE's policy objects, and what each lets through. A host is a
  sequence of labels, an address a number of two bits; a last label that is empty is the dot of the
  root, which `hostname_glob` strips.
- **SessionPolicy**: `start_worker` from the claim to the hand-over, one step per policy object,
  against the pod's life, the garbage collector, pods created late, changes of the allow list,
  a provider enabled later, and pool deletion. A start does not ask whether there is a pod: a session
  whose claim lapsed, or was given back, is claimed again while its pod still runs or is still
  terminating. Such a start writes the objects for the present list, owned by the pool, meets the pod
  (409) and ends there. So a pod comes under lists other than its own start's; its history variable
  `lists` has the last list that was applied in full and those of starts interrupted since, and the
  properties measure the pod against these. **MCSessionPolicy** gives it allow lists with every kind
  of entry: none, globs, a bare `*`, a name with the root's dot, malformed names, ranges, too long
  prefixes.
- **WorkerPod**: what runs inside the pod `build_worker_pod` describes. Init containers in order,
  the seeding script by its commands, the sidecar by the calls of `push`; a container, the
  sandbox or the pod may die at any step. The capture follows the protocol of `image_push.rs`, and is
  taken to hand over its next layer only after the last one is removed: the result is there a step
  earlier, and nothing under `src/` says which of the two the capture waits for.
- **PoolReconcilerProofs**, **SlotsAndTokensProofs** (continues it), **ElectorProofs**,
  **FailoverProofs**, **ListAllProofs**, **SessionPolicyProofs**, **WorkerPodProofs**,
  **QueueWatchProofs**: the proofs.

Operators marked `mutant` next to a definition are plausible wrong versions of it. Put in
its place, each makes TLC report the property `PROJECT.json` pairs it with; no
specification uses them.

Simplifications: a GET followed by a write of the same object by the operator is one
step, since nobody else writes secrets, triggers and volumes. Requeue
times and metrics are left out, and pool status outside QueueWatch.
Error messages are taken to be the same each time the same thing fails. Terminated sessions are
not enqueued again. The server's clock does not run backwards. A cluster serves at most one of
the two policy kinds. Name lookups and IPv6 are not part of what a pod may reach. Of the calls
that time out, only pod creation is taken to happen later; the others happen at once or never.

## Runs

All runs of PoolReconciler use one acceptor against one rival. `TypeOK` is checked in one run of
each module.

| Run | Instance | Shows |
|---|---|---|
| `fresh` | StartFresh, 1 session, 1 fault, rival, vanish, age, kill, evict, rollout | `WorkerHasToken`; `KeepsContract`; `StartupFailureAcked`; `OrphansReaped`; `ClaimsServed`; `SuspendCompletes` |
| `slots` | StartFresh, 2 sessions, limit 1, 1 crash | `SlotsRespected` |
| `filesystem` | FilesystemSnapshot, 1 session, 1 fault, age, vanish | `ShelvedVolumesCollected` |
| `gke` | GkeSnapshot, 1 session, 1 fault or failed checkpoint, age | `SuspendNeedsFreshSnapshot`; `ReleasesLast`; `UnpinnedRetryStartsCold`; `SuspendCompletes`; `ClaimsServed` |
| `watch` | 1 foreign change of the queue or the pool's deletion, 1 fault, outages of the token secret, the list and the pool's status | `NoLostWakeup`; `ChangesListed`; `ComesToRest`; `DeletionLeavesNothing`; `DeletionEnds` |
| `failover` | 2 replicas, lease 3, interval 1, call 1, clock up to 8 | `LeaderNeverStale`; `TakeoverAfterExpiry`; `OneIdentity`; `IdentityKept` |
| `policy` | all modes and clusters, 5 allow lists, 2 faults | `NeverWider`; `Enforced`; `ReachesWhatItMay`; `PolicyCollected` |
| `pod` | every session, 2 layers, 4 deaths or failed calls | `LayerGoneIsAnswered`; `ImagesAreWhole`; `WorkerIsPrepared`; `HomeKept`; `LayerAnswered` |
| `paging` | 4 rows, pages of 3, 2 changes of any rows | `BehindTheCursor`; `Implements`; `ListingEnds` |

Bounds. Sessions meet only in the planner's slots, so one session is enough for all but
`SlotsRespected`, which needs two for one slot; the proofs have no bound on sessions.
`MaxFaults` bounds failed calls, lost answers, failed checkpoints and crashes together: one fault at any point
of any pass, followed by any number of clean passes, is the "next reconcile converges"
claim. `WorkerHasToken` needs that bound: two faults break it (the orphan's
deletion fails, its secret is cleaned up, the session is re-enqueued, and the answer to its
claim is lost; until the next pass the old pod serves without a secret). The rest of the
outside world is not bounded. The clock bound of `failover` is more than two leases, so a lease is
acquired, lost and acquired again; that run allows deadlock because the clock stops. In `watch` a
change may be there from the start and one more arrives at any point, beside those the operator's
own claims make; a deletion counts as that change, so it meets a claimed row, but not a row that
others change at the same time (the theorems have no such bound). `watch` leaves out the outage of
pod creation: with it the operator's own claims move the queue for ever (see below) and the
positions grow without bound. In `policy` two faults let one start break off after another; claims
over a running pod need none, and any number of them follow one another. `v_policy_gone` runs without any fault. In
`pod` four deaths reach past two interrupted pods. `paging` keeps ties below a page (`MaxTies`),
because a full page of ties does not end (below); pages of three with two ties are the smallest
instance where a cursor stands on a tie.

Fairness (`FairSpec`): weak fairness of the pass as a whole, because `run` requeues every
pass and `error_policy` every failed one; of the kubelet finishing a deletion; and of time
passing for a trigger or a stamped volume. Nothing is assumed of the queue, the sessions,
other acceptors, or of checkpoints ever finishing.
`QueueWatch` has its own: weak fairness of the tasks of the process, of its restart
and of error_policy's retry, strong fairness of an event reaching an open stream (streams may
end and reopen for ever). The reconcile interval, the end of an outage and the end of a
stream are not assumed, so `ChangesListed` is what the watcher achieves by itself. A connection
that dies silently is excluded by that fairness: the client sets no read timeout.
In SessionPolicy the starts, the kubelet's end of a deletion and the garbage collector are fair; in
WorkerPod the kubelet's progress, the operator's next pod and the sidecar's steps (it polls every two
seconds); in ListAll the next page of an open listing (requests have a timeout). Failures are
bounded, never forced.
`ComesToRest` is relative to the world: either its steps, the running out of a timer included, go on
for ever, or the passes end.

### Where the code and its documentation part

Each of these runs checks one sentence of the repository, and TLC finds a behaviour of
the code that breaks it. The quotes and lines are under `findings` in `PROJECT.json`.

| Run | Violated | Behaviour |
|---|---|---|
| `v_checkpoint` | `CheckpointNotInterrupted` | the recycle loop deletes the pod of a suspended session in the pass that triggered its checkpoint |
| `v_suspended_state` | `SuspendedStateKept` | a suspended claim lapses during a long snapshot, the row is swept, and secret cleanup deletes the snapshot |
| `v_policy_gone` | `PolicyOutlivesPod` | a claim over a running pod gives its policy back to the pool, whose deletion takes it from the pod still terminating |

More disagreements came up while the models were written. Each is recorded at its hazard
in `PROJECT.json`; none has a run of its own:

- the terminating pod of a crashed restore is judged again, and the session given back before
  its unpinned retry;
- Terminate's last call, `on_terminate`, is never retried when it fails;
- a claim is itself a change of the queue, so a pass that claims and then fails to create its pod
  starts the next one at once, ahead of `error_policy`;
- a pod in phase Failed is never replaced;
- two replicas that lead at once also create the acceptor id at once: they share a field
  manager, the second apply does not conflict, and one of them goes on under an id that is no
  longer stored;
- a page full of rows with one `updated_at` names itself as the next page, and `list_all` never
  returns;
- `SlotsRespected` with failing calls (`badcall`): a GiveUp whose release fails has already
  handed its slot on, and the pool goes one session over its limit;
- `SlotsRespected` under `GkeSnapshot`, without any fault: the plan counts the slot of a GiveUp as
  free and claims another session, but a crashed restore that is given up for the first time is
  retried without its pin and keeps its claim;
- `NeverWider` under GKE when the gateway and the download host are both given by address: a later
  list without names does not write the FQDN object, and the one of the earlier list stays. It stays
  after a start that broke off, and without any fault when the session is claimed again over its pod;
  either way the pod reaches the earlier list's names;
- "a crash between the two applies only defers their cleanup" (`network_policy/mod.rs:40-41`): no crash
  is needed. After a claim over a running pod the objects belong to the pool and are not handed over
  again, so they stay when the pod goes, until the next start or the pool's deletion
  (`PolicyCollected` leaves such starts out through `brokeOff`);
- `SuspendCompletes` with checkpoints that fail for ever: every retried trigger restarts the
  give-up clock (the runs let one fail);
- `StartupFailureAcked` under `GkeSnapshot` with a lost answer: the recycle loop judges the pod
  listed at the start of the pass and deletes by name; when that pod is gone and the creation of
  its successor was not answered, it deletes the successor, whatever state that is in;
- `prepare` of the filesystem provider reuses a volume that is already terminating;
- two replicas act as leader at once, for at most the time `LeaderNeverStale` allows: a
  candidate may take the lease when it is `LEASE_DURATION` old, the cut-off leader notices
  only after its next failed attempt.

## Proofs

`tlapm` checks each of the eight modules. The only assumptions are
those on the constants: the three acceptor values differ, sessions are a finite set
of numbers (ordered ids), limits and bounds are naturals, durations are positive, a
destination or target by name has at least one label. What a single theorem assumes
besides stands in its statement and below.

**PoolReconcilerProofs**, for any sessions, limit, policy, disturbances and faults:

- `TypeCorrect`: `Spec => []TypeOK`. `TypeOK` alone is not inductive, because `Tail(calls)`
  must again be something a handler can have left; `CallsInv` says that `calls` is one of
  the `Stacks`, all suffixes of the handlers' call sequences.
- `ReleaseOrder`: `Spec => ReleasesLast`. A release occurs in three handlers.
  Suspend deletes first, so its own stack carries the fact. Terminate acts on a
  terminated session, which stays terminated. GiveUp acts on a pod that was over its
  limit when listed; that this still holds when the claim is released needs that nothing
  re-creates the pod in between: no other action of the plan is on the same session
  (`PlanInv`, from `PlanShape`), and the cluster never revives a spent worker
  (`SpentStays`). `GroundsInv` carries both grounds from the listing through the plan to
  the call.
- `RetryWithoutPin`: `Spec => UnpinnedRetryStartsCold`; `PinInv` says that a pod about to be
  created agrees with the marker on the secret.
- `StateSaved`: `Spec => []SuspendNeedsFreshSnapshot`. The answer of `on_suspend` is of a moment
  ago; it still holds at the deletion because a snapshot newer than the pod has ended the pod
  (`FreshInv`), so no second checkpoint replaces the snapshot by one that is not labelled yet.
- `AckBeforeTeardown`: `Spec => StartupFailureAcked` if the policy is not `GkeSnapshot` or no call
  fails. `AckInv` carries the grounds of every teardown from the listing to the call: the session
  is not ours to serve, which only our own claim changes, or its pod has started, which only a new
  pod changes; and no plan has both a teardown and a start for one session. The recycle loop of
  `GkeSnapshot` acts on pods listed as running; those have started or are gone, unless the answer
  to the creation of a successor was lost, which is why the hypothesis is needed (see above).
- `ContractKept`: `Spec => KeepsContract` under the same hypothesis, which it needs for the same
  reason. `StepMaps` takes every step of the reconciler to a step of Contract or a stutter: the
  queue and the cluster to `World` (`RowTurns` and `PodsAge` say so of one row and one pod),
  each call to one of the operator's actions. The guard of `Stop` is `AckInv`, that of `Release`
  is `GroundsInv`; that only a claim leads to a creation is in the shape of the `Stacks`.

**SlotsAndTokensProofs**, what holds of PoolReconciler up to certain faults, for any sessions, limit,
and changes of the world outside:

- `LimitKept`: without failing calls, and for any policy but GkeSnapshot, `Spec => []SlotsRespected`.
  `SlotInv` counts the sessions that hold a slot together with those a listing, a plan or a running
  start still wants one for; a session the plan gives up holds its slot until the release. That a
  plan wants no more than the free slots is a lemma about `Planner` (`ClaimsFitSlots`): ordered by
  age, the claimed sessions have different ranks below the number of slots. Both hypotheses are
  needed: `badcall` and the recycle loop each break it (see the list above).
- `TokenKept`: if no call fails, or there is one fault at most, `Spec => []WorkerHasToken`. `TokenInv`
  says that until a call fails no pod that is to stay is without a secret, whoever it belongs to;
  after that, that none is where it matters: for sessions of ours to serve, those a running pass
  listed or plans to renew, and the session of the running action (`StackTokens`, `ListTokens`). A
  second fault is what breaks it (see Runs).

**ElectorProofs**, for any replicas and durations:

- `LeaseTakeover`: `Spec => TakeoverAfterExpiry`. `WriterInv`: a replica about to write under a
  current resourceVersion still sees the lease as it judged it.
- `BoundedLeadership`: `Spec => []LeaderNeverStale`. `TimerInv` bounds the distance of a
  leader's timer from its last renewal, and the clock never passes the timer.
- `TypeCorrect`: `Spec => []TypeOK`.

**FailoverProofs**, for any replicas and durations:

- `FailoverIsElection`: `FailoverSpec => Spec`, so the elector's theorems hold with identities.
- `SameIdentity`, `StoredIdentityStays`: `IdentityInv` says that only a leader has or is about to
  apply an id, that without an overlap there is one leader at most, and that it applies an id only
  where none is stored. `LeadersEnd`: a leader stops leading only by ending its process, which
  empties its cell.

**ListAllProofs**, for any rows, page size and number of changes:

- `ReadRowsStand`: `Spec => []BehindTheCursor`. No row is newer than the server's clock and no cursor
  ahead of it, so whatever changes moves to or past every cursor.
- `TypeCorrect`.
- `ListAllImplements`: `Spec => Implements`. A page that continues maps to a stutter, the last one to
  `Answer`: rows before its cursor are right by `BehindTheCursor`, the others are on the page.

**SessionPolicyProofs**, for any allow lists, labels, destinations, modes, clusters and faults:

- `TypeCorrect`, `RestrictionKept` (`Enforced`), `PromisedReach` (`ReachesWhatItMay`), from one
  inductive invariant in parts. `ObjectInv` is the heart: every object a labelled pod lives under, or
  a late one may come to live under, was written for one of that pod's lists, and all objects its
  lists ask for are there. While a start writes over a pod that is there, each object says the old
  list or the new; with the last of them `Done`, what the start has written, is all the new list asks
  for, and the pod's lists become that one. `TodoInv` says what the running start has still to write,
  `ProviderInv` that all starts act under one provider, `PodInv` who may be there at once and own
  what.
- `NarrowerNeverWider`: `Spec => []NeverWider` if the infrastructure has a destination by name;
  `NarrowerUnderCilium` needs no such thing. On top of the invariant they rest on the globs: a
  pattern as Cilium or GKE reads it, rewritten by `CiliumFqdn`, matches no host that the glob of the
  allow list does not. `Matches` aligns host and pattern by a function, so no recursion is needed.

**WorkerPodProofs**, for any number of layers and deaths:

- `TypeCorrect`, `AnsweredBeforeGone`, `WholeImages`, `Prepared`, `UsedHomeStays`, from one inductive
  invariant in parts: `PushInv` (the layer a push works on is still there, and what it wrote last
  answers it), `RegistryInv` (blobs before manifests before names), `StageInv` (containers went in
  order; the marker lies on a whole home only).

**QueueWatchProofs**, for any number of changes, faults and any outages:

- `NothingForgotten`: `Spec => []NoLostWakeup`. The stream's position alone is not inductive: a
  stream that ends falls back to the cursor, so `ReportInv` puts an unlisted change ahead of the
  cursor, or a report of it on its way; `WatcherInv` says when there is no watcher at all.
- `DeletionComplete`: `Spec => []DeletionLeavesNothing`; `LifeInv` ties the controller's store and the
  running pass to the pool's life, `CleanupInv` says that nothing is claimed and no watcher
  started once the cleanup is past its first step.
- `TypeCorrect`.

The invariants were checked with TLC before they were proved. Every invariant
and action property of the passing runs is a theorem, and so are both refinements;
`SlotsRespected`, `WorkerHasToken`, `StartupFailureAcked`, `KeepsContract` and `NeverWider` under
the hypotheses given, each of which a counterexample shows to be needed.
Only model-checked: liveness, because fairness is out of the prover's reach, and the properties of
the `v_` runs, which do not hold.

## Not modelled, and the plan

Not modelled because there is no state to get wrong: CRD schemas, configuration, metrics,
telemetry, error types, the HTTP layer of the client, the metadata of pods and secrets. Requeue
durations and backoff lengths are abstracted to "later".

What would come next:

1. `RenewSchedule`: integer time, the requeue clamp, renewal before the deadline.
2. Artifact lifetime across acceptors: what becomes of volumes and snapshots when another acceptor
   serves the session (two hazards without a property wait for it).
3. Pods that outlive their pool's claims: a deletion gives the claims back first.
