----------------------------- MODULE QueueWatch -----------------------------
(***************************************************************************)
(* What makes a pass of the reconciler run: the pool's queue watcher       *)
(* (controller/queue_watch.rs), the pool's own status updates, its pods    *)
(* and the requeue timer, around a pass reduced to what it reads and       *)
(* writes of these (controller/reconcile.rs).                              *)
(*                                                                         *)
(* Positions in the queue's watch are numbers: `feed` is the updated_at of *)
(* the row changed last, and a cursor is the updated_at of an event.  One  *)
(* row stands for the queue.  Triggers that wait together bring about one  *)
(* pass, as in the controller's scheduler.                                 *)
(***************************************************************************)
EXTENDS Integers

CONSTANTS
    MaxChanges,     \* bound on row changes made by others, the pool's deletion included
    MaxFaults,      \* bound on breakages, crashes, rotated tokens and lost pods
    Breakages       \* what may be broken until someone mends it: the token secret, the
                    \* queue, the creation of pods, the writes to the pool object

ASSUME BoundsAssumption == MaxChanges \in Nat /\ MaxFaults \in Nat
ASSUME BreakagesAssumption == Breakages \subseteq {"token", "list", "pod", "status"}

VARIABLES
    feed,       \* position of the latest row change
    row,        \* the row: none, pending, or claimed by us
    worker,     \* the session's pod exists
    broken,     \* the call that fails at present: of Breakages, or none
    token,      \* generation of the pool's token secret
    status,     \* the pool's status in the cluster
    life,       \* the pool object: new, held by the finalizer, deleting or gone
    cached,     \* the pool's status in the controller's store
    known,      \* ... and its life there
    dirty,      \* the pool changed and the controller has not been told
    watcher,    \* the registry's entry: the watch_loop task and its cursor
    queued,     \* a pass is due now; the trigger channel included
    timer,      \* the requeue of the last pass: its interval, or error_policy's
    pc,         \* where the pass is; "down": the process is
    pool,       \* the pass's copy of the pool's status
    found,      \* the row as the pass listed it
    failed,     \* first_failure
    unreleased, \* history: the latest cleanup could not give the claims back
    unlisted,   \* history: the queue has changed since it was listed last
    changes,
    faults

object == <<life, known, unreleased>>
control == <<dirty, queued, timer>>
pass == <<pc, pool, found, failed>>
vars == <<feed, row, worker, token, status, cached, object, control, watcher, pass,
          broken, unlisted, changes, faults>>

Rows == {"none", "pending", "claimed"}

\* What a condition that is not ready gives as its message.
Failures == {"token", "list", "claim", "pod"}

Statuses == [cursor  : Nat,
             cond    : {"none", "Ready"} \cup Failures,
             claimed : {0, 1},
             synced  : {"fresh", "stale"}]       \* lastSynced against the interval

\* Without the finalizer, with it, marked for deletion, deleted.
Lives == {"new", "held", "deleting", "gone"}

Watchers == [task   : {"off", "connecting", "open", "handing"},
             cursor : Nat,                       \* 0: none
             sent   : Int,                       \* how far this stream has got
             token  : Nat]

TypeOK ==
    /\ feed \in Nat /\ row \in Rows /\ worker \in BOOLEAN /\ token \in Nat
    /\ status \in Statuses /\ cached \in Statuses /\ pool \in Statuses
    /\ life \in Lives /\ known \in Lives /\ unreleased \in BOOLEAN
    /\ watcher \in Watchers
    /\ dirty \in BOOLEAN /\ queued \in BOOLEAN
    /\ timer \in {"off", "interval", "error"}
    /\ pc \in {"down", "idle", "add", "token", "list", "act", "start", "status",
               "remove", "own", "release", "finalizer"}
    /\ found \in Rows /\ failed \in Failures \cup {"none"}
    /\ broken \in Breakages \cup {"none"}
    /\ unlisted \in BOOLEAN
    /\ changes \in 0..MaxChanges /\ faults \in 0..MaxFaults

NoStatus == [cursor |-> 0, cond |-> "none", claimed |-> 0, synced |-> "stale"]

NoWatcher == [task |-> "off", cursor |-> 0, sent |-> 0, token |-> 0]

\* The queue may hold a session before the operator is first started.
Init ==
    /\ \/ feed = 0 /\ row = "none" /\ unlisted = FALSE
       \/ feed = 1 /\ row = "pending" /\ unlisted = TRUE
    /\ worker = FALSE /\ token = 0
    /\ status = NoStatus /\ cached = NoStatus /\ pool = NoStatus
    /\ life = "new" /\ known = "gone" /\ unreleased = FALSE
    /\ watcher = NoWatcher
    /\ dirty = FALSE /\ queued = FALSE /\ timer = "off"
    /\ pc = "down" /\ found = "none" /\ failed = "none"
    /\ broken = "none" /\ changes = 0 /\ faults = 0

\* Something goes wrong that is not of the operator's making.
Fault == faults < MaxFaults /\ faults' = faults + 1

-----------------------------------------------------------------------------
(* The controller: what puts a pass on.                                    *)

\* The watch on pools: every update of the object, its status included.
TakePoolEvent ==
    /\ pc # "down" /\ dirty
    /\ cached' = status /\ known' = life
    /\ dirty' = FALSE /\ queued' = TRUE
    /\ UNCHANGED <<feed, row, worker, token, status, life, unreleased, timer, watcher, pass,
                   broken, unlisted, changes, faults>>

TimerFires ==
    /\ timer # "off"
    /\ timer' = "off" /\ queued' = TRUE
    /\ UNCHANGED <<feed, row, worker, token, status, cached, object, dirty, watcher, pass,
                   broken, unlisted, changes, faults>>

\* What the finalizer makes of the stored pool.  One that is gone has no pass.
FirstStep == CASE known = "new"      -> "add"
               [] known = "held"     -> "token"
               [] known = "deleting" -> "remove"
               [] known = "gone"     -> "idle"

\* A pass starts from the stored pool; its timer is the one it will return.
BeginPass ==
    /\ pc = "idle" /\ queued
    /\ pc' = FirstStep /\ pool' = IF known = "held" THEN cached ELSE NoStatus
    /\ failed' = "none"
    /\ queued' = FALSE /\ timer' = "off"
    /\ UNCHANGED <<feed, row, worker, token, status, cached, object, dirty, watcher, found,
                   broken, unlisted, changes, faults>>

-----------------------------------------------------------------------------
(* The pass.                                                               *)

PatchedAlways(old, new) == TRUE                                            \* mutant

\* prepare_status_patch: lastSynced alone is refreshed only when stale.
Patched(old, new) ==
    \/ [new EXCEPT !.synced = old.synced] # old
    \/ new.synced # old.synced

\* What the pass leaves behind once it has ended.
Ended == pc' = "idle" /\ pool' = NoStatus /\ found' = "none" /\ failed' = "none"

\* A merge patch without a cursor leaves the one that is there.
Merged(new) == [new EXCEPT !.cursor = IF @ > 0 THEN @ ELSE status.cursor]

\* update_status, and the requeue of reconcile or of error_policy.
Finish(new, failing) ==
    LET erring == failing \/ (Patched(pool, new) /\ broken = "status")
    IN  /\ IF Patched(pool, new) /\ broken # "status"
           THEN status' = Merged(new) /\ dirty' = TRUE
           ELSE UNCHANGED <<status, dirty>>
        /\ timer' = IF erring THEN "error" ELSE "interval"
        /\ Ended
        /\ UNCHANGED <<feed, row, worker, token, cached, object, queued, watcher, broken,
                       unlisted, changes, faults>>

\* degraded_status keeps the counts, and the cursor if no watcher has one.
DegradedStatus ==
    [pool EXCEPT !.cond = broken,
                 !.cursor = IF watcher.cursor > 0 THEN watcher.cursor ELSE @]

\* A pass that cannot read its token or its queue says so and ends.
GiveUpPass ==
    /\ pc = broken /\ broken \in {"token", "list"}
    /\ Finish(DegradedStatus, TRUE)

\* ensure: a watcher of the present token stays, any other is replaced and
\* starts from the cursor the pool's status has.
EnsureWatcher ==
    /\ pc = "token" /\ broken # "token"
    /\ pc' = "list"
    /\ watcher' = IF watcher.task # "off" /\ watcher.token = token THEN watcher
                  ELSE [task |-> "connecting", cursor |-> pool.cursor, sent |-> 0,
                        token |-> token]
    /\ UNCHANGED <<feed, row, worker, token, status, cached, object, control, pool, found, failed,
                   broken, unlisted, changes, faults>>

ListQueue ==
    /\ pc = "list" /\ broken # "list"
    /\ pc' = "act"
    /\ found' = row /\ unlisted' = FALSE
    /\ UNCHANGED <<feed, row, worker, token, status, cached, object, control, watcher, pool, failed,
                   broken, changes, faults>>

\* A pending row is claimed, a claimed one without a worker claimed anew.
WorkerDue == found = "pending" \/ (found = "claimed" /\ ~worker)

\* What the plan comes to: start the worker, delete the pod of a vanished
\* session, or nothing.  A claim is a change of its row.
Act ==
    /\ pc = "act"
    /\ \/ /\ WorkerDue /\ row # "none" /\ broken # "list"
          /\ row' = "claimed" /\ feed' = feed + 1 /\ unlisted' = TRUE
          /\ pc' = "start"
          /\ UNCHANGED <<worker, queued, failed>>
       \/ /\ WorkerDue /\ (row = "none" \/ broken = "list")
          /\ failed' = "claim" /\ pc' = "status"
          /\ UNCHANGED <<feed, unlisted, row, worker, queued>>
       \/ /\ found = "none" /\ worker
          /\ worker' = FALSE /\ queued' = TRUE
          /\ pc' = "status"
          /\ UNCHANGED <<feed, unlisted, row, failed>>
       \/ /\ ~WorkerDue /\ ~(found = "none" /\ worker)
          /\ pc' = "status"
          /\ UNCHANGED <<feed, unlisted, row, worker, queued, failed>>
    /\ UNCHANGED <<token, status, cached, object, dirty, timer, watcher, pool, found,
                   broken, changes, faults>>

\* The rest of start_worker: a pod that exists will do.  The controller
\* watches the pods it owns.
StartWorker ==
    /\ pc = "start"
    /\ pc' = "status"
    /\ worker' = (worker \/ broken # "pod")
    /\ queued' = (queued \/ worker' # worker)
    /\ found'  = IF broken = "pod" THEN found ELSE "claimed"
    /\ failed' = IF broken = "pod" THEN "pod" ELSE failed
    /\ UNCHANGED <<feed, row, token, status, life, cached, known, dirty, timer, watcher, pool,
                   unreleased, broken, unlisted, changes, faults>>

\* claimed_sessions counts the claims listed and the ones just made.
FullStatus ==
    [cursor  |-> watcher.cursor,
     cond    |-> IF failed = "none" THEN "Ready" ELSE failed,
     claimed |-> IF found = "claimed" THEN 1 ELSE 0,
     synced  |-> "fresh"]

EndPass ==
    /\ pc = "status"
    /\ Finish(FullStatus, failed # "none")

-----------------------------------------------------------------------------
(* The finalizer, and the cleanup it runs before a pool may go.            *)

FinalizerOnly == UNCHANGED <<token, worker, cached, known, queued, broken, changes, faults>>

\* The pass ends; a failed one is retried.
FinalizerDone(ok) == timer' = (IF ok THEN "off" ELSE "error") /\ Ended

\* The first pass only puts the finalizer on the pool.
AddFinalizer ==
    /\ pc = "add"
    /\ LET ok == life = "new" /\ broken # "status"
       IN  /\ life' = IF ok THEN "held" ELSE life
           /\ dirty' = (dirty \/ ok)
           /\ FinalizerDone(ok)
    /\ UNCHANGED <<feed, unlisted, row, watcher, unreleased, status>> /\ FinalizerOnly

\* What the claims' owner could not do before the pool went stays undone.
StillUnreleased(failing) == failing \/ (life = "gone" /\ unreleased)

StopWatcherToken == pc = "remove" /\ broken # "token"                      \* mutant
    /\ watcher' = NoWatcher /\ unreleased' = StillUnreleased(FALSE) /\ pc' = "own"
    /\ UNCHANGED <<feed, unlisted, row, life, dirty, timer, pool, found, failed, status>> /\ FinalizerOnly

\* remove drops the entry and aborts its task.  Without a token no claim can
\* be released, and none is.
StopWatcher ==
    /\ pc = "remove"
    /\ watcher' = NoWatcher
    /\ unreleased' = StillUnreleased(broken = "token")
    /\ pc' = IF broken = "token" THEN "finalizer" ELSE "own"
    /\ UNCHANGED <<feed, unlisted, row, life, dirty, timer, pool, found, failed, status>> /\ FinalizerOnly

OwnClaimsAtWork == IF row = "claimed" /\ worker THEN row ELSE "none"       \* mutant

\* The sessions listed under our acceptor id.
OwnClaims == IF row = "claimed" THEN row ELSE "none"

ListOwn ==
    /\ pc = "own"
    /\ unreleased' = StillUnreleased(broken = "list")
    /\ found' = IF broken = "list" THEN "none" ELSE OwnClaims
    /\ pc' = IF found' = "claimed" THEN "release" ELSE "finalizer"
    /\ UNCHANGED <<feed, unlisted, row, life, dirty, timer, watcher, pool, failed, status>> /\ FinalizerOnly

\* A row that went meanwhile is a conflict, which is ignored.
ReleaseOwn ==
    /\ pc = "release"
    /\ LET ok == broken # "list"
       IN  /\ row' = IF ok /\ row = "claimed" THEN "pending" ELSE row
           /\ feed' = IF row' # row THEN feed + 1 ELSE feed
           /\ unlisted' = (unlisted \/ row' # row)
           /\ unreleased' = ~ok
    /\ pc' = "finalizer"
    /\ UNCHANGED <<life, dirty, timer, watcher, pool, found, failed, status>> /\ FinalizerOnly

RemoveFinalizer ==
    /\ pc = "finalizer" /\ broken # "status"
    /\ life' = "gone" /\ dirty' = (dirty \/ life = "deleting")
    /\ status' = NoStatus
    /\ FinalizerDone(life = "deleting")
    /\ UNCHANGED <<feed, unlisted, row, watcher, unreleased>> /\ FinalizerOnly

\* The acceptor id cannot be read, or the finalizer not be taken off.
CleanupFails ==
    /\ pc \in {"own", "finalizer"} /\ broken = "status"
    /\ FinalizerDone(FALSE)
    /\ UNCHANGED <<feed, unlisted, row, life, dirty, watcher, unreleased, status>> /\ FinalizerOnly

-----------------------------------------------------------------------------
(* watch_loop.                                                             *)

WatcherOnly == UNCHANGED <<feed, row, worker, token, status, cached, object, dirty, timer,
                           pass, broken, unlisted, changes, faults>>

\* The server goes on from the cursor and repeats the row it names.
WatchConnect ==
    /\ watcher.task = "connecting" /\ watcher.token = token
    /\ watcher' = [watcher EXCEPT !.task = "open", !.sent = watcher.cursor - 1]
    /\ WatcherOnly /\ UNCHANGED queued

WatchEventBehind == watcher.task = "open"                                  \* mutant
    /\ \E at \in (watcher.sent + 1)..feed :
        /\ at > 0
        /\ watcher' = [watcher EXCEPT !.task = "handing", !.cursor = @ - 1, !.sent = at]
    /\ WatcherOnly /\ UNCHANGED queued

\* An event moves the cursor, under its lock ...
WatchEvent ==
    /\ watcher.task = "open"
    /\ \E at \in (watcher.sent + 1)..feed :
        /\ at > 0
        /\ watcher' = [watcher EXCEPT !.task = "handing", !.cursor = at, !.sent = at]
    /\ WatcherOnly /\ UNCHANGED queued

WatchSendLost == watcher.task = "handing"                                  \* mutant
    /\ watcher' = [watcher EXCEPT !.task = "open"]
    /\ WatcherOnly /\ UNCHANGED queued

\* ... and then sends the trigger.
WatchSend ==
    /\ watcher.task = "handing"
    /\ watcher' = [watcher EXCEPT !.task = "open"]
    /\ queued' = TRUE
    /\ WatcherOnly

WatchEndsForGood == watcher.task = "open"                                  \* mutant
    /\ watcher' = [watcher EXCEPT !.task = "off"]
    /\ WatcherOnly /\ UNCHANGED queued

\* The server ends every stream after a while, or the connection breaks.
WatchEnds ==
    /\ watcher.task = "open"
    /\ watcher' = [watcher EXCEPT !.task = "connecting", !.sent = 0]
    /\ WatcherOnly /\ UNCHANGED queued

-----------------------------------------------------------------------------
(* The world around the operator.                                          *)

\* A session is enqueued, or its row goes.
RowChanges ==
    /\ changes < MaxChanges
    /\ changes' = changes + 1
    /\ feed' = feed + 1 /\ unlisted' = TRUE
    /\ row' = IF row = "none" THEN "pending" ELSE "none"
    /\ UNCHANGED <<worker, token, status, cached, object, control, watcher, pass, broken, faults>>

\* A pool without the finalizer goes at once.
DeletePool ==
    /\ life \in {"new", "held"} /\ changes < MaxChanges
    /\ changes' = changes + 1
    /\ life' = IF life = "new" THEN "gone" ELSE "deleting"
    /\ dirty' = (pc # "down")
    /\ UNCHANGED <<feed, row, worker, token, status, cached, known, unreleased, queued, timer,
                   watcher, pass, broken, unlisted, faults>>

PodLost ==
    /\ worker /\ Fault
    /\ worker' = FALSE
    /\ queued' = (queued \/ pc # "down")
    /\ UNCHANGED <<feed, row, token, status, cached, object, dirty, timer, watcher, pass,
                   broken, unlisted, changes>>

\* The token secret is not watched: the next pass reads the new one.
RotateToken ==
    /\ Fault
    /\ token' = token + 1
    /\ UNCHANGED <<feed, row, worker, status, cached, object, control, watcher, pass, broken, unlisted, changes>>

\* lastSynced gets as old as the reconcile interval.  Within a pass that comes
\* to the same as just ahead of it.
StatusAges ==
    /\ pc \in {"down", "idle"} /\ status.synced = "fresh"
    /\ status' = [status EXCEPT !.synced = "stale"]
    /\ cached' = [cached EXCEPT !.synced = "stale"]
    /\ UNCHANGED <<feed, row, worker, token, object, control, watcher, pass,
                   broken, unlisted, changes, faults>>

\* Something breaks, and is mended in its time.
Break ==
    /\ Fault
    /\ broken' \in Breakages
    /\ UNCHANGED <<feed, row, worker, token, status, cached, object, control, watcher, pass, unlisted,
                   changes>>

Mend ==
    /\ broken # "none"
    /\ broken' = "none"
    /\ UNCHANGED <<feed, row, worker, token, status, cached, object, control, watcher, pass, unlisted,
                   changes, faults>>

Crash ==
    /\ pc # "down" /\ Fault
    /\ pc' = "down" /\ pool' = NoStatus /\ found' = "none" /\ failed' = "none"
    /\ dirty' = FALSE /\ queued' = FALSE /\ timer' = "off"
    /\ watcher' = NoWatcher /\ cached' = NoStatus /\ known' = "gone"
    /\ UNCHANGED <<feed, row, worker, token, status, life, unreleased, broken, unlisted, changes>>

\* The controller starts with a list of the pools, and a pass for each.
Restart ==
    /\ pc = "down"
    /\ pc' = "idle" /\ cached' = status /\ known' = life /\ queued' = (life # "gone")
    /\ UNCHANGED <<feed, row, worker, token, status, life, unreleased, dirty, timer, watcher, pool,
                   found, failed, broken, unlisted, changes, faults>>

-----------------------------------------------------------------------------
FinalizerStep ==
    \/ AddFinalizer \/ StopWatcher \/ ListOwn \/ ReleaseOwn \/ RemoveFinalizer
    \/ CleanupFails

PassStep ==
    \/ GiveUpPass \/ EnsureWatcher \/ ListQueue \/ Act \/ StartWorker \/ EndPass
    \/ FinalizerStep

ControllerStep == TakePoolEvent \/ BeginPass

WatcherStep == WatchConnect \/ WatchEvent \/ WatchSend

WorldStep ==
    \/ TimerFires \/ WatchEnds \/ RowChanges \/ PodLost \/ RotateToken
    \/ StatusAges \/ Break \/ Mend \/ Crash \/ DeletePool

Next == PassStep \/ ControllerStep \/ WatcherStep \/ WorldStep \/ Restart

Spec == Init /\ [][Next]_vars

\* The tasks of the process are scheduled, the process is restarted, and a
\* failed pass is retried.  The interval's requeue and the end of a stream
\* are not assumed to happen.
Fairness ==
    /\ WF_vars(Restart \/ BeginPass \/ PassStep) /\ WF_vars(TakePoolEvent)
    /\ WF_vars(WatchConnect \/ WatchSend) /\ SF_vars(WatchEvent)
    /\ WF_vars(timer = "error" /\ TimerFires)

FairSpec == Spec /\ Fairness

-----------------------------------------------------------------------------
\* The watcher's token is out of date: it cannot reconnect any more.
TokenStale == watcher.token # token

\* A change nobody has listed yet is never forgotten: it is ahead of a
\* watcher that will report it, or a report, a pass or the retry of a failed
\* one is on its way.  Cursor, channel, store and status never agree that all
\* is seen when it is not (watch_loop, ensure, apply).  Only a rotated token
\* leaves it to the interval.
NoLostWakeup ==
    unlisted =>
        \/ pc \in {"down", "add", "token", "list"}
        \/ life \in {"deleting", "gone"}
        \/ queued \/ dirty
        \/ timer = "error"
        \/ watcher.task = "handing"
        \/ watcher.task = "connecting" /\ watcher.cursor < feed
        \/ watcher.task = "open" /\ watcher.sent < feed
        \/ TokenStale

\* Every change of the queue is listed by some pass without the help of the
\* reconcile interval, unless the queue cannot be read or the token was
\* rotated ("nudges the controller whenever anything changes").
ChangesListed == unlisted ~> 
    (~unlisted \/ TokenStale \/ broken # "none" \/ life \in {"deleting", "gone"})

\* Left alone, the operator comes to rest: unless the world goes on acting (a
\* timer running out included), the passes that its own writes bring about,
\* to its status, its pods and its row, die out ("unconditional writes
\* self-trigger in a loop", prepare_status_patch).
ComesToRest == []<><<WorldStep>>_vars \/ <>[](pc = "idle" /\ ~queued)

\* "deletion must not wedge" (cleanup): a pool that is deleted goes, also with
\* its token secret gone, its queue out of reach and its claims refused to be
\* released, as long as Kubernetes takes the finalizer off.
DeletionEnds == life = "deleting" ~> (life = "gone" \/ broken = "status")

\* "release every claim we hold" before the pool goes: whatever pass, claim or
\* crash the deletion meets, a pool that is gone has no watcher left and no
\* claim, unless the cleanup could not list or release.
DeletionLeavesNothing ==
    life = "gone" => watcher.task = "off" /\ (row = "claimed" => unreleased)

=============================================================================
