--------------------------- MODULE QueueWatchProofs ---------------------------
(***************************************************************************)
(* No change of the queue is forgotten and no deleted pool leaves anything, *)
(* for any number of changes, breakages, crashes and rotated tokens.       *)
(***************************************************************************)
EXTENDS QueueWatch, TLAPS

\* No cursor is ahead of the feed, wherever it is kept.
CursorInv ==
    /\ watcher.cursor =< feed
    /\ status.cursor =< feed /\ cached.cursor =< feed /\ pool.cursor =< feed

\* What the pass and the controller's store say about the pool's life.
LifeInv ==
    /\ pc \in {"remove", "own", "release", "finalizer"} => life \in {"deleting", "gone"}
    /\ pc \in {"token", "list", "act", "start", "status"} => life \in {"held", "deleting"}
    /\ pc \in {"remove", "own", "release", "finalizer"} => known \in {"deleting", "gone"}
    /\ known = "held" => life \in {"held", "deleting"}
    /\ known = "deleting" => life \in {"deleting", "gone"}
    /\ known = "gone" /\ pc # "down" => life = "gone"

\* The requeue is the last thing a pass does.
TimerInv == pc # "idle" => timer = "off"

\* A pass over the queue is due in any case, or the pool has no use for one.
PassDue ==
    \/ pc \in {"down", "add", "token", "list"}
    \/ queued \/ dirty
    \/ timer = "error"
    \/ life \in {"deleting", "gone"}

\* Only before the first pass got that far is there no watcher.
WatcherInv ==
    watcher.task = "off" => \/ PassDue /\ pc \notin {"list", "act", "start", "status"}
                            \/ life \in {"deleting", "gone"}

\* A change not listed is ahead of the cursor, else it has been reported.  The
\* position of the stream alone would not do: a stream that ends goes back to
\* the cursor.
ReportInv ==
    unlisted =>
        \/ PassDue \/ TokenStale
        \/ watcher.task = "handing"
        \/ watcher.task \in {"connecting", "open"} /\ watcher.cursor < feed

\* A stream starts at the cursor and moves it along; no token is from the
\* future.
StreamInv ==
    /\ watcher.token =< token
    /\ watcher.task \in {"open", "handing"} => watcher.sent =< watcher.cursor

\* While a deleted pool is cleaned up nothing is claimed and no watcher is
\* started anew.
CleanupInv ==
    /\ life = "new" => watcher.task = "off" /\ row # "claimed"
    /\ pc \in {"own", "release", "finalizer"} => watcher.task = "off"
    /\ pc = "finalizer" => (row = "claimed" => unreleased)
    /\ DeletionLeavesNothing

-----------------------------------------------------------------------------
\* A merge patch keeps a status one, and its cursor behind the feed.
LEMMA MergeTyped ==
    ASSUME TypeOK, NEW new \in Statuses
    PROVE  /\ Merged(new) \in Statuses
           /\ CursorInv /\ new.cursor =< feed => Merged(new).cursor =< feed
BY DEF TypeOK, Statuses, Merged, CursorInv

\* Every step keeps the types.
LEMMA NextTypeOK ==
    ASSUME TypeOK, [Next]_vars
    PROVE  TypeOK'
<1> USE BoundsAssumption, BreakagesAssumption DEF TypeOK, Lives, Statuses, Failures, Watchers, Rows, object, control, pass, NoStatus
<1>1. ASSUME TakePoolEvent PROVE TypeOK'
  <2>1. dirty' \in BOOLEAN /\ queued' \in BOOLEAN
    BY <1>1, Zenon DEF TakePoolEvent
  <2> QED
    BY <1>1, <2>1 DEF TakePoolEvent
<1>2. ASSUME TimerFires PROVE TypeOK'
  BY <1>2 DEF TimerFires
<1>3. ASSUME BeginPass PROVE TypeOK'
  <2>1. queued' \in BOOLEAN
    BY <1>3, Zenon DEF BeginPass
  <2> QED
    BY <1>3, <2>1 DEF BeginPass, FirstStep
<1>4. ASSUME GiveUpPass PROVE TypeOK'
  <2>1. DegradedStatus \in Statuses
    BY <1>4 DEF GiveUpPass, DegradedStatus
  <2>2. Merged(DegradedStatus) \in Statuses
    BY <2>1, MergeTyped
  <2>3. dirty' \in BOOLEAN
    BY <1>4, Zenon DEF GiveUpPass, Finish
  <2>4. status' \in Statuses
    BY <1>4, <2>2 DEF GiveUpPass, Finish
  <2> QED
    BY <1>4, <2>3, <2>4 DEF GiveUpPass, Finish, Ended
<1>5. ASSUME EnsureWatcher PROVE TypeOK'
  BY <1>5 DEF EnsureWatcher
<1>6. ASSUME ListQueue PROVE TypeOK'
  <2>1. unlisted' \in BOOLEAN
    BY <1>6, Zenon DEF ListQueue
  <2> QED
    BY <1>6, <2>1 DEF ListQueue
<1>7. ASSUME Act PROVE TypeOK'
  <2>1. worker' \in BOOLEAN /\ queued' \in BOOLEAN /\ unlisted' \in BOOLEAN
    BY <1>7, Zenon DEF Act
  <2> QED
    BY <1>7, <2>1 DEF Act
<1>8. ASSUME StartWorker PROVE TypeOK'
  BY <1>8 DEF StartWorker
<1>9. ASSUME EndPass PROVE TypeOK'
  <2>1. FullStatus \in Statuses
    BY <1>9 DEF EndPass, FullStatus
  <2>2. Merged(FullStatus) \in Statuses
    BY <2>1, MergeTyped
  <2>3. dirty' \in BOOLEAN
    BY <1>9, Zenon DEF EndPass, Finish
  <2>4. status' \in Statuses
    BY <1>9, <2>2 DEF EndPass, Finish
  <2> QED
    BY <1>9, <2>3, <2>4 DEF EndPass, Finish, Ended
<1>10. ASSUME AddFinalizer PROVE TypeOK'
  BY <1>10 DEF AddFinalizer, FinalizerOnly, FinalizerDone, Ended
<1>11. ASSUME StopWatcher PROVE TypeOK'
  BY <1>11 DEF StopWatcher, FinalizerOnly, StillUnreleased, NoWatcher
<1>12. ASSUME ListOwn PROVE TypeOK'
  BY <1>12 DEF ListOwn, FinalizerOnly, StillUnreleased, OwnClaims
<1>13. ASSUME ReleaseOwn PROVE TypeOK'
  BY <1>13 DEF ReleaseOwn, FinalizerOnly
<1>14. ASSUME RemoveFinalizer PROVE TypeOK'
  BY <1>14 DEF RemoveFinalizer, FinalizerOnly, FinalizerDone, Ended
<1>15. ASSUME CleanupFails PROVE TypeOK'
  BY <1>15 DEF CleanupFails, FinalizerOnly, FinalizerDone, Ended
<1>16. ASSUME WatchConnect PROVE TypeOK'
  <2>1. watcher' = [task |-> "open", cursor |-> watcher.cursor,
                   sent |-> watcher.cursor - 1, token |-> watcher.token]
    BY <1>16 DEF WatchConnect
  <2>2. watcher' \in Watchers
    BY <2>1
  <2> QED
    BY <1>16, <2>2 DEF WatchConnect, WatcherOnly
<1>17. ASSUME WatchEvent PROVE TypeOK'
  <2>1. PICK at \in (watcher.sent + 1)..feed :
            /\ at > 0
            /\ watcher' = [watcher EXCEPT !.task = "handing", !.cursor = at, !.sent = at]
    BY <1>17 DEF WatchEvent
  <2>2. watcher' = [task |-> "handing", cursor |-> at, sent |-> at, token |-> watcher.token]
    BY <2>1
  <2>3. watcher' \in Watchers
    BY <2>1, <2>2
  <2> QED
    BY <1>17, <2>3 DEF WatchEvent, WatcherOnly
<1>18. ASSUME WatchSend PROVE TypeOK'
  BY <1>18 DEF WatchSend, WatcherOnly
<1>19. ASSUME WatchEnds PROVE TypeOK'
  <2>1. watcher' = [task |-> "connecting", cursor |-> watcher.cursor,
                   sent |-> 0, token |-> watcher.token]
    BY <1>19 DEF WatchEnds
  <2>2. watcher' \in Watchers
    BY <2>1
  <2> QED
    BY <1>19, <2>2 DEF WatchEnds, WatcherOnly
<1>20. ASSUME RowChanges PROVE TypeOK'
  BY <1>20 DEF RowChanges
<1>21. ASSUME PodLost PROVE TypeOK'
  <2>1. worker' \in BOOLEAN
    BY <1>21, Zenon DEF PodLost
  <2> QED
    BY <1>21, <2>1 DEF PodLost, Fault
<1>22. ASSUME RotateToken PROVE TypeOK'
  BY <1>22 DEF RotateToken, Fault
<1>23. ASSUME StatusAges PROVE TypeOK'
  BY <1>23 DEF StatusAges
<1>24. ASSUME Break PROVE TypeOK'
  BY <1>24 DEF Break, Fault
<1>25. ASSUME Mend PROVE TypeOK'
  BY <1>25 DEF Mend
<1>26. ASSUME Crash PROVE TypeOK'
  <2>1. dirty' \in BOOLEAN /\ queued' \in BOOLEAN
    BY <1>26, Zenon DEF Crash
  <2> QED
    BY <1>26, <2>1 DEF Crash, Fault, NoWatcher
<1>27. ASSUME DeletePool PROVE TypeOK'
  BY <1>27 DEF DeletePool
<1>28. ASSUME Restart PROVE TypeOK'
  BY <1>28 DEF Restart
<1>29. CASE UNCHANGED vars
  BY <1>29 DEF vars
<1> QED
  BY <1>1, <1>2, <1>3, <1>4, <1>5, <1>6, <1>7, <1>8, <1>9, <1>10, <1>11, <1>12, <1>13, <1>14, <1>15,
     <1>16, <1>17, <1>18, <1>19, <1>20, <1>21, <1>22, <1>23, <1>24, <1>25, <1>26, <1>27, <1>28, <1>29
    DEF Next, PassStep, FinalizerStep, ControllerStep, WatcherStep, WorldStep

\* Every step keeps the cursors behind the feed.
LEMMA NextCursorInv ==
    ASSUME TypeOK, CursorInv, [Next]_vars
    PROVE  CursorInv'
<1> USE BoundsAssumption, BreakagesAssumption DEF TypeOK, CursorInv, Statuses, Watchers, object, control, pass, NoStatus
<1>1. ASSUME TakePoolEvent PROVE CursorInv'
  BY <1>1 DEF TakePoolEvent
<1>2. ASSUME TimerFires PROVE CursorInv'
  BY <1>2 DEF TimerFires
<1>3. ASSUME BeginPass PROVE CursorInv'
  BY <1>3 DEF BeginPass, FirstStep
<1>4. ASSUME GiveUpPass PROVE CursorInv'
  <2>1. DegradedStatus \in Statuses /\ DegradedStatus.cursor =< feed
    BY <1>4 DEF GiveUpPass, DegradedStatus, Failures
  <2>2. Merged(DegradedStatus).cursor =< feed
    BY <2>1, MergeTyped
  <2> QED
    BY <1>4, <2>2 DEF GiveUpPass, Finish, Ended
<1>5. ASSUME EnsureWatcher PROVE CursorInv'
  BY <1>5 DEF EnsureWatcher
<1>6. ASSUME ListQueue PROVE CursorInv'
  BY <1>6 DEF ListQueue
<1>7. ASSUME Act PROVE CursorInv'
  BY <1>7 DEF Act, WorkerDue
<1>8. ASSUME StartWorker PROVE CursorInv'
  BY <1>8 DEF StartWorker
<1>9. ASSUME EndPass PROVE CursorInv'
  BY <1>9 DEF EndPass, Finish, Patched, Ended, Merged, FullStatus
<1>10. ASSUME AddFinalizer PROVE CursorInv'
  BY <1>10 DEF AddFinalizer, FinalizerOnly, FinalizerDone, Ended
<1>11. ASSUME StopWatcher PROVE CursorInv'
  BY <1>11 DEF StopWatcher, FinalizerOnly, StillUnreleased, NoWatcher
<1>12. ASSUME ListOwn PROVE CursorInv'
  BY <1>12 DEF ListOwn, FinalizerOnly, StillUnreleased, OwnClaims
<1>13. ASSUME ReleaseOwn PROVE CursorInv'
  BY <1>13 DEF ReleaseOwn, FinalizerOnly
<1>14. ASSUME RemoveFinalizer PROVE CursorInv'
  BY <1>14 DEF RemoveFinalizer, FinalizerOnly, FinalizerDone, Ended
<1>15. ASSUME CleanupFails PROVE CursorInv'
  BY <1>15 DEF CleanupFails, FinalizerOnly, FinalizerDone, Ended
<1>16. ASSUME WatchConnect PROVE CursorInv'
  BY <1>16 DEF WatchConnect, WatcherOnly
<1>17. ASSUME WatchEvent PROVE CursorInv'
  BY <1>17 DEF WatchEvent, WatcherOnly
<1>18. ASSUME WatchSend PROVE CursorInv'
  BY <1>18 DEF WatchSend, WatcherOnly
<1>19. ASSUME WatchEnds PROVE CursorInv'
  BY <1>19 DEF WatchEnds, WatcherOnly
<1>20. ASSUME RowChanges PROVE CursorInv'
  BY <1>20 DEF RowChanges
<1>21. ASSUME PodLost PROVE CursorInv'
  BY <1>21 DEF PodLost, Fault
<1>22. ASSUME RotateToken PROVE CursorInv'
  BY <1>22 DEF RotateToken, Fault
<1>23. ASSUME StatusAges PROVE CursorInv'
  BY <1>23 DEF StatusAges
<1>24. ASSUME Break PROVE CursorInv'
  BY <1>24 DEF Break, Fault
<1>25. ASSUME Mend PROVE CursorInv'
  BY <1>25 DEF Mend
<1>26. ASSUME Crash PROVE CursorInv'
  BY <1>26 DEF Crash, Fault, NoWatcher
<1>27. ASSUME DeletePool PROVE CursorInv'
  BY <1>27 DEF DeletePool
<1>28. ASSUME Restart PROVE CursorInv'
  BY <1>28 DEF Restart
<1>29. CASE UNCHANGED vars
  BY <1>29 DEF vars
<1> QED
  BY <1>1, <1>2, <1>3, <1>4, <1>5, <1>6, <1>7, <1>8, <1>9, <1>10, <1>11, <1>12, <1>13, <1>14, <1>15,
     <1>16, <1>17, <1>18, <1>19, <1>20, <1>21, <1>22, <1>23, <1>24, <1>25, <1>26, <1>27, <1>28, <1>29
    DEF Next, PassStep, FinalizerStep, ControllerStep, WatcherStep, WorldStep

\* Every step keeps what is known of the pool's life.
LEMMA NextLifeInv ==
    ASSUME TypeOK, LifeInv, [Next]_vars
    PROVE  LifeInv'
<1> USE BoundsAssumption, BreakagesAssumption DEF TypeOK, LifeInv, Lives, object, control, pass, NoStatus
<1>1. ASSUME TakePoolEvent PROVE LifeInv'
  BY <1>1 DEF TakePoolEvent
<1>2. ASSUME TimerFires PROVE LifeInv'
  BY <1>2 DEF TimerFires
<1>3. ASSUME BeginPass PROVE LifeInv'
  BY <1>3 DEF BeginPass, FirstStep
<1>4. ASSUME GiveUpPass PROVE LifeInv'
  BY <1>4 DEF GiveUpPass, Finish, Patched, Ended, Merged, DegradedStatus
<1>5. ASSUME EnsureWatcher PROVE LifeInv'
  BY <1>5 DEF EnsureWatcher
<1>6. ASSUME ListQueue PROVE LifeInv'
  BY <1>6 DEF ListQueue
<1>7. ASSUME Act PROVE LifeInv'
  BY <1>7 DEF Act, WorkerDue
<1>8. ASSUME StartWorker PROVE LifeInv'
  BY <1>8 DEF StartWorker
<1>9. ASSUME EndPass PROVE LifeInv'
  BY <1>9 DEF EndPass, Finish, Patched, Ended, Merged, FullStatus
<1>10. ASSUME AddFinalizer PROVE LifeInv'
  BY <1>10 DEF AddFinalizer, FinalizerOnly, FinalizerDone, Ended
<1>11. ASSUME StopWatcher PROVE LifeInv'
  BY <1>11 DEF StopWatcher, FinalizerOnly, StillUnreleased, NoWatcher
<1>12. ASSUME ListOwn PROVE LifeInv'
  BY <1>12 DEF ListOwn, FinalizerOnly, StillUnreleased, OwnClaims
<1>13. ASSUME ReleaseOwn PROVE LifeInv'
  BY <1>13 DEF ReleaseOwn, FinalizerOnly
<1>14. ASSUME RemoveFinalizer PROVE LifeInv'
  BY <1>14 DEF RemoveFinalizer, FinalizerOnly, FinalizerDone, Ended
<1>15. ASSUME CleanupFails PROVE LifeInv'
  BY <1>15 DEF CleanupFails, FinalizerOnly, FinalizerDone, Ended
<1>16. ASSUME WatchConnect PROVE LifeInv'
  BY <1>16 DEF WatchConnect, WatcherOnly
<1>17. ASSUME WatchEvent PROVE LifeInv'
  BY <1>17 DEF WatchEvent, WatcherOnly
<1>18. ASSUME WatchSend PROVE LifeInv'
  BY <1>18 DEF WatchSend, WatcherOnly
<1>19. ASSUME WatchEnds PROVE LifeInv'
  BY <1>19 DEF WatchEnds, WatcherOnly
<1>20. ASSUME RowChanges PROVE LifeInv'
  BY <1>20 DEF RowChanges
<1>21. ASSUME PodLost PROVE LifeInv'
  BY <1>21 DEF PodLost, Fault
<1>22. ASSUME RotateToken PROVE LifeInv'
  BY <1>22 DEF RotateToken, Fault
<1>23. ASSUME StatusAges PROVE LifeInv'
  BY <1>23 DEF StatusAges
<1>24. ASSUME Break PROVE LifeInv'
  BY <1>24 DEF Break, Fault
<1>25. ASSUME Mend PROVE LifeInv'
  BY <1>25 DEF Mend
<1>26. ASSUME Crash PROVE LifeInv'
  BY <1>26 DEF Crash, Fault, NoWatcher
<1>27. ASSUME DeletePool PROVE LifeInv'
  BY <1>27 DEF DeletePool
<1>28. ASSUME Restart PROVE LifeInv'
  BY <1>28 DEF Restart
<1>29. CASE UNCHANGED vars
  BY <1>29 DEF vars
<1> QED
  BY <1>1, <1>2, <1>3, <1>4, <1>5, <1>6, <1>7, <1>8, <1>9, <1>10, <1>11, <1>12, <1>13, <1>14, <1>15,
     <1>16, <1>17, <1>18, <1>19, <1>20, <1>21, <1>22, <1>23, <1>24, <1>25, <1>26, <1>27, <1>28, <1>29
    DEF Next, PassStep, FinalizerStep, ControllerStep, WatcherStep, WorldStep

\* Every step keeps the timer off while a pass runs.
LEMMA NextTimerInv ==
    ASSUME TypeOK, TimerInv, [Next]_vars
    PROVE  TimerInv'
<1> USE BoundsAssumption, BreakagesAssumption DEF TypeOK, TimerInv, object, control, pass, NoStatus
<1>1. ASSUME TakePoolEvent PROVE TimerInv'
  BY <1>1 DEF TakePoolEvent
<1>2. ASSUME TimerFires PROVE TimerInv'
  BY <1>2 DEF TimerFires
<1>3. ASSUME BeginPass PROVE TimerInv'
  BY <1>3 DEF BeginPass, FirstStep
<1>4. ASSUME GiveUpPass PROVE TimerInv'
  BY <1>4 DEF GiveUpPass, Finish, Patched, Ended, Merged, DegradedStatus
<1>5. ASSUME EnsureWatcher PROVE TimerInv'
  BY <1>5 DEF EnsureWatcher
<1>6. ASSUME ListQueue PROVE TimerInv'
  BY <1>6 DEF ListQueue
<1>7. ASSUME Act PROVE TimerInv'
  BY <1>7 DEF Act, WorkerDue
<1>8. ASSUME StartWorker PROVE TimerInv'
  BY <1>8 DEF StartWorker
<1>9. ASSUME EndPass PROVE TimerInv'
  BY <1>9 DEF EndPass, Finish, Patched, Ended, Merged, FullStatus
<1>10. ASSUME AddFinalizer PROVE TimerInv'
  BY <1>10 DEF AddFinalizer, FinalizerOnly, FinalizerDone, Ended
<1>11. ASSUME StopWatcher PROVE TimerInv'
  BY <1>11 DEF StopWatcher, FinalizerOnly, StillUnreleased, NoWatcher
<1>12. ASSUME ListOwn PROVE TimerInv'
  BY <1>12 DEF ListOwn, FinalizerOnly, StillUnreleased, OwnClaims
<1>13. ASSUME ReleaseOwn PROVE TimerInv'
  BY <1>13 DEF ReleaseOwn, FinalizerOnly
<1>14. ASSUME RemoveFinalizer PROVE TimerInv'
  BY <1>14 DEF RemoveFinalizer, FinalizerOnly, FinalizerDone, Ended
<1>15. ASSUME CleanupFails PROVE TimerInv'
  BY <1>15 DEF CleanupFails, FinalizerOnly, FinalizerDone, Ended
<1>16. ASSUME WatchConnect PROVE TimerInv'
  BY <1>16 DEF WatchConnect, WatcherOnly
<1>17. ASSUME WatchEvent PROVE TimerInv'
  BY <1>17 DEF WatchEvent, WatcherOnly
<1>18. ASSUME WatchSend PROVE TimerInv'
  BY <1>18 DEF WatchSend, WatcherOnly
<1>19. ASSUME WatchEnds PROVE TimerInv'
  BY <1>19 DEF WatchEnds, WatcherOnly
<1>20. ASSUME RowChanges PROVE TimerInv'
  BY <1>20 DEF RowChanges
<1>21. ASSUME PodLost PROVE TimerInv'
  BY <1>21 DEF PodLost, Fault
<1>22. ASSUME RotateToken PROVE TimerInv'
  BY <1>22 DEF RotateToken, Fault
<1>23. ASSUME StatusAges PROVE TimerInv'
  BY <1>23 DEF StatusAges
<1>24. ASSUME Break PROVE TimerInv'
  BY <1>24 DEF Break, Fault
<1>25. ASSUME Mend PROVE TimerInv'
  BY <1>25 DEF Mend
<1>26. ASSUME Crash PROVE TimerInv'
  BY <1>26 DEF Crash, Fault, NoWatcher
<1>27. ASSUME DeletePool PROVE TimerInv'
  BY <1>27 DEF DeletePool
<1>28. ASSUME Restart PROVE TimerInv'
  BY <1>28 DEF Restart
<1>29. CASE UNCHANGED vars
  BY <1>29 DEF vars
<1> QED
  BY <1>1, <1>2, <1>3, <1>4, <1>5, <1>6, <1>7, <1>8, <1>9, <1>10, <1>11, <1>12, <1>13, <1>14, <1>15,
     <1>16, <1>17, <1>18, <1>19, <1>20, <1>21, <1>22, <1>23, <1>24, <1>25, <1>26, <1>27, <1>28, <1>29
    DEF Next, PassStep, FinalizerStep, ControllerStep, WatcherStep, WorldStep

\* Every step keeps a watcher, or a pass that will start one.
LEMMA NextWatcherInv ==
    ASSUME TypeOK, LifeInv, TimerInv, WatcherInv, [Next]_vars
    PROVE  WatcherInv'
<1> USE BoundsAssumption, BreakagesAssumption DEF TypeOK, LifeInv, TimerInv, WatcherInv, PassDue, Lives, Watchers, object, control, pass, NoStatus
<1>1. ASSUME TakePoolEvent PROVE WatcherInv'
  BY <1>1 DEF TakePoolEvent
<1>2. ASSUME TimerFires PROVE WatcherInv'
  BY <1>2 DEF TimerFires
<1>3. ASSUME BeginPass PROVE WatcherInv'
  BY <1>3 DEF BeginPass, FirstStep
<1>4. ASSUME GiveUpPass PROVE WatcherInv'
  BY <1>4 DEF GiveUpPass, Finish, Patched, Ended, Merged, DegradedStatus
<1>5. ASSUME EnsureWatcher PROVE WatcherInv'
  BY <1>5 DEF EnsureWatcher
<1>6. ASSUME ListQueue PROVE WatcherInv'
  BY <1>6 DEF ListQueue
<1>7. ASSUME Act PROVE WatcherInv'
  BY <1>7 DEF Act, WorkerDue
<1>8. ASSUME StartWorker PROVE WatcherInv'
  BY <1>8 DEF StartWorker
<1>9. ASSUME EndPass PROVE WatcherInv'
  BY <1>9 DEF EndPass, Finish, Patched, Ended, Merged, FullStatus
<1>10. ASSUME AddFinalizer PROVE WatcherInv'
  BY <1>10 DEF AddFinalizer, FinalizerOnly, FinalizerDone, Ended
<1>11. ASSUME StopWatcher PROVE WatcherInv'
  BY <1>11 DEF StopWatcher, FinalizerOnly, StillUnreleased, NoWatcher
<1>12. ASSUME ListOwn PROVE WatcherInv'
  BY <1>12 DEF ListOwn, FinalizerOnly, StillUnreleased, OwnClaims
<1>13. ASSUME ReleaseOwn PROVE WatcherInv'
  BY <1>13 DEF ReleaseOwn, FinalizerOnly
<1>14. ASSUME RemoveFinalizer PROVE WatcherInv'
  BY <1>14 DEF RemoveFinalizer, FinalizerOnly, FinalizerDone, Ended
<1>15. ASSUME CleanupFails PROVE WatcherInv'
  BY <1>15 DEF CleanupFails, FinalizerOnly, FinalizerDone, Ended
<1>16. ASSUME WatchConnect PROVE WatcherInv'
  BY <1>16 DEF WatchConnect, WatcherOnly
<1>17. ASSUME WatchEvent PROVE WatcherInv'
  BY <1>17 DEF WatchEvent, WatcherOnly
<1>18. ASSUME WatchSend PROVE WatcherInv'
  BY <1>18 DEF WatchSend, WatcherOnly
<1>19. ASSUME WatchEnds PROVE WatcherInv'
  BY <1>19 DEF WatchEnds, WatcherOnly
<1>20. ASSUME RowChanges PROVE WatcherInv'
  BY <1>20 DEF RowChanges
<1>21. ASSUME PodLost PROVE WatcherInv'
  BY <1>21 DEF PodLost, Fault
<1>22. ASSUME RotateToken PROVE WatcherInv'
  BY <1>22 DEF RotateToken, Fault
<1>23. ASSUME StatusAges PROVE WatcherInv'
  BY <1>23 DEF StatusAges
<1>24. ASSUME Break PROVE WatcherInv'
  BY <1>24 DEF Break, Fault
<1>25. ASSUME Mend PROVE WatcherInv'
  BY <1>25 DEF Mend
<1>26. ASSUME Crash PROVE WatcherInv'
  BY <1>26 DEF Crash, Fault, NoWatcher
<1>27. ASSUME DeletePool PROVE WatcherInv'
  BY <1>27 DEF DeletePool
<1>28. ASSUME Restart PROVE WatcherInv'
  BY <1>28 DEF Restart
<1>29. CASE UNCHANGED vars
  BY <1>29 DEF vars
<1> QED
  BY <1>1, <1>2, <1>3, <1>4, <1>5, <1>6, <1>7, <1>8, <1>9, <1>10, <1>11, <1>12, <1>13, <1>14, <1>15,
     <1>16, <1>17, <1>18, <1>19, <1>20, <1>21, <1>22, <1>23, <1>24, <1>25, <1>26, <1>27, <1>28, <1>29
    DEF Next, PassStep, FinalizerStep, ControllerStep, WatcherStep, WorldStep

\* Every step keeps track of a change not listed.
LEMMA NextReportInv ==
    ASSUME TypeOK, CursorInv, LifeInv, TimerInv, StreamInv, WatcherInv, ReportInv, [Next]_vars
    PROVE  ReportInv'
<1> USE BoundsAssumption, BreakagesAssumption DEF TypeOK, CursorInv, StreamInv, LifeInv, TimerInv, WatcherInv, ReportInv, PassDue, TokenStale, Lives, Watchers, Statuses, object, control, pass, NoStatus
<1>1. ASSUME TakePoolEvent PROVE ReportInv'
  BY <1>1 DEF TakePoolEvent
<1>2. ASSUME TimerFires PROVE ReportInv'
  BY <1>2 DEF TimerFires
<1>3. ASSUME BeginPass PROVE ReportInv'
  BY <1>3 DEF BeginPass, FirstStep
<1>4. ASSUME GiveUpPass PROVE ReportInv'
  BY <1>4 DEF GiveUpPass, Finish, Patched, Ended, Merged, DegradedStatus
<1>5. ASSUME EnsureWatcher PROVE ReportInv'
  BY <1>5 DEF EnsureWatcher
<1>6. ASSUME ListQueue PROVE ReportInv'
  BY <1>6 DEF ListQueue
<1>7. ASSUME Act PROVE ReportInv'
  <2>1. CASE row' = "claimed" /\ feed' = feed + 1
    BY <1>7, <2>1 DEF Act
  <2>2. CASE UNCHANGED <<feed, unlisted>>
    BY <1>7, <2>2 DEF Act
  <2> QED
    BY <1>7, <2>1, <2>2 DEF Act
<1>8. ASSUME StartWorker PROVE ReportInv'
  BY <1>8 DEF StartWorker
<1>9. ASSUME EndPass PROVE ReportInv'
  BY <1>9 DEF EndPass, Finish, Patched, Ended, Merged, FullStatus
<1>10. ASSUME AddFinalizer PROVE ReportInv'
  BY <1>10 DEF AddFinalizer, FinalizerOnly, FinalizerDone, Ended
<1>11. ASSUME StopWatcher PROVE ReportInv'
  BY <1>11 DEF StopWatcher, FinalizerOnly, StillUnreleased, NoWatcher
<1>12. ASSUME ListOwn PROVE ReportInv'
  BY <1>12 DEF ListOwn, FinalizerOnly, StillUnreleased, OwnClaims
<1>13. ASSUME ReleaseOwn PROVE ReportInv'
  BY <1>13 DEF ReleaseOwn, FinalizerOnly
<1>14. ASSUME RemoveFinalizer PROVE ReportInv'
  BY <1>14 DEF RemoveFinalizer, FinalizerOnly, FinalizerDone, Ended
<1>15. ASSUME CleanupFails PROVE ReportInv'
  BY <1>15 DEF CleanupFails, FinalizerOnly, FinalizerDone, Ended
<1>16. ASSUME WatchConnect PROVE ReportInv'
  BY <1>16 DEF WatchConnect, WatcherOnly
<1>17. ASSUME WatchEvent PROVE ReportInv'
  BY <1>17 DEF WatchEvent, WatcherOnly
<1>18. ASSUME WatchSend PROVE ReportInv'
  BY <1>18 DEF WatchSend, WatcherOnly
<1>19. ASSUME WatchEnds PROVE ReportInv'
  BY <1>19 DEF WatchEnds, WatcherOnly
<1>20. ASSUME RowChanges PROVE ReportInv'
  BY <1>20 DEF RowChanges
<1>21. ASSUME PodLost PROVE ReportInv'
  BY <1>21 DEF PodLost, Fault
<1>22. ASSUME RotateToken PROVE ReportInv'
  BY <1>22 DEF RotateToken, Fault
<1>23. ASSUME StatusAges PROVE ReportInv'
  BY <1>23 DEF StatusAges
<1>24. ASSUME Break PROVE ReportInv'
  BY <1>24 DEF Break, Fault
<1>25. ASSUME Mend PROVE ReportInv'
  BY <1>25 DEF Mend
<1>26. ASSUME Crash PROVE ReportInv'
  BY <1>26 DEF Crash, Fault, NoWatcher
<1>27. ASSUME DeletePool PROVE ReportInv'
  BY <1>27 DEF DeletePool
<1>28. ASSUME Restart PROVE ReportInv'
  BY <1>28 DEF Restart
<1>29. CASE UNCHANGED vars
  BY <1>29 DEF vars
<1> QED
  BY <1>1, <1>2, <1>3, <1>4, <1>5, <1>6, <1>7, <1>8, <1>9, <1>10, <1>11, <1>12, <1>13, <1>14, <1>15,
     <1>16, <1>17, <1>18, <1>19, <1>20, <1>21, <1>22, <1>23, <1>24, <1>25, <1>26, <1>27, <1>28, <1>29
    DEF Next, PassStep, FinalizerStep, ControllerStep, WatcherStep, WorldStep

\* Every step keeps the stream behind the cursor.
LEMMA NextStreamInv ==
    ASSUME TypeOK, StreamInv, [Next]_vars
    PROVE  StreamInv'
<1> USE BoundsAssumption, BreakagesAssumption DEF TypeOK, StreamInv, Watchers, object, control, pass, NoStatus
<1>1. ASSUME TakePoolEvent PROVE StreamInv'
  BY <1>1 DEF TakePoolEvent
<1>2. ASSUME TimerFires PROVE StreamInv'
  BY <1>2 DEF TimerFires
<1>3. ASSUME BeginPass PROVE StreamInv'
  BY <1>3 DEF BeginPass, FirstStep
<1>4. ASSUME GiveUpPass PROVE StreamInv'
  BY <1>4 DEF GiveUpPass, Finish, Patched, Ended, Merged, DegradedStatus
<1>5. ASSUME EnsureWatcher PROVE StreamInv'
  BY <1>5 DEF EnsureWatcher
<1>6. ASSUME ListQueue PROVE StreamInv'
  BY <1>6 DEF ListQueue
<1>7. ASSUME Act PROVE StreamInv'
  BY <1>7 DEF Act, WorkerDue
<1>8. ASSUME StartWorker PROVE StreamInv'
  BY <1>8 DEF StartWorker
<1>9. ASSUME EndPass PROVE StreamInv'
  BY <1>9 DEF EndPass, Finish, Patched, Ended, Merged, FullStatus
<1>10. ASSUME AddFinalizer PROVE StreamInv'
  BY <1>10 DEF AddFinalizer, FinalizerOnly, FinalizerDone, Ended
<1>11. ASSUME StopWatcher PROVE StreamInv'
  BY <1>11 DEF StopWatcher, FinalizerOnly, StillUnreleased, NoWatcher
<1>12. ASSUME ListOwn PROVE StreamInv'
  BY <1>12 DEF ListOwn, FinalizerOnly, StillUnreleased, OwnClaims
<1>13. ASSUME ReleaseOwn PROVE StreamInv'
  BY <1>13 DEF ReleaseOwn, FinalizerOnly
<1>14. ASSUME RemoveFinalizer PROVE StreamInv'
  BY <1>14 DEF RemoveFinalizer, FinalizerOnly, FinalizerDone, Ended
<1>15. ASSUME CleanupFails PROVE StreamInv'
  BY <1>15 DEF CleanupFails, FinalizerOnly, FinalizerDone, Ended
<1>16. ASSUME WatchConnect PROVE StreamInv'
  BY <1>16 DEF WatchConnect, WatcherOnly
<1>17. ASSUME WatchEvent PROVE StreamInv'
  BY <1>17 DEF WatchEvent, WatcherOnly
<1>18. ASSUME WatchSend PROVE StreamInv'
  BY <1>18 DEF WatchSend, WatcherOnly
<1>19. ASSUME WatchEnds PROVE StreamInv'
  BY <1>19 DEF WatchEnds, WatcherOnly
<1>20. ASSUME RowChanges PROVE StreamInv'
  BY <1>20 DEF RowChanges
<1>21. ASSUME PodLost PROVE StreamInv'
  BY <1>21 DEF PodLost, Fault
<1>22. ASSUME RotateToken PROVE StreamInv'
  BY <1>22 DEF RotateToken, Fault
<1>23. ASSUME StatusAges PROVE StreamInv'
  BY <1>23 DEF StatusAges
<1>24. ASSUME Break PROVE StreamInv'
  BY <1>24 DEF Break, Fault
<1>25. ASSUME Mend PROVE StreamInv'
  BY <1>25 DEF Mend
<1>26. ASSUME Crash PROVE StreamInv'
  BY <1>26 DEF Crash, Fault, NoWatcher
<1>27. ASSUME DeletePool PROVE StreamInv'
  BY <1>27 DEF DeletePool
<1>28. ASSUME Restart PROVE StreamInv'
  BY <1>28 DEF Restart
<1>29. CASE UNCHANGED vars
  BY <1>29 DEF vars
<1> QED
  BY <1>1, <1>2, <1>3, <1>4, <1>5, <1>6, <1>7, <1>8, <1>9, <1>10, <1>11, <1>12, <1>13, <1>14, <1>15,
     <1>16, <1>17, <1>18, <1>19, <1>20, <1>21, <1>22, <1>23, <1>24, <1>25, <1>26, <1>27, <1>28, <1>29
    DEF Next, PassStep, FinalizerStep, ControllerStep, WatcherStep, WorldStep

\* Every step keeps a deleted pool free of claims and watchers.
LEMMA NextCleanupInv ==
    ASSUME TypeOK, LifeInv, CleanupInv, [Next]_vars
    PROVE  CleanupInv'
<1> USE BoundsAssumption, BreakagesAssumption DEF TypeOK, LifeInv, CleanupInv, DeletionLeavesNothing, Lives, Watchers, Rows, object, control, pass, NoStatus
<1>1. ASSUME TakePoolEvent PROVE CleanupInv'
  BY <1>1 DEF TakePoolEvent
<1>2. ASSUME TimerFires PROVE CleanupInv'
  BY <1>2 DEF TimerFires
<1>3. ASSUME BeginPass PROVE CleanupInv'
  BY <1>3 DEF BeginPass, FirstStep
<1>4. ASSUME GiveUpPass PROVE CleanupInv'
  BY <1>4 DEF GiveUpPass, Finish, Patched, Ended, Merged, DegradedStatus
<1>5. ASSUME EnsureWatcher PROVE CleanupInv'
  BY <1>5 DEF EnsureWatcher
<1>6. ASSUME ListQueue PROVE CleanupInv'
  BY <1>6 DEF ListQueue
<1>7. ASSUME Act PROVE CleanupInv'
  BY <1>7 DEF Act, WorkerDue
<1>8. ASSUME StartWorker PROVE CleanupInv'
  BY <1>8 DEF StartWorker
<1>9. ASSUME EndPass PROVE CleanupInv'
  BY <1>9 DEF EndPass, Finish, Patched, Ended, Merged, FullStatus
<1>10. ASSUME AddFinalizer PROVE CleanupInv'
  BY <1>10 DEF AddFinalizer, FinalizerOnly, FinalizerDone, Ended
<1>11. ASSUME StopWatcher PROVE CleanupInv'
  BY <1>11 DEF StopWatcher, FinalizerOnly, StillUnreleased, NoWatcher
<1>12. ASSUME ListOwn PROVE CleanupInv'
  BY <1>12 DEF ListOwn, FinalizerOnly, StillUnreleased, OwnClaims
<1>13. ASSUME ReleaseOwn PROVE CleanupInv'
  BY <1>13 DEF ReleaseOwn, FinalizerOnly
<1>14. ASSUME RemoveFinalizer PROVE CleanupInv'
  BY <1>14 DEF RemoveFinalizer, FinalizerOnly, FinalizerDone, Ended
<1>15. ASSUME CleanupFails PROVE CleanupInv'
  BY <1>15 DEF CleanupFails, FinalizerOnly, FinalizerDone, Ended
<1>16. ASSUME WatchConnect PROVE CleanupInv'
  BY <1>16 DEF WatchConnect, WatcherOnly
<1>17. ASSUME WatchEvent PROVE CleanupInv'
  BY <1>17 DEF WatchEvent, WatcherOnly
<1>18. ASSUME WatchSend PROVE CleanupInv'
  BY <1>18 DEF WatchSend, WatcherOnly
<1>19. ASSUME WatchEnds PROVE CleanupInv'
  BY <1>19 DEF WatchEnds, WatcherOnly
<1>20. ASSUME RowChanges PROVE CleanupInv'
  BY <1>20 DEF RowChanges
<1>21. ASSUME PodLost PROVE CleanupInv'
  BY <1>21 DEF PodLost, Fault
<1>22. ASSUME RotateToken PROVE CleanupInv'
  BY <1>22 DEF RotateToken, Fault
<1>23. ASSUME StatusAges PROVE CleanupInv'
  BY <1>23 DEF StatusAges
<1>24. ASSUME Break PROVE CleanupInv'
  BY <1>24 DEF Break, Fault
<1>25. ASSUME Mend PROVE CleanupInv'
  BY <1>25 DEF Mend
<1>26. ASSUME Crash PROVE CleanupInv'
  BY <1>26 DEF Crash, Fault, NoWatcher
<1>27. ASSUME DeletePool PROVE CleanupInv'
  BY <1>27 DEF DeletePool
<1>28. ASSUME Restart PROVE CleanupInv'
  BY <1>28 DEF Restart
<1>29. CASE UNCHANGED vars
  BY <1>29 DEF vars
<1> QED
  BY <1>1, <1>2, <1>3, <1>4, <1>5, <1>6, <1>7, <1>8, <1>9, <1>10, <1>11, <1>12, <1>13, <1>14, <1>15,
     <1>16, <1>17, <1>18, <1>19, <1>20, <1>21, <1>22, <1>23, <1>24, <1>25, <1>26, <1>27, <1>28, <1>29
    DEF Next, PassStep, FinalizerStep, ControllerStep, WatcherStep, WorldStep

-----------------------------------------------------------------------------
QueueInv ==
    /\ TypeOK /\ CursorInv /\ LifeInv /\ TimerInv
    /\ WatcherInv /\ ReportInv /\ StreamInv /\ CleanupInv

\* The inductive invariant of the watch, the pass and the finalizer.
THEOREM Invariant == Spec => []QueueInv
<1>1. Init => QueueInv
  <2> SUFFICES ASSUME Init PROVE QueueInv
    OBVIOUS
  <2> USE BoundsAssumption DEF Init, NoStatus, NoWatcher
  <2>1. TypeOK
    <3>1. worker \in BOOLEAN /\ dirty \in BOOLEAN /\ queued \in BOOLEAN
          /\ unreleased \in BOOLEAN /\ unlisted \in BOOLEAN
      BY Zenon
    <3> QED
      BY <3>1 DEF TypeOK, Lives, Statuses, Failures, Watchers, Rows
  <2>2. CursorInv /\ LifeInv /\ TimerInv
    BY DEF CursorInv, LifeInv, TimerInv
  <2>3. WatcherInv /\ ReportInv /\ StreamInv /\ CleanupInv
    BY DEF WatcherInv, ReportInv, StreamInv, CleanupInv, PassDue, DeletionLeavesNothing
  <2> QED
    BY <2>1, <2>2, <2>3 DEF QueueInv
<1>2. QueueInv /\ [Next]_vars => QueueInv'
  BY NextTypeOK, NextCursorInv, NextLifeInv, NextTimerInv, NextWatcherInv, NextReportInv,
     NextStreamInv, NextCleanupInv DEF QueueInv
<1> QED
  BY <1>1, <1>2, PTL DEF Spec

\* Every reachable state is well typed.
THEOREM TypeCorrect == Spec => []TypeOK
<1>1. QueueInv => TypeOK
  BY DEF QueueInv
<1> QED
  BY <1>1, Invariant, PTL

\* However changes, reconnects, crashes and failing passes interleave, a change
\* nobody has listed is about to be reported or to be listed (watch_loop, ensure,
\* apply).
THEOREM NothingForgotten == Spec => []NoLostWakeup
<1>1. QueueInv => NoLostWakeup
  BY DEF QueueInv, ReportInv, StreamInv, PassDue, NoLostWakeup, TypeOK, Watchers
<1> QED
  BY <1>1, Invariant, PTL

\* A pool that is gone has left no watcher, and no claim that could have been
\* released (cleanup).
THEOREM DeletionComplete == Spec => []DeletionLeavesNothing
<1>1. QueueInv => DeletionLeavesNothing
  BY DEF QueueInv, CleanupInv
<1> QED
  BY <1>1, Invariant, PTL

=============================================================================
