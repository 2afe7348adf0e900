CONSTANTS
    Replicas = {r1, r2}
    Nobody = nobody
    LeaseDuration = 3
    RenewInterval = 1
    CallBound = 1
    MaxClock = 8
SPECIFICATION FailoverSpec
\* The clock stops at MaxClock, and the replicas' timers with it.
CHECK_DEADLOCK FALSE
INVARIANTS TypeOK LeaderNeverStale OneIdentity
PROPERTIES TakeoverAfterExpiry IdentityKept
