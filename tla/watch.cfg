CONSTANTS
    MaxChanges = 1
    MaxFaults = 1
    Breakages = {"token", "list", "status"}
SPECIFICATION FairSpec
\* Once the pool is deleted nothing is left to do.
CHECK_DEADLOCK FALSE
INVARIANTS TypeOK NoLostWakeup DeletionLeavesNothing
PROPERTIES ChangesListed ComesToRest DeletionEnds
