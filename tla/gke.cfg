CONSTANTS
    Us = us
    Rival = rival
    NoAcceptor = none
    Sessions = {1}
    MaxConcurrent = 1
    Policy = "GkeSnapshot"
    MaxFaults = 1
    Disturbances <- GkeChurn
SPECIFICATION FairSpec
INVARIANTS SuspendNeedsFreshSnapshot
PROPERTIES ReleasesLast UnpinnedRetryStartsCold
PROPERTIES SuspendCompletes ClaimsServed
