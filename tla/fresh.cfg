CONSTANTS
    Us = us
    Rival = rival
    NoAcceptor = none
    Sessions = {1}
    MaxConcurrent = 1
    Policy = "StartFresh"
    MaxFaults = 1
    Disturbances <- FreshChurn
SPECIFICATION FairSpec
INVARIANTS TypeOK WorkerHasToken
PROPERTIES KeepsContract StartupFailureAcked
PROPERTIES OrphansReaped ClaimsServed SuspendCompletes
