CONSTANTS
    Us = us
    Rival = rival
    NoAcceptor = none
    Sessions = {1, 2}
    MaxConcurrent = 1
    Policy = "StartFresh"
    MaxFaults = 1
    Disturbances <- Crashes
SPECIFICATION Spec
INVARIANTS SlotsRespected
