CONSTANTS
    Us = us
    Rival = rival
    NoAcceptor = none
    Sessions = {1}
    MaxConcurrent = 1
    Policy = "GkeSnapshot"
    MaxFaults = 0
    Disturbances <- None
SPECIFICATION Spec
PROPERTIES CheckpointNotInterrupted
