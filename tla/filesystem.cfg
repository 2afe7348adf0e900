CONSTANTS
    Us = us
    Rival = rival
    NoAcceptor = none
    Sessions = {1}
    MaxConcurrent = 1
    Policy = "FilesystemSnapshot"
    MaxFaults = 1
    Disturbances <- FilesystemChurn
SPECIFICATION FairSpec
PROPERTIES ShelvedVolumesCollected
