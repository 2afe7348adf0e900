SPECIFICATION FairSpec
CONSTANTS
  MaxLayers = 2
  MaxFaults = 4
INVARIANTS TypeOK LayerGoneIsAnswered ImagesAreWhole WorkerIsPrepared
PROPERTIES HomeKept LayerAnswered
CHECK_DEADLOCK FALSE
