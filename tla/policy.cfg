SPECIFICATION FairSpec
CONSTANTS
  Modes = {"off", "auto", "cilium", "gke"}
  Clusters <- AnyCluster
  Policies <- AllowLists
  Labels <- AnyLabels
  Infrastructure <- WorkerHosts
  Targets <- Endpoints
  MaxFaults = 2
INVARIANTS TypeOK NeverWider Enforced ReachesWhatItMay
PROPERTIES PolicyCollected
CHECK_DEADLOCK FALSE
