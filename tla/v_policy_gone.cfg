SPECIFICATION Spec
CONSTANTS
  Modes = {"cilium"}
  Clusters <- AnyCluster
  Policies <- AllowLists
  Labels <- AnyLabels
  Infrastructure <- WorkerHosts
  Targets <- Endpoints
  MaxFaults = 0
INVARIANT PolicyOutlivesPod
CHECK_DEADLOCK FALSE
