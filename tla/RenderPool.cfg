CONSTANTS
  Requests <- MCRequests
  Clusters <- MCClusters
  Workloads <- MCWorkloads
  NoSpec <- MCNoSpec
SPECIFICATION Spec
CHECK_DEADLOCK FALSE
INVARIANTS
  PoolHasEveryServer
