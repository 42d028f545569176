SPECIFICATION Spec
CONSTANTS
  workload = workload
  gateway = gateway
  p1 = p1
  p2 = p2
  Objects = {workload, gateway, p1, p2}
  TypeOf <- OneType
  Workload = workload
  Replicas = 1
  Retries = 0
  UserPrefix = FALSE
  Sources = {"instance", "flag", "env", "context"}
  MaxStops = 1
  MaxFaults = 0
  MaxCreations = 0
INVARIANTS
  StoppedMeansNoPods
