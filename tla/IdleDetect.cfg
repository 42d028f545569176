SPECIFICATION Spec
CONSTANTS
  s1 = s1
  s2 = s2
  None = None
  Servers = {s1, s2}
  Home <- RolePerServer
  NumWorkloads = 2
  HasGateway = FALSE
  Timeout = 2
  MaxRequests = 3
  MaxFaults = 2
INVARIANTS
  ShutdownNeedsEvidence
  PartialOnlyAfterFault
