SPECIFICATION RedeploySpec
CONSTANTS
  None = None
  Servers = {s1}
  Home <- OneRole
  NumWorkloads = 2
  NumRoles = 1
  HasGateway = TRUE
  Timeout = 1
  MaxRequests = 1
  MaxFaults = 0
  MaxDeploys = 1
INVARIANT
  UnwatchedMeansReleased
