SPECIFICATION FairSpec
CONSTANTS
  s1 = s1
  s2 = s2
  None = None
  Servers = {s1}
  Home <- OneRole
  NumWorkloads = 2
  HasGateway = TRUE
  Timeout = 1
  MaxRequests = 0
  MaxFaults = 1
PROPERTIES
  IdleInstanceIsReleased
