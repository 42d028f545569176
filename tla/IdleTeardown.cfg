SPECIFICATION FairSpec
CONSTANTS
  s1 = s1
  s2 = s2
  None = None
  Servers = {s1}
  Home <- OneRole
  NumWorkloads = 3
  HasGateway = TRUE
  Timeout = 1
  MaxRequests = 2
  MaxFaults = 4
INVARIANTS
  TypeOK
PROPERTIES
  ReleasesInOrder
  EventuallyReleased
