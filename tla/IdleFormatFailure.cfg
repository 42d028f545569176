SPECIFICATION Spec
CONSTANTS
  s1 = s1
  s2 = s2
  None = None
  Servers = {s1, s2}
  Home <- OneRole
  NumWorkloads = 1
  HasGateway = FALSE
  Timeout = 1
  MaxRequests = 2
  MaxFaults = 2
INVARIANTS
  FormatFailuresNeverTearDown
