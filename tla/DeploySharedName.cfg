SPECIFICATION Spec
CONSTANTS
  d1 = d1
  d2 = d2
  None = None
  Deployers = {d1}
  Jobs <- SharedName
  MaxDeploys = 2
  MaxFaults = 0
PROPERTIES
  Isolated
