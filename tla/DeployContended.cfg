SPECIFICATION Spec
CONSTANTS
  d1 = d1
  d2 = d2
  None = None
  Deployers = {d1, d2}
  Jobs <- Contended
  MaxDeploys = 3
  MaxFaults = 1
INVARIANTS
  SuccessConverges
PROPERTIES
  Isolated
  OnlyRacesHarm
SYMMETRY Symmetry
