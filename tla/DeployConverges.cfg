SPECIFICATION Spec
CONSTANTS
  d1 = d1
  d2 = d2
  None = None
  Deployers = {d1}
  Jobs <- Evolving
  MaxDeploys = 4
  MaxFaults = 2
INVARIANTS
  SuccessConverges
  OneKindPerName
PROPERTIES
  FrontendReplacedFirst
  TemplatesInUseAreKept
