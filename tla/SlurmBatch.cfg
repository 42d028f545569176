SPECIFICATION Spec
CONSTANTS
  RoleCount = 1
  Proxied = {1}
  Attempts = 1
  Codes = {0, 17}
  MaxSignals = 1
  MaxExits = 2
INVARIANTS
  DirectoryOutlivesServices
  OnlyUnrecordedSurvives
  LeaksAreExplained
  StatusTellsTheCause
PROPERTIES
  AnyExitEndsAll
  SignalEndsScript
CHECK_DEADLOCK FALSE
