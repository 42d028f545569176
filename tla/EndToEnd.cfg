SPECIFICATION Spec
CONSTANTS
  Roles = {prefill, decode}
  Picker = picker
  MaxFaults = 2
INVARIANTS
  PassedMeansAnswered
  LeftoversAreReported
PROPERTIES
  OthersAreSpared
  AlwaysEnds
CHECK_DEADLOCK FALSE
