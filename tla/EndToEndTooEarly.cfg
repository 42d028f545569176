SPECIFICATION Spec
CONSTANTS
  Roles = {prefill, decode}
  Picker = picker
  MaxFaults = 0
PROPERTIES
  ReadyWaits
CHECK_DEADLOCK FALSE
