SPECIFICATION Spec
CONSTANTS
  Pids = {n1, n2}
  NoPid = NoPid
  MaxFastFails = 2
CHECK_DEADLOCK FALSE
PROPERTIES
  StopTerminatesGroup
