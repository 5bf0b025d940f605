SPECIFICATION Spec
CONSTANTS
  Ids = {s1, s2}
  NoId = NoId
  AlwaysOn = {s2}
  MaxTime = 3
  MaxLines = 2
  MaxInodes = 2
  Threshold = 1
  KeepMax = 2
  Percents = {4, 11, 16}
  Headroom = 15
  Refuse = 10
  Emergency = 5
  WakeCost = 2
  Scenarios <- Mix
CHECK_DEADLOCK FALSE
INVARIANTS
  TypeOK
  CheckpointBehindHandled
  IdleStopWasDue
  StopSparesWork
