\* Both processes restart, store calls fail, answers are lost or late.
SPECIFICATION MCSpec
CONSTANTS
  Tasks = {t1, t2}
  NoTask = NoTask
  Faults = {"sandboxd", "runtimed", "store", "reply", "slow"}
  MaxAttempts = 2
  MaxRestarts = 3
CHECK_DEADLOCK FALSE
INVARIANTS
  AgentsNeverOverlap
  StoredSuccessIsReal
  VerdictSurvivesRestart
  RunningRowIsWatched
PROPERTIES
  TerminalRowIsFinal
  TrackedTaskEnds
