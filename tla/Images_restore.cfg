SPECIFICATION MCSpec
CONSTANTS
  Workers = {w1, w2}
  NoWorker = NoWorker
  Retention = 0
  MaxTime = 1
  MaxVersion = 2
  Crashes = {"sandboxd"}
CHECK_DEADLOCK FALSE
SYMMETRY WorkerSymmetry
INVARIANT InterruptedRestoreRecoverable
