SPECIFICATION MCSpec
CONSTANTS
  Workers = {w1, w2}
  NoWorker = NoWorker
  Retention = 0
  MaxTime = 2
  MaxVersion = 2
  Crashes = {"sandboxd", "host"}
CHECK_DEADLOCK FALSE
SYMMETRY WorkerSymmetry
INVARIANTS
  TypeOK
  OriginalKept
PROPERTIES
  SnapshotHoldsLiveImage
  NewestSnapshotStays
