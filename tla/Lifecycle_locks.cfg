\* Three mixes of operations and faults on one sandbox.
SPECIFICATION Spec
CONSTANTS
  Ids = {s1}
  Workers = {w1, w2, w3}
  NoId = NoId
  NoWorker = NoWorker
  Scenarios <- AnyMix
SYMMETRY WorkerSymmetry
INVARIANTS
  LockedSectionsExclusive
  OneWakeLeader
  NoAbandonedRider
  RowMatchesContainer
  SnapshotSeesStoppedContainer
  ReconciledRowsAgree
  CreatingRowHasCreator
PROPERTIES
  HardFailureReachesRiders
