SPECIFICATION FairSpec
CONSTANTS
  Clients = {c1, c2}
  MaxWrites = 2
  Capacity = 1
  NoWrite = NoWrite
CHECK_DEADLOCK FALSE
INVARIANTS
  CloseDrains
  LeftIsNotDone
PROPERTIES
  ImplementsAtomicStore
  SubmitReturns
