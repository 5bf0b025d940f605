\* Two sandboxes whose wakes run pressure ticks on each other.
SPECIFICATION FairSpec
CONSTANTS
  Ids = {s1, s2}
  Workers = {w1, w2}
  NoId = NoId
  NoWorker = NoWorker
  Scenarios <- CrossTicks
PROPERTIES
  EveryOperationReturns
