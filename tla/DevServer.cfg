SPECIFICATION FairSpec
CONSTANTS
  Pids = {n1, n2}
  NoPid = NoPid
  MaxFastFails = 2
CHECK_DEADLOCK FALSE
INVARIANTS
  TypeOK
  OneSupervised
  RemediationRefreshes
  ShutdownEndsSupervised
PROPERTIES
  ServerComesBack
  HangShows
  RemediationEnds
