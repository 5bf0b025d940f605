SPECIFICATION Spec
CONSTANTS
  Ids = {s1, s2}
  Users = {alice, bob}
  Projects = {p1}
  Workers = {w1, w2}
  NoId = NoId
  NoUser = NoUser
  NoWorker = NoWorker
  Scenarios <- Mix
SYMMETRY Symmetry
CHECK_DEADLOCK FALSE
INVARIANTS
  TypeOK
  ContentStaysWithOwner
  ContentHasOwner
  OneSandboxPerProject
