SPECIFICATION FairSpec
CONSTANTS
  p1 = p1
  p2 = p2
  NoFile = NoFile
  Procs = {p1, p2}
  Leavers = {p1, p2}
INVARIANTS
  MutualExclusion
PROPERTIES
  StaleLockGoes
CHECK_DEADLOCK FALSE
