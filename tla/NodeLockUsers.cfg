SPECIFICATION FairSpec
CONSTANTS
  p1 = p1
  p2 = p2
  NoFile = NoFile
  Zero = Zero
  Procs = {p1, p2}
  Leavers = {p1, p2}
  Again = {p1, p2}
  Foreign = TRUE
  MayAge = TRUE
  ZeroLocks = TRUE
INVARIANTS
  ExclusiveUndisturbed
  LockHasOwner
PROPERTIES
  StaleLockGoes
CHECK_DEADLOCK FALSE
