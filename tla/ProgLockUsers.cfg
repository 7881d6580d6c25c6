SPECIFICATION FairSpec
CONSTANTS
  p1 = p1
  p2 = p2
  p3 = p3
  None = None
  Procs = {p1, p2, p3}
  Killable = {p1}
  DieUnlocks = FALSE
INVARIANTS
  TwoOnlyAfterThird
  NoLockLeft
PROPERTIES
  SomeoneRuns
