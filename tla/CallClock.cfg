SPECIFICATION ClockSpec
CONSTANTS
  n1 = n1
  n2 = n2
  n3 = n3
  Nodes = {n1, n2, n3}
  Day = 6
  MaxTry = 30
  FidoZone <- MCZones
  OwnHour <- MCOwnHour
  Node <- MCNode
  Files <- MCFiles
INVARIANTS
  PlanCurrent
PROPERTIES
  CrashMailPlanned
CHECK_DEADLOCK FALSE
