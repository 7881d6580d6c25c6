SPECIFICATION Spec
CONSTANTS
  n1 = n1
  n2 = n2
  NoNode = NoNode
  Nodes = {n1, n2}
  Mode <- TwoInternet
  Lines <- OneModem
  MaxPid = 2
  MaxTasks = 2
  MaxTcp = 1
  MaxTry = 1
  MaxMail = 2
  MaxUpset = 1
INVARIANTS
  NoDoubleCallWhileListed
  CallingIsRunning
  TakeTurns
PROPERTIES
  EveryNodeCalled
CHECK_DEADLOCK FALSE
