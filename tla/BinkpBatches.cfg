SPECIFICATION FairSpec
CONSTANTS
  a = a
  b = b
  f1 = f1
  f2 = f2
  g1 = g1
  NoFile = NoFile
  Nodes <- MCNodes
  Peer <- MCPeer
  Files <- MCFiles
  Owner <- MCOwner
  Size <- MCSize
  Leftover <- MCClean
  Minor <- Binkp11
  CRC = TRUE
  Unreadable <- MCUnreadable
  BatchLimit = 3
  MaxSessions = 1
  Faults = {"refuse"}
  MaxFaults = 1
INVARIANTS
  SidesAgree
  GoodSessionDelivers
PROPERTIES
  Termination
CHECK_DEADLOCK FALSE
