SPECIFICATION Spec
CONSTANTS
  a = a
  b = b
  f1 = f1
  f2 = f2
  g1 = g1
  NoFile = NoFile
  Nodes <- MCNodes
  Peer <- MCPeer
  Files <- MCFiles
  Owner <- MCOwner
  Size <- MCLonger
  Leftover <- MCOlder
  Minor <- Binkp11
  CRC = TRUE
  Unreadable <- MCReadable
  BatchLimit = 3
  MaxSessions = 1
  Faults = {"lowdisk"}
  MaxFaults = 1
INVARIANTS
  RightStream
  NoStaleStream
  NoResend
  RepliesExpected
PROPERTIES
  ImplementsHandOff
CHECK_DEADLOCK FALSE
