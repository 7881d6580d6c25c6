SPECIFICATION Spec
CONSTANTS
  a = a
  b = b
  f1 = f1
  f2 = f2
  g1 = g1
  NoFile = NoFile
  Nodes <- MCNodes
  Peer <- MCPeer
  Files <- MCPair
  Owner <- MCPairOwner
  Size <- MCPairSize
  Leftover <- MCPrefix
  Minor <- Binkp10
  CRC = TRUE
  Unreadable <- MCReadable
  BatchLimit = 3
  MaxSessions = 2
  Faults = {"reset", "silent", "refuse", "lowdisk", "move", "kill"}
  MaxFaults = 1
INVARIANTS
  PartIsPrefix
  NoFileVanishes
CHECK_DEADLOCK FALSE
