SPECIFICATION Spec
CONSTANTS
  Loads <- MCLoads
  MaxPackets = 3
  MaxTics = 2
  MaxNr = 1
  Limit = 0
  Week = 2
  TossDays = 1
  MaxTick = 4
  MaxScans = 1
  MaxMishaps = 1
INVARIANTS
  TypeOK
  NoMailStranded
  LastTicKept
PROPERTIES
  MailLeavesSent
  MailArrives
CHECK_DEADLOCK FALSE
