SPECIFICATION FairSpec
CONSTANTS
  joe = joe
  ann = ann
  mail = mail
  Free = Free
  MAXCLIENT = 3
  RB = 2
  Mailers = {mail}
  Users = {joe, ann}
  Reached = {joe}
  Dozers = {ann}
  MaxFail = 1
INVARIANTS
  TypeOK
  CountersTrue
  OnePager
  MessagesKept
PROPERTIES
  FailedClientsGo
CHECK_DEADLOCK FALSE
