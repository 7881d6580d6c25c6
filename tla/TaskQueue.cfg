SPECIFICATION Spec
CONSTANTS
  MaxTasks = 3
  MaxCalls = 1
  PauseTime = 1
  TossTime = 1
  MaxInbound = 1
  Asked = {"mailin", "msglink"}
  MayFail = {"msglink"}
INVARIANTS
  OneMbfido
  PacketsExpected
PROPERTIES
  Alone
  MailTossed
CHECK_DEADLOCK FALSE
