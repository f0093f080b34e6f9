SPECIFICATION FairSpec
CONSTANTS
  NULL = NULL
  c1 = c1
  c2 = c2
  x = x
  nl = nl
  Conn <- MCConn
  Text <- MCText
  Seek <- MCNone
  NewLine = nl
  LeaveBy = {"closed"}
  MAX_OPS = 1
  READ_SIZE = 2
  STDIO_SIZE = 1
  MAX_HELD = 1
  Leftover <- MCLeftover
  MAX_MESSAGES = 1
  Faults = {"write", "fopen", "syslog"}
PROPERTIES
  LinesAreHandled
  ShutdownEnds
CHECK_DEADLOCK FALSE
