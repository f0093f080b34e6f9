SPECIFICATION PatientSpec
CONSTANTS
  NULL = NULL
  c1 = c1
  c2 = c2
  x = x
  nl = nl
  Conn <- MCConn
  Text <- MCText
  Seek <- MCNone
  NewLine = nl
  LeaveBy = {"closed"}
  MAX_OPS = 1
  READ_SIZE = 2
  STDIO_SIZE = 2
  MAX_HELD = 0
  Leftover <- MCEmpty
  MAX_MESSAGES = 1
  Faults = {}
PROPERTY
  SignalEndsProgram
CHECK_DEADLOCK FALSE
