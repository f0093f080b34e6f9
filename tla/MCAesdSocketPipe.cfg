SPECIFICATION Spec
CONSTANTS
  NULL = NULL
  c1 = c1
  c2 = c2
  x = x
  nl = nl
  Conn <- MCConn
  Text <- MCText
  Seek <- MCNone
  NewLine = nl
  LeaveBy = {"half_closed", "closed", "reset"}
  MAX_OPS = 1
  READ_SIZE = 2
  STDIO_SIZE = 2
  MAX_HELD = 0
  Leftover <- MCEmpty
  MAX_MESSAGES = 1
  Faults = {"send"}
SYMMETRY Symmetry
INVARIANT
  SendErrorsAreReported
CHECK_DEADLOCK FALSE
