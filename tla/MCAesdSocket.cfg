SPECIFICATION Spec
CONSTANTS
  NULL = NULL
  c1 = c1
  c2 = c2
  x = x
  nl = nl
  Conn <- MCConn
  Text <- MCText
  Seek <- MCSeek
  NewLine = nl
  LeaveBy = {"half_closed", "closed", "reset"}
  MAX_OPS = 2
  READ_SIZE = 2
  STDIO_SIZE = 1
  MAX_HELD = 1
  Leftover <- MCEmpty
  MAX_MESSAGES = 1
  Faults = {"startup", "accept", "pthread_create", "write", "send"}
SYMMETRY Symmetry
INVARIANTS
  TypeOK
  WorkersOutliveNothing
  MutexDiscipline
  
PROPERTY
  ImplementsLineServer
\* The program may end, and may be killed.
CHECK_DEADLOCK FALSE
