SPECIFICATION FairSpec
CONSTANTS
  x = x
  nl = nl
  z = z
  Byte <- MCByte
  Delimiter = nl
  NUL = z
  INITIAL_SIZE = 1
  INT_MAX = 7
  MAX_BYTES = 5
  MAX_ERRORS = 2
INVARIANTS
  TypeOK
  RecvInBounds
  NothingLost
  MessagesAreLines
PROPERTY
  CloseIsNoticed
\* The conversation ends when the peer has closed.
CHECK_DEADLOCK FALSE
