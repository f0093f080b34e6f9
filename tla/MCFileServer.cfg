SPECIFICATION FairSpec
CONSTANTS
  NULL = NULL
  c1 = c1
  c2 = c2
  x = x
  y = y
  ts = ts
  nl = nl
  Conn <- MCConn
  Texts <- MCTexts
  SeekLine <- MCSeekLine
  Stamp <- MCStamp
  READ_SIZE = 1
  MAX_FILE = 4
INVARIANTS
  TypeOK
  ReplyIsRestOfFile
  
  WorkersOutliveNothing
PROPERTY
  ShutdownEnds
\* The program ends.
CHECK_DEADLOCK FALSE
