SPECIFICATION Spec
CONSTANTS
  MAX_OPS = 10
  NULL = NULL
  p1 = p1
  p2 = p2
  Ptr <- MCPtr
  Entries <- MCEntries
INVARIANTS
  TypeOK
  RingShape
  SizeIsExact
  FindEntryCorrect
  SeekAndFindAgree
PROPERTY
  ImplementsBoundedLog
