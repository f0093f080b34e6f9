SPECIFICATION Spec
CONSTANTS
  MAX_OPS = 2
  KMALLOC_MAX = 3
  NULL = NULL
  ZERO_SIZE_PTR = ZERO_SIZE_PTR
  p1 = p1
  p2 = p2
  p3 = p3
  p4 = p4
  t1 = t1
  t2 = t2
  x = x
  y = y
  nl = nl
  Ptr <- MCPtr
  Proc <- MCProc
  Byte <- MCByte
  NewLine = nl
  Chunks <- MCChunksWithEmpty
  Counts = {2}
  SeekArgs <- MCNone
  IoctlArgs <- MCNone
SYMMETRY Symmetry
INVARIANT
  NewlineTestInBounds
