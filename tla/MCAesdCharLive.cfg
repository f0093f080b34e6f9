SPECIFICATION FairSpec
CONSTANTS
  MAX_OPS = 1
  KMALLOC_MAX = 2
  NULL = NULL
  ZERO_SIZE_PTR = ZERO_SIZE_PTR
  p1 = p1
  p2 = p2
  p3 = p3
  p4 = p4
  t1 = t1
  t2 = t2
  x = x
  y = y
  nl = nl
  Ptr <- MCPtrLive
  Proc <- MCProc
  Byte <- MCByte
  NewLine = nl
  Chunks <- MCChunksWithEmpty
  Counts = {0, 1}
  SeekArgs <- MCSeekArgsEdge
  IoctlArgs <- MCIoctlArgsOne
PROPERTIES
  
  CallsReturn
\* A process that dies with the mutex stops the device.
CHECK_DEADLOCK FALSE
