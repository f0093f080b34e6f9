SPECIFICATION FairSpec
CONSTANTS
  NULL = NULL
  t1 = t1
  t2 = t2
  t3 = t3
  Thread <- MCThread
  Waits <- MCWaits
  NSEC_PER_MSEC = 10
  NSEC_PER_SEC = 10000
  UINT_RANGE = 42950
INVARIANTS
  TypeOK
  ThreadsAreSafe
  
  SleptAsAsked
PROPERTY
  ThreadsEnd
\* The caller stops when it has joined every thread.
CHECK_DEADLOCK FALSE
