SPECIFICATION MCSpec
CONSTANTS
  MAX_CALLS = 3
  NUMFILES = 2
INVARIANTS
  CallsTypeOK
  TrueMeansSuccess
  SuccessMeansWritten

  
\* The caller stops after its last call, and the script ends.
CHECK_DEADLOCK FALSE
