SPECIFICATION Spec
CONSTANTS
  a = a
  b = b
  Requested <- MCRequested
  MayMiss <- NoneMiss
  FlagSets <- NoFlags
  Health <- MCHealth
  MaxChanges = 0
CHECK_DEADLOCK FALSE
INVARIANT
  ExitCodeIsReal
