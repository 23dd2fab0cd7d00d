SPECIFICATION Spec
CONSTANTS
  a = a
  b = b
  Requested <- MCRequested
  MayMiss <- OneMiss
  FlagSets <- AllFlags
  Health <- MCHealth
  MaxChanges = 1
CHECK_DEADLOCK FALSE
INVARIANTS
  TypeOK
  WaitedCodeIsRead
  WaitHonoured
PROPERTIES
  CancelEnds
  SettledExits
