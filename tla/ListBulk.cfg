SPECIFICATION Spec
CONSTANTS
  r1 = r1
  r2 = r2
  r3 = r3
  NoErr = NoErr
  Res <- MCRes
  NPages <- MCNPages
CHECK_DEADLOCK FALSE
INVARIANTS
  TypeOK
  NoSendOnClosed
  AllOrNothing
  ErrorIffMissing
PROPERTIES
  ImplementsBulkList
  Terminates
