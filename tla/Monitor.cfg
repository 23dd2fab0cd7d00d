SPECIFICATION Spec
CONSTANTS
  Cycle = 5
  MayCancel = TRUE
CHECK_DEADLOCK FALSE
INVARIANTS
  LastRunArrives
  BoundedLag
  ReturnMeansStopped
PROPERTIES
  InOrder
  PrintOnlyEnds
  UpdatesArrive
