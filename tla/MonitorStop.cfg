SPECIFICATION Spec
CONSTANTS
  Cycle = 5
  MayCancel = FALSE
CHECK_DEADLOCK FALSE
INVARIANT
  NoPanic
