SPECIFICATION Spec
CONSTANT
  MaxItems = 4
INVARIANT
  Drained
CHECK_DEADLOCK FALSE
