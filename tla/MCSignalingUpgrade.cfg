SPECIFICATION Spec
CONSTANTS
  Players = {p1, p2, p3}
  NoPlayer = NoPlayer
  Bodies = {b1}
  MaxCode = 2
SYMMETRY PlayerSymmetry
INVARIANT
  NothingBeforeUpgrade
CHECK_DEADLOCK FALSE
