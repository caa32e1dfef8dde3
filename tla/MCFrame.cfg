SPECIFICATION Spec
CONSTANTS
  WideBytes = 3
  MaxPayload = 1048576
  Lengths <- LengthsMC
  Beyond = 2
INVARIANTS
  NothingReadAhead
  ParsesTheFrame
  EncodesTheShortest
CHECK_DEADLOCK FALSE
