SPECIFICATION FairSpec
CONSTANT
  MaxItems = 4
INVARIANTS
  InStep
  DispatchedOnce
  AnsweredInTurn
  NothingAfterTheEnd
PROPERTIES
  EveryMessageDispatched
CHECK_DEADLOCK FALSE
