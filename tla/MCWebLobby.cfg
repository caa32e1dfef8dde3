SPECIFICATION Spec
CONSTANTS
  Players = {p1, p2}
  NoPlayer = NoPlayer
  Bodies = {b}
  MaxCode = 2
  MaxUnderWay = 2
INVARIANTS
  EngineFollowsScreen
  ScreenIsTrue
  ListIsCurrent
  MenuIsUsable
PROPERTIES
  NobodyPlaysAlone
CHECK_DEADLOCK FALSE
