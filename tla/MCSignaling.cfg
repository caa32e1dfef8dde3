SPECIFICATION Spec
CONSTANTS
  Players = {p1, p2, p3}
  NoPlayer = NoPlayer
  Bodies = {b1}
  MaxCode = 2
SYMMETRY PlayerSymmetry
INVARIANTS
  TypeOK
  SeatIsReal
  OneSeat
  MutualPeers
  RoomsDieWithOccupants
  ToldTruth
  SeenIsCurrent
  RelayFollowsReady
PROPERTIES
  EvictedIsTold
  MatchesPlayers
CHECK_DEADLOCK FALSE
