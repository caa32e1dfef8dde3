SPECIFICATION Spec
CONSTANTS
  BallPlaces <- BallPlacesMC
  LeftPlaces <- LeftPlacesMC
  RightPlaces <- RightPlacesMC
  MaxScore = 1
  MaxInFlight = 2
INVARIANTS
  GuestShowsASnapshot
  MirrorCatchesUp
PROPERTIES
  ScoresNeverGoBack
  ScoresArrive
CHECK_DEADLOCK FALSE
