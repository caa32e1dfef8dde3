SPECIFICATION Spec
CONSTANTS
  Pages = {a, b}
  Nobody = Nobody
  MaxMatch = 3
  MaxIce = 2
INVARIANTS
  OneMatchAtATime
  NoCandidateLost
PROPERTIES
  MatchesConnect
CHECK_DEADLOCK FALSE
