CONSTANTS
  Sessions = {s1, s2}
  MaxTokens = 3
SPECIFICATION FairSpec
INVARIANTS
  OneLiveToken
  EndedStaysEnded
PROPERTIES
  InactiveGetsNoMore
CHECK_DEADLOCK FALSE
