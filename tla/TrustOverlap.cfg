INIT TrustInit
NEXT TrustNext
CONSTANTS
  Authors = {1, 2, 3}
  MayOverlap = TRUE
  MaxToggles = 2
  MaxRankings = 1
  MaxPosts = 0
  MaxBreaks = 0
CHECK_DEADLOCK FALSE
INVARIANTS
  OverlapsConverge
