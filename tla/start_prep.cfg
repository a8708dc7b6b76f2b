SPECIFICATION FairSpec
CONSTANTS
  Total = 4
  Workers = 2
  PrepLimit = 2
  Threads = 2
  MayCrash = FALSE
INVARIANTS
  PrepLimited
  OnlyKnownLeaks
PROPERTIES
  RunEnds
CHECK_DEADLOCK FALSE
