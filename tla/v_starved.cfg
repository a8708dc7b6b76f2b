SPECIFICATION FairSpec
CONSTANTS
  Total = 6
  Workers = 2
  PrepLimit = 2
  Threads = 2
  MayCrash = FALSE
PROPERTIES
  RunEnds
CHECK_DEADLOCK FALSE
