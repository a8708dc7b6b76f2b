SPECIFICATION FairSpec
CONSTANTS
  Total = 3
  Workers = 3
  PrepLimit = 3
  Threads = 1
  MayCrash = TRUE
INVARIANTS
  ReplayAfterAllPrepared
  StartIsGlobal
PROPERTIES
  RunEnds
CHECK_DEADLOCK FALSE
