SPECIFICATION FairSpec
CONSTANTS
  i1 = i1
  i2 = i2
  Images = {i1, i2}
  ImageLists <- SameOrNot
  NTasks = 2
  MaxConc = 2
  MaxAttempt = 3
  MaxStarts = 2
  Endings = {"exhausted"}
  MaxFaults = 2
INVARIANTS
  VerdictHasTrace
  NoDoubleBuild
  ImageAtHand
  ImageBudget
PROPERTIES
  FreshDirectory
  EveryAttemptReported
  LedgerSpec
  InvocationEnds
CHECK_DEADLOCK FALSE
