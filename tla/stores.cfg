SPECIFICATION FairSpec
CONSTANTS
  c1 = c1
  c2 = c2
  s1 = s1
  s2 = s2
  w1 = w1
  w2 = w2
  w3 = w3
  Containers = {c1, c2}
  PidMaps <- SameOrNot
  Limit = 1
  MaxCalls = 1
  MaxMishaps = 1
  Sessions = {s1, s2}
  Backs = {1}
  Budget = 3
  MaxRounds = 2
  MaxFailures = 2
  Notes = {9}
  MaxTurns = 4
  MaxTrouble = 1
  Preparers = {w1, w2, w3}
  Reqs = {"r1"}
  MaxHitches = 2
  Setups <- Policies
  MaxFailed = 1
INVARIANTS
  StoreTypes
  LockKept
  HistoryExact
  KbKept
  HiddenIsArchived
  SavedAsKept
  MemoryKeepsFacts
  ScriptsApart
  NotUnderAnAgent
  CacheIsText
  RecordedWhereItRan
PROPERTIES
  WaitsEnd
  ReadyIsComplete
CHECK_DEADLOCK FALSE
