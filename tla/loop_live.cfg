SPECIFICATION FairSpec
CONSTANTS
  u1 = u1
  u2 = u2
  x1 = x1
  x2 = x2
  s1 = s1
  Users = {u1}
  Overridden = {u1}
  Subs = {x1}
  Sessions = {s1}
  DirectSession = s1
  SessionOf <- OneSession
  Cli = {s1}
  MaxIter = 2
  GateLimit = 1
  MalformedBudget = 1
  Batches <- OneSubBatches
  MayStop = TRUE
PROPERTIES
  EveryMessageProcessed
CHECK_DEADLOCK FALSE
