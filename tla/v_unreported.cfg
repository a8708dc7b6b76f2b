SPECIFICATION FairRunSpec
CONSTANTS
  u1 = u1
  u2 = u2
  s1 = s1
  Users = {u1}
  Overridden = {u1}
  Subs = {}
  Sessions = {s1}
  DirectSession = s1
  SessionOf <- OneSession
  Cli = {s1}
  MaxIter = 2
  GateLimit = 3
  MalformedBudget = 1
  Batches <- ExecBatches
  MayStop = FALSE
  Turns <- OneTurn
  OutcomeKind = "override"
  ReadsTrace = TRUE
PROPERTIES
  StartedIsReported
CHECK_DEADLOCK FALSE
