SPECIFICATION FairRunSpec
CONSTANTS
  u1 = u1
  u2 = u2
  s1 = s1
  Users = {u1, u2}
  Overridden = {u1, u2}
  Subs = {}
  Sessions = {s1}
  DirectSession = s1
  SessionOf <- OneSession
  Cli = {s1}
  MaxIter = 2
  GateLimit = 3
  MalformedBudget = 1
  Batches <- ExecBatches
  MayStop = FALSE
  Turns <- TwoTurns
  OutcomeKind = "session"
  ReadsTrace = FALSE
INVARIANTS
  NoEarlyWake
  VerdictIsOutcome
PROPERTIES
  AnsweredIsReported
CHECK_DEADLOCK FALSE
