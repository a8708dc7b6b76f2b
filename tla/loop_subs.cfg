SPECIFICATION Spec
CONSTANTS
  u1 = u1
  u2 = u2
  x1 = x1
  x2 = x2
  s1 = s1
  Users = {u1}
  Overridden = {u1}
  Subs = {x1, x2}
  Sessions = {s1}
  DirectSession = s1
  SessionOf <- OneSession
  Cli = {s1}
  MaxIter = 2
  GateLimit = 2
  MalformedBudget = 0
  Batches <- SubBatches
  MayStop = FALSE
INVARIANTS
  ResultsConserved
  OnlyUsersAnswered
PROPERTIES
  DispatchesInOrder
CHECK_DEADLOCK FALSE
