SPECIFICATION Spec
CONSTANTS
  u1 = u1
  u2 = u2
  x1 = x1
  x2 = x2
  s1 = s1
  Users = {u1, u2}
  Overridden = {}
  Subs = {}
  Sessions = {s1}
  DirectSession = s1
  SessionOf <- OneSession
  Cli = {s1}
  MaxIter = 2
  GateLimit = 2
  MalformedBudget = 1
  Batches <- PlainBatches
  MayStop = FALSE
INVARIANTS
  TypeOK
  CallsPaired
  OnlyDeadTurnsInterrupted
  NoDuplicates
  SuppressedOnlyIfSent
  AnsweredTurnRecorded
CHECK_DEADLOCK FALSE
