SPECIFICATION MCSpec
CONSTANTS
  a1 = a1
  a2 = a2
  b1 = b1
  u1 = u1
  p1 = p1
  p2 = p2
  f1 = f1
  Subs = {a1, a2, b1}
  PracticeSubs = {}
  Outcome <- MCOutcome
  Users = {u1}
  Problems = {p1, p2}
  UserOf <- MCUserOf
  ProblemOf <- MCProblemOf
  Points <- MCPoints
  FreezeAt = 9
  EndAt = 1
  Handlers = {h1}
  FreezeRuns = {}
  MaxUpdates = 2
  MaxDistrust = 0
  MaxCrashes = 0
INVARIANT CreditOnce
CHECK_DEADLOCK FALSE
