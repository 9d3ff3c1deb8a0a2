SPECIFICATION MCSpec
CONSTANTS
  a1 = a1
  a2 = a2
  b1 = b1
  u1 = u1
  p1 = p1
  p2 = p2
  f1 = f1
  Subs = {a1, a2, b1}
  PracticeSubs = {}
  Outcome <- MCOutcome
  Users = {u1}
  Problems = {p1, p2}
  UserOf <- MCUserOf
  ProblemOf <- MCProblemOf
  Points <- MCPoints
  FreezeAt = 1
  EndAt = 1
  Handlers = {h1, h2}
  FreezeRuns = {f1, f2}
  MaxUpdates = 2
  MaxDistrust = 1
  MaxCrashes = 1
INVARIANTS TypeOK CreditedAtMostOnce CreditsComplete FirstSolveCounts
PROPERTY SnapshotImmutable
SYMMETRY Symmetric
CHECK_DEADLOCK FALSE
