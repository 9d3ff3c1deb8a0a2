SPECIFICATION Spec
CONSTANTS
  s1 = s1
  s2 = s2
  Subs = {s1, s2}
  PracticeSubs = {s2}
  NumWorkers = 1
  Outcome <- MCOutcome
  Slots = {k1, k2}
  Transitions = {t1, t2}
  Rejudges = {r1}
  MaxFaults = 2
SYMMETRY Symmetric
INVARIANTS TypeOK VerdictBacked NoSilentLoss ReportedOnce
PROPERTIES PhaseForward ImplementsJudging
CHECK_DEADLOCK FALSE
