SPECIFICATION Spec
CONSTANTS
  s1 = s1
  s2 = s2
  Subs = {s1, s2}
  PracticeSubs = {}
  NumWorkers = 1
  Outcome <- MCOutcome
  Slots = {1, 2}
  Transitions = {t1}
  Rejudges = {}
  MaxFaults = 0
INVARIANT OfficialResultsFull
CHECK_DEADLOCK FALSE
