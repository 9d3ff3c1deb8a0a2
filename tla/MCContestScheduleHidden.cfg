SPECIFICATION Spec
CONSTANTS
  Users = {u1}
  Others = 1
  Admins = {a1}
  Offsets = {0}
  Plans <- MCPlans
  FreezeTimes = {}
  RatingDelay = 1
  MaxPoints = 1
  MaxTime = 4
  MaxEvents = 0
INVARIANT HiddenUntilEnd
CHECK_DEADLOCK FALSE
