SPECIFICATION Spec
CONSTANTS
  Users = {u1}
  Others = 1
  Admins = {a1}
  Offsets = {0, 1}
  Plans <- MCPlans
  FreezeTimes = {}
  RatingDelay = 1
  MaxPoints = 1
  MaxTime = 4
  MaxEvents = 1
INVARIANTS TypeOK JobsOnTime SnapshotFaithful PublicPagesAgree
PROPERTIES FreezeHappens RatedEventually
CHECK_DEADLOCK FALSE
