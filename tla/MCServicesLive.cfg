SPECIFICATION MCSpec
CONSTANTS
  u1 = u1
  u2 = u2
  u3 = u3
  c1 = c1
  c2 = c2
  s1 = s1
  s2 = s2
  s3 = s3
  i1 = i1
  Contests = {c1, c2}
  Standing <- MCStanding
  Expected <- MCExpected
  Accepted = {s1, s2, s3}
  ContestOf <- MCContestOf
  CodeOf <- MCCodeOf
  Calls = {k1, k2}
  CheckConfigured = TRUE
  MaxRequests = 1
  MaxRatingFaults = 1
  Browsers = {b1, b2}
  Emails = {e1}
  Usernames = {n1}
  Ips = {i1}
  IpOf <- MCIpOf
  RateWindow = 1
  RateMaxLogin = 2
  RateMaxRegister = 1
  DevLogin = TRUE
  MaxSessions = 2
  MaxAccountFaults = 1
  CaseCount = 2
  SampleCount = 1
  MaxOrders = 2
  MaxBenchFaults = 1
  q1 = q1
  q2 = q2
  Problems = {q1, q2}
  DifficultyOf <- MCDifficulty
  Goals <- MCGoals
  Tiers = {1200, 1400, 1600, 1900, 2100, 2300, 2400, 2600, 3000}
  RecentLimit = 2
  YearDays = 1
  Rivals = {w3}
  FirstRating = 1500
  Gains <- MCGains
  MaxSent = 3
  MaxRejudges = 1
  MaxRated = 2
  MaxDay = 3
INVARIANTS ServicesLiveTypeOK RatedOnce RatingHistory BurstBounded AccountsComplete CookiesBacked VerdictSound ShownIsOwn PagesSound
PROPERTIES PlagiarismChecked LimiterReopens PollingEnds 
CHECK_DEADLOCK FALSE
