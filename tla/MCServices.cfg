SPECIFICATION MCSpec
CONSTANTS
  a1 = a1
  a2 = a2
  u1 = u1
  r1 = r1
  r2 = r2
  c1 = c1
  c2 = c2
  People = {a1, a2, u1}
  FirstAdmins = {a1, a2}
  Reports = {r1, r2}
  Violator <- MCViolator
  Reviews = {v1, v2}
  MaxRoleChanges = 1
  Windows = {w1, w2}
  Starts = {t1, t2}
  Posts = {p1, p2}
  Duration = 1
  Cooldown = 1
  MaxHandling = 1
  MaxStarts = 2
  MaxPosts = 2
  Editors = {a1, a2}
  Cases = {s1, h1}
  Samples = {s1}
  MaxSaves = 2
  MaxEditFaults = 1
  LiveContests = {c1, c2}
  Pages = {g1}
  FreezingContests = {c1}
  AdminPages = {}
  PageContest <- MCPageContest
  Publishers = {b1, b2}
  BootAttempts = 2
  ReconnectLimit = 1
  MaxChanges = 3
  MaxStreams = 2
  MaxLiveFaults = 2
  FirstRows = {x1, x2}
  LaterRows = {x3}
  Buttons = {o1}
  MaxRejudgeJobs = 1
  MaxRejudgeFaults = 2
INVARIANTS ServicesTypeOK WarningsBacked SecondReportBans SessionKept CooldownHolds TestsOfOneForm NoCaseLost  JobsAccounted
CHECK_DEADLOCK FALSE
