# A verification project for AlgoHaven

AlgoHaven is an online judge: users submit programs for problems, alone or in a
contest; a worker runs them in containers; accepted contest submissions move a
leaderboard; after the contest the accepted ones are judged again on all tests,
ratings are computed and sources are compared.  This directory holds TLA+
specifications of the parts of it that are hard to test, the TLC configurations
that check them on small instances, and proofs that TLAPS checks for every
instance.

## 1. The system

Four services share one PostgreSQL database (through Prisma) and one Redis:

| service | code | what runs in it |
| --- | --- | --- |
| `be` | `apps/be` | Bun REST server, one process; handlers interleave at every `await`, nothing is in a transaction except the two the code names |
| `worker` | `apps/worker` | an HTTP server that adds jobs to four BullMQ queues, and one BullMQ `Worker` (concurrency 1) per queue |
| `ws` | `apps/ws` | server-sent events, fed by Redis publish/subscribe |
| `fe` | `apps/fe` | Next.js pages that poll the REST API |

`docker-compose.prod.yml` restarts every service that dies.  The repository has
no tests.

### Components

| component | state | operations | what is hard | what makes it correct |
| --- | --- | --- | --- | --- |
| judging pipeline (`submission.ts`, `contest.ts` submit, `admin.ts` rejudge, `be/routes/worker.ts`, `worker/index.ts`, `queue.ts`, `api.ts`) | rows of `Submission` (status, judgePhase, wrongAttempts); the `submissions` queue keyed by submission id; running handlers | submit, enqueue, judge, update-submission, transition to the second phase, rejudge | three sources of judge requests for one job id; lost requests and responses; retries; read-then-write handlers; restarts | a verdict fits the phase it is stored under; nothing is lost silently; each verdict is counted and announced once; every submission is judged |
| leaderboard and freeze (`contest.ts`) | `LeaderboardEntry`, `LeaderboardSnapshot` | register, `handleLeaderboardUpdate`, freeze job, `getContestLeaderboard` | six awaited statements per update, no transaction; the freeze job in between; repeated announcements | a problem is credited once; no update is lost; the snapshot is immutable |
| contest lifecycle (`contest.ts`, schedule endpoints, admin forms) | `Contest`, delayed jobs of three queues, the forms of the pages | create, update, delete, register, unregister, the public pages | times change after jobs were scheduled, in forms with time zones of their own; checks before awaits | a job fires no earlier than the stored time; the snapshot is the standing of the freeze; pages agree |
| verdict computation, sandbox (`worker/index.ts`, `docker.ts`) | none | the loop over test cases | order of verdicts, empty test sets | the verdict is that of the tests |
| ratings (`ratings.ts`) | `UserRating` | calculate-ratings | retry after success; rounding | ratings stored once, changes sum to zero and stay bounded |
| plagiarism (`plagiarism.ts` in both services), roles (`auth.ts`) | `PlagiarismReport`, warnings, bans, roles | report, confirm, change a role | administrators at the same time; skipped after a failed rating | one warning per confirmed report, the second bans |
| live updates (`redis`, `ws/index.ts`, `getContestLeaderboard`) | subscriptions, client tables, the page's list | publish, subscribe with retry, connect, clean up, fetch; registrations and the freeze change what a fetch brings | reordering, duplicated subscriptions, changes nobody publishes | clients end with every credited result, or with what the freeze leaves |
| accounts (`auth.ts`) | `User`, `Session`, limiter map, cookies | register, login, dev login, logout | window boundary; two statements without a transaction; late answers | bursts are bounded and the limiter reopens; accounts get their session; a kept cookie is backed by a session |
| virtual contests (`contest.ts`) | `VirtualContestSession` | start or resume, deadline at submission | delete and create by two requests | a session that is counted down stays stored; the cooldown holds |
| problem administration (`problem.ts`) | `Problem`, `TestCase` | create, update, delete | tests replaced non-atomically | no submission judged on no test |
| sample runs and the editor (`runStore.ts`, `useRun.ts`, `useSubmission.ts`, `EditorPanel.tsx`) | in-memory map with expiry, the page's result | run, submit, store, poll | expiry, restart, polls that overlap | a page shows the verdict of its last order and stops waiting |
| rejudge jobs (`admin.ts`, `rejudge-jobs/page.tsx`) | `RejudgeJob` rows, a processor nobody awaits | create, process, list | rows change while it runs, each statement may fail, a restart forgets the processor | counts and final status say what was done |
| statistics pages (`me.ts`, `profile.ts`, `badges.ts`) | none | reads | streaks, two handlers with code of their own, pages of twenty rows | the numbers fit each other and the history |
| rest of the front end, utilities, routing, configuration | none | - | - | - |

How they meet: a submission's acceptance calls the leaderboard update inside the
same handler, before the worker gets its response; the contest's creation
schedules the transition, freeze and rating jobs; the transition sends rows
back through the queue a submission used; the rating job starts the
plagiarism check; a leaderboard update ends with a Redis message that the SSE
service forwards.

`PROJECT.json` lists the hazards of this code at their lines, with the
properties that would catch them.

## 2. The modules

| module | what it is |
| --- | --- |
| `JudgeTypes` | submissions, verdicts, judge phases, and `Outcome`: the verdicts judging a submission may give on the samples and on all tests |
| `Judging` | what judging promises, abstractly: a queued row gets one verdict of its phase's tests; accepted contest rows are queued once more |
| `JudgePipeline` | the detailed model: requests, BullMQ jobs, callbacks, transition, rejudge, faults; implements `Judging` |
| `JudgePipelineProofs` | types, `NoSilentLoss`, the judging guarantees and the refinement of `Judging`, for every value of the constants |
| `Leaderboard` | entries, snapshot, updates and freeze job; its verdicts come from `Judging` |
| `LeaderboardProofs` | types, immutable snapshots, the single credit, the missing one and `CreditsComplete`, for every contest and every number of updates |
| `ContestSchedule` | one contest from the create form to its rating: schedules, jobs, registration, what the public pages show |
| `ContestScheduleProofs` | types, `JobsOnTime`, `SnapshotFaithful` and `PublicPagesAgree`, for every number of users, administrators, edits, jobs and faults |
| `RatingJob` | the rating job and direct calls, the arithmetic of the changes, the plagiarism check after them |
| `Warnings` | reviewing reports, warnings, bans and role changes |
| `Accounts` | registration, sign-in, sign-out, cookies and the login limiter |
| `VirtualContest` | a user's timed sessions on a practice contest, the deadline and the cooldown |
| `ProblemEditor` | the forms and saves of a problem's test cases, and the submissions that read them |
| `Workbench` | the editor page: submissions and sample runs, judged test case by test case and polled for |
| `Realtime` | the standings of contests with their registrations and their freeze; leaderboard messages from the update through Redis and the SSE service to the page |
| `BrowserProofs` | `Accounts`: types, `AccountsComplete`, `CookiesBacked` and `BurstBounded`; `Workbench`: types, `VerdictSound` and `ShownIsOwn`; for every number of browsers, accounts, orders, test cases and faults |
| `RejudgeJobs` | the rows of rejudge jobs, their processor and the page that lists them |
| `Statistics` | the numbers of `/api/me` and of the public profile over every short history of submissions, contests entered and left, and ratings |
| `ContestantProofs` | `Warnings`: types, `WarningsBacked` and `SecondReportBans`; `VirtualContest`: types, `SessionKept` and `CooldownHolds`; `Realtime`: types and `LatestShown`; for every number of people, reports, browsers, contests, pages and updates |
| `MCJudgePipeline`, `MCLeaderboard`, `MCContestSchedule` | values of the constants for TLC; `MCLeaderboard` also splits its instance in two with `explored`: everything at once for two problems, and restarts, rejudges and repeated freeze jobs for one |
| `MCServicesLive` | instances of `RatingJob`, `Accounts`, `Workbench` and `Statistics` |
| `MCServices` | instances of `Warnings`, `VirtualContest`, `ProblemEditor`, `Realtime` and `RejudgeJobs` |
| `ServicesProofs` | `ProblemEditor`: types, `TestsOfOneForm` and `NoCaseLost`; `RejudgeJobs`: types and `JobsAccounted`; the types of all that `MCServices` composes |
| `ServicesLiveProofs` | `RatingJob`: types, `RatedOnce` and `RatingHistory`; `Statistics`: types, `PagesSound` and `BadgesKept`; the types of all that `MCServicesLive` composes |
| `SumTheorems` | facts about sums over finite sets, with the induction they need |

The modules about one service share no state with each other.  `MCServices` and
`MCServicesLive` therefore put several of them into one state space in which the
variable `explored` names the one that moves; the others wait in their initial
states.  Every behaviour of each service alone is explored, and no product is.

### JudgePipeline and the code

| model | code |
| --- | --- |
| `status`, `judgePhase`, `wrongAttempts` | the columns of `Submission`; `"ABSENT"`/`"NONE"` before the row exists |
| `announced` | how often `handleLeaderboardUpdate` was called for the row |
| `submitting` | handlers of a submission past the time-window check, before `submission.create` |
| `sends` | `fetch` calls of `sendToWorker` in flight |
| `job[s]` | the BullMQ job with id `s`: none, waiting (or delayed by its back-off), judging, posted (its callback is in flight), failed |
| `calls` | update-submission callbacks: `sent` (before the phase guard), `write` (between the guard's read and the update), `reply`; `waited` says the worker still waits |
| `transition[t]`, `rejudge[r]` | one run of the transition handler / of `processRejudgeJob`, with the rows it read and has not handled yet |
| `disturbed`, `dropped` | history variables: rows with a rejudge or a possibly repeated report; rows that lost a judge request |

Each action is the code between two awaits.  `CheckWindow` and
`CreateSubmission` are the two halves of the submit handlers; `Enqueue` is the
worker's HTTP endpoint with BullMQ's rule that adding an existing job id does
nothing; `TakeJob` and `Judge` the worker; `ReadCurrent`, `WriteVerdict`,
`Reply` the callback handler; `StartTransition`, `RetryTransition`,
`MoveToPhase2` the transition; `StartRejudge`, `RejudgeOne` the rejudge.
Faults: a request to the worker fails (`LoseSend`), a callback fails before its
write (`LoseCall`), its response is lost (`GiveUp`), a worker process dies
(`CrashWorker`), the backend restarts (`CrashBackend`), a row's update is
rejected (`FailMove`, `FailRejudge`).

BullMQ is external and modelled from its configuration in `queue.ts`: three
attempts, failed jobs kept, completed jobs removed, a stalled job run again
once.

### Leaderboard and the code

`handler[h]` is one running `handleLeaderboardUpdate`; its `pc` names the
statement it waits for: the submission, the contest (freeze check), the entry,
the query for another accepted submission, the upsert.  What a handler read is
kept in its record, so stale reads are as stale as in the code.  `freeze[f]` is
one run of `handleFreezeContest` between its three statements.  `Submit`,
`WriteVerdict`, `Promote` and `Distrust` step the rows by the actions of
`Judging`: what `JudgePipeline` implements is what the leaderboard assumes.
Penalty minutes and `lastSolvedAt` are written by the same upsert from the same
read as the points and are left out.

### The services and the code

* `ContestSchedule`: `form[a]` is the edit page of an administrator, filled from
  the row as `toISOString` gives it and read back as local time (`Offsets`);
  `todo[a]` the schedule requests a create or update handler still awaits, each of
  which may be lost; `jobs` the delayed jobs of three queues with the times they
  were given.  `FreezeRead`, `FreezeSnapshot`, `FreezeStamp`, `RunTransition`,
  `RunRating` are the handlers they call.  `Unregister` and `DeleteEntry` are the
  two halves of unregistering, `ReadEntry` and `WriteEntry` of a leaderboard update.
  `PublicPoints`, `Details`, `ListedAs`, `ProblemsOpen`, `SolvedShown`, `RatingsShown`
  are what the pages' handlers answer.
* `RatingJob`: `calls[k]` is a running `calculate-ratings`, which reads one user's
  rating after the other and stores all changes in the code's transaction;
  `ratingJobs[c]` is the BullMQ job with its attempts and its stall.  `Delta` and
  `Balanced` are `computeDelta` and the adjustment, in whole numbers.
* `Warnings`: `reviews[v]` is a running confirmation (`report`, `user`, `store` are
  the statements it waits for), `roleRequests` a running role change, `reviewPage`
  what a page still shows.
* `Accounts`: `attempt[b]` is the request of a browser's form with the statement it
  waits for, `signout[b]` a sign-out with its token, `bucket` the limiter's map,
  kept as the time left.
* `VirtualContest`: `starts[s]` is a running start handler, `posts[p]` a running
  submission with the time since its time stamp, `storage[w]` a browser's storage.
* `ProblemEditor`: `editor[e]` is an administrator's page and its save, `rows` the
  test cases stored; `ReadTests` is what a submission or run is given.
* `Workbench`: `hooks` are the two hooks' states, `polls` their timers and requests,
  `machine` the worker inside the loop over the test cases, with the history `met` of
  what happened in them.
* `Realtime`: `phase[c]` is where a contest's clock stands, `standing[c]` the number of
  changes made to its entries, so that an older list is a smaller number and 0 the empty
  one; `snapshot[c]` the standing the freeze job copied.  `Register` and `Unregister`
  change the standing and publish nothing; an update is `BeginUpdate` (its checks),
  `ChangeStandings` (the upsert), `ReadStandings` and `PublishStandings`.  `ServeFetch`
  answers a contestant from the snapshot once the freeze time has passed, and an
  administrator from the rows.  `boot` and `redisMain` are the two Redis clients of the
  SSE service, `sseClients` and `contestClients` its tables, `streams` what each
  connection carries, `livePages` a page's hook.
* `RejudgeJobs`: `processors[j]` is the `processRejudgeJob` of a row with the
  statement it waits for; `jobsPage` what the page read and shows.
* `Statistics`: `MePage` and `ProfilePage` are computed from the rows as the two
  handlers do, `Streak` is the loop of `calculateStreak`; `entered` are the user's
  `LeaderboardEntry` rows, which `EnterContest` adds and, until the contest begins,
  `LeaveContest` deletes.

## 3. What the runs check

| run | instance | result |
| --- | --- | --- |
| `judge_pipeline` | a contest and a practice submission, one worker, two open callbacks, two deliveries of the transition, one rejudge, two faults | passes, 4.2 million states |
| `judge_live` | two contest submissions, one worker, one transition, two faults, fairness | passes |
| `leaderboard` | one user; either three submissions for two problems, two concurrent updates, two updates per submission and one freeze job, or two submissions for one problem, one untrusted row, one restart and two freeze jobs | passes, 5.8 million states |
| `contest_schedule` | one rated contest, one user besides another participant, one administrator with browsers of two time zones, one edit, lost request or restart, fairness | passes, 1.2 million states |
| `services_live` | two contests with three users, two calculations at once, one fault; two browsers, one account, one address, two sessions, one fault; two orders of two test cases, one fault; three submissions, two problems, three days, two contests entered or left | passes, 0.7 million states |
| `services` | three people, two reports, two reviews, one role change; two browsers, two starts, two submissions; two editors, two test cases, two saves, one restart; two contests (one with a freeze), three changes of a standing, two updates at once, one page, two streams, two faults; a rejudge job over three submissions, two faults | passes, 3.9 million states |
| `phase_guard`, `official_results`, `credit_once`, `frozen_entries`, `freeze_hides`, `verdict_names` | small instances, each for one sentence of a comment or document | violated: the findings |

The properties:

* `VerdictBacked`: a stored verdict is one that judging gives on the test cases
  the row's phase stands for.  It holds for rows without a rejudge or a
  repeated report, and for practice rows always.
* `NoSilentLoss`: a QUEUED row has a request, job or callback on its way, or one
  of the losses the code lets pass has happened to it.  The history variable
  `dropped` is the complete list of those.
* `ReportedOnce`: one phase counts at most one wrong attempt and announces at
  most one acceptance.
* `PhaseForward`: rows only move from the first contest phase to the second, and
  are queued again by that very step.
* `ImplementsJudging`: the pipeline refines `Judging`, with
  `trusted <- Subs \ disturbed`.
* `JudgedEventually`: every queued submission gets a verdict or appears in
  `dropped`.
* `CreditedAtMostOnce`: however updates interleave, a problem is credited at most
  once while each acceptance was announced once and not withdrawn.
* `CreditsComplete` (`NoLostUpdate` and `FirstSolveCounts`): without overlapping
  updates an entry is the sum of its credits, and an announced problem is credited.
  The hypothesis `~overlapped` is needed: the code loses updates that overlap.  So is
  leaving out submissions of a time the contest was a practice contest, which
  `updateContest` may change: they count as accepted and credit nothing.
* `SnapshotImmutable`: repeated freeze jobs leave the snapshot's rows alone.
* `JobsOnTime`: no job acts before the time the row has for it, unless an edit
  overtook it; the update handler schedules another freeze job, and no other.
* `SnapshotFaithful`: the snapshot is the standing of the moment the freeze window
  opened, however late or often the job runs; `late` names the races that break it.
* `PublicPagesAgree`: the standing the public keeps seeing is the one the ratings
  were computed from; lists, detail page, problem list and submit handler agree on a
  contest's status and on who takes part.  They do not agree on a practice contest
  before its start: it takes submissions and lists its problems on its page, and the
  problem handlers answer 403.
* `FreezeHappens`, `RatedEventually`: who registered before the freeze gets a
  snapshot row, a rated contest is rated - or a request was lost, a job failed for
  good or an edit came in between.
* `RatedOnce`: whatever is retried or asked for twice, a contest's ratings are
  stored once, as one block of rows in the order of its standing, and a pair of
  sources is reported once.
* `RatingHistory`: a user's rows start at the default rating and are a chain, and the
  changes add up to zero, unless two contests were rated at once.
* `PlagiarismChecked`: the sources are compared in the end, unless the job met a
  fault after the ratings were stored, or an administrator asked for them: the
  unique key then fails every further attempt before the check.
* `WarningsBacked`, `SecondReportBans`: with their theorems in `ContestantProofs`, below.
* `BurstBounded`, `LimiterReopens`: any stretch as long as the window lets at most
  twice the limit through, and no address is locked out for ever.
* `AccountsComplete`, `CookiesBacked`: every account got its session unless a
  restart cut its registration short, one email has one account; a cookie a browser
  keeps is backed by a valid session but for a sign-out under way or a lost answer.
* `SessionKept`, `CooldownHolds`: with theirs in `ContestantProofs`, below.
* `TestsOfOneForm`, `NoCaseLost`: between saves the test cases are those of one form,
  and submissions are judged on them; a save drops only what its administrator
  removed.  `torn` and `blind` name the exceptions: crossing saves, a save cut short,
  a page loaded without the rights or amid another save.
* `VerdictSound`: a program of a known language is accepted exactly if it gave the
  right answer in every test case and failed in none, whatever a failing one printed,
  and is over memory if it broke for nothing else.  It does not say that the other
  verdicts are right: that is what `verdict_names` refutes.  Jobs without test cases are
  outside it.
* `ShownIsOwn`, `PollingEnds`: a page that does not wait shows the verdict of its last
  order; it stops waiting unless a verdict was lost.
* `LatestShown`: when nothing is on its way any more, a connected page shows standings
  with every result credited so far; registrations since the last update may be
  missing, because nothing tells of them.  From the freeze time on a contestant's page
  may also show what its requests get then, the snapshot or, before the freeze job has
  run, the empty list.  `disordered` names the three ways it may show neither: updates
  that ran at once and may publish in the wrong order, messages nobody was subscribed
  for, and an answer that came after what had overtaken it.
* `JobsAccounted`: a rejudge job that says it is over counted every submission it
  found and FAILED only if none was sent; one that stays RUNNING met a fault; the
  page never shows more than has happened.
* `PagesSound`: the longest streak is a run of days there has been, no shorter than the
  one that ends today, or than the current streak; the two pages agree while the history
  fits one page; heat map, counts and difficulties add up; the percentile is one.
* `BadgesKept`: a badge stays but for the one cause its kind has: a withdrawn acceptance
  for what was solved, a contest left before its start for the one entered, a rated
  contest for the climb, another day for a streak.

### Findings

1. `phase_guard`: the phase guard of update-submission reads the row, awaits and
   writes by id alone.  The update of a first-phase verdict that passed the guard
   is stored in a second-phase row when the transition runs in between (this
   takes a repeated report, for the transition moves accepted rows only).
2. `official_results`: the transition selects the rows accepted at the moment it
   runs; a submission still in the queue at the end of the contest keeps its
   verdict on the samples.
3. `credit_once`: the second-phase acceptance of a submission credits its problem
   again, as the query for earlier acceptances excludes the submission itself.
   No fault or concurrency is needed, only a contest without a freeze.
4. `frozen_entries`: the re-check of `isFrozen` uses the entry read at the start
   of the update, so an entry stamped meanwhile is written.
5. `freeze_hides`: the schema says that the rankings are hidden until the contest
   ends; the public is served the snapshot after the end too, and an acceptance of
   the freeze window is never added to an entry.
6. `verdict_names`: the documents and the schema have verdicts for a timeout, a crash
   and a failed compilation; the worker reports `ACCEPTED`, `WRONG_ANSWER` or `MLE`
   only, so that a timeout or crash is a wrong answer, and a language without a
   configuration is accepted where no output is expected.

Seen while modelling, and described here only:

* The current streak of `calculateStreak` is set at the first day of its loop and is
  never above one, so the badges for seven and thirty days (`badges.ts:116-128`; streaks
  are listed at `docs/roadmap.md:71`) cannot be earned.  No property asserts that bound.
* The profile counts acceptances among the latest twenty submissions
  (`profile.ts:117-119`) and divides by all, while `/api/me` counts all.
  `PagesAgree` therefore speaks of histories that fit one page.
* A job without test cases is accepted.
* Between the freeze time and the freeze job's end the public leaderboard is empty.
* The comments on `wrongAttempts` (`schema.prisma:254`: wrong attempts on the problem,
  where the code counts those of one row) and on `rank` (`schema.prisma:291`: updated
  after each submission, where no handler writes it) are not what the code does.

### Bounds

The bounds are the constants marked BOUND: open callbacks, deliveries,
rejudges, faults; leaderboard handlers, updates per row, restarts.  Two
submissions are enough for everything in the pipeline that relates rows (they
meet only in the queue, where one worker serves both), and one of them is a
practice submission so that both paths are in the same run.  Two faults allow
the combinations that matter: a lost response followed by a lost retry, a
restart after a repeated transition.  `s1` passes the samples and fails on all
tests, which is what tells the phases apart; `s2` is always accepted.  In the
leaderboard everything an update reads or writes belongs to one user, so one
user is enough; two problems are needed for lost updates and two submissions of
one problem for double credit.  Callback slots and handlers are symmetric;
the liveness runs use no symmetry.  Deadlock checking is off because the
instances end: users stop submitting.

In the services two actors of each kind are what a race needs, and the counters
bound what may be started: saves, sessions, orders, calculations, role changes.
Durations are one or two units, the least that tells before, at and after apart.
`RecentLimit` and `YearDays` are two and one where the code has 20 and 365, so that
histories reach beyond them; `FewRows` in `MCServicesLive` keeps a user who has
entered a second contest to one submission, as the numbers from contests and from
submissions meet only in one page. In `Realtime` a standing changes three times, for
example by a registration and two results, and `LiveBounds` in `MCServices` lets one
of the two contests change, keeps two faults to what happens before its freeze and
its end, after one registration and with every attempt to subscribe successful, and
lets the second result come while the contest runs and nothing has failed; no page
is an administrator's there (`AdminPages`), so that branch of the fetch is in the
proof only. A freeze job that runs again is `Leaderboard`'s, an unregistration that
deletes after the start is `ContestSchedule`'s. `CreateContest` of `ContestSchedule`
asks that the contest starts in the future, which the handler does not: contests
that have begun when they are created are left out. Two faults in `services` reach a
failed statement whose handling fails too, and a connection that breaks after a
restart.

### Fairness

`Fairness` assumes that the services keep running: a started handler goes on, a
request in flight arrives or fails, a waiting job is taken by a free worker, a
judging job ends (the sandbox has a time limit), a delayed transition job fires.
Nothing forces a submission, the end of the contest, a rejudge or a fault.  Weak
fairness is enough because none of these steps is disabled again and again by
others for ever: jobs are taken from a queue served by one worker that always
returns.

The services assume as little: in `ContestSchedule` time passes, a started handler
goes on, a schedule request arrives or fails, and a due job is taken; in `RatingJob`
the handler and the worker go on; in `Accounts` time passes; in `Workbench` requests
are answered, timers fire and the worker works.  No user acts and no fault is made to
happen.  `PlagiarismChecked`, `LimiterReopens` and `PollingEnds` have the form `[]<>`:
in `MCServicesLive` a service that is not explored satisfies it in its initial state,
and in that state none of its fair actions is enabled, so that the fairness of the
others says nothing of it.

## 4. What is proved

Every safety invariant and every action property that the passing runs check, the
refinement and the types of the two compositions included, is also a theorem, which
`tlapm` checks in eight modules.  Each holds for every value of the constants that the
assumptions of the modules allow; TLC evaluates those on every run.  For judging they are `SubsAssumption` (practice submissions are
submissions), `OutcomeAssumption` (judging ends in some verdict) and
`BoundsAssumption` (the bounds are numbers, and a background pass is not named
"submit").

`JudgePipelineProofs`:

* `TypeCorrect` (`Spec => []TypeOK`).  `TypeOK` is not inductive.  A job's phase
  is a phase only if the request's was, which for a rejudge is the phase of a row
  that exists; so `RowsExist` ties every request, job, callback and background
  pass to an existing row.  A failed report changes the job of its callback, which
  must still be there: `CallsHaveJobs` says that a worker waits for one callback
  only and that its job is `posted` with the callback's phase.  `Base` is the
  conjunction, proved inductive part by part (`NextType`, `NextRows`, `NextCalls`).
* `NoSubmissionLostSilently` (`Spec => []NoSilentLoss`).  `NoSilentLoss` is
  inductive relative to `Base`: each action that takes the row's work away either
  puts other work in its place, writes the verdict, or records the loss.

The second part of the module is about the guarantees, with the invariant `IInv`:

* `Origins`: a row being submitted is absent, a reported verdict is one of
  `Outcome`, a transition that is not running holds no row, the rows it holds are
  contest rows, the rows a rejudge holds are disturbed;
* `FullyJudged(s)`: a practice row's requests, jobs, callbacks and verdict are on
  all tests, disturbed or not;
* for a row that is not disturbed, `FitsPhase` (tests fit the phase they carry),
  `OneReport` (at most one request, job or callback can still bring a verdict, and
  only while the row is `QUEUED` in the phase it carries), `Chosen` (the transition
  holds accepted first-phase rows, each once) and `Counted` (wrong attempts and
  announcements stay behind the phases entered).

`OneReport` is the heart of it: `VerdictBacked` alone does not exclude a second
callback that writes after the transition moved the row, and the phase guard does
not either, because it reads before it writes.  What excludes it for an
undisturbed row is that the guard never has anything to discard.  The proof has
one lemma per action about the action's own row (`CreateRow`, `JudgeRow`,
`WriteRow`, ...), and `QuietRow` for the rows an action leaves alone; `NextRow`
combines them.  `IInv` was checked with TLC in the `judge_pipeline` instance before
it was proved.  From it follow

* `VerdictsBacked` (`VerdictBacked`), `ReportedAtMostOnce` (`ReportedOnce`),
* `PhasesOnlyForward` (`PhaseForward`), and
* `JudgingImplemented` (`Spec => ImplementsJudging`): the pipeline refines
  `Judging` with `trusted <- Subs \ disturbed`.  `CreateSubmission` is `Submit`,
  `MoveToPhase2` is `Promote`, `WriteVerdict` is `Judge` for a trusted row and
  `Unreliable` otherwise, `RejudgeOne` is `Unreliable`, and every other step leaves
  the rows alone and at most trusts fewer of them (`Distrust`).

`LeaderboardProofs` holds for every contest that `ContestAssumption` describes
(each submission has a user and a problem, of which there are finitely many; points,
times and bounds are numbers) and every number of updates and freezes at a time:

* `TypeCorrect`, with `ScoresOfEntries`: a freeze in progress holds scores of users
  who have an entry, so a snapshot row always belongs to one.
* `SnapshotsImmutable` (`SnapshotImmutable`): of all steps only `FreezeSnapshot`
  writes snapshot rows, and it keeps the ones that exist.
* `CreditsAtMostOnce` (`Spec => []CreditedAtMostOnce`).  The invariant is `CInv`.
  `UpdatesStarted` counts the updates of a row and says that a row with one
  update started has one running at most; `OneWinner(u, p)` says that at most one
  update of the problem has found no other accepted submission and not written
  yet, none once the problem is credited, and that the credit was written by the
  one, finished, update of an accepted submission.  An update that looks for
  another accepted submission therefore finds the winner, whatever the order of
  the looks and the writes - as long as the winner's acceptance is not withdrawn,
  which is what `Steady(u, p)` asks and `SteadyBefore` carries backwards over a step.
* `FirstSolvesCount` (`FirstSolveCounts`).  `FirstInv` says what an update
  leaves behind: an accepted contest row has an update started (`Announced`), and
  whoever ended (`Ended`) or found another accepted submission came after the credit
  (`Credited`).  While no two updates have run at once, the row an update finds has
  ended its own update already, so the problem has its credit (`NextCredited`).
* `CreditsCompleteAlways` (`CreditsComplete`): besides, while no two updates have run at
  once, an entry is the sum of its credits.  What an update is about to add to is what the entry still holds
  (`UpToDate`), so that the entry grows by what is credited (`Exact`); users who have
  not registered have nothing, which is where an upsert that creates starts.

`ContestantProofs`, about `Warnings`, for every set of people, every finite set of
reports and every number of reviews at a time (`WarningsAssumption`):

* `WarningsBackedAlways` (`WarningsBacked`).  What a review is about to store was
  computed from what it read, maybe long ago; `BackedInv` adds that it lies between
  one and one more than the confirmations stored, which only grow.
* `SecondReportBansAlways` (`SecondReportBans`).  `AloneInv` says of a user outside
  `raced` that at most one review deals with them, that its report is still pending,
  and that the warnings it will store are one more than the user has; then the store
  adds one warning and one confirmed report, whose number is a cardinality
  (`ConfirmedFinite`, `SecondReportKept`).

About `VirtualContest`, for every set of browsers and slots, every duration,
cooldown and handling time (`VirtualAssumption`):

* `SessionKeptAlways` (`SessionKept`).  `KeptInv` says, while no two starts have run
  at once, that what a browser or an answer under way still counts down is exactly the
  stored row, and that a start about to delete or create has seen a row whose time is
  up.  The second part is what the code does not check again before its delete, and
  why it takes a second start to break the first.
* `CooldownAlways` (`CooldownHolds`).  `CooldownInv` says that a handler past its
  check faces no submission inside the cooldown, or one was stored beside it.

About `Realtime`, for every number of contests, pages, updates, streams and faults
(`RealtimeAssumption`: each page shows a contest,
the service makes an attempt to subscribe):

* `RealtimeTypeCorrect` (`RealtimeTypeOK`).  `BootInv` bounds the subscriptions by the
  attempts made; `StreamOf(p)` says that a page with a stream is a client of its
  contest and shares the stream with no other, which is why no message of another
  contest gets into it.
* `LatestShownAlways` (`LatestShown`).  `LiveInv` follows the last credited change of a
  contest's standings on its way.  `BoardInv` keeps credits and open rows behind the
  standings.  `OrderOf(c)`: one update at a time is past its upsert, what it has read has
  every result credited, and when none is there the last message on the channel has.
  `Follows(p)`: once no message of the contest is on the channel the last update in the
  page's stream has every result credited, and if there is none in it the page is `Fresh`:
  it shows them or what the freeze left, is about to ask (the answer of its stream's
  opening is still to come or unread), or has been answered with one of the two.
  `Broadcast` hands the claim of the first over to the second; `ReceiveEvent` and
  `AnswerFetch` discharge it.  A registration raises the standings and no credit, which
  is why nothing has to follow it.

`ContestScheduleProofs` holds for every set of users, administrators and plans, every
edit of them, and every number of jobs, lost requests and restarts
(`ScheduleAssumption`: times, offsets and bounds are numbers):

* `ScheduleTypeCorrect` (`TypeOK`), with `JobsLeft`: a job that is not finished has an
  attempt left, without which a failure would take the count below zero.
* `JobsActOnTime` (`JobsOnTime`).  `OnTime(q)` carries the claim back from the effect to
  the job and to the request that is to add it; an edit of a time, and that alone, adds
  its queue to `moved`.
* `FrozenStandingFaithful` (`SnapshotFaithful`) and `PagesFitTogether`
  (`PublicPagesAgree`).  `PointsInv` compares everything that holds points with the
  standing when the window opened: the entries while it is open (`WindowInv`), those
  that are stamped (`FrozenInv`), the scores a job has read and not stored
  (`ScoresInv`), the snapshot (`SnapshotInv`) and the rating's input (`RatingsInv`).
  A retry may store what an earlier attempt read long ago, so the scores of jobs are
  needed although no page shows them; and a stamp outlives the window, so it has to be
  faithful by itself.

`BrowserProofs` holds for every set of browsers, accounts and addresses
(`AccountsAssumption`: the limits are numbers, and the one on registrations is not
above the one on logins), and every number of test cases, orders, polls and faults
(`WorkbenchAssumption`):

* `AccountTypeCorrect` (`AccountTypeOK`) and `AccountsCompleteAlways`
  (`AccountsComplete`).
* `BurstBoundedAlways` (`BurstBounded`).  `Current(left)` are the ages of what arrived
  since the bucket's window was opened.  `Bounded` splits the requests that passed there:
  at most the limit since then, and no more than the bucket counts while the window is
  open, and at most the limit before.  When a window opens, what was in the last one
  becomes what is older, and what was older has left the stretch.  A restart forgets the
  buckets, so a stretch is counted from it anew.
* `CookiesBackedAlways` (`CookiesBacked`).  `OneHolder` says that a token is the cookie
  of one browser or in one answer on its way to one, never both, and not revoked while
  in an answer: a sign-out can then revoke the token of its own browser only.
* `BenchTypeCorrect` (`BenchTypeOK`).  Ids are numbered, and the bound on them is not
  inductive alone; `IdsInv` counts the ids given out and the orders that wait for one
  against the presses of the buttons.
* `VerdictsAreSound` (`VerdictSound`).  `Keeps(machine)` ties what the loop over the test
  cases remembers, a flag and the last message, to what has happened in it: while no
  language was unknown, the flag stands exactly if all that happened was right, and the
  message is the memory limit's if nothing else broke.
* `PageShowsOwnVerdict` (`ShownIsOwn`).  `QueueInv` (an id waits once and has no verdict
  yet), `AnswerInv` (an answer under way is the id's, as long as the id is kept) and
  `HookInv(h)`: a hook that nothing disturbed has one order or one poll at a time,
  which is of the last id it was given, and is at rest only with that id's verdict.

`ServicesProofs` holds for every set of administrators and test cases
(`EditorAssumption`) and for every number of jobs over finite sets of submissions
(`RejudgeAssumption`):

* `EditorTypeCorrect`, `TestsAreOfOneForm` (`TestsOfOneForm`) and `NoCaseIsLost`
  (`NoCaseLost`).  `EditInv`: unless saves crossed, one save at most is between its
  delete and its create, there are no test cases meanwhile, and otherwise they are
  those of the form last written; and a page that shows what is stored still holds all
  of it but what its administrator took out (`BlindInv`), so that the next save cannot
  drop anything else.
* `RejudgeTypeCorrect` and `RejudgeJobsTrue` (`JobsAccounted`).  `Matches` counts: what
  a processor has handled, what it is handling and what is left are the submissions it
  found plus those it handled twice; sent and failed ones are what it has handled; the
  row is never ahead.  `Behind` says the same of rows a page has read, which only
  holds because counts grow and a finished row stays.
* `ServicesTypeCorrect` (`ServicesTypeOK`), from the types of all five services.

`ServicesLiveProofs`, about `RatingJob`, for every finite set of contests and all
users, pairs of sources and callers (`RatingAssumption`: a standing is a sequence of
users without repetition):

* `RatedOnceAlways` (`RatedOnce`).  The check for copied programs runs after a
  calculation that succeeded, so two successes of one contest would report a pair
  twice.  `OnceFor(c)` says where the one success of a contest is - an answer under
  way to the worker, a check about to begin, or the reports - never in two places,
  and that from then on every calculation of the contest is `Refused`, because the
  unique key holds its rows: a calculation that succeeds has stored one at least, as
  it does not get that far when fewer than two took part.
* `RatingsChainedAlways` (`RatingsChained`, the part of `RatingHistory` about the
  chain).  The rows are read long before they are stored, so the invariant must say
  what a handler under way knows: as long as its contest is not `Refused`, every rating
  it has read is `Fresh`, the one its user's last row ends with, or that row's contest
  was rated beside its own (`FreshInv`); and handlers of two contests that run now have
  run side by side (`SideInv`).  A handler that stores makes another's reading stale
  only if that one runs for another contest, and then beside it, or for the same, which
  is `Refused` from then on.  The rows of one block are of different users, because a
  standing has each once.
* `RatingTypeCorrect` and `RatingHistoryAlways` (`RatingHistory`).  Both ask that the
  expected rank be an integer for any two integer ratings (`ExpectedInteger`), which is
  a hypothesis of the theorems because TLC could not evaluate it as an assumption; the
  instance's `MCExpected` satisfies it, and so does any logistic function taken to whole
  hundredths, as the model has it.  `JobsInv` says that one call at most is a rating
  job's, and that the job waits for it, which bounds its attempts.  For the sum,
  `Balanced` makes the changes of one calculation add up to zero, and the calculation
  that stores them was not overtaken: the first to store has read what is current, so
  that each user's last row grows by exactly the change (`AddUpInv`).

About `Statistics`, for all problems, finite sets of rivals, goals and limits
(`StatAssumption`):

* `StatTypeCorrect`.  A day is at least 1, which the types did not say and without which
  they are not inductive: a submission is dated by the day.
* `PagesSoundAlways` (`PagesSound`) needs no more than the types.  `Streak` is a loop
  written as a recursive function; any function that takes the loop's turns is the one
  (`StreakIsChosen`), and what it holds after each day is stated by the length of the
  run that ends there (`StreakIs`), from which the bounds of the longest streak follow
  (`LongestHolds`).  The heat map adds up to the submissions because
  days partition them, and the difficulties to the problems solved (`SumOfKinds`).
* `BadgesKeptAlways` (`BadgesKept`).  Without a withdrawn acceptance the submissions only
  grow (`RowsStay`), and every count of them with them (`GrownCounts`); the entries only
  shrink when a contest is left, the climb is of the rating rows, and the current streak
  is told by whether there was a submission today (`CurrentIs`), which only another day
  takes back.

`LiveServicesTypeCorrect` (`ServicesLiveTypeOK`): a behaviour of the composition is one
of each of its services, as a step of another leaves a service's variables alone.

`SumTheorems` is what those with sums rest on.  The library's induction theorems take an
operator, which the provers cannot instantiate.  So induction is stated for sets, which are
closed under the step (`InductionNat`, `InductionSubsets`), and follows from the well-founded
ordering of the numbers; then the recursive function that adds up a finite set exists, and
the sum of the community modules is that function (`SummationExists`, `SummationOf`).  The
models write their sums as `SumFunction` of a function for this reason.

Proving found where the models, not the code, were wrong or too narrow, and these were
corrected: `SnapshotFaithful` and `PublicPagesAgree` had counterexamples outside the
instance that was checked (a practice contest whose freeze lies before its start; an
edit that moves the end alone), and `late` now names an unregistration whose delete
runs in the window; two arms of the `CASE` of `ContestStatus` overlapped, where the code asks one after the
other; `JobsAccounted`, `CreditsComplete` and `RatingHistory` need finitely many submissions,
problems and contests, which are now assumptions; `StatTypeOK` was not inductive.

Left to TLC are the liveness properties, which rest on fairness and `ENABLED` and are out
of the provers' reach: `JudgedEventually`, `FreezeHappens`, `RatedEventually`,
`PlagiarismChecked`, `LimiterReopens` and `PollingEnds`.  The six findings are
counterexamples, which TLC shows on an instance.

## 5. What is left

Not modelled:

* announcements (they travel as leaderboard messages do), the problems chosen for a
  contest, the lists of problems and users with their filters, the ratings list,
  tags and languages of the profile: reads, or single statements;
* the expiry of sessions, which expire with their cookies, and password hashing;
* the containers of the sandbox, which are operating-system I/O, the similarity of
  two programs and the logistic function of the ratings, which are constants;
* rendering, logging, configuration and routing, which keep nothing.

Worth adding next: a reading of the ratings list while a calculation is under way in
`RatingJob`; announcements in `Realtime`.
