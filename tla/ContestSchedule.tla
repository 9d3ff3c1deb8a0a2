-------------------------- MODULE ContestSchedule --------------------------
(***************************************************************************)
(* The life of one contest: an administrator creates it, edits it in a     *)
(* form and may delete it; the worker is asked to schedule the freeze, the *)
(* transition and the rating job, which fire later and call the backend;   *)
(* users register, unregister and solve meanwhile; the public looks at the *)
(* leaderboard.                                                            *)
(*                                                                         *)
(* The times a job fires at are those of the moment it was scheduled, the  *)
(* times its handler compares with are those of the row, and the edit form *)
(* writes back what it read when it was opened: that is what is modelled.  *)
(* What the transition does to the rows is JudgePipeline's matter and how  *)
(* updates of one user interleave is Leaderboard's; here a user has one    *)
(* leaderboard update at a time and each accepted problem is one point.    *)
(* Visibility, title and slug are left out.                                *)
(***************************************************************************)
EXTENDS Integers, FiniteSets, Sequences

CONSTANTS
    Users, Admins,
    Others,         \* participants besides Users, of whom nothing but their number matters
    Offsets,        \* the UTC offsets of the browsers administrators use
    Plans,          \* the contests that may be created
    FreezeTimes,    \* the freeze times that may be typed into the form
    RatingDelay,    \* threeDays of scheduleRatingCalculation
    MaxPoints,      \* BOUND: problems a user solves
    MaxTime,        \* BOUND: the clock
    MaxEvents       \* BOUND: edits, lost requests and responses, restarts

Never == -9         \* a time that is null

Plan == [start : Int, end : Int, freeze : Int,
         isRated : BOOLEAN, isPractice : BOOLEAN, registrationOpen : BOOLEAN]

ASSUME ScheduleAssumption ==
    /\ Plans \subseteq Plan /\ FreezeTimes \subseteq Int
    /\ Offsets \subseteq Int
    /\ {Others, RatingDelay, MaxPoints, MaxTime, MaxEvents} \subseteq Nat

VARIABLES
    clock,
    contest,        \* the row of Contest, or NoContest before and after it exists
    created,
    form,           \* what an administrator's edit form holds
    todo,           \* schedule requests an administrator's handler still sends
    jobs,           \* the delayed jobs of the three queues, in the order added
    entry,          \* LeaderboardEntry of each user
    snapshot,       \* LeaderboardSnapshot of each user
    ratings,        \* UserRating of each user: the points it was computed from
    leaving,        \* users an unregister handler of whom is past its checks
    accepted,       \* contest problems a user has an accepted submission for
    update,         \* the running handleLeaderboardUpdate of a user
    saves, faults,
    ran,            \* history: when a queue's job first took effect
    moved,          \* history: queues whose time or condition an edit changed
    lost,           \* history: queues with a lost request or a failed job
    atFreeze,       \* history: a user's points when the freeze window opened
    late            \* history: users with an update, a freeze or an unregistration that
                    \* ended after the time it was checked against, or one who left in the window

row == <<contest, created, form, todo, saves, moved>>
people == <<entry, leaving, accepted, update>>
results == <<snapshot, ratings, ran>>
vars == <<clock, row, jobs, people, results, faults, lost, atFreeze, late>>

Queues == {"ratings", "phase-transitions", "freezes"}
MaxAttempts == 3

NoContest == [start |-> Never, end |-> Never, freeze |-> Never,
              isRated |-> FALSE, isPractice |-> FALSE, registrationOpen |-> FALSE]
NoEntry == [present |-> FALSE, points |-> 0, frozen |-> FALSE]
NoRow == -1
NoUpdate == [pc |-> "none"]

Exists == contest # NoContest
Later(a, b) == IF a < b THEN b ELSE a

\* Mutant: updates of the very freeze time still count.
InFreezeWindowAfter(t) == contest.freeze # Never /\ contest.freeze < t /\ t <= contest.end

\* The freeze window as handleLeaderboardUpdate and getContestLeaderboard see it.
InFreezeWindow(t) == contest.freeze # Never /\ contest.freeze <= t /\ t <= contest.end

\* The time a queue's job is for, by the row c.
TimeFor(q, c) ==
    CASE q = "ratings" -> c.end + RatingDelay
      [] q = "phase-transitions" -> c.end
      [] q = "freezes" -> c.freeze

-----------------------------------------------------------------------------
(* The administrators.                                                     *)

\* Mutant: no freeze is scheduled.
OnCreateUnfrozen(c) ==
    (IF c.isRated THEN <<"ratings">> ELSE <<>>) \o (IF c.isPractice THEN <<>> ELSE <<"phase-transitions">>)

\* Mutant: a frozen contest gets no rating job.
OnCreateRatedOrFrozen(c) ==
    (IF c.isRated /\ c.freeze = Never THEN <<"ratings">> ELSE <<>>)
        \o (IF c.isPractice THEN <<>> ELSE <<"phase-transitions">>)
        \o (IF c.freeze = Never THEN <<>> ELSE <<"freezes">>)

\* createContest schedules rating, transition and freeze, in this order.
OnCreate(c) ==
    (IF c.isRated THEN <<"ratings">> ELSE <<>>)
        \o (IF c.isPractice THEN <<>> ELSE <<"phase-transitions">>)
        \o (IF c.freeze = Never THEN <<>> ELSE <<"freezes">>)

\* updateContest schedules a freeze, whether or not its time changed, and no other job.
OnUpdate(c) == IF c.freeze # Never /\ ~c.isPractice THEN <<"freezes">> ELSE <<>>

\* The requests of a handler for the row it wrote, each with the time it sends.
Requests(queues, c) == [i \in DOMAIN queues |-> [queue |-> queues[i], at |-> TimeFor(queues[i], c)]]

\* createContest, before the contest is to start.
CreateContest(a, p) ==
    /\ ~created /\ todo[a] = <<>> /\ clock < p.start
    /\ contest' = p
    /\ created' = TRUE
    /\ todo' = [todo EXCEPT ![a] = Requests(OnCreate(p), p)]
    /\ UNCHANGED <<clock, form, saves, moved, jobs, people, results, faults, lost, atFreeze, late>>

\* The edit page loads the contest into its form.  The form shows a time in UTC
\* and reads it back as local time, so saving shifts it by the browser's offset.
OpenForm(a, offset) ==
    /\ Exists /\ form[a] = NoContest /\ saves + faults < MaxEvents
    /\ form' = [form EXCEPT ![a] =
                  [contest EXCEPT !.start = @ - offset, !.end = @ - offset,
                                  !.freeze = IF @ = Never THEN Never ELSE @ - offset]]
    /\ UNCHANGED <<clock, contest, created, todo, saves, moved, jobs, people, results, faults, lost, atFreeze, late>>

\* What may be sent from a form: as it was loaded, or with one field changed.
Edits(f) ==
    {f} \union {[f EXCEPT !.freeze = t] : t \in FreezeTimes \union {Never}}
        \union {[f EXCEPT !.isRated = ~@], [f EXCEPT !.isPractice = ~@],
                [f EXCEPT !.registrationOpen = ~@]}

\* The queues for which the row p asks for something else than the row c.
Changed(c, p) ==
    {q \in Queues : \/ TimeFor(q, c) # TimeFor(q, p)
                    \/ c.isPractice # p.isPractice
                    \/ q = "freezes" /\ c.end # p.end
                    \/ q = "ratings" /\ c.isRated # p.isRated}

\* updateContest with every field of the form.
UpdateContest(a, p) ==
    /\ form[a] # NoContest /\ p \in Edits(form[a])
    /\ Exists /\ todo[a] = <<>> /\ saves + faults < MaxEvents
    /\ contest' = p
    /\ moved' = moved \union Changed(contest, p)
    /\ form' = [form EXCEPT ![a] = NoContest]
    /\ todo' = [todo EXCEPT ![a] = Requests(OnUpdate(p), p)]
    /\ saves' = saves + 1
    /\ UNCHANGED <<clock, created, jobs, people, results, faults, lost, atFreeze, late>>

\* deleteContest; the rows that belong to the contest go with it.
DeleteContest ==
    /\ Exists /\ saves + faults < MaxEvents
    /\ saves' = saves + 1
    /\ contest' = NoContest
    /\ entry' = [u \in Users |-> NoEntry]
    /\ snapshot' = [u \in Users |-> NoRow]
    /\ ratings' = [u \in Users |-> NoRow]
    /\ accepted' = [u \in Users |-> 0]
    /\ update' = [u \in Users |-> NoUpdate]
    /\ UNCHANGED <<clock, created, form, todo, moved, jobs, leaving, ran, faults, lost, atFreeze, late>>

-----------------------------------------------------------------------------
(* The schedule requests and the delayed jobs.                             *)

Job(q, due) == [queue |-> q, due |-> due, state |-> "waiting", left |-> MaxAttempts,
                scores |-> [u \in Users |-> NoRow]]

\* Mutant: the job is added without a delay.
AddJobAtOnce(r) == jobs' = Append(jobs, Job(r.queue, clock))

\* schedule-rating, schedule-phase-transition, schedule-freeze: a new job each time.
AddJob(r) == jobs' = Append(jobs, Job(r.queue, Later(clock, r.at)))

SendSchedule(a) ==
    /\ todo[a] # <<>>
    /\ AddJob(Head(todo[a]))
    /\ todo' = [todo EXCEPT ![a] = Tail(@)]
    /\ UNCHANGED <<clock, contest, created, form, saves, moved, people, results, faults, lost, atFreeze, late>>

\* The request fails or is refused: the handler logs it and goes on.
LoseSchedule(a) ==
    /\ todo[a] # <<>> /\ saves + faults < MaxEvents
    /\ lost' = lost \union {Head(todo[a]).queue}
    /\ todo' = [todo EXCEPT ![a] = Tail(@)]
    /\ faults' = faults + 1
    /\ UNCHANGED <<clock, contest, created, form, saves, moved, jobs, people, results, atFreeze, late>>

\* Job j can be taken: it is due and its queue's worker is free.
Ready(j) ==
    /\ jobs[j].state = "waiting" /\ jobs[j].due <= clock
    /\ \A k \in DOMAIN jobs : jobs[k].queue = jobs[j].queue => jobs[k].state \notin {"read", "stored"}

\* Mutant: attempts are counted but do not end.
AfterFailureRetrying(job) == [job EXCEPT !.left = @ - 1]

\* The job with an attempt used up: the failed jobs stay in the queue.
AfterFailure(job) ==
    [job EXCEPT !.left = @ - 1, !.state = IF job.left = 1 THEN "failed" ELSE "waiting"]

FailAttempt(j) ==
    /\ jobs' = [jobs EXCEPT ![j] = AfterFailure(@)]
    /\ lost' = IF jobs[j].left = 1 THEN lost \union {jobs[j].queue} ELSE lost

\* The handler answered; the answer reaches the worker or it does not.
Answer(j) ==
    \/ /\ jobs' = [jobs EXCEPT ![j].state = "done"]
       /\ UNCHANGED <<lost, faults>>
    \/ /\ saves + faults < MaxEvents /\ faults' = faults + 1
       /\ FailAttempt(j)

Effect(q) == ran' = [ran EXCEPT ![q] = IF @ = Never THEN clock ELSE @]

\* handleFreezeContest: the contest, then the scores.
FreezeRead(j) ==
    /\ jobs[j].queue = "freezes" /\ Ready(j)
    /\ \/ ~Exists /\ FailAttempt(j) /\ UNCHANGED <<ran, faults, late>>
       \/ Exists /\ contest.freeze = Never /\ Answer(j) /\ UNCHANGED <<ran, late>>
       \/ /\ Exists /\ contest.freeze # Never
          /\ Effect("freezes")
          /\ jobs' = [jobs EXCEPT ![j].state = "read",
                        ![j].scores = [u \in Users |-> IF entry[u].present THEN entry[u].points ELSE NoRow]]
          /\ late' = IF clock > contest.end THEN late \union {u \in Users : entry[u].present} ELSE late
          /\ UNCHANGED <<lost, faults>>
    /\ UNCHANGED <<clock, row, people, snapshot, ratings, atFreeze>>

\* The snapshot, skipping the rows it has.  Rows of a contest deleted meanwhile are refused.
FreezeSnapshot(j) ==
    /\ jobs[j].queue = "freezes" /\ jobs[j].state = "read"
    /\ \/ /\ ~Exists /\ FailAttempt(j)
          /\ UNCHANGED snapshot
       \/ /\ Exists
          /\ snapshot' = [u \in Users |-> IF snapshot[u] = NoRow THEN jobs[j].scores[u] ELSE snapshot[u]]
          /\ jobs' = [jobs EXCEPT ![j].state = "stored"]
          /\ UNCHANGED lost
    /\ UNCHANGED <<clock, row, people, ratings, ran, faults, atFreeze, late>>

FreezeStamp(j) ==
    /\ jobs[j].queue = "freezes" /\ jobs[j].state = "stored"
    /\ entry' = [u \in Users |-> [entry[u] EXCEPT !.frozen = entry[u].present]]
    /\ late' = IF clock > contest.end THEN late \union {u \in Users : ~entry[u].frozen} ELSE late
    /\ Answer(j)
    /\ UNCHANGED <<clock, row, leaving, accepted, update, results, atFreeze>>

\* handleTransitionJudgePhaseWorker, as far as the contest is concerned.
RunTransition(j) ==
    /\ jobs[j].queue = "phase-transitions" /\ Ready(j)
    /\ \/ ~Exists /\ FailAttempt(j) /\ UNCHANGED <<ran, faults>>
       \/ Exists /\ contest.isPractice /\ Answer(j) /\ UNCHANGED ran
       \/ Exists /\ ~contest.isPractice /\ Answer(j) /\ Effect("phase-transitions")
    /\ UNCHANGED <<clock, row, people, snapshot, ratings, atFreeze, late>>

Participants == {u \in Users : entry[u].present}

\* handleCalculateRatings refuses a contest that is not rated, not over, too small or
\* already rated (the unique key of UserRating).
Ratable ==
    /\ Exists /\ contest.isRated /\ clock > contest.end
    /\ Cardinality(Participants) + Others >= 2
    /\ ran["ratings"] = Never

RunRating(j) ==
    /\ jobs[j].queue = "ratings" /\ Ready(j)
    /\ \/ ~Ratable /\ FailAttempt(j) /\ UNCHANGED <<ratings, ran, faults>>
       \/ /\ Ratable
          /\ ratings' = [u \in Users |-> IF u \in Participants THEN entry[u].points ELSE ratings[u]]
          /\ Effect("ratings")
          /\ Answer(j)
    /\ UNCHANGED <<clock, row, people, snapshot, atFreeze, late>>

-----------------------------------------------------------------------------
(* The users.                                                              *)

\* registerForContest.  The unique key of the entry makes a second one fail.
Register(u) ==
    /\ Exists /\ ~entry[u].present /\ contest.registrationOpen
    /\ contest.isPractice \/ clock <= contest.end
    /\ entry' = [entry EXCEPT ![u] = [NoEntry EXCEPT !.present = TRUE]]
    /\ UNCHANGED <<clock, row, jobs, leaving, accepted, update, results, faults, lost, atFreeze, late>>

\* unregisterFromContest: the checks, then the delete.
Unregister(u) ==
    /\ Exists /\ entry[u].present /\ u \notin leaving
    /\ clock < contest.start
    /\ leaving' = leaving \union {u}
    /\ UNCHANGED <<clock, row, jobs, entry, accepted, update, results, faults, lost, atFreeze, late>>

DeleteEntry(u) ==
    /\ u \in leaving
    /\ leaving' = leaving \ {u}
    /\ entry' = [entry EXCEPT ![u] = NoEntry]
    /\ late' = IF clock >= contest.start \/ InFreezeWindow(clock) THEN late \union {u} ELSE late
    /\ UNCHANGED <<clock, row, jobs, accepted, update, results, faults, lost, atFreeze>>

\* Whom submitContestProblemSolution takes a submission from.
MaySubmit(u) ==
    /\ Exists /\ entry[u].present
    /\ contest.isPractice \/ clock \in contest.start..contest.end

\* A submission for another problem, sent while the contest takes it, is accepted.
Accept(u) ==
    /\ MaySubmit(u) /\ update[u] = NoUpdate
    /\ accepted[u] < MaxPoints
    /\ accepted' = [accepted EXCEPT ![u] = @ + 1]
    /\ update' = [update EXCEPT ![u] = [pc |-> "contest"]]
    /\ UNCHANGED <<clock, row, jobs, entry, leaving, results, faults, lost, atFreeze, late>>

\* handleLeaderboardUpdate until it has read the entry; in the window it ends at once.
ReadEntry(u) ==
    /\ update[u].pc = "contest"
    /\ update' = [update EXCEPT ![u] = IF InFreezeWindow(clock) THEN NoUpdate
                                       ELSE [pc |-> "write", read |-> entry[u]]]
    /\ UNCHANGED <<clock, row, jobs, entry, leaving, accepted, results, faults, lost, atFreeze, late>>

\* Mutant: the stamp that was read is not looked at.
WriteEntryUnchecked(u) ==
    /\ update[u].pc = "write"
    /\ entry' = [entry EXCEPT ![u] = [@ EXCEPT !.present = TRUE,
                                        !.points = update[u].read.points + 1]]
    /\ late' = IF entry[u].frozen # update[u].read.frozen \/ InFreezeWindow(clock)
               THEN late \union {u} ELSE late
    /\ update' = [update EXCEPT ![u] = NoUpdate]
    /\ UNCHANGED <<clock, row, jobs, leaving, accepted, results, faults, lost, atFreeze>>

\* The upsert, unless the entry was read stamped.
WriteEntry(u) ==
    /\ update[u].pc = "write"
    /\ IF update[u].read.frozen THEN UNCHANGED <<entry, late>>
       ELSE /\ entry' = [entry EXCEPT ![u] = [@ EXCEPT !.present = TRUE,
                                              !.points = update[u].read.points + 1]]
            /\ late' = IF entry[u].frozen # update[u].read.frozen \/ InFreezeWindow(clock)
                      THEN late \union {u} ELSE late
    /\ update' = [update EXCEPT ![u] = NoUpdate]
    /\ UNCHANGED <<clock, row, jobs, leaving, accepted, results, faults, lost, atFreeze>>

-----------------------------------------------------------------------------
(* Time and restarts.                                                      *)

Tick ==
    /\ clock < MaxTime
    /\ clock' = clock + 1
    /\ atFreeze' = IF Exists /\ contest.freeze = clock + 1
                   THEN [u \in Users |-> entry[u].points] ELSE atFreeze
    /\ UNCHANGED <<row, jobs, people, results, faults, lost, late>>

\* The backend restarts: its handlers are gone, the jobs they answered fail an attempt.
CrashBackend ==
    /\ saves + faults < MaxEvents /\ faults' = faults + 1
    /\ todo' = [a \in Admins |-> <<>>]
    /\ leaving' = {}
    /\ update' = [u \in Users |-> NoUpdate]
    /\ LET cut == {j \in DOMAIN jobs : jobs[j].state \in {"read", "stored"}}
       IN  /\ jobs' = [j \in DOMAIN jobs |-> IF j \in cut THEN AfterFailure(jobs[j]) ELSE jobs[j]]
           /\ lost' = lost \union {jobs[j].queue : j \in {k \in cut : jobs[k].left = 1}}
                          \union UNION {{todo[a][i].queue : i \in DOMAIN todo[a]} : a \in Admins}
    /\ UNCHANGED <<clock, contest, created, form, saves, moved, entry, accepted, results, atFreeze, late>>

-----------------------------------------------------------------------------
(* What the public sees, and the specification.                            *)

\* getContestLeaderboard for a guest: from the freeze time on, the snapshot.
UseSnapshot == contest.freeze # Never /\ clock >= contest.freeze
PublicPoints(u) ==
    CASE UseSnapshot -> snapshot[u]
      [] ~UseSnapshot /\ entry[u].present -> entry[u].points
      [] OTHER -> NoRow

\* getContestStatus, and the filter of listContest for each of its results.
ContestStatus ==
    IF clock < contest.start THEN "upcoming"
    ELSE IF clock > contest.end THEN "past" ELSE "live"
ListedAs(status) ==
    CASE status = "upcoming" -> contest.start > clock
      [] status = "live" -> contest.start <= clock /\ contest.end >= clock
      [] status = "past" -> contest.end < clock

\* getContestDetails for a user: a practice contest shows its problems at any time.
Details(u) == [status |-> ContestStatus, registered |-> entry[u].present,
               problems |-> contest.isPractice \/ clock >= contest.start]

\* listContestProblems: no problem opens before the start, of a practice contest neither.
ProblemsOpen == clock >= contest.start

\* listContestProblemById: how many of the problems the user finds marked as solved.
SolvedShown(u) == IF ProblemsOpen THEN accepted[u] ELSE 0

\* getContestRatings: the rows, once a rated contest is over.
RatingsShown(u) ==
    IF Exists /\ contest.isRated /\ clock > contest.end THEN ratings[u] ELSE NoRow

Init ==
    /\ clock = 0
    /\ contest = NoContest /\ created = FALSE
    /\ form = [a \in Admins |-> NoContest]
    /\ todo = [a \in Admins |-> <<>>]
    /\ jobs = <<>>
    /\ entry = [u \in Users |-> NoEntry]
    /\ snapshot = [u \in Users |-> NoRow]
    /\ ratings = [u \in Users |-> NoRow]
    /\ leaving = {}
    /\ accepted = [u \in Users |-> 0]
    /\ update = [u \in Users |-> NoUpdate]
    /\ saves = 0 /\ faults = 0
    /\ ran = [q \in Queues |-> Never]
    /\ moved = {} /\ lost = {}
    /\ atFreeze = [u \in Users |-> 0]
    /\ late = {}

Administer ==
    \/ \E a \in Admins : \/ \E p \in Plans : CreateContest(a, p)
                        \/ \E offset \in Offsets : OpenForm(a, offset)
                        \/ \E p \in Edits(form[a]) : UpdateContest(a, p)
                        \/ SendSchedule(a) \/ LoseSchedule(a)
    \/ DeleteContest

RunJob(j) ==
    FreezeRead(j) \/ FreezeSnapshot(j) \/ FreezeStamp(j) \/ RunTransition(j) \/ RunRating(j)

UseContest(u) ==
    Register(u) \/ Unregister(u) \/ DeleteEntry(u) \/ Accept(u) \/ ReadEntry(u) \/ WriteEntry(u)

Next ==
    \/ Administer
    \/ \E j \in DOMAIN jobs : RunJob(j)
    \/ \E u \in Users : UseContest(u)
    \/ Tick \/ CrashBackend

\* Handlers go on, requests arrive or fail, due jobs are taken, time passes.
Fairness ==
    /\ WF_vars(Tick)
    /\ \A a \in Admins : WF_vars(SendSchedule(a) \/ LoseSchedule(a))
    /\ WF_vars(\E j \in DOMAIN jobs : RunJob(j))
    /\ \A u \in Users : WF_vars(DeleteEntry(u) \/ ReadEntry(u) \/ WriteEntry(u))

Spec == Init /\ [][Next]_vars /\ Fairness

-----------------------------------------------------------------------------
(* Properties.                                                             *)

\* Type correctness.
TypeOK ==
    /\ clock \in Nat /\ saves \in Nat /\ faults \in Nat /\ created \in BOOLEAN
    /\ contest \in Plan /\ form \in [Admins -> Plan]
    /\ todo \in [Admins -> Seq([queue : Queues, at : Int])]
    /\ jobs \in Seq([queue : Queues, due : Int, left : 0..MaxAttempts,
                     state : {"waiting", "read", "stored", "done", "failed"},
                     scores : [Users -> Int]])
    /\ entry \in [Users -> [present : BOOLEAN, points : Nat, frozen : BOOLEAN]]
    /\ snapshot \in [Users -> Int] /\ ratings \in [Users -> Int] /\ accepted \in [Users -> Nat]
    /\ leaving \subseteq Users
    /\ update \in [Users -> {NoUpdate} \union [pc : {"contest"}] \union
          [pc : {"write"}, read : [present : BOOLEAN, points : Nat, frozen : BOOLEAN]]]
    /\ ran \in [Queues -> Int] /\ moved \subseteq Queues /\ lost \subseteq Queues
    /\ atFreeze \in [Users -> Nat] /\ late \subseteq Users

\* A job that was not overtaken by an edit acts no earlier than the time the row has
\* for it: delays are computed from the times sent with the request.
JobsOnTime ==
    \A q \in Queues : Exists /\ ran[q] # Never /\ q \notin moved => ran[q] >= TimeFor(q, contest)

\* The snapshot is the standing of the moment the freeze window opened, however late
\* in the window the job runs and however often it is delivered: updates of the window
\* leave the entries alone.  Not so for an update that read before the window and wrote
\* in it, a job that ran after the contest, an unregistration that took until after the
\* start or fell into the window, which may open before the start, and a window that was
\* edited.
SnapshotFaithful ==
    \A u \in Users : snapshot[u] # NoRow /\ "freezes" \notin moved /\ u \notin late
                      => snapshot[u] = atFreeze[u]

\* The standing the public keeps seeing and the one the ratings were computed from are
\* the same for everyone the freeze job stamped in time.
RatedAsShown ==
    \A u \in Users : /\ RatingsShown(u) # NoRow /\ snapshot[u] # NoRow /\ entry[u].frozen
                      /\ u \notin late /\ moved \intersect {"freezes", "ratings"} = {}
                     => RatingsShown(u) = PublicPoints(u)

\* The contest's other pages agree with the handlers behind them: it is listed under the
\* status its own page shows, and under no other unless it ends before it starts, which
\* nobody checks; who may submit is shown as registered and finds the
\* problems listed, and can open them unless it is a practice contest; and who finds a
\* problem marked as solved is a participant, unless it is a practice contest, an
\* unregistration took until after the start or an edit let the user leave.
ContestPagesAgree ==
    Exists =>
        /\ ListedAs(ContestStatus)
        /\ contest.start <= contest.end => {s \in {"upcoming", "live", "past"} : ListedAs(s)} = {ContestStatus}
        /\ \A u \in Users :
              /\ MaySubmit(u) => /\ Details(u).registered /\ Details(u).problems
                                 /\ contest.isPractice \/ (ProblemsOpen /\ ContestStatus = "live")
              /\ SolvedShown(u) > 0 /\ u \notin late /\ saves = 0 /\ ~contest.isPractice
                   => Details(u).registered

\* What the public pages of a contest show fits together.
PublicPagesAgree == RatedAsShown /\ ContestPagesAgree

\* Everyone registered before the freeze time gets a snapshot row, unless the request
\* was lost, the job failed, the contest was edited or deleted, or the user left.
FreezeHappens ==
    \A u \in Users :
        (Exists /\ entry[u].present /\ clock < contest.freeze)
            ~> (snapshot[u] # NoRow \/ "freezes" \in lost \union moved \/ ~Exists \/ ~entry[u].present)

\* A contest created as rated, with two participants, is rated in the end, with the
\* same exceptions.
RatedEventually ==
    (Exists /\ contest.isRated /\ Cardinality(Participants) + Others >= 2)
        ~> (\/ ran["ratings"] # Never
            \/ "ratings" \in lost \union moved \/ ~Exists \/ Cardinality(Participants) + Others < 2)

\* "Leaderboard freeze: hide rankings after this time until contest ends"
\* (schema.prisma): once the contest is over and every job due has run, the public
\* sees what a user has solved, the problems of the freeze window included.
HiddenUntilEnd ==
    \A u \in Users : /\ Exists /\ clock > contest.end /\ faults = 0 /\ saves = 0
                     /\ \A a \in Admins : todo[a] = <<>>
                     /\ \A j \in DOMAIN jobs : jobs[j].due <= clock => jobs[j].state = "done"
                     /\ accepted[u] > 0 /\ update[u] = NoUpdate
                    => PublicPoints(u) = accepted[u]

=============================================================================
