------------------------ MODULE ContestScheduleProofs ------------------------
(***************************************************************************)
(* Theorems about ContestSchedule, for every contest, every number of      *)
(* users, administrators, edits, faults and restarts: types; jobs act on   *)
(* time; the snapshot is the standing of the moment the freeze window      *)
(* opened; what the public pages show fits together.                       *)
(***************************************************************************)
EXTENDS ContestSchedule, SequenceTheorems, TLAPS

EntryRow == [present : BOOLEAN, points : Nat, frozen : BOOLEAN]
JobRow == [queue : Queues, due : Int, left : 0..MaxAttempts,
           state : {"waiting", "read", "stored", "done", "failed"}, scores : [Users -> Int]]
Request == [queue : Queues, at : Int]
Updates == {NoUpdate} \union [pc : {"contest"}] \union [pc : {"write"}, read : EntryRow]

-----------------------------------------------------------------------------
(* Operators.                                                              *)

\* The three times a row holds for the queues.
LEMMA TimesAre ==
    ASSUME NEW c
    PROVE  /\ TimeFor("ratings", c) = c.end + RatingDelay
           /\ TimeFor("phase-transitions", c) = c.end
           /\ TimeFor("freezes", c) = c.freeze
<1>1. "ratings" # "phase-transitions" /\ "ratings" # "freezes" /\ "phase-transitions" # "freezes"
  OBVIOUS
<1> QED BY <1>1, Zenon DEF TimeFor

LEMMA TimesInt ==
    ASSUME ScheduleAssumption, NEW q \in Queues, NEW c \in Plan
    PROVE  TimeFor(q, c) \in Int
<1>1. c.end \in Int /\ c.freeze \in Int /\ RatingDelay \in Int
  BY DEF Plan, ScheduleAssumption
<1> QED BY <1>1, TimesAre DEF Queues

LEMMA NoContestIsPlan == NoContest \in Plan
BY DEF NoContest, Plan, Never

\* A handler's requests: to a queue, at the time its row has for it.
LEMMA RequestsAre ==
    ASSUME ScheduleAssumption, NEW c \in Plan, NEW s \in Seq(Queues)
    PROVE  /\ Requests(s, c) \in Seq(Request)
           /\ DOMAIN Requests(s, c) = 1..Len(s)
           /\ \A i \in DOMAIN Requests(s, c) : Requests(s, c)[i].at = TimeFor(Requests(s, c)[i].queue, c)
<1>1. DOMAIN s = 1..Len(s) /\ Len(s) \in Nat /\ \A i \in DOMAIN s : s[i] \in Queues
  BY LenProperties, ElementOfSeq
<1>2. \A i \in DOMAIN s : TimeFor(s[i], c) \in Int
  BY <1>1, TimesInt
<1>3. Requests(s, c) = [i \in 1..Len(s) |-> [queue |-> s[i], at |-> TimeFor(s[i], c)]]
  BY <1>1, Zenon DEF Requests
<1>4. \A i \in 1..Len(s) : [queue |-> s[i], at |-> TimeFor(s[i], c)] \in Request
  BY <1>1, <1>2 DEF Request
<1>5. Requests(s, c) \in [1..Len(s) -> Request]
  BY <1>3, <1>4
<1> QED BY <1>1, <1>3, <1>5, SeqDef

LEMMA SchedulesAre ==
    ASSUME NEW c \in Plan
    PROVE  OnCreate(c) \in Seq(Queues) /\ OnUpdate(c) \in Seq(Queues)
<1>1. <<"ratings">> \in Seq(Queues) /\ <<"phase-transitions">> \in Seq(Queues) /\ <<"freezes">> \in Seq(Queues)
  BY DEF Queues
<1>2. <<>> \in Seq(Queues)
  BY EmptySeq
<1> DEFINE r == IF c.isRated THEN <<"ratings">> ELSE <<>>
           p == IF c.isPractice THEN <<>> ELSE <<"phase-transitions">>
           f == IF c.freeze = Never THEN <<>> ELSE <<"freezes">>
<1>3. r \in Seq(Queues) /\ p \in Seq(Queues) /\ f \in Seq(Queues)
  BY <1>1, <1>2
<1>4. OnCreate(c) = (r \o p) \o f
  BY DEF OnCreate
<1> HIDE DEF r, p, f
<1>5. OnCreate(c) \in Seq(Queues)
  <2>1. r \o p \in Seq(Queues)
    BY <1>3, ConcatProperties
  <2> QED BY <1>3, <1>4, <2>1, ConcatProperties
<1>6. OnUpdate(c) \in Seq(Queues)
  BY <1>1, <1>2 DEF OnUpdate
<1> QED BY <1>5, <1>6

\* What may be sent from a form is a plan, with the form's start and end.
LEMMA EditsArePlans ==
    ASSUME ScheduleAssumption, NEW f \in Plan, NEW p \in Edits(f)
    PROVE  p \in Plan /\ p.start = f.start /\ p.end = f.end
<1>1. \A t \in FreezeTimes \union {Never} : t \in Int
  BY DEF ScheduleAssumption, Never
<1>2. CASE p = f
  BY <1>2
<1>3. CASE \E t \in FreezeTimes \union {Never} : p = [f EXCEPT !.freeze = t]
  BY <1>1, <1>3 DEF Plan
<1>4. CASE p = [f EXCEPT !.isRated = ~f.isRated]
  BY <1>4 DEF Plan
<1>5. CASE p = [f EXCEPT !.isPractice = ~f.isPractice]
  BY <1>5 DEF Plan
<1>6. CASE p = [f EXCEPT !.registrationOpen = ~f.registrationOpen]
  BY <1>6 DEF Plan
<1> QED BY <1>2, <1>3, <1>4, <1>5, <1>6 DEF Edits

\* What a form shows of a contest.
LEMMA FormsArePlans ==
    ASSUME NEW c \in Plan, NEW offset \in Int
    PROVE  LET f == [c EXCEPT !.start = @ - offset, !.end = @ - offset,
                              !.freeze = IF @ = Never THEN Never ELSE @ - offset]
           IN  f \in Plan
<1> DEFINE z == IF c.freeze = Never THEN Never ELSE c.freeze - offset
           c1 == [c EXCEPT !.start = c.start - offset]
           c2 == [c1 EXCEPT !.end = c1.end - offset]
           c3 == [c2 EXCEPT !.freeze = z]
<1>1. c1 \in Plan /\ c1.freeze = c.freeze
  BY DEF Plan
<1>2. z \in Int
  BY DEF Plan, Never
<1> HIDE DEF c1, z
<1>3. c2 \in Plan
  BY <1>1 DEF Plan
<1> HIDE DEF c2
<1>4. c3 \in Plan
  BY <1>2, <1>3 DEF Plan
<1>5. c3 = [c EXCEPT !.start = @ - offset, !.end = @ - offset,
                     !.freeze = IF @ = Never THEN Never ELSE @ - offset]
  BY <1>1 DEF c1, c2, z, Plan
<1> QED BY <1>4, <1>5

\* A failed attempt changes the attempts left and the state, nothing else.
LEMMA FailuresAre ==
    ASSUME NEW job \in JobRow, job.left >= 1
    PROVE  /\ AfterFailure(job) \in JobRow
           /\ AfterFailure(job).queue = job.queue /\ AfterFailure(job).due = job.due
           /\ AfterFailure(job).scores = job.scores
           /\ AfterFailure(job).state \in {"waiting", "failed"}
           /\ AfterFailure(job).state = "waiting" => AfterFailure(job).left >= 1
<1> DEFINE s == IF job.left = 1 THEN "failed" ELSE "waiting"
           j1 == [job EXCEPT !.left = job.left - 1]
           j2 == [j1 EXCEPT !.state = s]
<1>1. AfterFailure(job) = j2
  BY Zenon DEF AfterFailure
<1>2. /\ j1 \in JobRow /\ j1.queue = job.queue /\ j1.due = job.due /\ j1.scores = job.scores
      /\ j1.left = job.left - 1 /\ job.left \in Int
  BY DEF JobRow, MaxAttempts
<1> HIDE DEF j1
<1>3. s \in {"waiting", "failed"} /\ (s = "waiting" => job.left # 1)
  OBVIOUS
<1> HIDE DEF s
<1>4. /\ j2 \in JobRow /\ j2.queue = j1.queue /\ j2.due = j1.due /\ j2.scores = j1.scores
      /\ j2.left = j1.left /\ j2.state = s
  BY <1>2, <1>3 DEF JobRow
<1> HIDE DEF j2
<1> QED BY <1>1, <1>2, <1>3, <1>4

LEMMA JobStates ==
    ASSUME NEW job \in JobRow
    PROVE  /\ \A s \in {"waiting", "read", "stored", "done", "failed"} : [job EXCEPT !.state = s] \in JobRow
           /\ \A f \in [Users -> Int] : [job EXCEPT !.scores = f] \in JobRow
           /\ \A s \in {"waiting", "read", "stored", "done", "failed"} :
                LET n == [job EXCEPT !.state = s] IN
                n.queue = job.queue /\ n.due = job.due /\ n.left = job.left /\ n.scores = job.scores /\ n.state = s
           /\ \A f \in [Users -> Int] :
                LET n == [job EXCEPT !.scores = f] IN
                n.queue = job.queue /\ n.due = job.due /\ n.left = job.left /\ n.scores = f /\ n.state = job.state
BY DEF JobRow

-----------------------------------------------------------------------------
(* Types.                                                                  *)

\* A job that is not finished has an attempt left.
JobsLeft ==
    \A j \in DOMAIN jobs : jobs[j].state \in {"waiting", "read", "stored"} => jobs[j].left >= 1

TypeInv == TypeOK /\ JobsLeft

LEMMA Types ==
    ASSUME TypeOK
    PROVE  /\ clock \in Nat /\ saves \in Nat /\ faults \in Nat /\ created \in BOOLEAN
           /\ contest \in Plan /\ form \in [Admins -> Plan]
           /\ todo \in [Admins -> Seq(Request)] /\ jobs \in Seq(JobRow)
           /\ entry \in [Users -> EntryRow]
           /\ snapshot \in [Users -> Int] /\ ratings \in [Users -> Int] /\ accepted \in [Users -> Nat]
           /\ leaving \subseteq Users /\ update \in [Users -> Updates]
           /\ ran \in [Queues -> Int] /\ moved \subseteq Queues /\ lost \subseteq Queues
           /\ atFreeze \in [Users -> Nat] /\ late \subseteq Users
BY DEF TypeOK, Request, JobRow, EntryRow, Updates

LEMMA TypesSuffice ==
    ASSUME /\ clock \in Nat /\ saves \in Nat /\ faults \in Nat /\ created \in BOOLEAN
           /\ contest \in Plan /\ form \in [Admins -> Plan]
           /\ todo \in [Admins -> Seq(Request)] /\ jobs \in Seq(JobRow)
           /\ entry \in [Users -> EntryRow]
           /\ snapshot \in [Users -> Int] /\ ratings \in [Users -> Int] /\ accepted \in [Users -> Nat]
           /\ leaving \subseteq Users /\ update \in [Users -> Updates]
           /\ ran \in [Queues -> Int] /\ moved \subseteq Queues /\ lost \subseteq Queues
           /\ atFreeze \in [Users -> Nat] /\ late \subseteq Users
    PROVE  TypeOK
BY Zenon DEF TypeOK, Request, JobRow, EntryRow, Updates

LEMMA TypesSufficeNext ==
    ASSUME /\ clock' \in Nat /\ saves' \in Nat /\ faults' \in Nat /\ created' \in BOOLEAN
           /\ contest' \in Plan /\ form' \in [Admins -> Plan]
           /\ todo' \in [Admins -> Seq(Request)] /\ jobs' \in Seq(JobRow)
           /\ entry' \in [Users -> EntryRow]
           /\ snapshot' \in [Users -> Int] /\ ratings' \in [Users -> Int] /\ accepted' \in [Users -> Nat]
           /\ leaving' \subseteq Users /\ update' \in [Users -> Updates]
           /\ ran' \in [Queues -> Int] /\ moved' \subseteq Queues /\ lost' \subseteq Queues
           /\ atFreeze' \in [Users -> Nat] /\ late' \subseteq Users
    PROVE  TypeOK'
BY Zenon DEF TypeOK, Request, JobRow, EntryRow, Updates

LEMMA JobsAre ==
    ASSUME TypeOK
    PROVE  DOMAIN jobs = 1..Len(jobs) /\ Len(jobs) \in Nat
           /\ \A j \in DOMAIN jobs : jobs[j] \in JobRow /\ jobs[j].queue \in Queues
<1>1. jobs \in Seq(JobRow)
  BY Types
<1>2. \A j \in DOMAIN jobs : jobs[j] \in JobRow
  BY <1>1, ElementOfSeq, LenProperties
<1>3. DOMAIN jobs = 1..Len(jobs) /\ Len(jobs) \in Nat
  BY <1>1, LenProperties
<1> QED BY <1>2, <1>3 DEF JobRow

\* The jobs stay with their queues, times and scores; none of them comes to be handled.
JobsKept ==
    /\ jobs' \in Seq(JobRow) /\ DOMAIN jobs' = DOMAIN jobs
    /\ \A k \in DOMAIN jobs : /\ jobs'[k].queue = jobs[k].queue /\ jobs'[k].due = jobs[k].due
                              /\ jobs'[k].scores = jobs[k].scores
                              /\ jobs'[k].state \in {"read", "stored"} => jobs'[k].state = jobs[k].state

\* A job's row is replaced.
LEMMA JobReplaced ==
    ASSUME TypeInv, NEW j \in DOMAIN jobs, NEW n \in JobRow, jobs' = [jobs EXCEPT ![j] = n],
           n.state \in {"waiting", "read", "stored"} => n.left >= 1
    PROVE  /\ jobs' \in Seq(JobRow) /\ DOMAIN jobs' = DOMAIN jobs /\ JobsLeft'
           /\ jobs'[j] = n /\ \A k \in DOMAIN jobs : k # j => jobs'[k] = jobs[k]
<1>1. jobs \in Seq(JobRow) /\ DOMAIN jobs = 1..Len(jobs)
  BY Types, JobsAre DEF TypeInv
<1>2. jobs' \in Seq(JobRow) /\ DOMAIN jobs' = DOMAIN jobs
  BY <1>1, ExceptSeq
<1>3. jobs'[j] = n /\ \A k \in DOMAIN jobs : k # j => jobs'[k] = jobs[k]
  OBVIOUS
<1>4. JobsLeft'
  BY <1>2, <1>3 DEF TypeInv, JobsLeft
<1> QED BY <1>2, <1>3, <1>4

LEMMA FailAttemptKeeps ==
    ASSUME TypeInv, NEW j \in DOMAIN jobs, jobs[j].left >= 1, FailAttempt(j)
    PROVE  JobsKept /\ JobsLeft' /\ lost' \subseteq Queues
<1> DEFINE n == AfterFailure(jobs[j])
<1>1. jobs[j] \in JobRow /\ jobs[j].queue \in Queues /\ lost \subseteq Queues
  BY JobsAre, Types DEF TypeInv
<1>2. /\ n \in JobRow /\ n.queue = jobs[j].queue /\ n.due = jobs[j].due /\ n.scores = jobs[j].scores
      /\ n.state \in {"waiting", "failed"} /\ (n.state = "waiting" => n.left >= 1)
  BY <1>1, FailuresAre
<1>3. jobs' = [jobs EXCEPT ![j] = n] /\ lost' \subseteq lost \union {jobs[j].queue}
  BY DEF FailAttempt
<1> HIDE DEF n
<1>4. /\ jobs' \in Seq(JobRow) /\ DOMAIN jobs' = DOMAIN jobs /\ JobsLeft'
      /\ jobs'[j] = n /\ \A k \in DOMAIN jobs : k # j => jobs'[k] = jobs[k]
  BY <1>2, <1>3, JobReplaced
<1> QED BY <1>1, <1>2, <1>3, <1>4 DEF JobsKept

LEMMA AnswerKeeps ==
    ASSUME TypeInv, NEW j \in DOMAIN jobs, jobs[j].left >= 1, Answer(j)
    PROVE  JobsKept /\ JobsLeft' /\ lost' \subseteq Queues /\ faults' \in Nat
<1>1. jobs[j] \in JobRow /\ lost \subseteq Queues /\ faults \in Nat
  BY JobsAre, Types DEF TypeInv
<1>2. CASE jobs' = [jobs EXCEPT ![j].state = "done"] /\ UNCHANGED <<lost, faults>>
  <2> DEFINE n == [jobs[j] EXCEPT !.state = "done"]
  <2>1. /\ n \in JobRow /\ n.queue = jobs[j].queue /\ n.due = jobs[j].due /\ n.scores = jobs[j].scores
        /\ n.state = "done"
    BY <1>1, JobStates
  <2>2. jobs' = [jobs EXCEPT ![j] = n]
    BY <1>2
  <2> HIDE DEF n
  <2>3. /\ jobs' \in Seq(JobRow) /\ DOMAIN jobs' = DOMAIN jobs /\ JobsLeft'
        /\ jobs'[j] = n /\ \A k \in DOMAIN jobs : k # j => jobs'[k] = jobs[k]
    BY <2>1, <2>2, JobReplaced
  <2> QED BY <1>1, <1>2, <2>1, <2>3 DEF JobsKept
<1>3. CASE faults' = faults + 1 /\ FailAttempt(j)
  BY <1>1, <1>3, FailAttemptKeeps
<1> QED BY <1>2, <1>3 DEF Answer


\* A job is added to a queue.
LEMMA JobAdded ==
    ASSUME ScheduleAssumption, TypeInv, NEW r \in Request, AddJob(r)
    PROVE  /\ jobs' \in Seq(JobRow) /\ JobsLeft' /\ DOMAIN jobs' = DOMAIN jobs \union {Len(jobs) + 1}
           /\ \A k \in DOMAIN jobs : jobs'[k] = jobs[k]
           /\ jobs'[Len(jobs) + 1] \in JobRow
           /\ jobs'[Len(jobs) + 1].queue = r.queue /\ jobs'[Len(jobs) + 1].due >= r.at
           /\ jobs'[Len(jobs) + 1].scores = [u \in Users |-> NoRow]
           /\ jobs'[Len(jobs) + 1].state = "waiting"
<1> DEFINE t == Later(clock, r.at)
           n == Job(r.queue, t)
<1>1. r.queue \in Queues /\ r.at \in Int /\ clock \in Nat /\ jobs \in Seq(JobRow)
  BY Types DEF TypeInv, Request
<1>2. t \in Int /\ t >= r.at
  BY <1>1 DEF Later
<1> HIDE DEF t
<1>3. /\ n \in JobRow /\ n.queue = r.queue /\ n.due = t /\ n.scores = [u \in Users |-> NoRow]
      /\ n.state = "waiting" /\ n.left >= 1
  BY <1>1, <1>2 DEF Job, JobRow, MaxAttempts, NoRow
<1>4. jobs' = Append(jobs, n)
  BY DEF AddJob, t
<1> HIDE DEF n
<1>5. /\ jobs' \in Seq(JobRow) /\ Len(jobs') = Len(jobs) + 1 /\ jobs'[Len(jobs) + 1] = n
      /\ \A k \in 1..Len(jobs) : jobs'[k] = jobs[k]
  BY <1>1, <1>3, <1>4, AppendProperties
<1>6. DOMAIN jobs' = 1..(Len(jobs) + 1) /\ DOMAIN jobs = 1..Len(jobs) /\ Len(jobs) \in Nat
  BY <1>1, <1>5, LenProperties
<1>7. DOMAIN jobs' = DOMAIN jobs \union {Len(jobs) + 1}
  BY <1>6
<1>8. JobsLeft'
  BY <1>3, <1>5, <1>6, <1>7 DEF JobsLeft, TypeInv
<1> QED BY <1>2, <1>3, <1>5, <1>6, <1>7, <1>8

LEMMA TypeInit ==
    ASSUME Init, ScheduleAssumption
    PROVE  TypeInv
<1>1. NoContest \in Plan /\ NoEntry \in EntryRow /\ NoRow \in Int /\ NoUpdate \in Updates /\ Never \in Int
  BY NoContestIsPlan DEF NoEntry, EntryRow, NoRow, Updates, Never
<1>2. <<>> \in Seq(Request) /\ <<>> \in Seq(JobRow) /\ DOMAIN jobs = {}
  BY EmptySeq DEF Init
<1>3. TypeOK
  <2>1. form \in [Admins -> Plan] /\ todo \in [Admins -> Seq(Request)] /\ jobs \in Seq(JobRow) /\ contest \in Plan
    BY <1>1, <1>2 DEF Init
  <2>2. /\ entry \in [Users -> EntryRow] /\ snapshot \in [Users -> Int] /\ ratings \in [Users -> Int]
        /\ accepted \in [Users -> Nat] /\ update \in [Users -> Updates] /\ ran \in [Queues -> Int]
        /\ atFreeze \in [Users -> Nat]
    BY <1>1 DEF Init
  <2>3. /\ clock \in Nat /\ saves \in Nat /\ faults \in Nat /\ created \in BOOLEAN /\ leaving \subseteq Users
        /\ moved \subseteq Queues /\ lost \subseteq Queues /\ late \subseteq Users
    BY DEF Init
  <2> QED BY <2>1, <2>2, <2>3, TypesSuffice
<1> QED BY <1>2, <1>3 DEF TypeInv, JobsLeft

\* What the administrators do.
LEMMA AdministerType ==
    ASSUME ScheduleAssumption, TypeInv, Administer
    PROVE  TypeInv'
<1>0. /\ clock \in Nat /\ saves \in Nat /\ faults \in Nat /\ created \in BOOLEAN
      /\ contest \in Plan /\ form \in [Admins -> Plan]
      /\ todo \in [Admins -> Seq(Request)] /\ jobs \in Seq(JobRow)
      /\ entry \in [Users -> EntryRow]
      /\ snapshot \in [Users -> Int] /\ ratings \in [Users -> Int] /\ accepted \in [Users -> Nat]
      /\ leaving \subseteq Users /\ update \in [Users -> Updates]
      /\ ran \in [Queues -> Int] /\ moved \subseteq Queues /\ lost \subseteq Queues
      /\ atFreeze \in [Users -> Nat] /\ late \subseteq Users
  BY Types DEF TypeInv
<1>1. ASSUME NEW a \in Admins, NEW p \in Plans, CreateContest(a, p)
      PROVE  TypeInv'
  <2>1. p \in Plan
    BY DEF ScheduleAssumption
  <2>2. Requests(OnCreate(p), p) \in Seq(Request)
    BY <2>1, SchedulesAre, RequestsAre
  <2>3. todo' \in [Admins -> Seq(Request)] /\ contest' \in Plan /\ created' \in BOOLEAN
    BY <1>0, <1>1, <2>1, <2>2 DEF CreateContest
  <2>4. UNCHANGED <<clock, form, saves, moved, jobs, people, results, faults, lost, atFreeze, late>>
    BY <1>1 DEF CreateContest
  <2>5. TypeOK'
    BY <1>0, <2>3, <2>4, TypesSufficeNext DEF people, results
  <2> QED BY <2>4, <2>5 DEF TypeInv, JobsLeft
<1>2. ASSUME NEW a \in Admins, NEW offset \in Offsets, OpenForm(a, offset)
      PROVE  TypeInv'
  <2> DEFINE f == [contest EXCEPT !.start = @ - offset, !.end = @ - offset,
                                  !.freeze = IF @ = Never THEN Never ELSE @ - offset]
  <2>1. offset \in Int
    BY DEF ScheduleAssumption
  <2>2. f \in Plan
    BY <1>0, <2>1, FormsArePlans
  <2>3. form' = [form EXCEPT ![a] = f]
    BY <1>2 DEF OpenForm
  <2> HIDE DEF f
  <2>4. form' \in [Admins -> Plan]
    BY <1>0, <2>2, <2>3
  <2>5. UNCHANGED <<clock, contest, created, todo, saves, moved, jobs, people, results, faults, lost, atFreeze, late>>
    BY <1>2 DEF OpenForm
  <2>6. TypeOK'
    BY <1>0, <2>4, <2>5, TypesSufficeNext DEF people, results
  <2> QED BY <2>5, <2>6 DEF TypeInv, JobsLeft
<1>3. ASSUME NEW a \in Admins, NEW p, UpdateContest(a, p)
      PROVE  TypeInv'
  <2>1. p \in Plan
    BY <1>0, <1>3, EditsArePlans DEF UpdateContest
  <2>2. Requests(OnUpdate(p), p) \in Seq(Request)
    BY <2>1, SchedulesAre, RequestsAre
  <2>3. todo' \in [Admins -> Seq(Request)] /\ contest' \in Plan /\ form' \in [Admins -> Plan]
    BY <1>0, <1>3, <2>1, <2>2, NoContestIsPlan DEF UpdateContest
  <2>4. moved' \subseteq Queues /\ saves' \in Nat
    BY <1>0, <1>3 DEF UpdateContest, Changed
  <2>5. UNCHANGED <<clock, created, jobs, people, results, faults, lost, atFreeze, late>>
    BY <1>3 DEF UpdateContest
  <2>6. TypeOK'
    BY <1>0, <2>3, <2>4, <2>5, TypesSufficeNext DEF people, results
  <2> QED BY <2>5, <2>6 DEF TypeInv, JobsLeft
<1>4. ASSUME NEW a \in Admins, SendSchedule(a)
      PROVE  TypeInv'
  <2>1. todo[a] \in Seq(Request) /\ todo[a] # <<>>
    BY <1>0, <1>4 DEF SendSchedule
  <2>2. Head(todo[a]) \in Request /\ Tail(todo[a]) \in Seq(Request)
    BY <2>1, HeadTailProperties
  <2>3. AddJob(Head(todo[a])) /\ todo' = [todo EXCEPT ![a] = Tail(todo[a])]
    BY <1>4 DEF SendSchedule
  <2>4. jobs' \in Seq(JobRow) /\ JobsLeft'
    BY <2>2, <2>3, JobAdded
  <2>5. todo' \in [Admins -> Seq(Request)]
    BY <1>0, <2>2, <2>3
  <2>6. UNCHANGED <<clock, contest, created, form, saves, moved, people, results, faults, lost, atFreeze, late>>
    BY <1>4 DEF SendSchedule
  <2>7. TypeOK'
    BY <1>0, <2>4, <2>5, <2>6, TypesSufficeNext DEF people, results
  <2> QED BY <2>4, <2>7 DEF TypeInv
<1>5. ASSUME NEW a \in Admins, LoseSchedule(a)
      PROVE  TypeInv'
  <2>1. todo[a] \in Seq(Request) /\ todo[a] # <<>>
    BY <1>0, <1>5 DEF LoseSchedule
  <2>2. Head(todo[a]) \in Request /\ Tail(todo[a]) \in Seq(Request)
    BY <2>1, HeadTailProperties
  <2>2a. Head(todo[a]).queue \in Queues
    BY <2>2 DEF Request
  <2>3. todo' \in [Admins -> Seq(Request)] /\ lost' \subseteq Queues /\ faults' \in Nat
    BY <1>0, <1>5, <2>2, <2>2a DEF LoseSchedule
  <2>4. UNCHANGED <<clock, contest, created, form, saves, moved, jobs, people, results, atFreeze, late>>
    BY <1>5 DEF LoseSchedule
  <2>5. TypeOK'
    BY <1>0, <2>3, <2>4, TypesSufficeNext DEF people, results
  <2> QED BY <2>4, <2>5 DEF TypeInv, JobsLeft
<1>6. CASE DeleteContest
  <2>1. /\ contest' \in Plan /\ saves' \in Nat
        /\ entry' \in [Users -> EntryRow] /\ snapshot' \in [Users -> Int] /\ ratings' \in [Users -> Int]
        /\ accepted' \in [Users -> Nat] /\ update' \in [Users -> Updates]
    BY <1>0, <1>6, NoContestIsPlan DEF DeleteContest, NoEntry, EntryRow, NoRow, Updates
  <2>2. UNCHANGED <<clock, created, form, todo, moved, jobs, leaving, ran, faults, lost, atFreeze, late>>
    BY <1>6 DEF DeleteContest
  <2>3. TypeOK'
    BY <1>0, <2>1, <2>2, TypesSufficeNext
  <2> QED BY <2>2, <2>3 DEF TypeInv, JobsLeft
<1> QED BY <1>1, <1>2, <1>3, <1>4, <1>5, <1>6 DEF Administer


\* The handlers of the delayed jobs, job by job: what they leave alone, and what they do.
LEMMA ReadyJob ==
    ASSUME TypeInv, NEW j \in DOMAIN jobs, jobs[j].state \in {"waiting", "read", "stored"}
    PROVE  jobs[j].left >= 1
BY DEF TypeInv, JobsLeft

\* handleFreezeContest when it stops at once, or reads the scores.
LEMMA FreezeReadEffect ==
    ASSUME TypeInv, NEW j \in DOMAIN jobs, FreezeRead(j)
    PROVE  /\ jobs[j].queue = "freezes" /\ jobs[j].due <= clock
           /\ jobs' \in Seq(JobRow) /\ DOMAIN jobs' = DOMAIN jobs /\ JobsLeft'
           /\ lost' \subseteq Queues /\ faults' \in Nat
           /\ UNCHANGED <<clock, row, people, snapshot, ratings, atFreeze>>
           /\ \A k \in DOMAIN jobs : jobs'[k].queue = jobs[k].queue /\ jobs'[k].due = jobs[k].due
           /\ \/ JobsKept /\ UNCHANGED <<ran, late>>
              \/ /\ Exists /\ contest.freeze # Never /\ Effect("freezes")
                 /\ \A k \in DOMAIN jobs : k # j => jobs'[k] = jobs[k]
                 /\ jobs'[j].state = "read"
                 /\ jobs'[j].scores = [u \in Users |-> IF entry[u].present THEN entry[u].points ELSE NoRow]
                 /\ late' = IF clock > contest.end THEN late \union {u \in Users : entry[u].present} ELSE late
<1>0. jobs[j].queue = "freezes" /\ Ready(j) /\ UNCHANGED <<clock, row, people, snapshot, ratings, atFreeze>>
  BY DEF FreezeRead
<1>1. jobs[j].left >= 1 /\ jobs[j].due <= clock
  BY <1>0, ReadyJob DEF Ready
<1>1a. entry \in [Users -> EntryRow] /\ jobs[j] \in JobRow /\ lost \subseteq Queues /\ faults \in Nat
  BY JobsAre, Types DEF TypeInv
<1>2. CASE (FailAttempt(j) /\ UNCHANGED <<ran, faults, late>>) \/ (Answer(j) /\ UNCHANGED <<ran, late>>)
  <2>1. JobsKept /\ JobsLeft' /\ lost' \subseteq Queues /\ faults' \in Nat
    BY <1>1, <1>1a, <1>2, FailAttemptKeeps, AnswerKeeps
  <2> QED BY <1>0, <1>1, <1>2, <2>1 DEF JobsKept
<1>3. CASE /\ Exists /\ contest.freeze # Never
           /\ Effect("freezes")
           /\ jobs' = [jobs EXCEPT ![j].state = "read",
                         ![j].scores = [u \in Users |-> IF entry[u].present THEN entry[u].points ELSE NoRow]]
           /\ late' = IF clock > contest.end THEN late \union {u \in Users : entry[u].present} ELSE late
           /\ UNCHANGED <<lost, faults>>
  <2> DEFINE f == [u \in Users |-> IF entry[u].present THEN entry[u].points ELSE NoRow]
             m == [jobs[j] EXCEPT !.state = "read"]
             n == [m EXCEPT !.scores = f]
  <2>1. f \in [Users -> Int]
    BY <1>1a DEF EntryRow, NoRow
  <2>2. /\ m \in JobRow /\ m.queue = jobs[j].queue /\ m.due = jobs[j].due /\ m.left = jobs[j].left
        /\ m.state = "read"
    BY <1>1a, JobStates
  <2>3. jobs' = [jobs EXCEPT ![j] = n]
    BY <1>3
  <2> HIDE DEF f, m
  <2>4. /\ n \in JobRow /\ n.queue = m.queue /\ n.due = m.due /\ n.left = m.left /\ n.scores = f
        /\ n.state = m.state
    BY <2>1, <2>2 DEF JobRow
  <2> HIDE DEF n
  <2>5. /\ jobs' \in Seq(JobRow) /\ DOMAIN jobs' = DOMAIN jobs /\ JobsLeft'
        /\ jobs'[j] = n /\ \A k \in DOMAIN jobs : k # j => jobs'[k] = jobs[k]
    BY <1>1, <2>2, <2>3, <2>4, JobReplaced
  <2>6. jobs'[j].queue = jobs[j].queue /\ jobs'[j].due = jobs[j].due /\ jobs'[j].state = "read" /\ jobs'[j].scores = f
    BY <2>2, <2>4, <2>5
  <2>7. \A k \in DOMAIN jobs : jobs'[k].queue = jobs[k].queue /\ jobs'[k].due = jobs[k].due
    BY <2>5, <2>6
  <2> QED BY <1>0, <1>1, <1>1a, <1>3, <2>5, <2>6, <2>7 DEF f
<1> QED BY <1>2, <1>3 DEF FreezeRead

LEMMA FreezeSnapshotEffect ==
    ASSUME TypeInv, NEW j \in DOMAIN jobs, FreezeSnapshot(j)
    PROVE  /\ jobs[j].queue = "freezes" /\ jobs[j].state = "read"
           /\ jobs' \in Seq(JobRow) /\ DOMAIN jobs' = DOMAIN jobs /\ JobsLeft' /\ lost' \subseteq Queues
           /\ UNCHANGED <<clock, row, people, ratings, ran, faults, atFreeze, late>>
           /\ \A k \in DOMAIN jobs : /\ jobs'[k].queue = jobs[k].queue /\ jobs'[k].due = jobs[k].due
                                     /\ jobs'[k].scores = jobs[k].scores
           /\ \/ JobsKept /\ UNCHANGED snapshot
              \/ /\ Exists /\ \A k \in DOMAIN jobs : k # j => jobs'[k] = jobs[k]
                 /\ jobs'[j].state = "stored"
                 /\ snapshot' = [u \in Users |-> IF snapshot[u] = NoRow THEN jobs[j].scores[u] ELSE snapshot[u]]
<1>0. jobs[j].queue = "freezes" /\ jobs[j].state = "read"
      /\ UNCHANGED <<clock, row, people, ratings, ran, faults, atFreeze, late>>
  BY DEF FreezeSnapshot
<1>1. jobs[j].left >= 1 /\ jobs[j] \in JobRow /\ lost \subseteq Queues
  BY <1>0, ReadyJob, JobsAre, Types DEF TypeInv
<1>2. CASE FailAttempt(j) /\ UNCHANGED snapshot
  <2>1. JobsKept /\ JobsLeft' /\ lost' \subseteq Queues
    BY <1>1, <1>2, FailAttemptKeeps
  <2> QED BY <1>0, <1>2, <2>1 DEF JobsKept
<1>3. CASE /\ Exists
           /\ snapshot' = [u \in Users |-> IF snapshot[u] = NoRow THEN jobs[j].scores[u] ELSE snapshot[u]]
           /\ jobs' = [jobs EXCEPT ![j].state = "stored"]
           /\ UNCHANGED lost
  <2> DEFINE n == [jobs[j] EXCEPT !.state = "stored"]
  <2>1. /\ n \in JobRow /\ n.queue = jobs[j].queue /\ n.due = jobs[j].due /\ n.scores = jobs[j].scores
        /\ n.left = jobs[j].left /\ n.state = "stored"
    BY <1>1, JobStates
  <2>2. jobs' = [jobs EXCEPT ![j] = n]
    BY <1>3
  <2> HIDE DEF n
  <2>3. /\ jobs' \in Seq(JobRow) /\ DOMAIN jobs' = DOMAIN jobs /\ JobsLeft'
        /\ jobs'[j] = n /\ \A k \in DOMAIN jobs : k # j => jobs'[k] = jobs[k]
    BY <1>1, <2>1, <2>2, JobReplaced
  <2>4. \A k \in DOMAIN jobs : /\ jobs'[k].queue = jobs[k].queue /\ jobs'[k].due = jobs[k].due
                               /\ jobs'[k].scores = jobs[k].scores
    BY <2>1, <2>3
  <2>5. jobs'[j].state = "stored"
    BY <2>1, <2>3
  <2> QED BY <1>0, <1>1, <1>3, <2>3, <2>4, <2>5
<1> QED BY <1>2, <1>3 DEF FreezeSnapshot

\* The other steps of jobs keep the rows of all jobs.
LEMMA OtherJobEffect ==
    ASSUME TypeInv, NEW j \in DOMAIN jobs, FreezeStamp(j) \/ RunTransition(j) \/ RunRating(j)
    PROVE  JobsKept /\ JobsLeft' /\ lost' \subseteq Queues /\ faults' \in Nat
<1>0. faults \in Nat
  BY Types DEF TypeInv
<1>1. jobs[j].state \in {"waiting", "read", "stored"}
  BY DEF FreezeStamp, RunTransition, RunRating, Ready
<1>2. jobs[j].left >= 1
  BY <1>1, ReadyJob
<1>3. Answer(j) \/ (FailAttempt(j) /\ UNCHANGED faults)
  BY DEF FreezeStamp, RunTransition, RunRating
<1> QED BY <1>0, <1>2, <1>3, AnswerKeeps, FailAttemptKeeps

\* What a restart of the backend leaves of the jobs.
LEMMA CrashEffect ==
    ASSUME TypeInv, CrashBackend
    PROVE  JobsKept /\ JobsLeft' /\ lost' \subseteq Queues /\ \A j \in DOMAIN jobs : jobs'[j].state \notin {"read", "stored"}
<1> DEFINE cut == {j \in DOMAIN jobs : jobs[j].state \in {"read", "stored"}}
<1>0. jobs \in Seq(JobRow) /\ DOMAIN jobs = 1..Len(jobs) /\ Len(jobs) \in Nat /\ lost \subseteq Queues
      /\ \A j \in DOMAIN jobs : jobs[j] \in JobRow /\ jobs[j].queue \in Queues
  BY Types, JobsAre DEF TypeInv
<1>1. jobs' = [j \in DOMAIN jobs |-> IF j \in cut THEN AfterFailure(jobs[j]) ELSE jobs[j]]
  BY DEF CrashBackend
<1>2. \A j \in cut : /\ AfterFailure(jobs[j]) \in JobRow /\ AfterFailure(jobs[j]).queue = jobs[j].queue
                     /\ AfterFailure(jobs[j]).due = jobs[j].due /\ AfterFailure(jobs[j]).scores = jobs[j].scores
                     /\ AfterFailure(jobs[j]).state \in {"waiting", "failed"}
                     /\ AfterFailure(jobs[j]).state = "waiting" => AfterFailure(jobs[j]).left >= 1
  <2> SUFFICES ASSUME NEW j \in cut
               PROVE  /\ AfterFailure(jobs[j]) \in JobRow /\ AfterFailure(jobs[j]).queue = jobs[j].queue
                      /\ AfterFailure(jobs[j]).due = jobs[j].due /\ AfterFailure(jobs[j]).scores = jobs[j].scores
                      /\ AfterFailure(jobs[j]).state \in {"waiting", "failed"}
                      /\ AfterFailure(jobs[j]).state = "waiting" => AfterFailure(jobs[j]).left >= 1
    OBVIOUS
  <2>1. jobs[j].left >= 1 /\ jobs[j] \in JobRow
    BY <1>0, ReadyJob
  <2> QED BY <2>1, FailuresAre
<1>3. DOMAIN jobs' = DOMAIN jobs /\ \A j \in DOMAIN jobs : jobs'[j] \in JobRow
  BY <1>0, <1>1, <1>2
<1>4. jobs' \in Seq(JobRow)
  <2>1. jobs' \in [1..Len(jobs) -> JobRow]
    BY <1>0, <1>1, <1>3
  <2> QED BY <1>0, <2>1, SeqDef
<1>5. \A j \in DOMAIN jobs : /\ jobs'[j].queue = jobs[j].queue /\ jobs'[j].due = jobs[j].due
                             /\ jobs'[j].scores = jobs[j].scores /\ jobs'[j].state \notin {"read", "stored"}
  BY <1>1, <1>2
<1>6. JobsLeft'
  BY <1>1, <1>2, <1>3 DEF TypeInv, JobsLeft
<1>7. lost' \subseteq Queues
  <2>1. \A a \in Admins : \A i \in DOMAIN todo[a] : todo[a][i].queue \in Queues
    <3> SUFFICES ASSUME NEW a \in Admins, NEW i \in DOMAIN todo[a]
                 PROVE  todo[a][i].queue \in Queues
      OBVIOUS
    <3>1. todo[a] \in Seq(Request)
      BY Types DEF TypeInv
    <3>2. todo[a][i] \in Request
      BY <3>1, LenProperties, ElementOfSeq
    <3> QED BY <3>2 DEF Request
  <2>2. lost' = (lost \union {jobs[j].queue : j \in {k \in cut : jobs[k].left = 1}})
                   \union UNION {{todo[a][i].queue : i \in DOMAIN todo[a]} : a \in Admins}
    BY DEF CrashBackend
  <2> QED BY <1>0, <2>1, <2>2
<1> QED BY <1>3, <1>4, <1>5, <1>6, <1>7 DEF JobsKept


LEMMA RunJobType ==
    ASSUME ScheduleAssumption, TypeInv, NEW j \in DOMAIN jobs, RunJob(j)
    PROVE  TypeInv'
<1>0. /\ clock \in Nat /\ saves \in Nat /\ faults \in Nat /\ created \in BOOLEAN
      /\ contest \in Plan /\ form \in [Admins -> Plan]
      /\ todo \in [Admins -> Seq(Request)] /\ jobs \in Seq(JobRow)
      /\ entry \in [Users -> EntryRow]
      /\ snapshot \in [Users -> Int] /\ ratings \in [Users -> Int] /\ accepted \in [Users -> Nat]
      /\ leaving \subseteq Users /\ update \in [Users -> Updates]
      /\ ran \in [Queues -> Int] /\ moved \subseteq Queues /\ lost \subseteq Queues
      /\ atFreeze \in [Users -> Nat] /\ late \subseteq Users
  BY Types DEF TypeInv
<1>1. ASSUME NEW q \in Queues, Effect(q) PROVE ran' \in [Queues -> Int]
  BY <1>0, <1>1 DEF Effect, Never
<1>1a. "freezes" \in Queues /\ "ratings" \in Queues /\ "phase-transitions" \in Queues
  BY DEF Queues
<1>2. CASE FreezeRead(j)
  <2>1. /\ jobs' \in Seq(JobRow) /\ JobsLeft' /\ lost' \subseteq Queues /\ faults' \in Nat
        /\ UNCHANGED <<clock, row, people, snapshot, ratings, atFreeze>>
        /\ (UNCHANGED <<ran, late>> \/ Effect("freezes"))
        /\ late' \subseteq late \union Users
    BY <1>2, FreezeReadEffect
  <2>2. ran' \in [Queues -> Int] /\ late' \subseteq Users
    BY <1>0, <1>1, <1>1a, <2>1
  <2>3. TypeOK'
    BY <1>0, <2>1, <2>2, TypesSufficeNext DEF row, people
  <2> QED BY <2>1, <2>3 DEF TypeInv
<1>3. CASE FreezeSnapshot(j)
  <2>1. /\ jobs' \in Seq(JobRow) /\ JobsLeft' /\ lost' \subseteq Queues
        /\ UNCHANGED <<clock, row, people, ratings, ran, faults, atFreeze, late>>
        /\ \/ UNCHANGED snapshot
           \/ snapshot' = [u \in Users |-> IF snapshot[u] = NoRow THEN jobs[j].scores[u] ELSE snapshot[u]]
    BY <1>3, FreezeSnapshotEffect
  <2>2. jobs[j].scores \in [Users -> Int]
    <3>1. jobs[j] \in JobRow
      BY JobsAre DEF TypeInv
    <3> QED BY <3>1 DEF JobRow
  <2>3. snapshot' \in [Users -> Int]
    BY <1>0, <2>1, <2>2
  <2>4. TypeOK'
    BY <1>0, <2>1, <2>3, TypesSufficeNext DEF row, people
  <2> QED BY <2>1, <2>4 DEF TypeInv
<1>4. CASE FreezeStamp(j)
  <2>1. jobs' \in Seq(JobRow) /\ JobsLeft' /\ lost' \subseteq Queues /\ faults' \in Nat
    BY <1>4, OtherJobEffect DEF JobsKept
  <2>2. /\ entry' = [u \in Users |-> [entry[u] EXCEPT !.frozen = entry[u].present]]
        /\ late' \subseteq late \union Users
        /\ UNCHANGED <<clock, row, leaving, accepted, update, results, atFreeze>>
    BY <1>4 DEF FreezeStamp
  <2>3. entry' \in [Users -> EntryRow] /\ late' \subseteq Users
    BY <1>0, <2>2 DEF EntryRow
  <2>4. TypeOK'
    BY <1>0, <2>1, <2>2, <2>3, TypesSufficeNext DEF row, results
  <2> QED BY <2>1, <2>4 DEF TypeInv
<1>5. CASE RunTransition(j)
  <2>1. jobs' \in Seq(JobRow) /\ JobsLeft' /\ lost' \subseteq Queues /\ faults' \in Nat
    BY <1>5, OtherJobEffect DEF JobsKept
  <2>2. /\ UNCHANGED <<clock, row, people, snapshot, ratings, atFreeze, late>>
        /\ (UNCHANGED ran \/ Effect("phase-transitions"))
    BY <1>5 DEF RunTransition
  <2>3. ran' \in [Queues -> Int]
    BY <1>0, <1>1, <1>1a, <2>2
  <2>4. TypeOK'
    BY <1>0, <2>1, <2>2, <2>3, TypesSufficeNext DEF row, people
  <2> QED BY <2>1, <2>4 DEF TypeInv
<1>6. CASE RunRating(j)
  <2>1. jobs' \in Seq(JobRow) /\ JobsLeft' /\ lost' \subseteq Queues /\ faults' \in Nat
    BY <1>6, OtherJobEffect DEF JobsKept
  <2>2. /\ UNCHANGED <<clock, row, people, snapshot, atFreeze, late>>
        /\ (UNCHANGED ran \/ Effect("ratings"))
        /\ \/ UNCHANGED ratings
           \/ ratings' = [u \in Users |-> IF u \in Participants THEN entry[u].points ELSE ratings[u]]
    BY <1>6 DEF RunRating
  <2>3. ran' \in [Queues -> Int]
    BY <1>0, <1>1, <1>1a, <2>2
  <2>4. ratings' \in [Users -> Int]
    BY <1>0, <2>2 DEF EntryRow
  <2>5. TypeOK'
    BY <1>0, <2>1, <2>2, <2>3, <2>4, TypesSufficeNext DEF row, people
  <2> QED BY <2>1, <2>5 DEF TypeInv
<1> QED BY <1>2, <1>3, <1>4, <1>5, <1>6 DEF RunJob

LEMMA UsersType ==
    ASSUME ScheduleAssumption, TypeInv, NEW u \in Users, UseContest(u)
    PROVE  TypeInv' /\ UNCHANGED <<clock, row, jobs, results, faults, lost, atFreeze>>
<1>0. /\ clock \in Nat /\ saves \in Nat /\ faults \in Nat /\ created \in BOOLEAN
      /\ contest \in Plan /\ form \in [Admins -> Plan]
      /\ todo \in [Admins -> Seq(Request)] /\ jobs \in Seq(JobRow)
      /\ entry \in [Users -> EntryRow]
      /\ snapshot \in [Users -> Int] /\ ratings \in [Users -> Int] /\ accepted \in [Users -> Nat]
      /\ leaving \subseteq Users /\ update \in [Users -> Updates]
      /\ ran \in [Queues -> Int] /\ moved \subseteq Queues /\ lost \subseteq Queues
      /\ atFreeze \in [Users -> Nat] /\ late \subseteq Users
  BY Types DEF TypeInv
<1>1. UNCHANGED <<clock, row, jobs, results, faults, lost, atFreeze>>
  BY DEF UseContest, Register, Unregister, DeleteEntry, Accept, ReadEntry, WriteEntry
<1>2. SUFFICES /\ entry' \in [Users -> EntryRow] /\ accepted' \in [Users -> Nat]
               /\ leaving' \subseteq Users /\ update' \in [Users -> Updates] /\ late' \subseteq Users
  <2>1. TypeOK'
    BY <1>0, <1>1, <1>2, TypesSufficeNext DEF row, results
  <2> QED BY <1>1, <2>1 DEF TypeInv, JobsLeft
<1>3. NoEntry \in EntryRow /\ NoUpdate \in Updates /\ [pc |-> "contest"] \in Updates
  BY DEF NoEntry, EntryRow, Updates
<1>4. CASE Register(u)
  <2>1. [NoEntry EXCEPT !.present = TRUE] \in EntryRow
    BY DEF NoEntry, EntryRow
  <2> QED BY <1>0, <1>4, <2>1 DEF Register
<1>5. CASE Unregister(u)
  BY <1>0, <1>5 DEF Unregister
<1>6. CASE DeleteEntry(u)
  BY <1>0, <1>3, <1>6 DEF DeleteEntry
<1>7. CASE Accept(u)
  BY <1>0, <1>3, <1>7 DEF Accept
<1>8. CASE ReadEntry(u)
  <2>1. [pc |-> "write", read |-> entry[u]] \in Updates
    BY <1>0 DEF Updates
  <2> QED BY <1>0, <1>3, <1>8, <2>1 DEF ReadEntry
<1>9. CASE WriteEntry(u)
  <2>1. /\ update' = [update EXCEPT ![u] = NoUpdate] /\ UNCHANGED <<leaving, accepted>>
        /\ late' \subseteq late \union {u}
    BY <1>9 DEF WriteEntry
  <2>2. update[u].read \in EntryRow
    <3>1. update[u] \in Updates /\ update[u].pc = "write"
      BY <1>0, <1>9 DEF WriteEntry
    <3>2. update[u] \in [pc : {"write"}, read : EntryRow]
      BY <3>1 DEF Updates, NoUpdate
    <3> QED BY <3>2
  <2>3. entry' = entry \/ entry' = [entry EXCEPT ![u] = [@ EXCEPT !.present = TRUE, !.points = update[u].read.points + 1]]
    BY <1>9 DEF WriteEntry
  <2> DEFINE e == [entry[u] EXCEPT !.present = TRUE, !.points = update[u].read.points + 1]
  <2>4. e \in EntryRow
    <3>1. entry[u] \in EntryRow
      BY <1>0
    <3>2. update[u].read.points \in Nat
      BY <2>2 DEF EntryRow
    <3> DEFINE p == update[u].read.points + 1
               e1 == [entry[u] EXCEPT !.present = TRUE]
    <3>3. p \in Nat
      BY <3>2
    <3> HIDE DEF p
    <3>4. e1 \in EntryRow
      BY <3>1 DEF EntryRow
    <3>5. [e1 EXCEPT !.points = p] \in EntryRow
      <4> HIDE DEF e1
      <4> QED BY <3>3, <3>4 DEF EntryRow
    <3>6. e = [e1 EXCEPT !.points = p]
      BY DEF p
    <3> QED BY <3>5, <3>6
  <2> HIDE DEF e
  <2>5. entry' \in [Users -> EntryRow]
    BY <1>0, <2>3, <2>4 DEF e
  <2> QED BY <1>0, <1>3, <2>1, <2>5
<1> QED BY <1>4, <1>5, <1>6, <1>7, <1>8, <1>9 DEF UseContest

LEMMA TypeStep ==
    ASSUME ScheduleAssumption, TypeInv, [Next]_vars
    PROVE  TypeInv'
<1>0. /\ clock \in Nat /\ saves \in Nat /\ faults \in Nat /\ created \in BOOLEAN
      /\ contest \in Plan /\ form \in [Admins -> Plan]
      /\ todo \in [Admins -> Seq(Request)] /\ jobs \in Seq(JobRow)
      /\ entry \in [Users -> EntryRow]
      /\ snapshot \in [Users -> Int] /\ ratings \in [Users -> Int] /\ accepted \in [Users -> Nat]
      /\ leaving \subseteq Users /\ update \in [Users -> Updates]
      /\ ran \in [Queues -> Int] /\ moved \subseteq Queues /\ lost \subseteq Queues
      /\ atFreeze \in [Users -> Nat] /\ late \subseteq Users
  BY Types DEF TypeInv
<1>1. CASE UNCHANGED vars
  <2>1. UNCHANGED <<clock, row, jobs, people, results, faults, lost, atFreeze, late>>
    BY <1>1 DEF vars
  <2>2. TypeOK'
    BY <1>0, <2>1, TypesSufficeNext DEF row, people, results
  <2> QED BY <2>1, <2>2 DEF TypeInv, JobsLeft
<1>2. CASE Administer
  BY <1>2, AdministerType
<1>3. CASE \E j \in DOMAIN jobs : RunJob(j)
  BY <1>3, RunJobType
<1>4. CASE \E u \in Users : UseContest(u)
  BY <1>4, UsersType
<1>5. CASE Tick
  <2>1. /\ clock' \in Nat /\ atFreeze' \in [Users -> Nat]
        /\ UNCHANGED <<row, jobs, people, results, faults, lost, late>>
    BY <1>0, <1>5 DEF Tick, EntryRow
  <2>2. TypeOK'
    BY <1>0, <2>1, TypesSufficeNext DEF row, people, results
  <2> QED BY <2>1, <2>2 DEF TypeInv, JobsLeft
<1>6. CASE CrashBackend
  <2>1. jobs' \in Seq(JobRow) /\ JobsLeft' /\ lost' \subseteq Queues
    BY <1>6, CrashEffect DEF JobsKept
  <2>2. /\ faults' \in Nat /\ leaving' \subseteq Users
        /\ UNCHANGED <<clock, contest, created, form, saves, moved, entry, accepted, results, atFreeze, late>>
    BY <1>0, <1>6 DEF CrashBackend
  <2>3. update' \in [Users -> Updates]
    BY <1>6 DEF CrashBackend, Updates
  <2>4. todo' \in [Admins -> Seq(Request)]
    BY <1>6, EmptySeq DEF CrashBackend
  <2>5. TypeOK'
    BY <1>0, <2>1, <2>2, <2>3, <2>4, TypesSufficeNext DEF results
  <2> QED BY <2>1, <2>5 DEF TypeInv
<1> QED BY <1>1, <1>2, <1>3, <1>4, <1>5, <1>6 DEF Next

\* The invariant TypeOK: every variable keeps its type, whatever is created, edited, deleted,
\* lost, repeated or restarted; with it, a job that is not finished has an attempt left.
THEOREM ScheduleTypeCorrect == Spec => []TypeOK
<1>1. Init => TypeInv
  BY TypeInit, ScheduleAssumption
<1>2. TypeInv /\ [Next]_vars => TypeInv'
  BY TypeStep, ScheduleAssumption
<1>3. TypeInv => TypeOK
  BY DEF TypeInv
<1> QED BY <1>1, <1>2, <1>3, PTL DEF Spec


-----------------------------------------------------------------------------
(* Jobs act on time.                                                       *)

\* Before the contest is created there is nothing.
NotYet ==
    ~created => /\ contest = NoContest /\ jobs = <<>> /\ moved = {} /\ late = {} /\ leaving = {}
                /\ \A a \in Admins : todo[a] = <<>> /\ form[a] = NoContest
                /\ \A q \in Queues : ran[q] = Never
                /\ \A u \in Users : /\ entry[u] = NoEntry /\ update[u] = NoUpdate /\ snapshot[u] = NoRow
                                    /\ ratings[u] = NoRow /\ accepted[u] = 0 /\ atFreeze[u] = 0

\* The jobs and requests of a queue whose time was not edited are for the row's time, or later.
OnTime(q) ==
    /\ \A j \in DOMAIN jobs : jobs[j].queue = q => jobs[j].due >= TimeFor(q, contest)
    /\ \A a \in Admins : \A i \in DOMAIN todo[a] : todo[a][i].queue = q => todo[a][i].at >= TimeFor(q, contest)
    /\ ran[q] # Never => ran[q] >= TimeFor(q, contest)

OnTimeInv == Exists => \A q \in Queues \ moved : OnTime(q)

-----------------------------------------------------------------------------
(* The snapshot and the ratings.                                           *)

\* The window of a contest whose freeze was not edited has opened.
Opened == contest.freeze # Never /\ contest.freeze <= clock

\* In the window points stay what they were when it opened; what was frozen, read, stored or
\* rated of them is the same, after the window too.
WindowInv ==
    "freezes" \notin moved /\ Exists /\ Opened /\ clock <= contest.end =>
        \A u \in Users \ late : entry[u].points = atFreeze[u]

AbsentInv == \A u \in Users : ~entry[u].present => entry[u] = NoEntry

FrozenInv ==
    "freezes" \notin moved /\ Exists =>
        \A u \in Users : entry[u].frozen => Opened /\ (u \notin late => entry[u].points = atFreeze[u])

ScoresInv ==
    "freezes" \notin moved /\ Exists =>
        \A j \in DOMAIN jobs : jobs[j].queue = "freezes" =>
            /\ jobs[j].state \in {"read", "stored"} => Opened
            /\ \A u \in Users : jobs[j].scores[u] # NoRow =>
                 Opened /\ (u \notin late => jobs[j].scores[u] = atFreeze[u])

SnapshotInv ==
    "freezes" \notin moved =>
        \A u \in Users : snapshot[u] # NoRow =>
            Exists /\ Opened /\ (u \notin late => snapshot[u] = atFreeze[u])

RatingsInv ==
    "freezes" \notin moved /\ Exists =>
        \A u \in Users : ratings[u] # NoRow =>
            contest.end < clock /\ (u \notin late /\ entry[u].frozen => ratings[u] = atFreeze[u])

\* Who has solved something in a contest nobody edited started to after its start, and stays.
SolvedInv ==
    saves = 0 /\ Exists /\ ~contest.isPractice =>
        \A u \in Users : accepted[u] > 0 => contest.start <= clock /\ (u \notin late => entry[u].present)


LEMMA NotYetStep ==
    ASSUME ScheduleAssumption, TypeInv, NotYet, [Next]_vars
    PROVE  NotYet'
<1> SUFFICES ASSUME ~created'
             PROVE  NotYet'
  BY DEF NotYet
<1>1. created \in BOOLEAN /\ DOMAIN jobs = 1..Len(jobs)
  BY Types, JobsAre DEF TypeInv
<1>2. ~created
  BY <1>1 DEF Next, vars, row, Administer, RunJob, UseContest, CreateContest, OpenForm, UpdateContest, SendSchedule,
              LoseSchedule, DeleteContest, FreezeRead, FreezeSnapshot, FreezeStamp, RunTransition, RunRating,
              Register, Unregister, DeleteEntry, Accept, ReadEntry, WriteEntry, Tick, CrashBackend
<1>3. /\ contest = NoContest /\ jobs = <<>> /\ moved = {} /\ late = {} /\ leaving = {}
      /\ \A a \in Admins : todo[a] = <<>> /\ form[a] = NoContest
      /\ \A q \in Queues : ran[q] = Never
      /\ \A u \in Users : /\ entry[u] = NoEntry /\ update[u] = NoUpdate /\ snapshot[u] = NoRow
                          /\ ratings[u] = NoRow /\ accepted[u] = 0 /\ atFreeze[u] = 0
  BY <1>2 DEF NotYet
<1>4. DOMAIN jobs = {} /\ ~Exists
  BY <1>3 DEF Exists
<1>5. CASE UNCHANGED vars
  BY <1>3, <1>5 DEF NotYet, vars, row, people, results
<1>6. CASE Administer
  <2>1. \A a \in Admins : \A p : ~CreateContest(a, p)
    BY DEF CreateContest
  <2> QED BY <1>3, <1>4, <1>6, <2>1 DEF Administer, OpenForm, UpdateContest, SendSchedule, LoseSchedule, DeleteContest
<1>7. CASE \E u \in Users : UseContest(u)
  BY <1>3, <1>4, <1>7 DEF UseContest, Register, Unregister, DeleteEntry, Accept, MaySubmit, ReadEntry, WriteEntry, NoUpdate
<1>8. CASE Tick
  BY <1>3, <1>4, <1>8 DEF NotYet, Tick, row, people, results
<1>9. CASE CrashBackend
  <2>1. /\ contest' = contest /\ moved' = moved /\ late' = late /\ leaving' = {} /\ form' = form
        /\ todo' = [a \in Admins |-> <<>>] /\ ran' = ran /\ entry' = entry /\ snapshot' = snapshot
        /\ ratings' = ratings /\ accepted' = accepted /\ atFreeze' = atFreeze
        /\ update' = [u \in Users |-> NoUpdate]
    BY <1>9 DEF CrashBackend, results
  <2>2. jobs' = <<>>
    <3>1. jobs' \in Seq(JobRow) /\ DOMAIN jobs' = {}
      BY <1>4, <1>9, CrashEffect DEF JobsKept
    <3>2. Len(jobs') = 0
      BY <3>1, LenProperties
    <3> QED BY <3>1, <3>2, EmptySeq
  <2> QED BY <1>3, <2>1, <2>2 DEF NotYet
<1> QED BY <1>4, <1>5, <1>6, <1>7, <1>8, <1>9 DEF Next

\* Nothing becomes due earlier, and what takes effect was due.
LEMMA OnTimeKept ==
    ASSUME ScheduleAssumption, TypeInv, OnTimeInv, Exists' => Exists, moved \subseteq moved',
           \A q \in Queues \ moved' : TimeFor(q, contest') = TimeFor(q, contest),
           \A j \in DOMAIN jobs' : \/ j \in DOMAIN jobs /\ jobs'[j].queue = jobs[j].queue /\ jobs'[j].due = jobs[j].due
                                   \/ \E a \in Admins : \E i \in DOMAIN todo[a] :
                                        jobs'[j].queue = todo[a][i].queue /\ jobs'[j].due >= todo[a][i].at,
           \A j \in DOMAIN jobs' : jobs'[j].due \in Int,
           \A a \in Admins : \A i \in DOMAIN todo'[a] :
              \/ \E k \in DOMAIN todo[a] : todo'[a][i] = todo[a][k]
              \/ todo'[a][i].at >= TimeFor(todo'[a][i].queue, contest'),
           \A q \in Queues : \/ ran'[q] = ran[q] \/ ran'[q] = Never
                             \/ \E j \in DOMAIN jobs : jobs[j].queue = q /\ ran'[q] >= jobs[j].due /\ ran'[q] \in Int
    PROVE  OnTimeInv'
<1> SUFFICES ASSUME Exists', NEW q \in Queues \ moved'
             PROVE  OnTime(q)'
  BY DEF OnTimeInv
<1> DEFINE t == TimeFor(q, contest)
<1>1. TimeFor(q, contest') = t /\ t \in Int
  BY Types, TimesInt DEF TypeInv
<1>2. OnTime(q)
  BY DEF OnTimeInv
<1> HIDE DEF t
<1>2a. /\ \A j \in DOMAIN jobs : jobs[j].queue = q => jobs[j].due >= t
       /\ \A a \in Admins : \A i \in DOMAIN todo[a] : todo[a][i].queue = q => todo[a][i].at >= t
       /\ ran[q] # Never => ran[q] >= t
  BY <1>2 DEF OnTime, t
<1>3. /\ \A j \in DOMAIN jobs : jobs[j].due \in Int
      /\ \A a \in Admins : \A i \in DOMAIN todo[a] : todo[a][i].at \in Int
  <2>1. \A j \in DOMAIN jobs : jobs[j].due \in Int
    BY JobsAre DEF TypeInv, JobRow
  <2>2. ASSUME NEW a \in Admins, NEW i \in DOMAIN todo[a] PROVE todo[a][i].at \in Int
    <3>1. todo[a] \in Seq(Request)
      BY Types DEF TypeInv
    <3>2. todo[a][i] \in Request
      BY <3>1, LenProperties, ElementOfSeq
    <3> QED BY <3>2 DEF Request
  <2> QED BY <2>1, <2>2
<1>4. \A j \in DOMAIN jobs' : jobs'[j].queue = q => jobs'[j].due >= t
  BY <1>1, <1>2a, <1>3
<1>5. \A a \in Admins : \A i \in DOMAIN todo'[a] : todo'[a][i].queue = q => todo'[a][i].at >= t
  BY <1>1, <1>2a
<1>6. ran'[q] # Never => ran'[q] >= t
  BY <1>1, <1>2a, <1>3
<1> QED BY <1>1, <1>4, <1>5, <1>6 DEF OnTime


LEMMA OnTimeStep ==
    ASSUME ScheduleAssumption, TypeInv, NotYet, OnTimeInv, [Next]_vars
    PROVE  OnTimeInv'
<1>0. /\ clock \in Nat /\ contest \in Plan /\ form \in [Admins -> Plan] /\ todo \in [Admins -> Seq(Request)]
      /\ ran \in [Queues -> Int] /\ moved \subseteq Queues /\ jobs \in Seq(JobRow)
      /\ \A j \in DOMAIN jobs : jobs[j].due \in Int
  <2>1. \A j \in DOMAIN jobs : jobs[j].due \in Int
    BY JobsAre DEF TypeInv, JobRow
  <2> QED BY <2>1, Types DEF TypeInv
\* Steps that leave the row, the requests and the jobs' times alone.
<1>1. ASSUME UNCHANGED <<contest, moved>>, JobsKept,
             \A a \in Admins : todo'[a] = todo[a] \/ todo'[a] = <<>>,
             UNCHANGED ran \/ \E j \in DOMAIN jobs : Ready(j) /\ Effect(jobs[j].queue)
      PROVE  OnTimeInv'
  <2>1. /\ (Exists' => Exists) /\ moved \subseteq moved'
        /\ \A q \in Queues \ moved' : TimeFor(q, contest') = TimeFor(q, contest)
    BY <1>1 DEF Exists
  <2>2. /\ DOMAIN jobs' = DOMAIN jobs
        /\ \A j \in DOMAIN jobs : jobs'[j].queue = jobs[j].queue /\ jobs'[j].due = jobs[j].due
    BY <1>1 DEF JobsKept
  <2>3. \A a \in Admins : \A i \in DOMAIN todo'[a] : \E k \in DOMAIN todo[a] : todo'[a][i] = todo[a][k]
    <3>1. DOMAIN <<>> = {}
      OBVIOUS
    <3> QED BY <1>1, <3>1
  <2>4. \A q \in Queues : \/ ran'[q] = ran[q]
                          \/ \E j \in DOMAIN jobs : jobs[j].queue = q /\ ran'[q] >= jobs[j].due /\ ran'[q] \in Int
    <3> SUFFICES ASSUME NEW q \in Queues, NEW j \in DOMAIN jobs, Ready(j), Effect(jobs[j].queue), ran'[q] # ran[q]
                 PROVE  jobs[j].queue = q /\ ran'[q] >= jobs[j].due /\ ran'[q] \in Int
      BY <1>1
    <3>1. ran' = [ran EXCEPT ![jobs[j].queue] = IF ran[jobs[j].queue] = Never THEN clock ELSE ran[jobs[j].queue]]
      BY DEF Effect
    <3>2. jobs[j].queue = q /\ ran'[q] = clock
      BY <1>0, <3>1
    <3> QED BY <1>0, <3>2 DEF Ready
  <2> QED BY <1>0, <2>1, <2>2, <2>3, <2>4, OnTimeKept
<1>1a. JobsKept \/ jobs' # jobs
  BY <1>0 DEF JobsKept
\* Steps that change neither the jobs nor when they took effect.
<1>2. ASSUME jobs' = jobs, ran' = ran, moved \subseteq moved', Exists' => Exists,
             \A q \in Queues \ moved' : TimeFor(q, contest') = TimeFor(q, contest),
             \A a \in Admins : \A i \in DOMAIN todo'[a] :
                \/ \E k \in DOMAIN todo[a] : todo'[a][i] = todo[a][k]
                \/ todo'[a][i].at >= TimeFor(todo'[a][i].queue, contest')
      PROVE  OnTimeInv'
  BY <1>0, <1>2, OnTimeKept
<1>3. CASE UNCHANGED vars \/ Tick \/ \E u \in Users : UseContest(u)
  <2>1. UNCHANGED <<contest, moved, jobs, todo, ran>>
    BY <1>3 DEF vars, row, results, Tick, UseContest, Register, Unregister, DeleteEntry, Accept, ReadEntry, WriteEntry
  <2> QED BY <1>1, <1>1a, <2>1
<1>4. ASSUME NEW a \in Admins, NEW p \in Plans, CreateContest(a, p)
      PROVE  OnTimeInv'
  <2>1. DOMAIN jobs = {} /\ (\A b \in Admins : todo[b] = <<>>) /\ \A q \in Queues : ran[q] = Never
    BY <1>4 DEF CreateContest, NotYet
  <2>2. /\ todo' = [todo EXCEPT ![a] = Requests(OnCreate(p), p)] /\ contest' = p
        /\ jobs' = jobs /\ ran' = ran
    BY <1>4 DEF CreateContest, results
  <2>3. p \in Plan
    BY DEF ScheduleAssumption
  <2>4. \A i \in DOMAIN Requests(OnCreate(p), p) :
           Requests(OnCreate(p), p)[i].at = TimeFor(Requests(OnCreate(p), p)[i].queue, p)
    BY <2>3, SchedulesAre, RequestsAre
  <2>5. \A q \in Queues : TimeFor(q, p) \in Int
    BY <2>3, TimesInt
  <2>6. \A q \in Queues : \A b \in Admins : \A i \in DOMAIN todo'[b] : todo'[b][i].queue = q => todo'[b][i].at >= TimeFor(q, contest')
    <3> SUFFICES ASSUME NEW q \in Queues, NEW b \in Admins, NEW i \in DOMAIN todo'[b], todo'[b][i].queue = q
                 PROVE  todo'[b][i].at >= TimeFor(q, contest')
      OBVIOUS
    <3>1. DOMAIN <<>> = {}
      OBVIOUS
    <3>2. b = a /\ todo'[b] = Requests(OnCreate(p), p)
      BY <1>0, <2>1, <2>2, <3>1
    <3> QED BY <2>2, <2>4, <2>5, <3>2
  <2> QED BY <2>1, <2>2, <2>6 DEF OnTimeInv, OnTime
<1>5. ASSUME NEW a \in Admins, NEW offset \in Offsets, OpenForm(a, offset)
      PROVE  OnTimeInv'
  <2>1. UNCHANGED <<contest, moved, jobs, todo, ran>>
    BY <1>5 DEF OpenForm, results
  <2> QED BY <1>1, <1>1a, <2>1
<1>6. ASSUME NEW a \in Admins, NEW p, UpdateContest(a, p)
      PROVE  OnTimeInv'
  <2>1. p \in Plan
    BY <1>0, <1>6, EditsArePlans DEF UpdateContest
  <2>2. /\ todo' = [todo EXCEPT ![a] = Requests(OnUpdate(p), p)] /\ contest' = p
        /\ moved' = moved \union Changed(contest, p) /\ jobs' = jobs /\ ran' = ran /\ Exists
    BY <1>6 DEF UpdateContest, results
  <2>3. \A i \in DOMAIN Requests(OnUpdate(p), p) :
           /\ Requests(OnUpdate(p), p)[i].at = TimeFor(Requests(OnUpdate(p), p)[i].queue, p)
           /\ Requests(OnUpdate(p), p)[i].queue \in Queues
    <3>1. Requests(OnUpdate(p), p) \in Seq(Request)
      BY <2>1, SchedulesAre, RequestsAre
    <3>2. \A i \in DOMAIN Requests(OnUpdate(p), p) : Requests(OnUpdate(p), p)[i] \in Request
      BY <3>1, LenProperties, ElementOfSeq
    <3> QED BY <2>1, <3>2, SchedulesAre, RequestsAre DEF Request
  <2>4. \A q \in Queues : TimeFor(q, p) \in Int
    BY <2>1, TimesInt
  <2>5. \A q \in Queues \ moved' : TimeFor(q, contest') = TimeFor(q, contest)
    BY <2>2 DEF Changed
  <2>6. \A b \in Admins : \A i \in DOMAIN todo'[b] :
           \/ \E k \in DOMAIN todo[b] : todo'[b][i] = todo[b][k]
           \/ todo'[b][i].at >= TimeFor(todo'[b][i].queue, contest')
    <3> SUFFICES ASSUME NEW b \in Admins, NEW i \in DOMAIN todo'[b]
                 PROVE  \/ \E k \in DOMAIN todo[b] : todo'[b][i] = todo[b][k]
                        \/ todo'[b][i].at >= TimeFor(todo'[b][i].queue, contest')
      OBVIOUS
    <3>1. CASE b = a
      <4>1. todo'[b] = Requests(OnUpdate(p), p)
        BY <1>0, <2>2, <3>1
      <4>2. todo'[b][i].at = TimeFor(todo'[b][i].queue, p) /\ todo'[b][i].queue \in Queues
        BY <2>3, <4>1
      <4> QED BY <2>2, <2>4, <4>2
    <3>2. CASE b # a
      BY <1>0, <2>2, <3>2
    <3> QED BY <3>1, <3>2
  <2> QED BY <1>2, <2>2, <2>5, <2>6
<1>7. ASSUME NEW a \in Admins, SendSchedule(a)
      PROVE  OnTimeInv'
  <2>1. /\ todo[a] \in Seq(Request) /\ todo[a] # <<>> /\ AddJob(Head(todo[a])) /\ todo' = [todo EXCEPT ![a] = Tail(todo[a])]
        /\ UNCHANGED <<contest, moved, ran>>
    BY <1>0, <1>7 DEF SendSchedule, results
  <2>2. Head(todo[a]) \in Request /\ Head(todo[a]) = todo[a][1] /\ 1 \in DOMAIN todo[a]
    <3>1. Len(todo[a]) > 0 /\ DOMAIN todo[a] = 1..Len(todo[a]) /\ Len(todo[a]) \in Nat
      BY <2>1, EmptySeq, LenProperties
    <3> QED BY <2>1, <3>1, HeadTailProperties
  <2>3. /\ jobs' \in Seq(JobRow) /\ DOMAIN jobs' = DOMAIN jobs \union {Len(jobs) + 1}
        /\ \A k \in DOMAIN jobs : jobs'[k] = jobs[k]
        /\ jobs'[Len(jobs) + 1] \in JobRow
        /\ jobs'[Len(jobs) + 1].queue = Head(todo[a]).queue /\ jobs'[Len(jobs) + 1].due >= Head(todo[a]).at
    BY <2>1, <2>2, JobAdded
  <2>4. \A j \in DOMAIN jobs' : \/ j \in DOMAIN jobs /\ jobs'[j].queue = jobs[j].queue /\ jobs'[j].due = jobs[j].due
                                \/ \E b \in Admins : \E i \in DOMAIN todo[b] :
                                     jobs'[j].queue = todo[b][i].queue /\ jobs'[j].due >= todo[b][i].at
    BY <2>2, <2>3
  <2>5. \A j \in DOMAIN jobs' : jobs'[j].due \in Int
    BY <1>0, <2>3 DEF JobRow
  <2>6. \A b \in Admins : \A i \in DOMAIN todo'[b] : \E k \in DOMAIN todo[b] : todo'[b][i] = todo[b][k]
    <3> SUFFICES ASSUME NEW b \in Admins, NEW i \in DOMAIN todo'[b]
                 PROVE  \E k \in DOMAIN todo[b] : todo'[b][i] = todo[b][k]
      OBVIOUS
    <3>1. CASE b = a
      <4>1. todo'[b] = Tail(todo[a])
        BY <1>0, <2>1, <3>1
      <4>2. /\ Len(Tail(todo[a])) = Len(todo[a]) - 1 /\ Tail(todo[a]) \in Seq(Request)
            /\ \A k \in 1..(Len(todo[a]) - 1) : Tail(todo[a])[k] = todo[a][k + 1]
        BY <2>1, HeadTailProperties
      <4>3. DOMAIN Tail(todo[a]) = 1..(Len(todo[a]) - 1) /\ DOMAIN todo[a] = 1..Len(todo[a]) /\ Len(todo[a]) \in Nat
        BY <2>1, <4>2, LenProperties
      <4>4. i + 1 \in DOMAIN todo[b] /\ todo'[b][i] = todo[b][i + 1]
        BY <3>1, <4>1, <4>2, <4>3
      <4> QED BY <4>4
    <3>2. CASE b # a
      BY <1>0, <2>1, <3>2
    <3> QED BY <3>1, <3>2
  <2>7. /\ (Exists' => Exists) /\ moved \subseteq moved' /\ (\A q \in Queues : ran'[q] = ran[q])
        /\ \A q \in Queues \ moved' : TimeFor(q, contest') = TimeFor(q, contest)
    BY <2>1 DEF Exists
  <2> QED BY <2>4, <2>5, <2>6, <2>7, OnTimeKept
<1>8. ASSUME NEW a \in Admins, LoseSchedule(a)
      PROVE  OnTimeInv'
  <2>1. /\ todo[a] \in Seq(Request) /\ todo[a] # <<>> /\ todo' = [todo EXCEPT ![a] = Tail(todo[a])]
        /\ UNCHANGED <<contest, moved, jobs, ran>>
    BY <1>0, <1>8 DEF LoseSchedule, results
  <2>2. \A b \in Admins : \A i \in DOMAIN todo'[b] : \E k \in DOMAIN todo[b] : todo'[b][i] = todo[b][k]
    <3> SUFFICES ASSUME NEW b \in Admins, NEW i \in DOMAIN todo'[b]
                 PROVE  \E k \in DOMAIN todo[b] : todo'[b][i] = todo[b][k]
      OBVIOUS
    <3>1. CASE b = a
      <4>1. todo'[b] = Tail(todo[a])
        BY <1>0, <2>1, <3>1
      <4>2. /\ Len(Tail(todo[a])) = Len(todo[a]) - 1 /\ Tail(todo[a]) \in Seq(Request)
            /\ \A k \in 1..(Len(todo[a]) - 1) : Tail(todo[a])[k] = todo[a][k + 1]
        BY <2>1, HeadTailProperties
      <4>3. DOMAIN Tail(todo[a]) = 1..(Len(todo[a]) - 1) /\ DOMAIN todo[a] = 1..Len(todo[a]) /\ Len(todo[a]) \in Nat
        BY <2>1, <4>2, LenProperties
      <4>4. i + 1 \in DOMAIN todo[b] /\ todo'[b][i] = todo[b][i + 1]
        BY <3>1, <4>1, <4>2, <4>3
      <4> QED BY <4>4
    <3>2. CASE b # a
      BY <1>0, <2>1, <3>2
    <3> QED BY <3>1, <3>2
  <2>3. (Exists' => Exists) /\ \A q \in Queues \ moved' : TimeFor(q, contest') = TimeFor(q, contest)
    BY <2>1 DEF Exists
  <2> QED BY <1>2, <2>1, <2>2, <2>3
<1>9. CASE DeleteContest
  BY <1>9 DEF DeleteContest, OnTimeInv, Exists
<1>10. CASE CrashBackend
  <2>1. todo' = [a \in Admins |-> <<>>] /\ UNCHANGED <<contest, moved, ran>>
    BY <1>10 DEF CrashBackend, results
  <2>2. JobsKept
    BY <1>10, CrashEffect
  <2> QED BY <1>1, <2>1, <2>2
<1>11. ASSUME NEW j \in DOMAIN jobs, RunJob(j)
       PROVE  OnTimeInv'
  <2>1. UNCHANGED <<contest, moved, todo>>
    BY <1>11 DEF RunJob, FreezeRead, FreezeSnapshot, FreezeStamp, RunTransition, RunRating, row
  <2>2. CASE FreezeRead(j)
    <3>1. /\ DOMAIN jobs' = DOMAIN jobs /\ jobs[j].queue = "freezes" /\ jobs[j].due <= clock
          /\ \A k \in DOMAIN jobs : jobs'[k].queue = jobs[k].queue /\ jobs'[k].due = jobs[k].due
          /\ (UNCHANGED ran \/ Effect("freezes"))
      BY <2>2, FreezeReadEffect
    <3>2. \A q \in Queues : \/ ran'[q] = ran[q]
                            \/ \E k \in DOMAIN jobs : jobs[k].queue = q /\ ran'[q] >= jobs[k].due /\ ran'[q] \in Int
      BY <1>0, <3>1 DEF Effect
    <3>3. /\ (Exists' => Exists) /\ moved \subseteq moved'
          /\ \A q \in Queues \ moved' : TimeFor(q, contest') = TimeFor(q, contest)
          /\ \A a \in Admins : \A i \in DOMAIN todo'[a] : \E k \in DOMAIN todo[a] : todo'[a][i] = todo[a][k]
      BY <2>1 DEF Exists
    <3> QED BY <1>0, <3>1, <3>2, <3>3, OnTimeKept
  <2>3. CASE FreezeSnapshot(j)
    <3>1. /\ DOMAIN jobs' = DOMAIN jobs
          /\ \A k \in DOMAIN jobs : jobs'[k].queue = jobs[k].queue /\ jobs'[k].due = jobs[k].due
          /\ UNCHANGED ran
      BY <2>3, FreezeSnapshotEffect
    <3>2. /\ (Exists' => Exists) /\ moved \subseteq moved'
          /\ \A q \in Queues \ moved' : TimeFor(q, contest') = TimeFor(q, contest)
          /\ \A a \in Admins : \A i \in DOMAIN todo'[a] : \E k \in DOMAIN todo[a] : todo'[a][i] = todo[a][k]
      BY <2>1 DEF Exists
    <3> QED BY <1>0, <3>1, <3>2, OnTimeKept
  <2>4. CASE FreezeStamp(j) \/ RunTransition(j) \/ RunRating(j)
    <3>1. JobsKept
      BY <2>4, OtherJobEffect
    <3>2. UNCHANGED ran \/ (Ready(j) /\ Effect(jobs[j].queue))
      BY <2>4 DEF FreezeStamp, RunTransition, RunRating, results
    <3> QED BY <1>1, <2>1, <3>1, <3>2
  <2> QED BY <1>11, <2>2, <2>3, <2>4 DEF RunJob
<1> QED BY <1>3, <1>4, <1>5, <1>6, <1>7, <1>8, <1>9, <1>10, <1>11 DEF Next, Administer


\* The invariant JobsOnTime: a job that no edit overtook takes effect no earlier than the time the
\* row of the contest has for it, however requests, failures, repeats and restarts fall.
THEOREM JobsActOnTime == Spec => []JobsOnTime
<1> DEFINE I == TypeInv /\ NotYet /\ OnTimeInv
<1>1. Init => I
  <2> SUFFICES ASSUME Init
               PROVE  NotYet /\ OnTimeInv
    BY TypeInit, ScheduleAssumption
  <2>1. NotYet
    BY DEF Init, NotYet
  <2>2. OnTimeInv
    BY DEF Init, OnTimeInv, Exists
  <2> QED BY <2>1, <2>2
<1>2. I /\ [Next]_vars => I'
  BY TypeStep, NotYetStep, OnTimeStep, ScheduleAssumption
<1>3. I => JobsOnTime
  BY DEF OnTimeInv, OnTime, JobsOnTime
<1> HIDE DEF I
<1> QED BY <1>1, <1>2, <1>3, PTL DEF Spec

-----------------------------------------------------------------------------
(* The standing when the window opened.                                    *)

PointsInv == WindowInv /\ AbsentInv /\ FrozenInv /\ ScoresInv /\ SnapshotInv /\ RatingsInv

\* Steps that leave the standing alone: what is known of it stays known when the row keeps the
\* window or the freeze counts as edited, and jobs keep their scores.
LEMMA PointsQuiet ==
    ASSUME TypeInv, PointsInv, UNCHANGED <<clock, entry, snapshot, ratings, atFreeze, late>>,
           Exists' => Exists, moved \subseteq moved',
           "freezes" \notin moved' => /\ contest'.freeze = contest.freeze /\ contest'.end = contest.end
                                      /\ Exists /\ contest.freeze # Never => Exists',
           \A j \in DOMAIN jobs' :
              \/ jobs'[j].state \notin {"read", "stored"} /\ \A u \in Users : jobs'[j].scores[u] = NoRow
              \/ /\ j \in DOMAIN jobs /\ jobs'[j].queue = jobs[j].queue /\ jobs'[j].scores = jobs[j].scores
                 /\ jobs'[j].state \in {"read", "stored"} => jobs'[j].state = jobs[j].state
    PROVE  PointsInv'
<1>1. "freezes" \notin moved' =>
         /\ "freezes" \notin moved /\ Opened' <=> Opened
         /\ contest'.freeze = contest.freeze /\ contest'.end = contest.end
  BY DEF Opened
<1>2. WindowInv'
  BY <1>1 DEF PointsInv, WindowInv
<1>3. AbsentInv'
  BY DEF PointsInv, AbsentInv
<1>4. FrozenInv'
  BY <1>1 DEF PointsInv, FrozenInv
<1>5. ScoresInv'
  <2> SUFFICES ASSUME "freezes" \notin moved', Exists', NEW j \in DOMAIN jobs', jobs'[j].queue = "freezes"
               PROVE  /\ jobs'[j].state \in {"read", "stored"} => Opened'
                      /\ \A u \in Users : jobs'[j].scores[u] # NoRow =>
                           Opened' /\ (u \notin late' => jobs'[j].scores[u] = atFreeze'[u])
    BY DEF ScoresInv
  <2> QED BY <1>1 DEF PointsInv, ScoresInv
<1>6. SnapshotInv'
  BY <1>1 DEF PointsInv, SnapshotInv, Opened
<1>7. RatingsInv'
  BY <1>1 DEF PointsInv, RatingsInv
<1> QED BY <1>2, <1>3, <1>4, <1>5, <1>6, <1>7 DEF PointsInv

\* Time passes: the window may open.
LEMMA PointsTick ==
    ASSUME TypeInv, PointsInv, Tick
    PROVE  PointsInv'
<1>0. /\ clock' = clock + 1 /\ clock \in Nat /\ contest \in Plan
      /\ UNCHANGED <<contest, moved, jobs, entry, snapshot, ratings, late>>
      /\ atFreeze' = IF Exists /\ contest.freeze = clock + 1 THEN [u \in Users |-> entry[u].points] ELSE atFreeze
  BY Types DEF TypeInv, Tick, row, people, results
<1>1. contest.freeze \in Int /\ contest.end \in Int /\ Never \in Int
  BY <1>0 DEF Plan, Never
<1>2. Opened => Opened' /\ atFreeze' = atFreeze
  BY <1>0, <1>1 DEF Opened
<1>3. Exists' <=> Exists
  BY <1>0 DEF Exists
<1>4. WindowInv'
  <2> SUFFICES ASSUME "freezes" \notin moved, Exists, Opened', clock' <= contest.end, NEW u \in Users, u \notin late
               PROVE  entry[u].points = atFreeze'[u]
    BY <1>0, <1>3 DEF WindowInv
  <2>1. CASE contest.freeze = clock + 1
    BY <1>0, <2>1
  <2>2. CASE Opened
    <3>1. clock <= contest.end
      BY <1>0, <1>1
    <3> QED BY <1>2, <2>2, <3>1 DEF PointsInv, WindowInv
  <2> QED BY <1>0, <1>1, <2>1, <2>2 DEF Opened
<1>5. AbsentInv'
  BY <1>0 DEF PointsInv, AbsentInv
<1>6. FrozenInv'
  BY <1>0, <1>2, <1>3 DEF PointsInv, FrozenInv
<1>7. ScoresInv'
  BY <1>0, <1>2, <1>3 DEF PointsInv, ScoresInv
<1>8. SnapshotInv'
  BY <1>0, <1>2, <1>3 DEF PointsInv, SnapshotInv
<1>9. RatingsInv'
  <2> SUFFICES ASSUME "freezes" \notin moved, Exists, NEW u \in Users, ratings[u] # NoRow
               PROVE  contest.end < clock' /\ (u \notin late /\ entry[u].frozen => ratings[u] = atFreeze'[u])
    BY <1>0, <1>3 DEF RatingsInv
  <2>1. contest.end < clock /\ (u \notin late /\ entry[u].frozen => ratings[u] = atFreeze[u])
    BY DEF PointsInv, RatingsInv
  <2>2. entry[u].frozen => Opened
    BY DEF PointsInv, FrozenInv
  <2> QED BY <1>0, <1>1, <1>2, <2>1, <2>2
<1> QED BY <1>4, <1>5, <1>6, <1>7, <1>8, <1>9 DEF PointsInv

\* One user's entry changes: in the window, or when it stays frozen with other points, only if
\* the user counts as late.
LEMMA PointsOfOne ==
    ASSUME TypeInv, PointsInv, NEW u \in Users, NEW e \in EntryRow, entry' = [entry EXCEPT ![u] = e],
           UNCHANGED <<clock, contest, moved, jobs, snapshot, ratings, atFreeze>>, late \subseteq late',
           ~e.present => e = NoEntry,
           e.frozen => entry[u].frozen,
           \/ e.points = entry[u].points
           \/ u \in late'
           \/ ~e.frozen /\ ~InFreezeWindow(clock)
    PROVE  PointsInv'
<1>0. entry \in [Users -> EntryRow]
  BY Types DEF TypeInv
<1>1. entry'[u] = e /\ \A v \in Users : v # u => entry'[v] = entry[v]
  BY <1>0
<1>2. (Exists' <=> Exists) /\ (Opened' <=> Opened)
  BY DEF Exists, Opened
<1>3. WindowInv'
  BY <1>1, <1>2 DEF PointsInv, WindowInv, InFreezeWindow, Opened
<1>4. AbsentInv'
  BY <1>1 DEF PointsInv, AbsentInv
<1>5. FrozenInv'
  BY <1>1, <1>2 DEF PointsInv, FrozenInv
<1>6. ScoresInv' /\ SnapshotInv'
  BY <1>2 DEF PointsInv, ScoresInv, SnapshotInv
<1>7. RatingsInv'
  BY <1>1, <1>2 DEF PointsInv, RatingsInv
<1> QED BY <1>3, <1>4, <1>5, <1>6, <1>7 DEF PointsInv

LEMMA PointsUser ==
    ASSUME ScheduleAssumption, TypeInv, PointsInv, NEW u \in Users, UseContest(u)
    PROVE  PointsInv'
<1>0. /\ entry \in [Users -> EntryRow] /\ update \in [Users -> Updates] /\ TypeInv'
      /\ UNCHANGED <<clock, contest, moved, jobs, snapshot, ratings, atFreeze>>
  BY Types, UsersType DEF TypeInv, row, results
<1>0a. entry' \in [Users -> EntryRow]
  <2>1. TypeOK'
    BY <1>0 DEF TypeInv
  <2> QED BY <2>1 DEF TypeOK, EntryRow
<1>1. ASSUME UNCHANGED <<entry, late>> PROVE PointsInv'
  BY <1>0, <1>1, PointsQuiet DEF Exists
<1>2. CASE Unregister(u) \/ Accept(u) \/ ReadEntry(u)
  BY <1>1, <1>2 DEF Unregister, Accept, ReadEntry
<1>3. CASE Register(u)
  <2> DEFINE e == [NoEntry EXCEPT !.present = TRUE]
  <2>1. entry[u] = NoEntry /\ entry' = [entry EXCEPT ![u] = e] /\ late' = late
    BY <1>3 DEF Register, PointsInv, AbsentInv
  <2>2. e \in EntryRow /\ e.present /\ ~e.frozen /\ e.points = entry[u].points
    BY <2>1 DEF NoEntry, EntryRow
  <2> HIDE DEF e
  <2> QED BY <1>0, <2>1, <2>2, PointsOfOne
<1>4. CASE DeleteEntry(u)
  <2>1. /\ entry' = [entry EXCEPT ![u] = NoEntry] /\ NoEntry \in EntryRow /\ ~NoEntry.frozen
        /\ late \subseteq late' /\ (InFreezeWindow(clock) => u \in late')
    BY <1>4 DEF DeleteEntry, NoEntry, EntryRow
  <2> QED BY <1>0, <2>1, PointsOfOne
<1>5. CASE WriteEntry(u)
  <2>1. CASE update[u].read.frozen
    BY <1>1, <1>5, <2>1 DEF WriteEntry
  <2>2. CASE ~update[u].read.frozen
    <3> DEFINE p == update[u].read.points + 1
               e == [entry[u] EXCEPT !.present = TRUE, !.points = p]
    <3>1. /\ entry' = [entry EXCEPT ![u] = e]
          /\ late' = IF entry[u].frozen # update[u].read.frozen \/ InFreezeWindow(clock) THEN late \union {u} ELSE late
      BY <1>5, <2>2 DEF WriteEntry
    <3>2. entry'[u] = e
      BY <1>0, <3>1
    <3>3. e \in EntryRow
      BY <1>0a, <3>2
    <3>4. entry[u] \in EntryRow
      BY <1>0
    <3>5. e.present /\ (e.frozen <=> entry[u].frozen)
      <4> HIDE DEF p
      <4> QED BY <3>4 DEF EntryRow
    <3>6. late \subseteq late' /\ (entry[u].frozen => u \in late') /\ (InFreezeWindow(clock) => u \in late')
      BY <2>2, <3>1
    <3> HIDE DEF e
    <3> QED BY <1>0, <3>1, <3>3, <3>5, <3>6, PointsOfOne
  <2> QED BY <2>1, <2>2
<1> QED BY <1>2, <1>3, <1>4, <1>5 DEF UseContest


\* A job steps.  The freeze job acts when the window has opened; after it, whoever it touches is late.
LEMMA PointsJob ==
    ASSUME ScheduleAssumption, TypeInv, OnTimeInv, PointsInv, NEW j \in DOMAIN jobs, RunJob(j)
    PROVE  PointsInv'
<1>0. /\ entry \in [Users -> EntryRow] /\ contest \in Plan /\ clock \in Nat /\ snapshot \in [Users -> Int]
      /\ contest.freeze \in Int /\ contest.end \in Int /\ ratings \in [Users -> Int]
      /\ late \subseteq Users
  BY Types DEF TypeInv, Plan
<1>1. ASSUME UNCHANGED <<clock, row, entry, snapshot, ratings, atFreeze, late>>, JobsKept
      PROVE  PointsInv'
  BY <1>1, PointsQuiet DEF JobsKept, row, Exists
<1>2. CASE FreezeRead(j)
  <2>1. /\ jobs[j].queue = "freezes" /\ jobs[j].due <= clock /\ DOMAIN jobs' = DOMAIN jobs
        /\ UNCHANGED <<clock, row, people, snapshot, ratings, atFreeze>>
        /\ \A k \in DOMAIN jobs : jobs'[k].queue = jobs[k].queue /\ jobs'[k].due = jobs[k].due
        /\ \/ JobsKept /\ UNCHANGED <<ran, late>>
           \/ /\ Exists /\ contest.freeze # Never /\ Effect("freezes")
              /\ \A k \in DOMAIN jobs : k # j => jobs'[k] = jobs[k]
              /\ jobs'[j].state = "read"
              /\ jobs'[j].scores = [u \in Users |-> IF entry[u].present THEN entry[u].points ELSE NoRow]
              /\ late' = IF clock > contest.end THEN late \union {u \in Users : entry[u].present} ELSE late
    BY <1>2, FreezeReadEffect
  <2>1a. UNCHANGED <<contest, moved, entry>>
    BY <2>1 DEF row, people
  <2>2. CASE JobsKept /\ UNCHANGED <<ran, late>>
    BY <1>1, <2>1, <2>2 DEF people
  <2>3. CASE /\ Exists /\ contest.freeze # Never
             /\ \A k \in DOMAIN jobs : k # j => jobs'[k] = jobs[k]
             /\ jobs'[j].state = "read"
             /\ jobs'[j].scores = [u \in Users |-> IF entry[u].present THEN entry[u].points ELSE NoRow]
             /\ late' = IF clock > contest.end THEN late \union {u \in Users : entry[u].present} ELSE late
    <3>1. (Exists' <=> Exists) /\ (Opened' <=> Opened) /\ late \subseteq late'
      BY <2>1, <2>1a, <2>3 DEF Exists, Opened
    <3>2. "freezes" \notin moved => Opened
      <4> SUFFICES ASSUME "freezes" \notin moved
                   PROVE  Opened
        OBVIOUS
      <4>1. OnTime("freezes")
        BY <2>3 DEF OnTimeInv, Queues
      <4>2. jobs[j].due >= contest.freeze
        BY <2>1, <4>1, TimesAre DEF OnTime
      <4>3. jobs[j].due \in Int
        BY JobsAre DEF TypeInv, JobRow
      <4> QED BY <1>0, <2>1, <2>3, <4>2, <4>3 DEF Opened
    <3>3. ScoresInv'
      <4> SUFFICES ASSUME "freezes" \notin moved, Exists, NEW k \in DOMAIN jobs, jobs'[k].queue = "freezes",
                          NEW u \in Users, jobs'[k].scores[u] # NoRow, u \notin late'
                   PROVE  jobs'[k].scores[u] = atFreeze[u]
        <5>1. /\ atFreeze' = atFreeze /\ DOMAIN jobs' = DOMAIN jobs
              /\ "freezes" \notin moved' => "freezes" \notin moved /\ Opened'
          BY <2>1, <2>1a, <3>1, <3>2
        <5> QED BY <3>1, <5>1 DEF ScoresInv
      <4>1. CASE k # j
        BY <2>1, <2>3, <3>1, <4>1 DEF PointsInv, ScoresInv
      <4>2. CASE k = j
        <5>1. jobs'[k].scores[u] = IF entry[u].present THEN entry[u].points ELSE NoRow
          BY <2>3, <4>2
        <5>2. entry[u].present /\ jobs'[k].scores[u] = entry[u].points
          BY <5>1
        <5>3. clock <= contest.end
          BY <1>0, <2>3, <5>2
        <5>4. entry[u].points = atFreeze[u]
          BY <3>1, <3>2, <5>3 DEF PointsInv, WindowInv
        <5> QED BY <5>2, <5>4
      <4> QED BY <4>1, <4>2
    <3>4. WindowInv' /\ AbsentInv' /\ FrozenInv' /\ SnapshotInv' /\ RatingsInv'
      BY <2>1, <2>1a, <3>1 DEF PointsInv, WindowInv, AbsentInv, FrozenInv, SnapshotInv, RatingsInv
    <3> QED BY <3>3, <3>4 DEF PointsInv
  <2> QED BY <2>1, <2>2, <2>3
<1>3. CASE FreezeSnapshot(j)
  <2>1. /\ jobs[j].queue = "freezes" /\ jobs[j].state = "read" /\ DOMAIN jobs' = DOMAIN jobs
        /\ UNCHANGED <<clock, row, people, ratings, ran, faults, atFreeze, late>>
        /\ \A k \in DOMAIN jobs : /\ jobs'[k].queue = jobs[k].queue /\ jobs'[k].due = jobs[k].due
                                  /\ jobs'[k].scores = jobs[k].scores
        /\ \/ JobsKept /\ UNCHANGED snapshot
           \/ /\ Exists /\ \A k \in DOMAIN jobs : k # j => jobs'[k] = jobs[k]
              /\ jobs'[j].state = "stored"
              /\ snapshot' = [u \in Users |-> IF snapshot[u] = NoRow THEN jobs[j].scores[u] ELSE snapshot[u]]
    BY <1>3, FreezeSnapshotEffect
  <2>1a. UNCHANGED <<contest, moved, entry>>
    BY <2>1 DEF row, people
  <2>2. CASE JobsKept /\ UNCHANGED snapshot
    BY <1>1, <2>1, <2>2 DEF people
  <2>3. CASE /\ Exists /\ \A k \in DOMAIN jobs : k # j => jobs'[k] = jobs[k]
             /\ jobs'[j].state = "stored"
             /\ snapshot' = [u \in Users |-> IF snapshot[u] = NoRow THEN jobs[j].scores[u] ELSE snapshot[u]]
    <3>1. (Exists' <=> Exists) /\ (Opened' <=> Opened)
      BY <2>1, <2>1a DEF Exists, Opened
    <3>2. ScoresInv'
      <4> SUFFICES ASSUME "freezes" \notin moved, Exists, NEW k \in DOMAIN jobs, jobs[k].queue = "freezes"
                   PROVE  /\ jobs'[k].state \in {"read", "stored"} => Opened
                          /\ \A u \in Users : jobs[k].scores[u] # NoRow =>
                               Opened /\ (u \notin late => jobs[k].scores[u] = atFreeze[u])
        BY <2>1, <2>1a, <3>1 DEF ScoresInv
      <4>1. jobs'[k].state \in {"read", "stored"} => jobs[k].state \in {"read", "stored"}
        BY <2>1, <2>3
      <4> QED BY <4>1 DEF PointsInv, ScoresInv
    <3>3. SnapshotInv'
      <4> SUFFICES ASSUME "freezes" \notin moved, NEW u \in Users, snapshot'[u] # NoRow
                   PROVE  Exists /\ Opened /\ (u \notin late => snapshot'[u] = atFreeze[u])
        BY <2>1, <2>1a, <3>1 DEF SnapshotInv
      <4>1. CASE snapshot[u] # NoRow
        BY <2>3, <4>1 DEF PointsInv, SnapshotInv
      <4>2. CASE snapshot[u] = NoRow
        <5>1. snapshot'[u] = jobs[j].scores[u]
          BY <2>3, <4>2
        <5> QED BY <2>1, <2>3, <5>1 DEF PointsInv, ScoresInv
      <4> QED BY <4>1, <4>2
    <3>4. WindowInv' /\ AbsentInv' /\ FrozenInv' /\ RatingsInv'
      BY <2>1, <2>1a, <3>1 DEF PointsInv, WindowInv, AbsentInv, FrozenInv, RatingsInv
    <3> QED BY <3>2, <3>3, <3>4 DEF PointsInv
  <2> QED BY <2>1, <2>2, <2>3
<1>4. CASE FreezeStamp(j)
  <2>1. /\ jobs[j].queue = "freezes" /\ jobs[j].state = "stored" /\ JobsKept
        /\ UNCHANGED <<clock, contest, moved, snapshot, ratings, atFreeze>>
        /\ entry' = [u \in Users |-> [entry[u] EXCEPT !.frozen = entry[u].present]]
        /\ late' = IF clock > contest.end THEN late \union {u \in Users : ~entry[u].frozen} ELSE late
    BY <1>4, OtherJobEffect DEF FreezeStamp, row, results
  <2>2. (Exists' <=> Exists) /\ (Opened' <=> Opened) /\ late \subseteq late'
    BY <2>1 DEF Exists, Opened
  <2>3. \A u \in Users : /\ (entry'[u].frozen <=> entry[u].present) /\ (entry'[u].present <=> entry[u].present)
                         /\ entry'[u].points = entry[u].points
    <3> SUFFICES ASSUME NEW u \in Users
                 PROVE  /\ (entry'[u].frozen <=> entry[u].present) /\ (entry'[u].present <=> entry[u].present)
                        /\ entry'[u].points = entry[u].points
      OBVIOUS
    <3>1. entry'[u] = [entry[u] EXCEPT !.frozen = entry[u].present] /\ entry[u] \in EntryRow
      BY <1>0, <2>1
    <3> QED BY <3>1 DEF EntryRow
  <2>4. WindowInv'
    BY <2>1, <2>2, <2>3 DEF PointsInv, WindowInv
  <2>5. AbsentInv'
    <3> SUFFICES ASSUME NEW u \in Users, ~entry'[u].present
                 PROVE  entry'[u] = NoEntry
      BY DEF AbsentInv
    <3>1. entry[u] = NoEntry
      BY <2>3 DEF PointsInv, AbsentInv
    <3>2. entry'[u] = [NoEntry EXCEPT !.frozen = NoEntry.present]
      BY <2>1, <3>1
    <3>3. NoEntry.present = NoEntry.frozen
      BY Zenon DEF NoEntry
    <3>4. NoEntry \in [present : {FALSE, 0}, points : {FALSE, 0}, frozen : {FALSE, 0}]
      BY DEF NoEntry
    <3>5. [NoEntry EXCEPT !.frozen = NoEntry.present] = NoEntry
      BY <3>3, <3>4
    <3> QED BY <3>2, <3>5
  <2>6. FrozenInv'
    <3> SUFFICES ASSUME "freezes" \notin moved, Exists, NEW u \in Users
                 PROVE  Opened /\ (u \notin late' => entry[u].points = atFreeze[u])
      BY <2>1, <2>2, <2>3 DEF FrozenInv
    <3>1. Opened
      BY <2>1 DEF PointsInv, ScoresInv
    <3>2. CASE clock <= contest.end
      BY <2>2, <3>1, <3>2 DEF PointsInv, WindowInv
    <3>3. CASE clock > contest.end
      BY <2>1, <3>1, <3>3 DEF PointsInv, FrozenInv
    <3> QED BY <1>0, <3>1, <3>2, <3>3
  <2>7. ScoresInv'
    BY <2>1, <2>2 DEF PointsInv, ScoresInv, JobsKept
  <2>8. SnapshotInv'
    BY <2>1, <2>2 DEF PointsInv, SnapshotInv
  <2>9. RatingsInv'
    <3> SUFFICES ASSUME "freezes" \notin moved, Exists, NEW u \in Users, ratings[u] # NoRow
                 PROVE  contest.end < clock /\ (u \notin late' => ratings[u] = atFreeze[u])
      BY <2>1, <2>2 DEF RatingsInv
    <3>1. contest.end < clock /\ (u \notin late /\ entry[u].frozen => ratings[u] = atFreeze[u])
      BY DEF PointsInv, RatingsInv
    <3> QED BY <1>0, <2>1, <3>1
  <2> QED BY <2>4, <2>5, <2>6, <2>7, <2>8, <2>9 DEF PointsInv
<1>5. CASE RunTransition(j)
  <2>1. UNCHANGED <<clock, row, people, snapshot, ratings, atFreeze, late>> /\ JobsKept
    BY <1>5, OtherJobEffect DEF RunTransition
  <2> QED BY <1>1, <2>1 DEF people
<1>6. CASE RunRating(j)
  <2>1. /\ UNCHANGED <<clock, row, people, snapshot, atFreeze, late>> /\ JobsKept
        /\ \/ UNCHANGED ratings
           \/ /\ Ratable
              /\ ratings' = [u \in Users |-> IF u \in Participants THEN entry[u].points ELSE ratings[u]]
    BY <1>6, OtherJobEffect DEF RunRating
  <2>2. CASE UNCHANGED ratings
    BY <1>1, <2>1, <2>2 DEF people
  <2>3. CASE /\ Ratable
             /\ ratings' = [u \in Users |-> IF u \in Participants THEN entry[u].points ELSE ratings[u]]
    <3>1. (Exists' <=> Exists) /\ (Opened' <=> Opened) /\ UNCHANGED <<contest, moved, entry>>
      BY <2>1 DEF Exists, Opened, row, people
    <3>2. WindowInv' /\ AbsentInv' /\ FrozenInv' /\ ScoresInv' /\ SnapshotInv'
      BY <2>1, <3>1 DEF PointsInv, WindowInv, AbsentInv, FrozenInv, ScoresInv, SnapshotInv, JobsKept
    <3>3. RatingsInv'
      <4> SUFFICES ASSUME "freezes" \notin moved, Exists, NEW u \in Users
                   PROVE  contest.end < clock /\ (u \notin late /\ entry[u].frozen => ratings'[u] = atFreeze[u])
        BY <2>1, <3>1 DEF RatingsInv
      <4>1. contest.end < clock
        BY <1>0, <2>3 DEF Ratable
      <4> SUFFICES ASSUME u \notin late, entry[u].frozen
                   PROVE  ratings'[u] = atFreeze[u]
        BY <4>1
      <4>2. entry[u].present
        BY DEF PointsInv, AbsentInv, NoEntry
      <4>3. ratings'[u] = entry[u].points
        BY <2>3, <4>2 DEF Participants
      <4> QED BY <4>3 DEF PointsInv, FrozenInv
    <3> QED BY <3>2, <3>3 DEF PointsInv
  <2> QED BY <2>1, <2>2, <2>3
<1> QED BY <1>2, <1>3, <1>4, <1>5, <1>6 DEF RunJob


LEMMA PointsStep ==
    ASSUME ScheduleAssumption, TypeInv, NotYet, OnTimeInv, PointsInv, [Next]_vars
    PROVE  PointsInv'
<1>0. /\ contest \in Plan /\ form \in [Admins -> Plan] /\ todo \in [Admins -> Seq(Request)]
      /\ jobs \in Seq(JobRow) /\ clock \in Nat
      /\ contest.freeze \in Int /\ contest.end \in Int
  BY Types DEF TypeInv, Plan
<1>1. ASSUME UNCHANGED <<clock, contest, moved, jobs, entry, snapshot, ratings, atFreeze, late>>
      PROVE  PointsInv'
  BY <1>1, PointsQuiet DEF Exists
<1>2. CASE UNCHANGED vars
  BY <1>1, <1>2 DEF vars, row, people, results
<1>3. ASSUME NEW a \in Admins, NEW p \in Plans, CreateContest(a, p)
      PROVE  PointsInv'
  <2>1. /\ contest = NoContest /\ DOMAIN jobs = {}
        /\ \A u \in Users : /\ entry[u] = NoEntry /\ snapshot[u] = NoRow
                            /\ ratings[u] = NoRow /\ atFreeze[u] = 0
    BY <1>3 DEF NotYet, CreateContest
  <2>2. UNCHANGED <<clock, jobs, entry, snapshot, ratings, atFreeze, late>>
    BY <1>3 DEF CreateContest, people, results
  <2>3. WindowInv' /\ AbsentInv' /\ FrozenInv' /\ ScoresInv' /\ SnapshotInv' /\ RatingsInv'
    BY <2>1, <2>2 DEF WindowInv, AbsentInv, FrozenInv, ScoresInv, SnapshotInv, RatingsInv, NoEntry
  <2> QED BY <2>3 DEF PointsInv
<1>4. ASSUME NEW a \in Admins, NEW offset \in Offsets, OpenForm(a, offset)
      PROVE  PointsInv'
  BY <1>1, <1>4 DEF OpenForm, people, results
<1>5. ASSUME NEW a \in Admins, NEW p, UpdateContest(a, p)
      PROVE  PointsInv'
  <2>1. /\ UNCHANGED <<clock, jobs, entry, snapshot, ratings, atFreeze, late>>
        /\ contest' = p /\ Exists /\ moved' = moved \union Changed(contest, p)
    BY <1>5 DEF UpdateContest, people, results
  <2>2. "freezes" \in Queues
    BY DEF Queues
  <2>3. "freezes" \notin moved' => p.freeze = contest.freeze /\ p.end = contest.end
    BY <2>1, <2>2, TimesAre DEF Changed
  <2>4. p.freeze # Never => p # NoContest
    BY DEF NoContest
  <2>5. "freezes" \notin moved' => /\ contest'.freeze = contest.freeze /\ contest'.end = contest.end
                                   /\ Exists /\ contest.freeze # Never => Exists'
    BY <2>1, <2>3, <2>4 DEF Exists
  <2> QED BY <2>1, <2>5, PointsQuiet
<1>6. ASSUME NEW a \in Admins, SendSchedule(a)
      PROVE  PointsInv'
  <2>1. /\ UNCHANGED <<clock, contest, moved, entry, snapshot, ratings, atFreeze, late>>
        /\ todo[a] # <<>> /\ todo[a] \in Seq(Request) /\ AddJob(Head(todo[a]))
    BY <1>0, <1>6 DEF SendSchedule, people, results
  <2>2. Head(todo[a]) \in Request
    BY <2>1, HeadTailProperties
  <2>3. /\ DOMAIN jobs' = DOMAIN jobs \union {Len(jobs) + 1}
        /\ \A k \in DOMAIN jobs : jobs'[k] = jobs[k]
        /\ jobs'[Len(jobs) + 1].scores = [u \in Users |-> NoRow]
        /\ jobs'[Len(jobs) + 1].state = "waiting"
    BY <2>1, <2>2, JobAdded
  <2>4. (Exists' => Exists) /\ (Exists => Exists')
    BY <2>1 DEF Exists
  <2> QED BY <2>1, <2>3, <2>4, PointsQuiet
<1>7. ASSUME NEW a \in Admins, LoseSchedule(a)
      PROVE  PointsInv'
  BY <1>1, <1>7 DEF LoseSchedule, people, results
<1>8. CASE DeleteContest
  <2>1. /\ contest' = NoContest /\ entry' = [u \in Users |-> NoEntry]
        /\ snapshot' = [u \in Users |-> NoRow] /\ ratings' = [u \in Users |-> NoRow]
    BY <1>8 DEF DeleteContest
  <2>2. WindowInv' /\ AbsentInv' /\ FrozenInv' /\ ScoresInv' /\ SnapshotInv' /\ RatingsInv'
    BY <2>1 DEF WindowInv, AbsentInv, FrozenInv, ScoresInv, SnapshotInv, RatingsInv, Exists
  <2> QED BY <2>2 DEF PointsInv
<1>9. CASE \E j \in DOMAIN jobs : RunJob(j)
  BY <1>9, PointsJob
<1>10. CASE \E u \in Users : UseContest(u)
  BY <1>10, PointsUser
<1>11. CASE Tick
  BY <1>11, PointsTick
<1>12. CASE CrashBackend
  <2>1. UNCHANGED <<clock, contest, moved, entry, snapshot, ratings, atFreeze, late>> /\ JobsKept
    BY <1>12, CrashEffect DEF CrashBackend, results
  <2> QED BY <2>1, PointsQuiet DEF JobsKept, Exists
<1> QED BY <1>2, <1>3, <1>4, <1>5, <1>6, <1>7, <1>8, <1>9, <1>10, <1>11, <1>12 DEF Next, Administer

\* What holds of contests, jobs and standings in every state.
ContestInv == TypeInv /\ NotYet /\ OnTimeInv /\ PointsInv

LEMMA ContestInit ==
    ASSUME Init
    PROVE  ContestInv
<1>1. NotYet
  BY DEF Init, NotYet
<1>2. OnTimeInv
  BY DEF Init, OnTimeInv, Exists
<1>3. WindowInv /\ AbsentInv /\ FrozenInv /\ ScoresInv /\ SnapshotInv /\ RatingsInv
  BY DEF Init, WindowInv, AbsentInv, FrozenInv, ScoresInv, SnapshotInv, RatingsInv, Exists
<1> QED BY <1>1, <1>2, <1>3, TypeInit, ScheduleAssumption DEF ContestInv, PointsInv

LEMMA ContestStep ==
    ASSUME ContestInv, [Next]_vars
    PROVE  ContestInv'
BY TypeStep, NotYetStep, OnTimeStep, PointsStep, ScheduleAssumption DEF ContestInv

\* The invariant SnapshotFaithful: the frozen standing is the one of the moment the window opened,
\* however late in the window the job runs, however often it is delivered and wherever it is cut
\* off; the steps it is not protected from are those that put a user in late.
THEOREM FrozenStandingFaithful == Spec => []SnapshotFaithful
<1>1. ContestInv => SnapshotFaithful
  BY DEF ContestInv, PointsInv, SnapshotInv, SnapshotFaithful
<1> QED BY <1>1, ContestInit, ContestStep, PTL DEF Spec

-----------------------------------------------------------------------------
(* The public pages.                                                       *)


LEMMA SolvedStep ==
    ASSUME ScheduleAssumption, TypeInv, NotYet, SolvedInv, [Next]_vars
    PROVE  SolvedInv'
<1>0. /\ contest \in Plan /\ clock \in Nat /\ saves \in Nat /\ entry \in [Users -> EntryRow]
      /\ accepted \in [Users -> Nat] /\ contest.start \in Int
  BY Types DEF TypeInv, Plan
\* Nobody leaves and the row stays, but others may become late and time may pass.
<1>1. ASSUME contest' = contest, saves' = saves, accepted' = accepted, late \subseteq late',
             clock' = clock \/ clock' = clock + 1,
             \A u \in Users : entry[u].present => entry'[u].present
      PROVE  SolvedInv'
  BY <1>0, <1>1 DEF SolvedInv, Exists
<1>2. ASSUME UNCHANGED <<contest, saves, accepted, entry, clock, late>>
      PROVE  SolvedInv'
  BY <1>0, <1>1, <1>2
<1>3. CASE UNCHANGED vars
  BY <1>2, <1>3 DEF vars, row, people
<1>4. ASSUME NEW a \in Admins, NEW p \in Plans, CreateContest(a, p)
      PROVE  SolvedInv'
  <2>1. accepted' = accepted /\ \A u \in Users : accepted[u] = 0
    BY <1>4 DEF CreateContest, people, NotYet
  <2> QED BY <2>1 DEF SolvedInv
<1>5. ASSUME NEW a \in Admins, NEW offset \in Offsets, OpenForm(a, offset)
      PROVE  SolvedInv'
  BY <1>2, <1>5 DEF OpenForm, people
<1>6. ASSUME NEW a \in Admins, NEW p, UpdateContest(a, p)
      PROVE  SolvedInv'
  BY <1>0, <1>6 DEF UpdateContest, SolvedInv
<1>7. ASSUME NEW a \in Admins, SendSchedule(a) \/ LoseSchedule(a)
      PROVE  SolvedInv'
  BY <1>2, <1>7 DEF SendSchedule, LoseSchedule, people
<1>8. CASE DeleteContest
  BY <1>0, <1>8 DEF DeleteContest, SolvedInv
<1>9. ASSUME NEW j \in DOMAIN jobs, RunJob(j)
      PROVE  SolvedInv'
  <2>1. CASE FreezeRead(j)
    BY <1>1, <2>1 DEF FreezeRead, row, people
  <2>2. CASE FreezeSnapshot(j) \/ RunTransition(j) \/ RunRating(j)
    BY <1>2, <2>2 DEF FreezeSnapshot, RunTransition, RunRating, row, people
  <2>3. CASE FreezeStamp(j)
    <3>1. /\ UNCHANGED <<contest, saves, accepted, clock>> /\ late \subseteq late'
          /\ entry' = [u \in Users |-> [entry[u] EXCEPT !.frozen = entry[u].present]]
      BY <2>3 DEF FreezeStamp, row
    <3>2. \A u \in Users : entry[u].present => entry'[u].present
      <4> SUFFICES ASSUME NEW u \in Users, entry[u].present
                   PROVE  entry'[u].present
        OBVIOUS
      <4>1. entry'[u] = [entry[u] EXCEPT !.frozen = entry[u].present] /\ entry[u] \in EntryRow
        BY <1>0, <3>1
      <4> QED BY <4>1 DEF EntryRow
    <3> QED BY <1>1, <3>1, <3>2
  <2> QED BY <1>9, <2>1, <2>2, <2>3 DEF RunJob
<1>10. ASSUME NEW u \in Users, UseContest(u)
       PROVE  SolvedInv'
  <2>0. UNCHANGED <<clock, contest, saves>>
    BY <1>10, UsersType DEF row
  <2>1. CASE Register(u)
    <3>1. entry' = [entry EXCEPT ![u] = [NoEntry EXCEPT !.present = TRUE]] /\ UNCHANGED <<accepted, late>>
      BY <2>1 DEF Register
    <3>2. \A v \in Users : entry[v].present => entry'[v].present
      BY <1>0, <3>1 DEF NoEntry
    <3> QED BY <1>1, <2>0, <3>1, <3>2
  <2>2. CASE Unregister(u) \/ ReadEntry(u)
    BY <1>2, <2>0, <2>2 DEF Unregister, ReadEntry
  <2>3. CASE DeleteEntry(u)
    <3>1. /\ entry' = [entry EXCEPT ![u] = NoEntry] /\ accepted' = accepted /\ late \subseteq late'
          /\ (clock >= contest.start => u \in late')
      BY <2>3 DEF DeleteEntry
    <3> SUFFICES ASSUME saves = 0, Exists, ~contest.isPractice, NEW v \in Users, accepted[v] > 0
                 PROVE  contest.start <= clock /\ (v \notin late' => entry'[v].present)
      BY <2>0, <3>1 DEF SolvedInv, Exists
    <3>2. contest.start <= clock /\ (v \notin late => entry[v].present)
      BY DEF SolvedInv
    <3> QED BY <1>0, <3>1, <3>2
  <2>4. CASE Accept(u)
    <3>1. /\ accepted' = [accepted EXCEPT ![u] = accepted[u] + 1] /\ UNCHANGED <<entry, late>>
          /\ entry[u].present /\ (contest.isPractice \/ clock \in contest.start..contest.end)
      BY <2>4 DEF Accept, MaySubmit
    <3> SUFFICES ASSUME saves = 0, Exists, ~contest.isPractice, NEW v \in Users, accepted'[v] > 0
                 PROVE  contest.start <= clock /\ (v \notin late => entry[v].present)
      BY <2>0, <3>1 DEF SolvedInv, Exists
    <3>2. CASE v = u
      BY <1>0, <3>1, <3>2 DEF Plan
    <3>3. CASE v # u
      <4>1. accepted[v] > 0
        BY <1>0, <3>1, <3>3
      <4> QED BY <4>1 DEF SolvedInv
    <3> QED BY <3>2, <3>3
  <2>5. CASE WriteEntry(u)
    <3> DEFINE p == update[u].read.points + 1
               e == [entry[u] EXCEPT !.present = TRUE, !.points = p]
    <3>1. /\ accepted' = accepted /\ late \subseteq late'
          /\ (entry' = entry \/ entry' = [entry EXCEPT ![u] = e])
      BY <2>5 DEF WriteEntry
    <3> HIDE DEF p
    <3>2. e.present
      <4>1. entry[u] \in EntryRow
        BY <1>0
      <4> QED BY <4>1 DEF EntryRow
    <3> HIDE DEF e
    <3>3. \A v \in Users : entry[v].present => entry'[v].present
      BY <1>0, <3>1, <3>2
    <3> QED BY <1>1, <2>0, <3>1, <3>3
  <2> QED BY <1>10, <2>1, <2>2, <2>3, <2>4, <2>5 DEF UseContest
<1>11. CASE Tick
  BY <1>1, <1>11 DEF Tick, row, people
<1>12. CASE CrashBackend
  BY <1>2, <1>12 DEF CrashBackend
<1> QED BY <1>3, <1>4, <1>5, <1>6, <1>7, <1>8, <1>9, <1>10, <1>11, <1>12 DEF Next, Administer

\* The status of the contest's page, as tests of the clock.
LEMMA StatusIs ==
    /\ clock < contest.start => ContestStatus = "upcoming"
    /\ ~(clock < contest.start) /\ clock > contest.end => ContestStatus = "past"
    /\ ~(clock < contest.start) /\ ~(clock > contest.end) => ContestStatus = "live"
BY DEF ContestStatus

\* The filters of the list of contests.
LEMMA FiltersAre ==
    /\ ListedAs("upcoming") <=> contest.start > clock
    /\ ListedAs("live") <=> (contest.start <= clock /\ contest.end >= clock)
    /\ ListedAs("past") <=> contest.end < clock
<1>1. "upcoming" # "live" /\ "upcoming" # "past" /\ "live" # "past"
  OBVIOUS
<1> QED BY <1>1, Zenon DEF ListedAs

LEMMA PagesAgree ==
    ASSUME TypeInv, SolvedInv
    PROVE  ContestPagesAgree
<1> SUFFICES ASSUME Exists
             PROVE  /\ ListedAs(ContestStatus)
                    /\ contest.start <= contest.end =>
                         {s \in {"upcoming", "live", "past"} : ListedAs(s)} = {ContestStatus}
                    /\ \A u \in Users :
                          /\ MaySubmit(u) => /\ Details(u).registered /\ Details(u).problems
                                             /\ contest.isPractice \/ (ProblemsOpen /\ ContestStatus = "live")
                          /\ SolvedShown(u) > 0 /\ u \notin late /\ saves = 0 /\ ~contest.isPractice
                               => Details(u).registered
  BY DEF ContestPagesAgree
<1>0. clock \in Int /\ contest.start \in Int /\ contest.end \in Int /\ accepted \in [Users -> Nat]
  BY Types DEF TypeInv, Plan
<1>1. ListedAs(ContestStatus)
  BY <1>0, StatusIs, FiltersAre
<1>2. ASSUME contest.start <= contest.end
      PROVE  {s \in {"upcoming", "live", "past"} : ListedAs(s)} = {ContestStatus}
  <2>1. CASE clock < contest.start
    <3>1. ContestStatus = "upcoming" /\ ListedAs("upcoming") /\ ~ListedAs("live") /\ ~ListedAs("past")
      BY <1>0, <1>2, <2>1, StatusIs, FiltersAre
    <3> QED BY <3>1
  <2>2. CASE ~(clock < contest.start) /\ clock > contest.end
    <3>1. ContestStatus = "past" /\ ~ListedAs("upcoming") /\ ~ListedAs("live") /\ ListedAs("past")
      BY <1>0, <1>2, <2>2, StatusIs, FiltersAre
    <3> QED BY <3>1
  <2>3. CASE ~(clock < contest.start) /\ ~(clock > contest.end)
    <3>1. ContestStatus = "live" /\ ~ListedAs("upcoming") /\ ListedAs("live") /\ ~ListedAs("past")
      BY <1>0, <1>2, <2>3, StatusIs, FiltersAre
    <3> QED BY <3>1
  <2> QED BY <2>1, <2>2, <2>3
<1>3. ASSUME NEW u \in Users
      PROVE  /\ MaySubmit(u) => /\ Details(u).registered /\ Details(u).problems
                                /\ contest.isPractice \/ (ProblemsOpen /\ ContestStatus = "live")
             /\ SolvedShown(u) > 0 /\ u \notin late /\ saves = 0 /\ ~contest.isPractice
                  => Details(u).registered
  <2>1. /\ Details(u).registered <=> entry[u].present
        /\ Details(u).problems <=> (contest.isPractice \/ clock >= contest.start)
    BY DEF Details
  <2>2. ASSUME MaySubmit(u)
        PROVE  /\ Details(u).registered /\ Details(u).problems
               /\ contest.isPractice \/ (ProblemsOpen /\ ContestStatus = "live")
    BY <1>0, <2>1, <2>2, StatusIs DEF MaySubmit, ProblemsOpen
  <2>3. ASSUME SolvedShown(u) > 0, u \notin late, saves = 0, ~contest.isPractice
        PROVE  Details(u).registered
    <3>1. accepted[u] > 0
      BY <1>0, <2>3 DEF SolvedShown
    <3> QED BY <2>1, <2>3, <3>1 DEF SolvedInv
  <2> QED BY <2>2, <2>3
<1> QED BY <1>1, <1>2, <1>3

\* A guest sees the snapshot once the window has opened.
LEMMA SnapshotIsShown ==
    ASSUME NEW u, UseSnapshot
    PROVE  PublicPoints(u) = snapshot[u]
BY Zenon DEF PublicPoints

LEMMA RatingsAgree ==
    ASSUME PointsInv
    PROVE  RatedAsShown
<1> SUFFICES ASSUME NEW u \in Users, RatingsShown(u) # NoRow, snapshot[u] # NoRow, entry[u].frozen,
                    u \notin late, moved \intersect {"freezes", "ratings"} = {}
             PROVE  RatingsShown(u) = PublicPoints(u)
  BY DEF RatedAsShown
<1>1. "freezes" \notin moved
  OBVIOUS
<1>2. Exists /\ RatingsShown(u) = ratings[u] /\ ratings[u] # NoRow
  BY DEF RatingsShown
<1>3. Opened /\ snapshot[u] = atFreeze[u] /\ ratings[u] = atFreeze[u]
  BY <1>1, <1>2 DEF PointsInv, SnapshotInv, RatingsInv
<1>4. UseSnapshot
  BY <1>3 DEF Opened, UseSnapshot
<1> QED BY <1>2, <1>3, <1>4, SnapshotIsShown

\* The invariant PublicPagesAgree: the list of contests, the contest's page, its problems, its
\* leaderboard and its ratings fit together, whatever jobs, edits, restarts and users do between.
THEOREM PagesFitTogether == Spec => []PublicPagesAgree
<1> DEFINE I == ContestInv /\ SolvedInv
<1>1. Init => I
  <2>1. Init => SolvedInv
    BY DEF Init, SolvedInv
  <2> QED BY <2>1, ContestInit
<1>2. I /\ [Next]_vars => I'
  BY ContestStep, SolvedStep, ScheduleAssumption DEF ContestInv
<1>3. I => PublicPagesAgree
  BY PagesAgree, RatingsAgree DEF ContestInv, PublicPagesAgree
<1> HIDE DEF I
<1> QED BY <1>1, <1>2, <1>3, PTL DEF Spec

=============================================================================
