--------------------------- MODULE JudgePipeline ---------------------------
(***************************************************************************)
(* The life of submissions from the HTTP request to the stored verdict:    *)
(* the backend writes a submission row and sends a judge request to the    *)
(* worker service, the worker service adds a BullMQ job whose id is the    *)
(* submission id, a worker judges it and calls update-submission, and the  *)
(* callback's handler writes the verdict.  The transition to the second    *)
(* judge phase after the contest and an administrator's rejudge send rows  *)
(* through the same queue again, possibly while earlier work for the same  *)
(* row is still on its way.                                                *)
(*                                                                         *)
(* Handlers of the backend interleave at every await: each action here is  *)
(* the code between two awaits.  A BullMQ job in its back-off delay is     *)
(* "waiting": both states hold the job id and end in a worker taking it.   *)
(***************************************************************************)
EXTENDS Integers, FiniteSets, JudgeTypes

CONSTANTS
    NumWorkers,     \* worker processes, each with BullMQ's concurrency of 1
    Slots,          \* BOUND: callbacks that may be open at the same time
    Transitions,    \* BOUND: deliveries of the contest's phase-transition job
    Rejudges,       \* BOUND: rejudge jobs administrators start
    MaxFaults       \* BOUND: lost messages, crashes and failed statements

ASSUME BoundsAssumption ==
    /\ NumWorkers \in Nat \ {0}
    /\ MaxFaults \in Nat
    /\ "submit" \notin Transitions \cup Rejudges

VARIABLES
    status,         \* Submission.status; "ABSENT" before the row exists
    judgePhase,     \* Submission.judgePhase; "NONE" before the row exists
    wrongAttempts,  \* Submission.wrongAttempts
    announced,      \* calls of handleLeaderboardUpdate made for the row
    submitting,     \* submissions past the time window check, row not created
    sends,          \* judge requests between the backend and the worker service
    job,            \* BullMQ's "submissions" queue, keyed by job id
    calls,          \* update-submission callbacks being handled
    transition,     \* the phase-transition handler, one instance per delivery
    rejudge,        \* processRejudgeJob, one instance per rejudge job
    ended,          \* the contest's endTime has passed
    faults,         \* faults so far
    disturbed,      \* history: rows whose verdict may be reported twice in a phase
    dropped         \* history: rows for which some judge request was lost

rows == <<status, judgePhase, wrongAttempts, announced>>
threads == <<submitting, transition, rejudge>>
vars == <<rows, threads, sends, job, calls, ended, faults, disturbed, dropped>>

-----------------------------------------------------------------------------
(* The BullMQ queue, as the code configures it.                            *)

MaxAttempts == 3

NoJob == [state |-> "none", phase |-> "NONE", tests |-> "all",
          attempts |-> 0, stalled |-> FALSE]

\* A job with the same id, in whatever state it is, makes add() a no-op.
AddJob(m) ==
    IF job[m.sub].state = "none"
      THEN /\ job' = [job EXCEPT ![m.sub] =
                        [state |-> "waiting", phase |-> m.phase,
                         tests |-> m.tests, attempts |-> 0, stalled |-> FALSE]]
           /\ UNCHANGED dropped
      ELSE /\ dropped' = dropped \cup {m.sub}
           /\ UNCHANGED job

\* An attempt that throws is retried until it was the last one; a job out of
\* attempts stays in the failed set (removeOnFail: false).
FailAttempt(j) ==
    [j EXCEPT !.state = IF j.attempts + 1 < MaxAttempts THEN "waiting" ELSE "failed",
              !.attempts = j.attempts + 1]

\* A stalled job is given to a worker again, once.
Stall(j) ==
    [j EXCEPT !.state = IF j.stalled THEN "failed" ELSE "waiting",
              !.stalled = TRUE]

Lost(s) == IF job'[s].state = "failed" THEN {s} ELSE {}

BusyWorkers == Cardinality({s \in Subs : job[s].state \in {"judging", "posted"}})

-----------------------------------------------------------------------------
(* Submitting.                                                             *)

Request(s, phase, tests, by) == [sub |-> s, phase |-> phase, tests |-> tests, by |-> by]

\* Mutant: contest submissions are judged on all tests from the start.
TestsOnCreateAll(s) == "all"

\* Contest submissions are judged on the sample tests only, practice ones on all.
TestsOnCreate(s) == IF s \in PracticeSubs THEN "all" ELSE "samples"

\* The time window is checked first; reads of the entry, the problem and the
\* cooldown are awaited before the row is created.
CheckWindow(s) ==
    /\ status[s] = "ABSENT" /\ s \notin submitting
    /\ s \in PracticeSubs \/ ~ended
    /\ submitting' = submitting \cup {s}
    /\ UNCHANGED <<rows, transition, rejudge, sends, job, calls, ended, faults,
                   disturbed, dropped>>

CreateSubmission(s) ==
    /\ s \in submitting
    /\ submitting' = submitting \ {s}
    /\ status' = [status EXCEPT ![s] = "QUEUED"]
    /\ judgePhase' = [judgePhase EXCEPT ![s] = PhaseOnCreate(s)]
    /\ sends' = sends \cup {Request(s, PhaseOnCreate(s), TestsOnCreate(s), "submit")}
    /\ UNCHANGED <<wrongAttempts, announced, transition, rejudge, job, calls,
                   ended, faults, disturbed, dropped>>

\* POST /api/worker/enqueue reaches the worker service, which adds the job.
Enqueue(m) ==
    /\ m \in sends
    /\ sends' = sends \ {m}
    /\ AddJob(m)
    /\ UNCHANGED <<rows, threads, calls, ended, faults, disturbed>>

-----------------------------------------------------------------------------
(* The worker.                                                             *)

TakeJob(s) ==
    /\ job[s].state = "waiting"
    /\ BusyWorkers < NumWorkers
    /\ job' = [job EXCEPT ![s].state = "judging"]
    /\ UNCHANGED <<rows, threads, sends, calls, ended, faults, disturbed, dropped>>

\* The judge loop over the job's test cases, then the request to the backend.
Judge(s) ==
    /\ job[s].state = "judging"
    /\ \E i \in Slots \ {c.id : c \in calls}, v \in Outcome[s][job[s].tests] :
         calls' = calls \cup {[id |-> i, sub |-> s, phase |-> job[s].phase,
                               verdict |-> v, pc |-> "sent", wrong |-> 0,
                               waited |-> TRUE]}
    /\ job' = [job EXCEPT ![s].state = "posted"]
    /\ UNCHANGED <<rows, threads, sends, ended, faults, disturbed, dropped>>

-----------------------------------------------------------------------------
(* handleWorkerUpdateSubmission.                                           *)

Advance(c, d) == calls' = (calls \ {c}) \cup {d}

\* Read the row; an update of another judge phase is discarded with success.
ReadCurrent(c) ==
    /\ c \in calls /\ c.pc = "sent"
    /\ IF c.phase = judgePhase[c.sub]
         THEN /\ Advance(c, [c EXCEPT !.pc = "write", !.wrong = wrongAttempts[c.sub]])
              /\ UNCHANGED dropped
         ELSE /\ Advance(c, [c EXCEPT !.pc = "reply"])
              /\ dropped' = dropped \cup {c.sub}
    /\ UNCHANGED <<rows, threads, sends, job, ended, faults, disturbed>>

\* Mutant: practice acceptances are announced as well.
WriteVerdictAnnouncingAll(c) ==
    /\ c \in calls /\ c.pc = "write"
    /\ status' = [status EXCEPT ![c.sub] = c.verdict]
    /\ UNCHANGED wrongAttempts
    /\ announced' = [announced EXCEPT ![c.sub] = @ + 1]
    /\ Advance(c, [c EXCEPT !.pc = "reply"])
    /\ UNCHANGED <<judgePhase, threads, sends, job, ended, faults, disturbed, dropped>>

WrongIncrement(v) == IF v = "ACCEPTED" THEN 0 ELSE 1

\* Write the verdict, with the count computed from the row as it was read,
\* and announce an accepted contest submission to the leaderboard.
WriteVerdict(c) ==
    /\ c \in calls /\ c.pc = "write"
    /\ status' = [status EXCEPT ![c.sub] = c.verdict]
    /\ wrongAttempts' = [wrongAttempts EXCEPT ![c.sub] = c.wrong + WrongIncrement(c.verdict)]
    /\ announced' = IF c.verdict = "ACCEPTED" /\ c.phase # "PRACTICE"
                      THEN [announced EXCEPT ![c.sub] = @ + 1]
                      ELSE announced
    /\ Advance(c, [c EXCEPT !.pc = "reply"])
    /\ UNCHANGED <<judgePhase, threads, sends, job, ended, faults, disturbed, dropped>>

\* Mutant: the worker is not released by the response.
ReplyKeepingWorker(c) ==
    /\ c \in calls /\ c.pc = "reply"
    /\ calls' = calls \ {c}
    /\ UNCHANGED <<rows, threads, sends, job, ended, faults, disturbed, dropped>>

\* The response ends the job, if the worker still waits for it.
Reply(c) ==
    /\ c \in calls /\ c.pc = "reply"
    /\ calls' = calls \ {c}
    /\ job' = IF c.waited THEN [job EXCEPT ![c.sub] = NoJob] ELSE job
    /\ UNCHANGED <<rows, threads, sends, ended, faults, disturbed, dropped>>

-----------------------------------------------------------------------------
(* handleTransitionJudgePhaseWorker.                                       *)

EndContest ==
    /\ ~ended /\ ended' = TRUE
    /\ UNCHANGED <<rows, threads, sends, job, calls, faults, disturbed, dropped>>

\* Mutants: every row of the first phase; every accepted row.
EligibleAnyStatus == {s \in Subs : judgePhase[s] = "CONTEST_PHASE1"}
EligibleAnyPhase == {s \in Subs : status[s] = "ACCEPTED"}

Eligible == {s \in Subs : judgePhase[s] = "CONTEST_PHASE1" /\ status[s] = "ACCEPTED"}

\* The delayed job fires and the handler reads the rows to move; without any
\* it is done.
StartTransition(t) ==
    /\ ended /\ transition[t].pc = "idle"
    /\ \A u \in Transitions : transition[u].pc \in {"idle", "lost"}
    /\ transition' = [transition EXCEPT ![t] =
          [pc |-> IF Eligible = {} THEN "done" ELSE "run", todo |-> Eligible]]
    /\ UNCHANGED <<rows, submitting, rejudge, sends, job, calls, ended, faults,
                   disturbed, dropped>>

\* The same after the response of an earlier delivery was lost: the job is
\* retried while the earlier handler may still be running.
RetryTransition(t) ==
    /\ transition[t].pc = "idle" /\ faults < MaxFaults
    /\ \E u \in Transitions : transition[u].pc \in {"run", "done"}
    /\ transition' = [transition EXCEPT ![t] =
          [pc |-> IF Eligible = {} THEN "done" ELSE "run", todo |-> Eligible]]
    /\ faults' = faults + 1
    /\ disturbed' = disturbed \cup Eligible
    /\ UNCHANGED <<rows, submitting, rejudge, sends, job, calls, ended, dropped>>

Rest(t, s) ==
    LET todo == transition[t].todo \ {s}
    IN  [pc |-> IF todo = {} THEN "done" ELSE "run", todo |-> todo]

\* Mutant: the row is reset, but no request is sent for it.
MoveToPhase2Unsent(t, s) ==
    /\ s \in transition[t].todo
    /\ transition' = [transition EXCEPT ![t] = Rest(t, s)]
    /\ judgePhase' = [judgePhase EXCEPT ![s] = "CONTEST_PHASE2"]
    /\ status' = [status EXCEPT ![s] = "QUEUED"]
    /\ wrongAttempts' = [wrongAttempts EXCEPT ![s] = 0]
    /\ UNCHANGED <<announced, submitting, rejudge, sends, job, calls, ended, faults,
                   disturbed, dropped>>

\* One of the concurrent per-row bodies: the row is reset whatever it holds
\* now, then sent to the worker.
MoveToPhase2(t, s) ==
    /\ s \in transition[t].todo
    /\ transition' = [transition EXCEPT ![t] = Rest(t, s)]
    /\ judgePhase' = [judgePhase EXCEPT ![s] = "CONTEST_PHASE2"]
    /\ status' = [status EXCEPT ![s] = "QUEUED"]
    /\ wrongAttempts' = [wrongAttempts EXCEPT ![s] = 0]
    /\ sends' = sends \cup {Request(s, "CONTEST_PHASE2", "all", t)}
    /\ UNCHANGED <<announced, submitting, rejudge, job, calls, ended, faults,
                   disturbed, dropped>>

-----------------------------------------------------------------------------
(* processRejudgeJob.                                                      *)

\* Mutant: the row is not looked up before it is rejudged.
ExistingUnchecked == Subs

Existing == {s \in Subs : status[s] # "ABSENT"}

\* An administrator rejudges one submission or every one of the problem; the
\* rows are read with the judge phase they have now.
StartRejudge(r) ==
    /\ rejudge[r].pc = "idle"
    /\ \E targets \in {{s} : s \in Existing} \cup {Existing} :
         /\ targets # {}
         /\ rejudge' = [rejudge EXCEPT ![r] =
              [pc |-> "run", todo |-> {<<s, judgePhase[s]>> : s \in targets}]]
         /\ disturbed' = disturbed \cup targets
    /\ UNCHANGED <<rows, submitting, transition, sends, job, calls, ended, faults, dropped>>

Remaining(r, x) ==
    LET todo == rejudge[r].todo \ {x}
    IN  [pc |-> IF todo = {} THEN "done" ELSE "run", todo |-> todo]

\* One turn of the loop, once the request of the turn before was answered:
\* neither the phase nor wrongAttempts is reset, all tests are sent.
RejudgeOne(r, s, phase) ==
    /\ <<s, phase>> \in rejudge[r].todo
    /\ \A m \in sends : m.by # r
    /\ rejudge' = [rejudge EXCEPT ![r] = Remaining(r, <<s, phase>>)]
    /\ status' = [status EXCEPT ![s] = "QUEUED"]
    /\ sends' = sends \cup {Request(s, phase, "all", r)}
    /\ UNCHANGED <<judgePhase, wrongAttempts, announced, submitting, transition,
                   job, calls, ended, faults, disturbed, dropped>>

-----------------------------------------------------------------------------
(* Faults.                                                                 *)

Fault == faults < MaxFaults /\ faults' = faults + 1

\* sendToWorker catches the error and returns false; no caller undoes the row.
LoseSend(m) ==
    /\ Fault /\ m \in sends
    /\ sends' = sends \ {m}
    /\ dropped' = dropped \cup {m.sub}
    /\ UNCHANGED <<rows, threads, job, calls, ended, disturbed>>

\* The callback is lost on its way, or its handler throws before the write:
\* the worker's attempt fails.
LoseCall(c) ==
    /\ Fault /\ c \in calls /\ c.pc \in {"sent", "write"}
    /\ calls' = calls \ {c}
    /\ job' = IF c.waited THEN [job EXCEPT ![c.sub] = FailAttempt(@)] ELSE job
    /\ dropped' = dropped \cup (IF c.waited THEN Lost(c.sub) ELSE {c.sub})
    /\ UNCHANGED <<rows, threads, sends, ended, disturbed>>

\* The response is lost or late: the worker's attempt fails, the handler goes on.
GiveUp(c) ==
    /\ Fault /\ c \in calls /\ c.waited
    /\ Advance(c, [c EXCEPT !.waited = FALSE])
    /\ job' = [job EXCEPT ![c.sub] = FailAttempt(@)]
    /\ dropped' = dropped \cup Lost(c.sub)
    /\ disturbed' = disturbed \cup {c.sub}
    /\ UNCHANGED <<rows, threads, sends, ended>>

\* A worker process dies with its job; a callback it made is still handled.
CrashWorker(s) ==
    /\ Fault /\ job[s].state \in {"judging", "posted"}
    /\ job' = [job EXCEPT ![s] = Stall(@)]
    /\ calls' = {IF c.sub = s THEN [c EXCEPT !.waited = FALSE] ELSE c : c \in calls}
    /\ dropped' = dropped \cup Lost(s)
    /\ disturbed' = IF job[s].state = "posted" THEN disturbed \cup {s} ELSE disturbed
    /\ UNCHANGED <<rows, threads, sends, ended>>

Waited(s) == \E c \in calls : c.sub = s /\ c.waited

\* The backend restarts: every handler and background task of it is gone.
CrashBackend ==
    /\ Fault
    /\ submitting' = {} /\ sends' = {} /\ calls' = {}
    /\ transition' = [t \in Transitions |->
          [pc |-> IF transition[t].pc = "run" THEN "lost" ELSE transition[t].pc, todo |-> {}]]
    /\ rejudge' = [r \in Rejudges |->
          [pc |-> IF rejudge[r].pc = "run" THEN "done" ELSE rejudge[r].pc, todo |-> {}]]
    /\ job' = [s \in Subs |-> IF Waited(s) THEN FailAttempt(job[s]) ELSE job[s]]
    /\ dropped' = dropped \cup {m.sub : m \in sends}
                          \cup {c.sub : c \in {d \in calls : ~d.waited}}
                          \cup {s \in Subs : job'[s].state = "failed"}
    /\ disturbed' = disturbed \cup {c.sub : c \in {d \in calls : d.waited /\ d.pc = "reply"}}
    /\ UNCHANGED <<rows, ended>>

\* One row of the transition is rejected by the database; the others go on.
FailMove(t, s) ==
    /\ Fault /\ s \in transition[t].todo
    /\ transition' = [transition EXCEPT ![t] = Rest(t, s)]
    /\ UNCHANGED <<rows, submitting, rejudge, sends, job, calls, ended, disturbed, dropped>>

\* One turn of the rejudge loop throws before its row is reset; the loop goes on.
FailRejudge(r, s, phase) ==
    /\ Fault /\ <<s, phase>> \in rejudge[r].todo
    /\ \A m \in sends : m.by # r
    /\ rejudge' = [rejudge EXCEPT ![r] = Remaining(r, <<s, phase>>)]
    /\ UNCHANGED <<rows, submitting, transition, sends, job, calls, ended, disturbed, dropped>>

-----------------------------------------------------------------------------
Init ==
    /\ status = [s \in Subs |-> "ABSENT"]
    /\ judgePhase = [s \in Subs |-> "NONE"]
    /\ wrongAttempts = [s \in Subs |-> 0]
    /\ announced = [s \in Subs |-> 0]
    /\ submitting = {} /\ sends = {} /\ calls = {}
    /\ job = [s \in Subs |-> NoJob]
    /\ transition = [t \in Transitions |-> [pc |-> "idle", todo |-> {}]]
    /\ rejudge = [r \in Rejudges |-> [pc |-> "idle", todo |-> {}]]
    /\ ended = FALSE /\ faults = 0 /\ disturbed = {} /\ dropped = {}

Submit(s) == CheckWindow(s) \/ CreateSubmission(s)
Callback(c) == ReadCurrent(c) \/ WriteVerdict(c) \/ Reply(c)
Faulty ==
    \/ \E m \in sends : LoseSend(m)
    \/ \E c \in calls : LoseCall(c) \/ GiveUp(c)
    \/ \E s \in Subs : CrashWorker(s)
    \/ CrashBackend
    \/ \E t \in Transitions, s \in Subs : FailMove(t, s)
    \/ \E r \in Rejudges, s \in Subs, p \in Phases : FailRejudge(r, s, p)

Next ==
    \/ \E s \in Subs : Submit(s) \/ TakeJob(s) \/ Judge(s)
    \/ \E m \in sends : Enqueue(m)
    \/ \E c \in calls : Callback(c)
    \/ EndContest
    \/ \E t \in Transitions : StartTransition(t) \/ RetryTransition(t)
    \/ \E t \in Transitions, s \in Subs : MoveToPhase2(t, s)
    \/ \E r \in Rejudges : StartRejudge(r)
    \/ \E r \in Rejudges, s \in Subs, p \in Phases : RejudgeOne(r, s, p)
    \/ Faulty

Spec == Init /\ [][Next]_vars

\* The services keep running: a handler that was started goes on, a request is
\* delivered or lost, a job that waits is taken and judged.  Nothing forces a
\* user to submit, a contest to end, an administrator to rejudge or a fault.
Fairness ==
    /\ \A s \in Subs : WF_vars(CreateSubmission(s)) /\ WF_vars(TakeJob(s)) /\ WF_vars(Judge(s))
    /\ WF_vars(\E m \in sends : Enqueue(m))
    /\ WF_vars(\E c \in calls : Callback(c))
    /\ \A t \in Transitions : WF_vars(StartTransition(t))
    /\ \A t \in Transitions, s \in Subs : WF_vars(MoveToPhase2(t, s))
    /\ \A r \in Rejudges, s \in Subs, p \in Phases : WF_vars(RejudgeOne(r, s, p))

FairSpec == Spec /\ Fairness

-----------------------------------------------------------------------------
(* Properties.                                                             *)

Request_ == [sub : Subs, phase : Phases, tests : TestSets,
             by : {"submit"} \cup Transitions \cup Rejudges]
Job_ == [state : {"none", "waiting", "judging", "posted", "failed"},
         phase : Phases \cup {"NONE"}, tests : TestSets,
         attempts : Nat, stalled : BOOLEAN]
Call_ == [id : Slots, sub : Subs, phase : Phases, verdict : Verdicts,
          pc : {"sent", "write", "reply"}, wrong : Nat, waited : BOOLEAN]

\* Every variable has its type, and a job in the queue has a judge phase.
TypeOK ==
    /\ status \in [Subs -> Verdicts \cup {"ABSENT", "QUEUED"}]
    /\ judgePhase \in [Subs -> Phases \cup {"NONE"}]
    /\ wrongAttempts \in [Subs -> Nat]
    /\ announced \in [Subs -> Nat]
    /\ submitting \subseteq Subs
    /\ sends \subseteq Request_
    /\ job \in [Subs -> Job_]
    /\ \A s \in Subs : job[s].state # "none" => job[s].phase \in Phases
    /\ calls \subseteq Call_
    /\ transition \in [Transitions -> [pc : {"idle", "run", "done", "lost"}, todo : SUBSET Subs]]
    /\ rejudge \in [Rejudges -> [pc : {"idle", "run", "done"}, todo : SUBSET (Subs \X Phases)]]
    /\ ended \in BOOLEAN
    /\ faults \in Nat
    /\ disturbed \subseteq Subs
    /\ dropped \subseteq Subs

\* A stored verdict is one that judging gives on the test cases its judge phase
\* stands for: the official verdict of the second phase, and a practice verdict,
\* come from all tests.  Rejudges, and retries after a verdict may have been
\* written, void this for contest rows: the phase guard of update-submission
\* reads before it writes (submission.ts:226-255).
VerdictBacked ==
    \A s \in Subs :
        status[s] \in Verdicts /\ (s \in disturbed => judgePhase[s] = "PRACTICE")
          => status[s] \in Outcome[s][TestsFor(judgePhase[s])]

\* What may still bring a queued row its verdict.
Pending(s) ==
    \/ \E m \in sends : m.sub = s
    \/ job[s].state \in {"waiting", "judging"}
    \/ \E c \in calls : c.sub = s /\ c.pc \in {"sent", "write"}

\* A QUEUED row has work on its way, or one of the losses the code lets pass
\* happened: a request not sent, an add ignored for its job id, a job out of
\* attempts, an update discarded by the phase guard, a backend restart.  There
\* is no other way for a submission to stay unjudged.
NoSilentLoss ==
    \A s \in Subs : status[s] = "QUEUED" => Pending(s) \/ s \in dropped

\* The queue, the callbacks and the two background passes together do what the
\* abstract specification says of the rows they have not disturbed: each write
\* of update-submission (submission.ts:245-255) is the one verdict of a queued
\* row, and the transition (submission.ts:374-387) resets accepted rows only.
Abstract == INSTANCE Judging WITH trusted <- Subs \ disturbed
ImplementsJudging == Abstract!Spec

\* Without a rejudge or a repeated report, one judge phase counts at most one
\* wrong attempt and announces at most one acceptance to the leaderboard.
ReportedOnce ==
    \A s \in Subs \ disturbed :
        /\ wrongAttempts[s] <= 1
        /\ announced[s] <= (CASE judgePhase[s] = "CONTEST_PHASE2" -> 2
                              [] judgePhase[s] = "CONTEST_PHASE1" -> 1
                              [] OTHER -> 0)

\* A row's judge phase only ever moves from the first contest phase to the
\* second, and a row that moves is queued anew: no verdict of the first phase
\* survives the step as one of the second.
PhaseForward ==
    [][\A s \in Subs :
         judgePhase'[s] # judgePhase[s] =>
           /\ <<judgePhase[s], judgePhase'[s]>> \in
                {<<"NONE", PhaseOnCreate(s)>>, <<"CONTEST_PHASE1", "CONTEST_PHASE2">>}
           /\ status'[s] = "QUEUED"]_vars

\* Every queued submission gets a verdict, unless one of its judge requests was
\* lost in the ways NoSilentLoss lists.
JudgedEventually ==
    \A s \in Subs : status[s] = "QUEUED" ~> (status[s] \in Verdicts \/ s \in dropped)

-----------------------------------------------------------------------------
(* What the documents say and the code does not do.                        *)

\* "Phase guard: discard stale updates from a previous judge phase"
\* (submission.ts:226): an update that is written has the row's judge phase.
StaleUpdatesDiscarded ==
    [][\A c \in calls : WriteVerdict(c) => c.phase = judgePhase[c.sub]]_vars

\* "After the contest ends, run submissions on all test cases. Official results
\* are based on full evaluation." (docs/design.md:458-459): once the transition
\* is done and nothing is on its way, no accepted contest submission is left
\* with its first-phase verdict.
AtRest ==
    /\ \A t \in Transitions : transition[t].pc = "done"
    /\ submitting = {} /\ sends = {} /\ calls = {}
    /\ \A s \in Subs : job[s].state \in {"none", "failed"}

OfficialResultsFull ==
    AtRest => \A s \in Subs : status[s] = "ACCEPTED" => judgePhase[s] # "CONTEST_PHASE1"

=============================================================================
