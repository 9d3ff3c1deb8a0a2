------------------------ MODULE JudgePipelineProofs ------------------------
(***************************************************************************)
(* Theorems about JudgePipeline, for every set of submissions, number of   *)
(* workers, outcome of judging and bound on faults and rejudges: its type  *)
(* and its own invariants first, then that it keeps the promises of        *)
(* Judging.                                                                *)
(*                                                                         *)
(* The inductive invariant of the second part follows one row.  While the  *)
(* row is not disturbed, at most one thing can still bring it a verdict -  *)
(* a request, a job or a callback - and only while it is QUEUED, of the    *)
(* row's judge phase, and judged on the test cases of that phase.  So the  *)
(* verdict that is written is the one verdict of the phase, and the        *)
(* transition finds no work on its way for the rows it moves.              *)
(***************************************************************************)
EXTENDS JudgePipeline, TLAPS

(* ----------------------------- Typing ---------------------------------- *)

\* What the queue operators return.
LEMMA JobOperators ==
    /\ NoJob \in Job_
    /\ \A j \in Job_ : /\ FailAttempt(j) \in Job_ /\ FailAttempt(j).state # "none"
                       /\ Stall(j) \in Job_ /\ Stall(j).state # "none"
                       /\ FailAttempt(j).phase = j.phase /\ Stall(j).phase = j.phase
<1>1. NoJob \in Job_
  BY DEF NoJob, Job_, TestSets
<1>2. ASSUME NEW j \in Job_
      PROVE  /\ FailAttempt(j) \in Job_ /\ FailAttempt(j).state # "none"
             /\ FailAttempt(j).phase = j.phase
  <2>1. j.attempts + 1 \in Nat
    BY <1>2 DEF Job_
  <2>2. CASE j.attempts + 1 < MaxAttempts
    <3>1. FailAttempt(j) = [j EXCEPT !.state = "waiting", !.attempts = j.attempts + 1]
      BY <2>2 DEF FailAttempt
    <3> QED BY <2>1, <3>1 DEF Job_
  <2>3. CASE ~(j.attempts + 1 < MaxAttempts)
    <3>1. FailAttempt(j) = [j EXCEPT !.state = "failed", !.attempts = j.attempts + 1]
      BY <2>3 DEF FailAttempt
    <3> QED BY <2>1, <3>1 DEF Job_
  <2> QED BY <2>2, <2>3
<1>3. ASSUME NEW j \in Job_
      PROVE  /\ Stall(j) \in Job_ /\ Stall(j).state # "none" /\ Stall(j).phase = j.phase
  <2>1. CASE j.stalled = TRUE
    <3>1. Stall(j) = [j EXCEPT !.state = "failed", !.stalled = TRUE]
      BY <2>1 DEF Stall
    <3> QED BY <3>1, <1>3 DEF Job_
  <2>2. CASE j.stalled = FALSE
    <3>1. Stall(j) = [j EXCEPT !.state = "waiting", !.stalled = TRUE]
      BY <2>2 DEF Stall
    <3> QED BY <3>1, <1>3 DEF Job_
  <2> QED BY <2>1, <2>2, <1>3 DEF Job_
<1> QED BY <1>1, <1>2, <1>3

\* A new row's phase and tests are of their types.
LEMMA OnCreate ==
    \A s \in Subs : /\ PhaseOnCreate(s) \in {"PRACTICE", "CONTEST_PHASE1"}
                    /\ TestsOnCreate(s) \in TestSets
BY DEF PhaseOnCreate, TestsOnCreate, TestSets

\* Requests, jobs, callbacks and the background passes are about rows that exist,
\* and a row has a judge phase exactly when it exists.
RowsExist ==
    /\ \A s \in Subs : judgePhase[s] = "NONE" <=> status[s] = "ABSENT"
    /\ \A m \in sends : status[m.sub] # "ABSENT"
    /\ \A s \in Subs : job[s].state # "none" => status[s] # "ABSENT"
    /\ \A c \in calls : status[c.sub] # "ABSENT"
    /\ \A t \in Transitions : \A s \in transition[t].todo : status[s] # "ABSENT"
    /\ \A r \in Rejudges : \A x \in rejudge[r].todo : status[x[1]] # "ABSENT"

\* A worker waits for at most one callback of a job, and its job is "posted".
CallsHaveJobs ==
    /\ \A c \in calls : c.waited => job[c.sub].state = "posted" /\ job[c.sub].phase = c.phase
    /\ \A c, d \in calls : c.waited /\ d.waited /\ c.sub = d.sub => c = d

\* The three facts need each other to be kept.
Base == TypeOK /\ RowsExist /\ CallsHaveJobs

\* A step that changes one job keeps the type of the queue.
LEMMA JobsType ==
    ASSUME job \in [Subs -> Job_], NEW s \in Subs, NEW j \in Job_,
           \A r \in Subs : job[r].state # "none" => job[r].phase \in Phases,
           j.state # "none" => j.phase \in Phases,
           job' = [job EXCEPT ![s] = j]
    PROVE  job' \in [Subs -> Job_] /\ \A r \in Subs : job'[r].state # "none" => job'[r].phase \in Phases
<1>1. job' \in [Subs -> Job_]
  OBVIOUS
<1>2. \A r \in Subs : job'[r] = IF r = s THEN j ELSE job[r]
  OBVIOUS
<1> QED BY <1>1, <1>2

\* The initial state is of the right types.
LEMMA InitBase == Init => Base
<1> SUFFICES ASSUME Init PROVE Base
  OBVIOUS
<1>1. job \in [Subs -> Job_] /\ \A s \in Subs : job[s].state = "none"
  BY JobOperators DEF Init, NoJob
<1>2. TypeOK
  BY <1>1, BoundsAssumption DEF Init, TypeOK
<1>3. RowsExist
  BY <1>1 DEF Init, RowsExist
<1>4. CallsHaveJobs
  BY DEF Init, CallsHaveJobs
<1> QED BY <1>2, <1>3, <1>4 DEF Base

\* Every step keeps the types.
LEMMA NextType == Base /\ [Next]_vars => TypeOK'
<1> SUFFICES ASSUME TypeOK, RowsExist, CallsHaveJobs, [Next]_vars PROVE TypeOK'
  BY DEF Base
<1> USE DEF TypeOK
<1>1. ASSUME NEW s \in Subs, CheckWindow(s) PROVE TypeOK'
  BY <1>1 DEF CheckWindow, rows
<1>2. ASSUME NEW s \in Subs, CreateSubmission(s) PROVE TypeOK'
  <2>1. Request(s, PhaseOnCreate(s), TestsOnCreate(s), "submit") \in Request_
    BY OnCreate DEF Request, Request_, Phases
  <2> QED BY <1>2, <2>1, OnCreate DEF CreateSubmission, Phases, Verdicts
<1>3. ASSUME NEW m \in sends, Enqueue(m) PROVE TypeOK'
  <2>1. m \in Request_
    OBVIOUS
  <2>2. m.sub \in Subs /\ m.phase \in Phases /\ m.tests \in TestSets
    BY <2>1 DEF Request_
  <2>3. [state |-> "waiting", phase |-> m.phase, tests |-> m.tests,
         attempts |-> 0, stalled |-> FALSE] \in Job_
    BY <2>2 DEF Job_
  <2> QED BY <1>3, <2>2, <2>3 DEF Enqueue, AddJob, rows, threads
<1>4. ASSUME NEW s \in Subs, TakeJob(s) PROVE TypeOK'
  <2>1. [job[s] EXCEPT !.state = "judging"] \in Job_
    BY DEF Job_
  <2> QED BY <1>4, <2>1 DEF TakeJob, rows, threads
<1>5. ASSUME NEW s \in Subs, Judge(s) PROVE TypeOK'
  <2>1. [job[s] EXCEPT !.state = "posted"] \in Job_
    BY DEF Job_
  <2>2. PICK i \in Slots, v \in Outcome[s][job[s].tests] :
          calls' = calls \cup {[id |-> i, sub |-> s, phase |-> job[s].phase,
                                verdict |-> v, pc |-> "sent", wrong |-> 0, waited |-> TRUE]}
    BY <1>5 DEF Judge
  <2>3. v \in Verdicts
    BY OutcomeAssumption DEF Job_
  <2>4. job[s].phase \in Phases
    BY <1>5 DEF Judge
  <2>5. calls' \subseteq Call_
    <3>1. [id |-> i, sub |-> s, phase |-> job[s].phase, verdict |-> v, pc |-> "sent",
           wrong |-> 0, waited |-> TRUE] \in Call_
      BY <2>3, <2>4 DEF Call_
    <3> QED BY <2>2, <3>1
  <2> QED BY <1>5, <2>1, <2>5 DEF Judge, rows, threads
<1>6. ASSUME NEW c \in calls, ReadCurrent(c) PROVE TypeOK'
  <2>1. c \in Call_ /\ c.sub \in Subs
    BY DEF Call_
  <2>2. /\ [c EXCEPT !.pc = "write", !.wrong = wrongAttempts[c.sub]] \in Call_
        /\ [c EXCEPT !.pc = "reply"] \in Call_
    BY <2>1 DEF Call_
  <2> QED BY <1>6, <2>1, <2>2 DEF ReadCurrent, Advance, rows, threads
<1>7. ASSUME NEW c \in calls, WriteVerdict(c) PROVE TypeOK'
  <2>1. c \in Call_ /\ c.sub \in Subs /\ c.verdict \in Verdicts /\ c.wrong \in Nat
    BY DEF Call_
  <2>2. [c EXCEPT !.pc = "reply"] \in Call_
    BY <2>1 DEF Call_
  <2>3. c.wrong + WrongIncrement(c.verdict) \in Nat
    BY <2>1 DEF WrongIncrement
  <2>4. announced' \in [Subs -> Nat]
    BY <1>7, <2>1 DEF WriteVerdict
  <2>5. status' \in [Subs -> Verdicts \cup {"ABSENT", "QUEUED"}] /\ wrongAttempts' \in [Subs -> Nat]
    BY <1>7, <2>1, <2>3 DEF WriteVerdict
  <2> QED BY <1>7, <2>1, <2>2, <2>4, <2>5 DEF WriteVerdict, Advance, threads
<1>8. ASSUME NEW c \in calls, Reply(c) PROVE TypeOK'
  <2>1. c.sub \in Subs
    BY DEF Call_
  <2> QED BY <1>8, <2>1, JobOperators DEF Reply, rows, threads, NoJob
<1>9. ASSUME EndContest PROVE TypeOK'
  BY <1>9 DEF EndContest, rows, threads
<1>10. ASSUME NEW t \in Transitions, StartTransition(t) PROVE TypeOK'
  <2>1. Eligible \subseteq Subs
    BY DEF Eligible
  <2> QED BY <1>10, <2>1 DEF StartTransition, rows
<1>11. ASSUME NEW t \in Transitions, RetryTransition(t) PROVE TypeOK'
  <2>1. Eligible \subseteq Subs
    BY DEF Eligible
  <2> QED BY <1>11, <2>1 DEF RetryTransition, rows
<1>12. ASSUME NEW t \in Transitions, NEW s \in Subs
       PROVE  Rest(t, s) \in [pc : {"idle", "run", "done", "lost"}, todo : SUBSET Subs]
  BY DEF Rest
<1>13. ASSUME NEW t \in Transitions, NEW s \in Subs, MoveToPhase2(t, s) PROVE TypeOK'
  <2>1. Request(s, "CONTEST_PHASE2", "all", t) \in Request_
    BY DEF Request, Request_, Phases, TestSets
  <2> QED BY <1>13, <1>12, <2>1 DEF MoveToPhase2, Phases
<1>14. ASSUME NEW r \in Rejudges, StartRejudge(r) PROVE TypeOK'
  <2>1. \A s \in Existing : s \in Subs /\ judgePhase[s] \in Phases
    BY DEF Existing, RowsExist
  <2>2. PICK targets \in {{s} : s \in Existing} \cup {Existing} :
          /\ rejudge' = [rejudge EXCEPT ![r] =
                [pc |-> "run", todo |-> {<<s, judgePhase[s]>> : s \in targets}]]
          /\ disturbed' = disturbed \cup targets
    BY <1>14 DEF StartRejudge
  <2>3. targets \subseteq Existing
    OBVIOUS
  <2>4. {<<s, judgePhase[s]>> : s \in targets} \in SUBSET (Subs \X Phases)
    BY <2>1, <2>3
  <2>5. rejudge' \in [Rejudges -> [pc : {"idle", "run", "done"}, todo : SUBSET (Subs \X Phases)]]
    BY <2>2, <2>4
  <2> QED BY <1>14, <2>1, <2>2, <2>3, <2>5 DEF StartRejudge, rows
<1>15. ASSUME NEW r \in Rejudges, NEW x
       PROVE  Remaining(r, x) \in [pc : {"idle", "run", "done"}, todo : SUBSET (Subs \X Phases)]
  BY DEF Remaining
<1>16. ASSUME NEW r \in Rejudges, NEW s \in Subs, NEW p \in Phases, RejudgeOne(r, s, p)
       PROVE  TypeOK'
  <2>1. Request(s, p, "all", r) \in Request_
    BY DEF Request, Request_, TestSets
  <2> QED BY <1>16, <1>15, <2>1 DEF RejudgeOne
<1>17. ASSUME NEW m \in sends, LoseSend(m) PROVE TypeOK'
  <2>1. m.sub \in Subs
    BY DEF Request_
  <2> QED BY <1>17, <2>1 DEF LoseSend, Fault, rows, threads
<1>18. ASSUME NEW s \in Subs PROVE Lost(s) \subseteq Subs
  BY DEF Lost
<1>19. ASSUME NEW c \in calls, LoseCall(c) PROVE TypeOK'
  <2>1. c.sub \in Subs /\ c.waited \in BOOLEAN
    BY DEF Call_
  <2>2. job' \in [Subs -> Job_] /\ \A s \in Subs : job'[s].state # "none" => job'[s].phase \in Phases
    <3>1. CASE c.waited = TRUE
      <4>1. job' = [job EXCEPT ![c.sub] = FailAttempt(job[c.sub])]
        BY <1>19, <3>1, <2>1 DEF LoseCall
      <4>2. c.sub \in Subs /\ job[c.sub].state # "none"
        BY <2>1, <1>19, <3>1 DEF CallsHaveJobs
      <4> QED BY <4>1, <4>2, <2>1, JobsType, JobOperators
    <3>2. CASE c.waited = FALSE
      BY <1>19, <3>2 DEF LoseCall
    <3> QED BY <2>1, <3>1, <3>2
  <2>3. dropped' \subseteq Subs
    BY <1>19, <1>18, <2>1 DEF LoseCall
  <2> QED BY <1>19, <2>2, <2>3 DEF LoseCall, Fault, rows, threads
<1>20. ASSUME NEW c \in calls, GiveUp(c) PROVE TypeOK'
  <2>1. c.sub \in Subs /\ [c EXCEPT !.waited = FALSE] \in Call_
    BY DEF Call_
  <2>2. job' = [job EXCEPT ![c.sub] = FailAttempt(job[c.sub])]
    BY <1>20 DEF GiveUp
  <2>3. job' \in [Subs -> Job_] /\ \A s \in Subs : job'[s].state # "none" => job'[s].phase \in Phases
    <3>1. job[c.sub].state # "none"
      BY <1>20 DEF GiveUp, CallsHaveJobs
    <3> QED BY <2>1, <2>2, <3>1, JobsType, JobOperators
  <2>4. calls' \subseteq Call_
    BY <1>20, <2>1 DEF GiveUp, Advance
  <2>5. dropped' \subseteq Subs /\ disturbed' \subseteq Subs
    BY <1>20, <1>18, <2>1 DEF GiveUp
  <2> QED BY <1>20, <2>3, <2>4, <2>5 DEF GiveUp, Fault, rows, threads
<1>21. ASSUME NEW s \in Subs, CrashWorker(s) PROVE TypeOK'
  <2>1. \A c \in calls : [c EXCEPT !.waited = FALSE] \in Call_
    BY DEF Call_
  <2>2. calls' \subseteq Call_
    BY <1>21, <2>1 DEF CrashWorker
  <2> QED BY <1>21, <1>18, <2>2, JobOperators DEF CrashWorker, Fault, rows, threads
<1>22. ASSUME CrashBackend PROVE TypeOK'
  <2>1. transition' \in [Transitions -> [pc : {"idle", "run", "done", "lost"}, todo : SUBSET Subs]]
    BY <1>22 DEF CrashBackend
  <2>2. rejudge' \in [Rejudges -> [pc : {"idle", "run", "done"}, todo : SUBSET (Subs \X Phases)]]
    BY <1>22 DEF CrashBackend
  <2>3. job' \in [Subs -> Job_] /\ \A s \in Subs : job'[s].state # "none" => job'[s].phase \in Phases
    <3>1. job' = [s \in Subs |-> IF Waited(s) THEN FailAttempt(job[s]) ELSE job[s]]
      BY <1>22 DEF CrashBackend
    <3>2. \A s \in Subs : Waited(s) => job[s].state # "none"
      BY DEF Waited, CallsHaveJobs
    <3>3. ASSUME NEW s \in Subs
          PROVE  job'[s] \in Job_ /\ (job'[s].state # "none" => job'[s].phase \in Phases)
      BY <3>1, <3>2, JobOperators
    <3> QED BY <3>1, <3>3
  <2>4. dropped' \subseteq Subs /\ disturbed' \subseteq Subs
    BY <1>22 DEF CrashBackend, Request_, Call_
  <2>5. /\ submitting' = {} /\ sends' = {} /\ calls' = {} /\ faults' \in Nat
        /\ UNCHANGED <<status, judgePhase, wrongAttempts, announced, ended>>
    BY <1>22 DEF CrashBackend, Fault, rows
  <2> QED BY <2>1, <2>2, <2>3, <2>4, <2>5
<1>23. ASSUME NEW t \in Transitions, NEW s \in Subs, FailMove(t, s) PROVE TypeOK'
  BY <1>23, <1>12 DEF FailMove, Fault, rows
<1>24. ASSUME NEW r \in Rejudges, NEW s \in Subs, NEW p \in Phases, FailRejudge(r, s, p)
       PROVE  TypeOK'
  BY <1>15, <1>24 DEF FailRejudge, Fault, rows
<1>25. ASSUME UNCHANGED vars PROVE TypeOK'
  BY <1>25 DEF vars, rows, threads
<1> QED
  BY <1>1, <1>2, <1>3, <1>4, <1>5, <1>6, <1>7, <1>8, <1>9, <1>10, <1>11, <1>13, <1>14, <1>16,
     <1>17, <1>19, <1>20, <1>21, <1>22, <1>23, <1>24, <1>25
  DEF Next, Submit, Callback, Faulty

\* Every step keeps requests, jobs and callbacks about existing rows.
LEMMA NextRows == Base /\ [Next]_vars => RowsExist'
<1> SUFFICES ASSUME TypeOK, RowsExist, CallsHaveJobs, [Next]_vars PROVE RowsExist'
  BY DEF Base
<1> USE DEF RowsExist
<1>0. /\ \A m \in sends : m.sub \in Subs
      /\ \A c \in calls : c.sub \in Subs /\ c.verdict \in Verdicts
      /\ \A r \in Rejudges : \A x \in rejudge[r].todo : x[1] \in Subs
      /\ \A t \in Transitions : transition[t].todo \subseteq Subs
      /\ status \in [Subs -> Verdicts \cup {"ABSENT", "QUEUED"}]
      /\ judgePhase \in [Subs -> Phases \cup {"NONE"}]
      /\ job \in [Subs -> Job_]
  BY DEF TypeOK, Request_, Call_
<1>1. ASSUME NEW s \in Subs, CheckWindow(s) PROVE RowsExist'
  BY <1>1 DEF CheckWindow, rows
<1>2. ASSUME NEW s \in Subs, CreateSubmission(s) PROVE RowsExist'
  <2>1. PhaseOnCreate(s) # "NONE"
    BY OnCreate
  <2>2. \A r \in Subs : /\ status'[r] = IF r = s THEN "QUEUED" ELSE status[r]
                        /\ judgePhase'[r] = IF r = s THEN PhaseOnCreate(s) ELSE judgePhase[r]
    BY <1>0, <1>2 DEF CreateSubmission
  <2>3. \A m \in sends' : m \in sends \/ m.sub = s
    BY <1>2 DEF CreateSubmission, Request
  <2>4. UNCHANGED <<job, calls, transition, rejudge>>
    BY <1>2 DEF CreateSubmission
  <2>5. /\ \A r \in Subs : judgePhase'[r] = "NONE" <=> status'[r] = "ABSENT"
        /\ \A m \in sends' : status'[m.sub] # "ABSENT"
    BY <1>0, <2>1, <2>2, <2>3
  <2> QED BY <1>0, <2>2, <2>4, <2>5
<1>3. ASSUME NEW m \in sends, Enqueue(m) PROVE RowsExist'
  <2>1. \A s \in Subs : job'[s] = job[s] \/ s = m.sub
    BY <1>0, <1>3 DEF Enqueue, AddJob
  <2> QED BY <1>0, <1>3, <2>1 DEF Enqueue, rows, threads
<1>4. ASSUME NEW s \in Subs, TakeJob(s) PROVE RowsExist'
  BY <1>0, <1>4 DEF TakeJob, rows, threads
<1>5. ASSUME NEW s \in Subs, Judge(s) PROVE RowsExist'
  <2>1. \A c \in calls' : c \in calls \/ c.sub = s
    BY <1>5 DEF Judge
  <2> QED BY <1>0, <1>5, <2>1 DEF Judge, rows, threads
<1>6. ASSUME NEW c \in calls, ReadCurrent(c) PROVE RowsExist'
  <2>1. \A d \in calls' : d \in calls \/ d.sub = c.sub
    <3>1. c.sub = [c EXCEPT !.pc = "write", !.wrong = wrongAttempts[c.sub]].sub
      BY DEF TypeOK, Call_
    <3>2. c.sub = [c EXCEPT !.pc = "reply"].sub
      BY DEF TypeOK, Call_
    <3> QED BY <1>6, <3>1, <3>2 DEF ReadCurrent, Advance
  <2> QED BY <1>0, <1>6, <2>1 DEF ReadCurrent, rows, threads
<1>7. ASSUME NEW c \in calls, WriteVerdict(c) PROVE RowsExist'
  <2>1. \A d \in calls' : d \in calls \/ d.sub = c.sub
    <3>1. c.sub = [c EXCEPT !.pc = "reply"].sub
      BY DEF TypeOK, Call_
    <3> QED BY <1>7, <3>1 DEF WriteVerdict, Advance
  <2>2. \A s \in Subs : status'[s] = IF s = c.sub THEN c.verdict ELSE status[s]
    BY <1>0, <1>7 DEF WriteVerdict
  <2>3. c.verdict # "ABSENT" /\ status[c.sub] # "ABSENT" /\ c.sub \in Subs
    BY <1>0 DEF Verdicts
  <2>4. UNCHANGED <<judgePhase, sends, job, transition, rejudge>>
    BY <1>7 DEF WriteVerdict, threads
  <2> QED BY <1>0, <2>1, <2>2, <2>3, <2>4
<1>8. ASSUME NEW c \in calls, Reply(c) PROVE RowsExist'
  <2>1. \A s \in Subs : job'[s] = job[s] \/ job'[s].state = "none"
    BY <1>0, <1>8 DEF Reply, NoJob
  <2> QED BY <1>0, <1>8, <2>1 DEF Reply, rows, threads
<1>9. ASSUME EndContest PROVE RowsExist'
  BY <1>9 DEF EndContest, rows, threads
<1>10. ASSUME NEW t \in Transitions, StartTransition(t) \/ RetryTransition(t) PROVE RowsExist'
  <2>1. \A u \in Transitions : \A s \in transition'[u].todo : s \in transition[u].todo \/ s \in Eligible
    BY <1>10 DEF StartTransition, RetryTransition, TypeOK
  <2>2. \A s \in Eligible : s \in Subs /\ status[s] # "ABSENT"
    BY DEF Eligible
  <2> QED BY <1>0, <1>10, <2>1, <2>2 DEF StartTransition, RetryTransition, rows
<1>11. ASSUME NEW t \in Transitions, NEW s \in Subs,
              transition' = [transition EXCEPT ![t] = Rest(t, s)]
       PROVE  \A u \in Transitions : transition'[u].todo \subseteq transition[u].todo
  BY <1>11 DEF Rest, TypeOK
<1>12. ASSUME NEW t \in Transitions, NEW s \in Subs, MoveToPhase2(t, s) PROVE RowsExist'
  <2>1. \A r \in Subs : /\ status'[r] = IF r = s THEN "QUEUED" ELSE status[r]
                        /\ judgePhase'[r] = IF r = s THEN "CONTEST_PHASE2" ELSE judgePhase[r]
    BY <1>0, <1>12 DEF MoveToPhase2
  <2>2. \A m \in sends' : m \in sends \/ m.sub = s
    BY <1>12 DEF MoveToPhase2, Request
  <2>3. \A u \in Transitions : transition'[u].todo \subseteq transition[u].todo
    BY <1>12, <1>11 DEF MoveToPhase2
  <2>4. UNCHANGED <<job, calls, rejudge>>
    BY <1>12 DEF MoveToPhase2
  <2> QED BY <1>0, <2>1, <2>2, <2>3, <2>4
<1>13. ASSUME NEW r \in Rejudges, StartRejudge(r) PROVE RowsExist'
  <2>1. \A q \in Rejudges : \A x \in rejudge'[q].todo : x \in rejudge[q].todo \/ x[1] \in Existing
    BY <1>13 DEF StartRejudge, TypeOK
  <2> QED BY <1>0, <1>13, <2>1 DEF StartRejudge, rows, Existing
<1>14. ASSUME NEW r \in Rejudges, NEW s \in Subs, NEW p \in Phases, RejudgeOne(r, s, p)
       PROVE  RowsExist'
  <2>1. \A q \in Subs : status'[q] = IF q = s THEN "QUEUED" ELSE status[q]
    BY <1>0, <1>14 DEF RejudgeOne
  <2>2. \A m \in sends' : m \in sends \/ m.sub = s
    BY <1>14 DEF RejudgeOne, Request
  <2>3. \A q \in Rejudges : rejudge'[q].todo \subseteq rejudge[q].todo
    BY <1>14 DEF RejudgeOne, Remaining, TypeOK
  <2>4. UNCHANGED <<judgePhase, job, calls, transition>>
    BY <1>14 DEF RejudgeOne
  <2>5. <<s, p>> \in rejudge[r].todo /\ status[s] # "ABSENT"
    BY <1>14 DEF RejudgeOne
  <2> QED BY <1>0, <2>1, <2>2, <2>3, <2>4, <2>5
<1>15. ASSUME NEW m \in sends, LoseSend(m) PROVE RowsExist'
  BY <1>15 DEF LoseSend, rows, threads
<1>16. ASSUME Faulty PROVE \A s \in Subs : job'[s].state # "none" => job[s].state # "none"
  <2>1. CASE \E m \in sends : LoseSend(m)
    BY <2>1 DEF LoseSend
  <2>2. ASSUME NEW c \in calls, LoseCall(c) \/ GiveUp(c)
        PROVE  \A s \in Subs : job'[s].state # "none" => job[s].state # "none"
    <3>1. c.waited => job[c.sub].state # "none"
      BY DEF CallsHaveJobs
    <3>2. \A s \in Subs : job'[s] = job[s] \/ (c.waited /\ s = c.sub)
      BY <1>0, <2>2 DEF LoseCall, GiveUp
    <3> QED BY <3>1, <3>2
  <2>3. ASSUME NEW r \in Subs, CrashWorker(r)
        PROVE  \A s \in Subs : job'[s].state # "none" => job[s].state # "none"
    BY <1>0, <2>3 DEF CrashWorker
  <2>4. CASE CrashBackend
    <3>1. job' = [s \in Subs |-> IF Waited(s) THEN FailAttempt(job[s]) ELSE job[s]]
      BY <2>4 DEF CrashBackend
    <3>2. \A s \in Subs : Waited(s) => job[s].state # "none"
      BY DEF Waited, CallsHaveJobs
    <3> QED BY <3>1, <3>2
  <2>5. CASE \E t \in Transitions, s \in Subs : FailMove(t, s)
    BY <2>5 DEF FailMove
  <2>6. CASE \E r \in Rejudges, s \in Subs, p \in Phases : FailRejudge(r, s, p)
    BY <2>6 DEF FailRejudge
  <2> QED BY <1>16, <2>1, <2>2, <2>3, <2>4, <2>5, <2>6 DEF Faulty
<1>17. ASSUME NEW c \in calls, LoseCall(c) PROVE RowsExist'
  <2>1. UNCHANGED <<status, judgePhase, sends, transition, rejudge>> /\ calls' \subseteq calls
    BY <1>17 DEF LoseCall, rows, threads
  <2> QED BY <1>16, <1>17, <2>1 DEF Faulty
<1>18. ASSUME NEW c \in calls, GiveUp(c) PROVE RowsExist'
  <2>1. c.sub = [c EXCEPT !.waited = FALSE].sub
    BY DEF TypeOK, Call_
  <2>2. \A d \in calls' : d \in calls \/ d.sub = c.sub
    BY <1>18, <2>1 DEF GiveUp, Advance
  <2> QED BY <1>16, <1>18, <2>2 DEF GiveUp, rows, threads, Faulty
<1>19. ASSUME NEW s \in Subs, CrashWorker(s) PROVE RowsExist'
  <2>1. \A c \in calls : c.sub = [c EXCEPT !.waited = FALSE].sub
    BY DEF TypeOK, Call_
  <2>2. \A d \in calls' : \E c \in calls : d.sub = c.sub
    <3> SUFFICES ASSUME NEW d \in calls' PROVE \E c \in calls : d.sub = c.sub
      OBVIOUS
    <3>1. PICK c \in calls : d = IF c.sub = s THEN [c EXCEPT !.waited = FALSE] ELSE c
      BY <1>19 DEF CrashWorker
    <3> QED BY <2>1, <3>1
  <2>3. \A d \in calls' : status[d.sub] # "ABSENT"
    BY <2>2
  <2>4. UNCHANGED <<status, judgePhase, sends, transition, rejudge>>
    BY <1>19 DEF CrashWorker, rows, threads
  <2> QED BY <1>16, <1>19, <2>3, <2>4 DEF Faulty
<1>20. ASSUME CrashBackend PROVE RowsExist'
  <2>1. /\ \A t \in Transitions : transition'[t].todo = {}
        /\ \A r \in Rejudges : rejudge'[r].todo = {}
        /\ sends' = {} /\ calls' = {} /\ UNCHANGED <<status, judgePhase>>
    BY <1>20 DEF CrashBackend, rows
  <2> QED BY <1>16, <1>20, <2>1 DEF Faulty
<1>21. ASSUME NEW t \in Transitions, NEW s \in Subs, FailMove(t, s) PROVE RowsExist'
  BY <1>0, <1>11, <1>21 DEF FailMove, rows
<1>22. ASSUME NEW r \in Rejudges, NEW s \in Subs, NEW p \in Phases, FailRejudge(r, s, p)
       PROVE  RowsExist'
  <2>1. \A q \in Rejudges : rejudge'[q].todo \subseteq rejudge[q].todo
    BY <1>22 DEF FailRejudge, Remaining, TypeOK
  <2> QED BY <1>0, <1>22, <2>1 DEF FailRejudge, rows
<1>23. ASSUME UNCHANGED vars PROVE RowsExist'
  BY <1>23 DEF vars, rows, threads
<1> QED
  BY <1>1, <1>2, <1>3, <1>4, <1>5, <1>6, <1>7, <1>8, <1>9, <1>10, <1>12, <1>13, <1>14,
     <1>15, <1>17, <1>18, <1>19, <1>20, <1>21, <1>22, <1>23
  DEF Next, Submit, Callback, Faulty

\* The callback a handler's step leaves behind is the one it took, further on.
LEMMA Advanced ==
    ASSUME calls \subseteq Call_, NEW c \in calls, NEW d \in Call_, Advance(c, d),
           d.sub = c.sub, d.phase = c.phase, d.waited = c.waited, CallsHaveJobs, UNCHANGED job
    PROVE  CallsHaveJobs'
<1>1. \A e \in calls' : e = d \/ (e \in calls /\ e # c)
  BY DEF Advance
<1>2. \A e \in calls' : e.waited => job'[e.sub].state = "posted" /\ job'[e.sub].phase = e.phase
  BY <1>1 DEF CallsHaveJobs
<1>3. ASSUME NEW e \in calls', NEW f \in calls', e.waited, f.waited, e.sub = f.sub
      PROVE  e = f
  BY <1>1, <1>3 DEF CallsHaveJobs
<1> QED BY <1>2, <1>3 DEF CallsHaveJobs

\* Every step keeps a waiting worker's job and its one callback together.
LEMMA NextCalls == Base /\ [Next]_vars => CallsHaveJobs'
<1> SUFFICES ASSUME TypeOK, RowsExist, CallsHaveJobs, [Next]_vars PROVE CallsHaveJobs'
  BY DEF Base
<1>0. /\ job \in [Subs -> Job_] /\ calls \subseteq Call_
      /\ \A c \in calls : c.sub \in Subs /\ c.waited \in BOOLEAN
      /\ \A m \in sends : m.sub \in Subs
  BY DEF TypeOK, Call_, Request_
<1>1. ASSUME UNCHANGED <<calls, job>> PROVE CallsHaveJobs'
  BY <1>1 DEF CallsHaveJobs
<1>2. ASSUME NEW m \in sends, Enqueue(m) PROVE CallsHaveJobs'
  <2>1. calls' = calls
    BY <1>2 DEF Enqueue
  <2>2. \A s \in Subs : job[s].state # "none" => job'[s] = job[s]
    BY <1>0, <1>2 DEF Enqueue, AddJob
  <2> QED BY <1>0, <2>1, <2>2 DEF CallsHaveJobs
<1>3. ASSUME NEW s \in Subs, TakeJob(s) PROVE CallsHaveJobs'
  <2>1. \A r \in Subs : job[r].state = "posted" => job'[r] = job[r]
    BY <1>0, <1>3 DEF TakeJob
  <2> QED BY <1>0, <1>3, <2>1 DEF TakeJob, CallsHaveJobs
<1>4. ASSUME NEW s \in Subs, Judge(s) PROVE CallsHaveJobs'
  <2>1. PICK i \in Slots, v \in Outcome[s][job[s].tests] :
          calls' = calls \cup {[id |-> i, sub |-> s, phase |-> job[s].phase,
                                verdict |-> v, pc |-> "sent", wrong |-> 0, waited |-> TRUE]}
    BY <1>4 DEF Judge
  <2> DEFINE new == [id |-> i, sub |-> s, phase |-> job[s].phase,
                     verdict |-> v, pc |-> "sent", wrong |-> 0, waited |-> TRUE]
  <2>2. \A c \in calls : c.waited => c.sub # s
    BY <1>4 DEF Judge, CallsHaveJobs
  <2>3. /\ job'[s].state = "posted" /\ job'[s].phase = job[s].phase
        /\ \A r \in Subs \ {s} : job'[r] = job[r]
    BY <1>0, <1>4 DEF Judge, Job_
  <2>4. \A c \in calls' : c \in calls \/ c = new
    BY <2>1
  <2>5. new.sub = s /\ new.phase = job[s].phase
    OBVIOUS
  <2> HIDE DEF new
  <2>6. \A c \in calls' : c.waited => job'[c.sub].state = "posted" /\ job'[c.sub].phase = c.phase
    BY <1>0, <2>2, <2>3, <2>4, <2>5 DEF CallsHaveJobs
  <2>7. ASSUME NEW c \in calls', NEW d \in calls', c.waited, d.waited, c.sub = d.sub
        PROVE  c = d
    BY <2>2, <2>4, <2>5, <2>7 DEF CallsHaveJobs
  <2> QED BY <2>6, <2>7 DEF CallsHaveJobs
<1>5. ASSUME NEW c \in calls, ReadCurrent(c) PROVE CallsHaveJobs'
  <2>1. c \in Call_ /\ c.sub \in Subs /\ wrongAttempts[c.sub] \in Nat
    BY <1>0 DEF TypeOK
  <2> DEFINE d1 == [c EXCEPT !.pc = "write", !.wrong = wrongAttempts[c.sub]]
             d2 == [c EXCEPT !.pc = "reply"]
  <2>2. /\ d1 \in Call_ /\ d1.sub = c.sub /\ d1.phase = c.phase /\ d1.waited = c.waited
        /\ d2 \in Call_ /\ d2.sub = c.sub /\ d2.phase = c.phase /\ d2.waited = c.waited
    BY <2>1 DEF Call_
  <2>3. (Advance(c, d1) \/ Advance(c, d2)) /\ UNCHANGED job
    BY <1>5 DEF ReadCurrent
  <2> HIDE DEF d1, d2
  <2> QED BY <1>0, <2>2, <2>3, Advanced
<1>6. ASSUME NEW c \in calls, WriteVerdict(c) PROVE CallsHaveJobs'
  <2> DEFINE d == [c EXCEPT !.pc = "reply"]
  <2>1. d \in Call_ /\ d.sub = c.sub /\ d.phase = c.phase /\ d.waited = c.waited
    BY <1>0 DEF Call_
  <2>2. Advance(c, d) /\ UNCHANGED job
    BY <1>6 DEF WriteVerdict
  <2> HIDE DEF d
  <2> QED BY <1>0, <2>1, <2>2, Advanced
<1>7. ASSUME NEW c \in calls, calls' = calls \ {c},
             \A s \in Subs : job'[s] = job[s] \/ (c.waited /\ s = c.sub)
      PROVE  CallsHaveJobs'
  <2>1. ASSUME NEW d \in calls', d.waited PROVE job'[d.sub] = job[d.sub]
    BY <1>0, <1>7, <2>1 DEF CallsHaveJobs
  <2> QED BY <1>7, <2>1 DEF CallsHaveJobs
<1>8. ASSUME NEW c \in calls, Reply(c) \/ LoseCall(c) PROVE CallsHaveJobs'
  <2>1. calls' = calls \ {c} /\ \A s \in Subs : job'[s] = job[s] \/ (c.waited /\ s = c.sub)
    BY <1>0, <1>8 DEF Reply, LoseCall
  <2> QED BY <1>7, <2>1
<1>9. ASSUME NEW c \in calls, GiveUp(c) PROVE CallsHaveJobs'
  <2> DEFINE d == [c EXCEPT !.waited = FALSE]
  <2>1. ~d.waited
    BY <1>0 DEF Call_
  <2>2. \A e \in calls' : e = d \/ (e \in calls /\ e # c)
    BY <1>9 DEF GiveUp, Advance
  <2> HIDE DEF d
  <2>3. c.waited /\ \A s \in Subs : job'[s] = job[s] \/ s = c.sub
    BY <1>0, <1>9 DEF GiveUp
  <2>4. ASSUME NEW e \in calls', e.waited PROVE e \in calls /\ job'[e.sub] = job[e.sub]
    BY <1>0, <2>1, <2>2, <2>3, <2>4 DEF CallsHaveJobs
  <2> QED BY <2>4 DEF CallsHaveJobs
<1>10. ASSUME NEW s \in Subs, CrashWorker(s) PROVE CallsHaveJobs'
  <2>1. ASSUME NEW d \in calls', d.waited PROVE d \in calls /\ d.sub # s
    <3>1. PICK c \in calls : d = IF c.sub = s THEN [c EXCEPT !.waited = FALSE] ELSE c
      BY <1>10 DEF CrashWorker
    <3>2. ~[c EXCEPT !.waited = FALSE].waited
      BY <1>0 DEF Call_
    <3> QED BY <2>1, <3>1, <3>2
  <2>2. \A r \in Subs : job'[r] = job[r] \/ r = s
    BY <1>0, <1>10 DEF CrashWorker
  <2>3. ASSUME NEW e \in calls', e.waited PROVE e \in calls /\ job'[e.sub] = job[e.sub]
    BY <1>0, <2>1, <2>2, <2>3
  <2> QED BY <2>3 DEF CallsHaveJobs
<1>11. ASSUME CrashBackend PROVE CallsHaveJobs'
  BY <1>11 DEF CrashBackend, CallsHaveJobs
<1>12. ASSUME \/ \E s \in Subs : Submit(s)
              \/ EndContest
              \/ \E t \in Transitions : StartTransition(t) \/ RetryTransition(t)
              \/ \E t \in Transitions, s \in Subs : MoveToPhase2(t, s) \/ FailMove(t, s)
              \/ \E r \in Rejudges : StartRejudge(r)
              \/ \E r \in Rejudges, s \in Subs, p \in Phases :
                    RejudgeOne(r, s, p) \/ FailRejudge(r, s, p)
              \/ \E m \in sends : LoseSend(m)
              \/ UNCHANGED vars
       PROVE  UNCHANGED <<calls, job>>
  BY <1>12 DEF Submit, CheckWindow, CreateSubmission, EndContest, StartTransition, RetryTransition,
               MoveToPhase2, FailMove, StartRejudge, RejudgeOne, FailRejudge, LoseSend, vars
<1> QED
  BY <1>1, <1>2, <1>3, <1>4, <1>5, <1>6, <1>8, <1>9, <1>10, <1>11, <1>12
  DEF Next, Callback, Faulty

\* The three facts hold of every reachable state.
LEMMA BaseInvariant == Spec => []Base
<1>1. Base /\ [Next]_vars => Base'
  BY NextType, NextRows, NextCalls DEF Base
<1> QED BY <1>1, InitBase, PTL DEF Spec

\* Type correctness: the variables keep the types TypeOK gives them, whatever
\* the handlers, the queue and the faults do.
THEOREM TypeCorrect == Spec => []TypeOK
<1>1. Base => TypeOK
  BY DEF Base
<1> QED BY <1>1, BaseInvariant, PTL

(* ------------------------- No silent loss ------------------------------ *)

\* An attempt that fails, or stalls, leaves the job waiting or failed.
LEMMA FailedOrWaiting ==
    \A j \in Job_ : /\ FailAttempt(j).state \in {"waiting", "failed"}
                    /\ Stall(j).state \in {"waiting", "failed"}
BY DEF FailAttempt, Stall, Job_

\* NoSilentLoss is inductive on reachable types.
LEMMA NextNoSilentLoss == Base /\ NoSilentLoss /\ [Next]_vars => NoSilentLoss'
<1> SUFFICES ASSUME TypeOK, CallsHaveJobs, NoSilentLoss, [Next]_vars,
                    NEW s \in Subs, status'[s] = "QUEUED", s \notin dropped'
             PROVE  Pending(s)'
  BY DEF Base, NoSilentLoss
<1>0. /\ job \in [Subs -> Job_] /\ calls \subseteq Call_ /\ sends \subseteq Request_
      /\ \A c \in calls : c.sub \in Subs /\ c.verdict # "QUEUED" /\ c.waited \in BOOLEAN
      /\ \A m \in sends : m.sub \in Subs
      /\ status \in [Subs -> Verdicts \cup {"ABSENT", "QUEUED"}]
  BY DEF TypeOK, Call_, Request_, Verdicts
<1>1. ASSUME dropped \subseteq dropped', status[s] = "QUEUED" PROVE Pending(s)
  BY <1>1 DEF NoSilentLoss
\* A step that keeps what is pending for s.
<1>2. ASSUME Pending(s), sends \subseteq sends', job'[s] = job[s],
             \A c \in calls : c.sub = s /\ c.pc \in {"sent", "write"} => c \in calls'
      PROVE  Pending(s)'
  BY <1>2 DEF Pending
<1>3. ASSUME NEW q \in Subs, CheckWindow(q) PROVE Pending(s)'
  BY <1>1, <1>2, <1>3 DEF CheckWindow, rows
<1>4. ASSUME NEW m \in sends', m.sub = s PROVE Pending(s)'
  BY <1>4 DEF Pending
<1>5. ASSUME NEW q \in Subs, CreateSubmission(q) PROVE Pending(s)'
  <2>1. CASE q = s
    <3>1. Request(s, PhaseOnCreate(s), TestsOnCreate(s), "submit") \in sends'
      BY <1>5, <2>1 DEF CreateSubmission
    <3> QED BY <3>1, <1>4 DEF Request
  <2>2. CASE q # s
    <3>1. status[s] = "QUEUED" /\ dropped' = dropped
      BY <1>0, <1>5, <2>2 DEF CreateSubmission
    <3> QED BY <1>1, <1>2, <1>5, <3>1 DEF CreateSubmission
  <2> QED BY <2>1, <2>2
<1>6. ASSUME NEW m \in sends, Enqueue(m) PROVE Pending(s)'
  <2>1. status[s] = "QUEUED" /\ dropped \subseteq dropped' /\ sends' = sends \ {m} /\ calls' = calls
    BY <1>6 DEF Enqueue, AddJob, rows
  <2>2. Pending(s)
    BY <1>1, <2>1
  <2>3. CASE m.sub = s
    <3>1. job'[s].state = "waiting"
      BY <1>0, <1>6, <2>3 DEF Enqueue, AddJob
    <3> QED BY <3>1 DEF Pending
  <2>4. CASE m.sub # s
    <3>1. job'[s] = job[s]
      BY <1>0, <1>6, <2>4 DEF Enqueue, AddJob
    <3> QED BY <2>1, <2>2, <2>4, <3>1 DEF Pending
  <2> QED BY <2>3, <2>4
<1>7. ASSUME NEW q \in Subs, TakeJob(q) PROVE Pending(s)'
  <2>1. Pending(s)
    BY <1>1, <1>7 DEF TakeJob, rows
  <2>2. job'[s] = job[s] \/ job'[s].state = "judging"
    BY <1>0, <1>7 DEF TakeJob, Job_
  <2> QED BY <1>2, <1>7, <2>1, <2>2 DEF TakeJob, Pending
<1>8. ASSUME NEW q \in Subs, Judge(q) PROVE Pending(s)'
  <2>1. Pending(s)
    BY <1>1, <1>8 DEF Judge, rows
  <2>2. PICK i \in Slots, v \in Outcome[q][job[q].tests] :
          calls' = calls \cup {[id |-> i, sub |-> q, phase |-> job[q].phase,
                                verdict |-> v, pc |-> "sent", wrong |-> 0, waited |-> TRUE]}
    BY <1>8 DEF Judge
  <2>3. CASE q = s
    <3> DEFINE d == [id |-> i, sub |-> q, phase |-> job[q].phase,
                     verdict |-> v, pc |-> "sent", wrong |-> 0, waited |-> TRUE]
    <3>1. d \in calls'
      BY <2>2
    <3>2. d.sub = s /\ d.pc \in {"sent", "write"}
      BY <2>3
    <3> HIDE DEF d
    <3> QED BY <3>1, <3>2 DEF Pending
  <2>4. CASE q # s
    BY <1>0, <1>2, <1>8, <2>1, <2>2, <2>4 DEF Judge
  <2> QED BY <2>3, <2>4
<1>9. ASSUME NEW c \in calls, ReadCurrent(c) PROVE Pending(s)'
  <2>1. status[s] = "QUEUED" /\ dropped \subseteq dropped' /\ UNCHANGED <<sends, job>>
    BY <1>9 DEF ReadCurrent, rows
  <2>2. Pending(s)
    BY <1>1, <2>1
  <2>3. \A d \in calls : d # c => d \in calls'
    BY <1>9 DEF ReadCurrent, Advance
  <2>4. CASE c.sub = s
    <3>1. [c EXCEPT !.pc = "write", !.wrong = wrongAttempts[c.sub]] \in calls'
      BY <1>9, <2>4 DEF ReadCurrent, Advance
    <3>2. /\ [c EXCEPT !.pc = "write", !.wrong = wrongAttempts[c.sub]].sub = s
          /\ [c EXCEPT !.pc = "write", !.wrong = wrongAttempts[c.sub]].pc = "write"
      BY <1>0, <2>4 DEF Call_
    <3> QED BY <3>1, <3>2 DEF Pending
  <2>5. CASE c.sub # s
    BY <1>2, <2>1, <2>2, <2>3, <2>5
  <2> QED BY <2>4, <2>5
<1>10. ASSUME NEW c \in calls, WriteVerdict(c) PROVE Pending(s)'
  <2>1. c.sub # s
    BY <1>0, <1>10 DEF WriteVerdict
  <2>2. status[s] = "QUEUED" /\ UNCHANGED <<dropped, sends, job>>
    BY <1>0, <1>10, <2>1 DEF WriteVerdict
  <2>3. \A d \in calls : d # c => d \in calls'
    BY <1>10 DEF WriteVerdict, Advance
  <2> QED BY <1>1, <1>2, <2>1, <2>2, <2>3
<1>11. ASSUME NEW c \in calls, Reply(c) PROVE Pending(s)'
  <2>1. Pending(s)
    BY <1>1, <1>11 DEF Reply, rows
  <2>2. job[s].state \in {"waiting", "judging"} => job'[s] = job[s]
    BY <1>0, <1>11 DEF Reply, CallsHaveJobs
  <2>3. \A d \in calls : d.pc \in {"sent", "write"} => d \in calls'
    BY <1>11 DEF Reply
  <2> QED BY <1>11, <2>1, <2>2, <2>3 DEF Reply, Pending
<1>12. ASSUME EndContest \/ (\E t \in Transitions : StartTransition(t) \/ RetryTransition(t))
              \/ (\E r \in Rejudges : StartRejudge(r)) \/ UNCHANGED vars
              \/ (\E t \in Transitions, q \in Subs : FailMove(t, q))
              \/ (\E r \in Rejudges, q \in Subs, p \in Phases : FailRejudge(r, q, p))
       PROVE  Pending(s)'
  <2>1. UNCHANGED <<status, sends, job, calls, dropped>>
    BY <1>12 DEF EndContest, StartTransition, RetryTransition, StartRejudge, FailMove,
               FailRejudge, vars, rows
  <2> QED BY <1>1, <1>2, <2>1
<1>13. ASSUME NEW q \in Subs, NEW p, NEW b, status' = [status EXCEPT ![q] = "QUEUED"],
              sends' = sends \cup {Request(q, p, "all", b)}, UNCHANGED <<job, calls, dropped>>
       PROVE  Pending(s)'
  <2>1. CASE q = s
    <3>1. Request(s, p, "all", b) \in sends'
      BY <1>13, <2>1
    <3> QED BY <3>1, <1>4 DEF Request
  <2>2. CASE q # s
    <3>1. status[s] = "QUEUED"
      BY <1>0, <1>13, <2>2
    <3> QED BY <1>1, <1>2, <1>13, <3>1
  <2> QED BY <2>1, <2>2
<1>14. ASSUME NEW t \in Transitions, NEW q \in Subs, MoveToPhase2(t, q) PROVE Pending(s)'
  BY <1>13, <1>14 DEF MoveToPhase2
<1>15. ASSUME NEW r \in Rejudges, NEW q \in Subs, NEW p \in Phases, RejudgeOne(r, q, p)
       PROVE  Pending(s)'
  BY <1>13, <1>15 DEF RejudgeOne
<1>16. ASSUME NEW m \in sends, LoseSend(m) PROVE Pending(s)'
  <2>1. Pending(s) /\ m.sub # s
    BY <1>1, <1>16 DEF LoseSend, rows
  <2> QED BY <1>16, <2>1 DEF LoseSend, Pending
\* A job that failed and is not among the dropped ones waits again.
<1>17. ASSUME job'[s] \in {FailAttempt(job[s]), Stall(job[s])}, Lost(s) \subseteq dropped'
       PROVE  Pending(s)'
  <2>1. job'[s].state = "waiting"
    BY <1>0, <1>17, FailedOrWaiting DEF Lost
  <2> QED BY <2>1 DEF Pending
<1>18. ASSUME NEW c \in calls, LoseCall(c) PROVE Pending(s)'
  <2>1. status[s] = "QUEUED" /\ dropped \subseteq dropped' /\ sends' = sends /\ calls' = calls \ {c}
    BY <1>18 DEF LoseCall, rows
  <2>2. CASE c.sub = s
    <3>1. c.waited = TRUE
      BY <1>0, <1>18, <2>2 DEF LoseCall
    <3>2. job'[s] = FailAttempt(job[s]) /\ Lost(s) \subseteq dropped'
      BY <1>0, <1>18, <2>2, <3>1 DEF LoseCall
    <3> QED BY <1>17, <3>2
  <2>3. CASE c.sub # s
    <3>1. job'[s] = job[s]
      BY <1>0, <1>18, <2>3 DEF LoseCall
    <3> QED BY <1>1, <1>2, <2>1, <2>3, <3>1
  <2> QED BY <2>2, <2>3
<1>19. ASSUME NEW c \in calls, GiveUp(c) PROVE Pending(s)'
  <2>1. status[s] = "QUEUED" /\ dropped \subseteq dropped' /\ sends' = sends
    BY <1>19 DEF GiveUp, rows
  <2>2. CASE c.sub = s
    <3>1. job'[s] = FailAttempt(job[s]) /\ Lost(s) \subseteq dropped'
      BY <1>0, <1>19, <2>2 DEF GiveUp
    <3> QED BY <1>17, <3>1
  <2>3. CASE c.sub # s
    <3>1. job'[s] = job[s] /\ \A d \in calls : d # c => d \in calls'
      BY <1>0, <1>19, <2>3 DEF GiveUp, Advance
    <3> QED BY <1>1, <1>2, <2>1, <2>3, <3>1
  <2> QED BY <2>2, <2>3
<1>20. ASSUME NEW q \in Subs, CrashWorker(q) PROVE Pending(s)'
  <2>1. status[s] = "QUEUED" /\ dropped \subseteq dropped' /\ sends' = sends
    BY <1>20 DEF CrashWorker, rows
  <2>2. CASE q = s
    <3>1. job'[s] = Stall(job[s]) /\ Lost(s) \subseteq dropped'
      BY <1>0, <1>20, <2>2 DEF CrashWorker
    <3> QED BY <1>17, <3>1
  <2>3. CASE q # s
    <3>1. job'[s] = job[s]
      BY <1>0, <1>20, <2>3 DEF CrashWorker
    <3>2. ASSUME NEW d \in calls, d.sub = s PROVE d \in calls'
      <4>1. d = IF d.sub = q THEN [d EXCEPT !.waited = FALSE] ELSE d
        BY <2>3, <3>2
      <4> QED BY <1>20, <4>1 DEF CrashWorker
    <3> QED BY <1>1, <1>2, <2>1, <3>1, <3>2
  <2> QED BY <2>2, <2>3
<1>21. ASSUME CrashBackend PROVE Pending(s)'
  <2>1. status[s] = "QUEUED" /\ dropped \subseteq dropped'
    BY <1>21 DEF CrashBackend, rows
  <2>2. Pending(s)
    BY <1>1, <2>1
  <2>3. ~(\E m \in sends : m.sub = s) /\ ~(\E c \in calls : c.sub = s /\ ~c.waited)
    BY <1>21 DEF CrashBackend
  <2>4. job'[s] = IF Waited(s) THEN FailAttempt(job[s]) ELSE job[s]
    BY <1>21 DEF CrashBackend
  <2>5. CASE Waited(s)
    <3>1. job'[s].state # "failed"
      BY <1>21 DEF CrashBackend
    <3>2. job'[s] = FailAttempt(job[s]) /\ Lost(s) \subseteq dropped'
      BY <2>4, <2>5, <3>1 DEF Lost
    <3> QED BY <1>17, <3>2
  <2>6. CASE ~Waited(s)
    <3>1. job[s].state \in {"waiting", "judging"} /\ job'[s] = job[s]
      BY <2>2, <2>3, <2>4, <2>6 DEF Pending, Waited
    <3> QED BY <3>1 DEF Pending
  <2> QED BY <2>5, <2>6
<1> QED
  BY <1>3, <1>5, <1>6, <1>7, <1>8, <1>9, <1>10, <1>11, <1>12, <1>14, <1>15, <1>16,
     <1>18, <1>19, <1>20, <1>21
  DEF Next, Submit, Callback, Faulty

\* A queued submission always has work on its way, unless a judge request for it
\* was lost in one of the ways the code lets pass.
THEOREM NoSubmissionLostSilently == Spec => []NoSilentLoss
<1>1. Init => NoSilentLoss
  BY DEF Init, NoSilentLoss
<1> QED BY <1>1, BaseInvariant, NextNoSilentLoss, PTL DEF Spec

(* ------------------------ The inductive invariant ---------------------- *)

\* Where rows, verdicts and the passes' rows come from.
Origins ==
    /\ \A s \in submitting : status[s] = "ABSENT"
    /\ \A c \in calls : \E tests \in TestSets : c.verdict \in Outcome[c.sub][tests]
    /\ \A t \in Transitions : transition[t].pc # "run" => transition[t].todo = {}
    /\ \A t \in Transitions : \A s \in transition[t].todo :
         judgePhase[s] \in {"CONTEST_PHASE1", "CONTEST_PHASE2"}
    /\ \A r \in Rejudges : \A s \in Subs, p \in Phases :
         <<s, p>> \in rejudge[r].todo => s \in disturbed

\* A practice row is judged on all tests, rejudged or not.
FullyJudged(s) ==
    judgePhase[s] = "PRACTICE" =>
      /\ \A m \in sends : m.sub = s => m.tests = "all"
      /\ job[s].state # "none" => job[s].tests = "all"
      /\ \A c \in calls : c.sub = s => c.verdict \in Outcome[s]["all"]
      /\ status[s] \in Verdicts => status[s] \in Outcome[s]["all"]

\* Every judge request, and what came of it, is on the tests of its phase.
FitsPhase(s) ==
    /\ \A m \in sends : m.sub = s => m.tests = TestsFor(m.phase)
    /\ job[s].state # "none" => job[s].tests = TestsFor(job[s].phase)
    /\ \A c \in calls : c.sub = s => c.verdict \in Outcome[s][TestsFor(c.phase)]
    /\ status[s] \in Verdicts => status[s] \in Outcome[s][TestsFor(judgePhase[s])]

\* What may still bring the row a verdict is one thing, of the row's phase, and
\* there is none once the verdict is written.
OneReport(s) ==
    /\ \A m \in sends : m.sub = s =>
         /\ status[s] = "QUEUED" /\ m.phase = judgePhase[s]
         /\ job[s].state \notin {"waiting", "judging"}
         /\ \A c \in calls : c.sub = s => c.pc = "reply"
         /\ \A n \in sends : n.sub = s => n = m
    /\ job[s].state \in {"waiting", "judging"} =>
         status[s] = "QUEUED" /\ job[s].phase = judgePhase[s]
    /\ \A c \in calls : c.sub = s =>
         /\ c.waited
         /\ c.pc # "reply" => status[s] = "QUEUED" /\ c.phase = judgePhase[s]

\* The transition holds accepted rows of the first phase, each in one run of it.
Chosen(s) ==
    \A t \in Transitions : s \in transition[t].todo =>
      /\ status[s] = "ACCEPTED" /\ judgePhase[s] = "CONTEST_PHASE1"
      /\ \A u \in Transitions : s \in transition[u].todo => u = t

\* Contest phases the row has entered.
PhasesEntered(s) ==
    CASE judgePhase[s] = "CONTEST_PHASE2" -> 2
      [] judgePhase[s] = "CONTEST_PHASE1" -> 1
      [] OTHER -> 0

\* Wrong attempts and announcements are of phases that have their verdict.
Counted(s) ==
    /\ wrongAttempts[s] <= 1
    /\ status[s] \in {"ABSENT", "QUEUED"} => wrongAttempts[s] = 0
    /\ \A c \in calls : c.sub = s /\ c.pc = "write" => c.wrong = 0
    /\ announced[s] <= PhasesEntered(s)
    /\ status[s] = "QUEUED" /\ PhasesEntered(s) > 0 => announced[s] < PhasesEntered(s)

TrustedRow(s) ==
    s \notin disturbed => FitsPhase(s) /\ OneReport(s) /\ Chosen(s) /\ Counted(s)

IInv == Base /\ Origins /\ \A s \in Subs : FullyJudged(s) /\ TrustedRow(s)

(* ------------------------- Steps about other rows ---------------------- *)

\* The step leaves the row alone: it brings it no request, job or callback, and
\* no run of the transition.
Quiet(s) ==
    /\ status'[s] = status[s] /\ judgePhase'[s] = judgePhase[s]
    /\ wrongAttempts'[s] = wrongAttempts[s] /\ announced'[s] = announced[s]
    /\ job'[s] = job[s]
    /\ \A m \in sends' : m.sub = s => m \in sends
    /\ \A c \in calls' : c.sub = s => c \in calls
    /\ \A t \in Transitions : s \in transition'[t].todo => s \in transition[t].todo
    /\ disturbed \subseteq disturbed'

\* What a row's invariant says survives such a step.
LEMMA QuietRow ==
    ASSUME NEW s \in Subs, Quiet(s), FullyJudged(s), TrustedRow(s)
    PROVE  FullyJudged(s)' /\ TrustedRow(s)'
<1>1. FullyJudged(s)'
  BY DEF Quiet, FullyJudged
<1>2. ASSUME s \notin disturbed' PROVE FitsPhase(s)' /\ OneReport(s)' /\ Chosen(s)' /\ Counted(s)'
  <2>1. FitsPhase(s) /\ OneReport(s) /\ Chosen(s) /\ Counted(s)
    BY <1>2 DEF Quiet, TrustedRow
  <2>2. FitsPhase(s)'
    BY <2>1 DEF Quiet, FitsPhase
  <2>3. OneReport(s)'
    BY <2>1 DEF Quiet, OneReport
  <2>4. Chosen(s)'
    BY <2>1 DEF Quiet, Chosen
  <2>5. Counted(s)'
    BY <2>1 DEF Quiet, Counted, PhasesEntered
  <2> QED BY <2>2, <2>3, <2>4, <2>5
<1> QED BY <1>1, <1>2 DEF TrustedRow

\* The types the proofs below need.
Typed ==
    /\ status \in [Subs -> Verdicts \cup {"ABSENT", "QUEUED"}]
    /\ judgePhase \in [Subs -> Phases \cup {"NONE"}]
    /\ wrongAttempts \in [Subs -> Nat] /\ announced \in [Subs -> Nat]
    /\ job \in [Subs -> Job_]
    /\ sends \subseteq Request_ /\ calls \subseteq Call_
    /\ \A m \in sends : m.sub \in Subs
    /\ \A c \in calls : c.sub \in Subs /\ c.verdict \in Verdicts
    /\ \A t \in Transitions : transition[t].todo \subseteq Subs
    /\ DOMAIN transition = Transitions

LEMMA BaseTyped == Base => Typed
<1> SUFFICES ASSUME TypeOK PROVE Typed
  BY DEF Base
<1>1. /\ \A m \in sends : m.sub \in Subs
      /\ \A c \in calls : c.sub \in Subs /\ c.verdict \in Verdicts
  BY DEF TypeOK, Request_, Call_
<1>2. DOMAIN transition = Transitions /\ \A t \in Transitions : transition[t].todo \subseteq Subs
  BY DEF TypeOK
<1> QED BY <1>1, <1>2 DEF TypeOK, Typed

(* ------------------------- The row of a step --------------------------- *)

\* A new row: nothing is on its way for it but its request.
LEMMA CreateRow ==
    ASSUME Base, Origins, NEW s \in Subs, TrustedRow(s), CreateSubmission(s)
    PROVE  FullyJudged(s)' /\ TrustedRow(s)'
<1> DEFINE new == Request(s, PhaseOnCreate(s), TestsOnCreate(s), "submit")
<1>0. Typed
  BY BaseTyped
<1>1. status[s] = "ABSENT" /\ judgePhase[s] = "NONE"
  BY DEF CreateSubmission, Origins, Base, RowsExist
<1>2. /\ \A m \in sends : m.sub # s
      /\ \A c \in calls : c.sub # s
      /\ job[s].state = "none"
      /\ \A t \in Transitions : s \notin transition[t].todo
  BY <1>1 DEF Base, RowsExist
<1>3. /\ status'[s] = "QUEUED" /\ judgePhase'[s] = PhaseOnCreate(s)
      /\ sends' = sends \cup {new}
      /\ UNCHANGED <<wrongAttempts, announced, transition, job, calls, disturbed>>
  BY <1>0 DEF CreateSubmission, Typed
<1>4. new.sub = s /\ new.phase = PhaseOnCreate(s) /\ new.tests = TestsOnCreate(s)
  BY DEF Request
<1>5. TestsOnCreate(s) = TestsFor(PhaseOnCreate(s))
  BY DEF TestsOnCreate, TestsFor, PhaseOnCreate
<1>6. PhaseOnCreate(s) = "PRACTICE" => TestsOnCreate(s) = "all"
  BY <1>5 DEF TestsFor
<1> HIDE DEF new
<1>7. \A m \in sends' : m.sub = s => m = new
  BY <1>2, <1>3
<1>8. FullyJudged(s)'
  BY <1>2, <1>3, <1>4, <1>6, <1>7 DEF FullyJudged, Verdicts
<1>9. ASSUME s \notin disturbed' PROVE FitsPhase(s)' /\ OneReport(s)' /\ Chosen(s)' /\ Counted(s)'
  <2>1. Counted(s)
    BY <1>3, <1>9 DEF TrustedRow
  <2>2. FitsPhase(s)'
    BY <1>2, <1>3, <1>4, <1>5, <1>7 DEF FitsPhase, Verdicts
  <2>3. OneReport(s)'
    BY <1>2, <1>3, <1>4, <1>7 DEF OneReport
  <2>4. Chosen(s)'
    BY <1>2, <1>3 DEF Chosen
  <2>5. wrongAttempts[s] = 0 /\ announced[s] = 0
    BY <1>0, <1>1, <2>1 DEF Counted, PhasesEntered, Typed
  <2>6. PhasesEntered(s)' \in {0, 1}
    BY <1>3, OnCreate DEF PhasesEntered
  <2>7. Counted(s)'
    BY <1>2, <1>3, <2>5, <2>6 DEF Counted
  <2> QED BY <2>2, <2>3, <2>4, <2>7
<1> QED BY <1>8, <1>9 DEF TrustedRow

\* A step that changes neither the row nor what the transition holds, and adds
\* no callback that is about to write, keeps these two parts.
LEMMA SameRow ==
    ASSUME NEW s \in Subs,
           status'[s] = status[s], judgePhase'[s] = judgePhase[s],
           wrongAttempts'[s] = wrongAttempts[s], announced'[s] = announced[s],
           \A c \in calls' : c.sub = s /\ c.pc = "write" => c \in calls,
           \A t \in Transitions : s \in transition'[t].todo => s \in transition[t].todo
    PROVE  (Chosen(s) => Chosen(s)') /\ (Counted(s) => Counted(s)')
<1>1. Chosen(s) => Chosen(s)'
  BY DEF Chosen
<1>2. Counted(s) => Counted(s)'
  BY DEF Counted, PhasesEntered
<1> QED BY <1>1, <1>2

\* The request becomes a job, or is ignored.
LEMMA EnqueueRow ==
    ASSUME Base, NEW m \in sends, Enqueue(m), FullyJudged(m.sub), TrustedRow(m.sub)
    PROVE  FullyJudged(m.sub)' /\ TrustedRow(m.sub)'
<1> DEFINE s == m.sub
<1>0. Typed /\ s \in Subs
  BY BaseTyped DEF Typed
<1>1. /\ UNCHANGED <<status, judgePhase, wrongAttempts, announced, transition, calls, disturbed>>
      /\ sends' = sends \ {m}
  BY DEF Enqueue, rows, threads
<1>2. CASE job[s].state # "none"
  <2>1. Quiet(s)
    BY <1>1, <1>2 DEF Enqueue, AddJob, Quiet
  <2> QED BY <1>0, <2>1, QuietRow
<1>3. CASE job[s].state = "none"
  <2>1. job'[s].state = "waiting" /\ job'[s].phase = m.phase /\ job'[s].tests = m.tests
    BY <1>0, <1>3 DEF Enqueue, AddJob, Typed
  <2>2. FullyJudged(s)'
    BY <1>1, <2>1 DEF FullyJudged
  <2>3. ASSUME s \notin disturbed' PROVE FitsPhase(s)' /\ OneReport(s)' /\ Chosen(s)' /\ Counted(s)'
    <3>1. FitsPhase(s) /\ OneReport(s) /\ Chosen(s) /\ Counted(s)
      BY <1>1, <2>3 DEF TrustedRow
    <3>2. FitsPhase(s)'
      BY <1>1, <2>1, <3>1 DEF FitsPhase
    <3>3. OneReport(s)'
      BY <1>1, <2>1, <3>1 DEF OneReport
    <3> QED BY <1>0, <1>1, <3>1, <3>2, <3>3, SameRow
  <2> QED BY <2>2, <2>3 DEF TrustedRow
<1> QED BY <1>2, <1>3

\* The worker takes the job.
LEMMA TakeRow ==
    ASSUME Base, NEW s \in Subs, TakeJob(s), FullyJudged(s), TrustedRow(s)
    PROVE  FullyJudged(s)' /\ TrustedRow(s)'
<1>0. Typed
  BY BaseTyped
<1>1. UNCHANGED <<status, judgePhase, wrongAttempts, announced, transition, sends, calls, disturbed>>
  BY DEF TakeJob, rows, threads
<1>2. /\ job[s].state = "waiting" /\ job'[s].state = "judging"
      /\ job'[s].phase = job[s].phase /\ job'[s].tests = job[s].tests
  BY <1>0 DEF TakeJob, Typed, Job_
<1>3. FullyJudged(s)'
  BY <1>1, <1>2 DEF FullyJudged
<1>4. ASSUME s \notin disturbed' PROVE FitsPhase(s)' /\ OneReport(s)' /\ Chosen(s)' /\ Counted(s)'
  <2>1. FitsPhase(s) /\ OneReport(s) /\ Chosen(s) /\ Counted(s)
    BY <1>1, <1>4 DEF TrustedRow
  <2>2. FitsPhase(s)'
    BY <1>1, <1>2, <2>1 DEF FitsPhase
  <2>3. OneReport(s)'
    BY <1>1, <1>2, <2>1 DEF OneReport
  <2> QED BY <1>1, <2>1, <2>2, <2>3, SameRow
<1> QED BY <1>3, <1>4 DEF TrustedRow

\* A row that is not disturbed has at most one callback, and its job is posted.
LEMMA OneCallback ==
    ASSUME Base, NEW s \in Subs, OneReport(s), NEW c \in calls, c.sub = s
    PROVE  /\ job[s].state = "posted" /\ job[s].phase = c.phase
           /\ \A d \in calls : d.sub = s => d = c
BY DEF Base, CallsHaveJobs, OneReport

\* The job becomes a callback.
LEMMA JudgeRow ==
    ASSUME Base, NEW s \in Subs, Judge(s), FullyJudged(s), TrustedRow(s)
    PROVE  FullyJudged(s)' /\ TrustedRow(s)'
<1>0. Typed
  BY BaseTyped
<1>1. UNCHANGED <<status, judgePhase, wrongAttempts, announced, transition, sends, disturbed>>
  BY DEF Judge, rows, threads
<1>2. /\ job[s].state = "judging" /\ job'[s].state = "posted"
      /\ job'[s].phase = job[s].phase /\ job'[s].tests = job[s].tests
  BY <1>0 DEF Judge, Typed, Job_
<1>3. PICK i \in Slots, v \in Outcome[s][job[s].tests] :
        calls' = calls \cup {[id |-> i, sub |-> s, phase |-> job[s].phase, verdict |-> v,
                              pc |-> "sent", wrong |-> 0, waited |-> TRUE]}
  BY DEF Judge
<1> DEFINE new == [id |-> i, sub |-> s, phase |-> job[s].phase, verdict |-> v,
                   pc |-> "sent", wrong |-> 0, waited |-> TRUE]
<1>4. /\ calls' = calls \cup {new} /\ new.phase = job[s].phase
      /\ new.verdict \in Outcome[s][job[s].tests] /\ new.pc = "sent" /\ new.waited
  BY <1>3
<1> HIDE DEF new
<1>5. FullyJudged(s)'
  BY <1>1, <1>2, <1>4 DEF FullyJudged
<1>6. ASSUME s \notin disturbed' PROVE FitsPhase(s)' /\ OneReport(s)' /\ Chosen(s)' /\ Counted(s)'
  <2>1. FitsPhase(s) /\ OneReport(s) /\ Chosen(s) /\ Counted(s)
    BY <1>1, <1>6 DEF TrustedRow
  <2>2. FitsPhase(s)'
    BY <1>1, <1>2, <1>4, <2>1 DEF FitsPhase
  <2>3. \A c \in calls : c.sub # s
    BY <1>2, <2>1, OneCallback
  <2>4. OneReport(s)'
    BY <1>1, <1>2, <1>4, <2>1, <2>3 DEF OneReport
  <2> QED BY <1>1, <1>4, <2>1, <2>2, <2>4, SameRow
<1> QED BY <1>5, <1>6 DEF TrustedRow

\* What a handler's step changes of its callback.
LEMMA CallFields ==
    ASSUME NEW c \in Call_, NEW w
    PROVE  /\ LET d == [c EXCEPT !.pc = "write", !.wrong = w]
              IN  /\ d.sub = c.sub /\ d.phase = c.phase /\ d.verdict = c.verdict
                  /\ d.waited = c.waited /\ d.pc = "write" /\ d.wrong = w
           /\ LET d == [c EXCEPT !.pc = "reply"]
              IN  /\ d.sub = c.sub /\ d.phase = c.phase /\ d.verdict = c.verdict
                  /\ d.waited = c.waited /\ d.pc = "reply"
           /\ LET d == [c EXCEPT !.waited = FALSE]
              IN  d.sub = c.sub /\ d.verdict = c.verdict
BY DEF Call_

\* The phase guard: the callback goes on to the write, or to its response.
LEMMA ReadRow ==
    ASSUME Base, NEW c \in calls, ReadCurrent(c), FullyJudged(c.sub), TrustedRow(c.sub)
    PROVE  FullyJudged(c.sub)' /\ TrustedRow(c.sub)'
<1> DEFINE s == c.sub
<1>0. Typed /\ s \in Subs /\ c \in Call_
  BY BaseTyped DEF Typed
<1>1. UNCHANGED <<status, judgePhase, wrongAttempts, announced, transition, sends, job, disturbed>>
  BY DEF ReadCurrent, rows, threads
<1>2. PICK d : /\ calls' = (calls \ {c}) \cup {d}
               /\ d.sub = s /\ d.phase = c.phase /\ d.verdict = c.verdict /\ d.waited = c.waited
               /\ \/ d.pc = "write" /\ c.phase = judgePhase[s] /\ d.wrong = wrongAttempts[s]
                  \/ d.pc = "reply"
  <2>1. CASE c.phase = judgePhase[s]
    <3> DEFINE e == [c EXCEPT !.pc = "write", !.wrong = wrongAttempts[s]]
    <3>1. calls' = (calls \ {c}) \cup {e}
      BY <2>1 DEF ReadCurrent, Advance
    <3>2. /\ e.sub = s /\ e.phase = c.phase /\ e.verdict = c.verdict /\ e.waited = c.waited
          /\ e.pc = "write" /\ e.wrong = wrongAttempts[s]
      BY <1>0, CallFields
    <3> HIDE DEF e
    <3> QED BY <2>1, <3>1, <3>2
  <2>2. CASE c.phase # judgePhase[s]
    <3> DEFINE e == [c EXCEPT !.pc = "reply"]
    <3>1. calls' = (calls \ {c}) \cup {e}
      BY <2>2 DEF ReadCurrent, Advance
    <3>2. /\ e.sub = s /\ e.phase = c.phase /\ e.verdict = c.verdict /\ e.waited = c.waited
          /\ e.pc = "reply"
      BY <1>0, CallFields
    <3> HIDE DEF e
    <3> QED BY <3>1, <3>2
  <2> QED BY <2>1, <2>2
<1>3. c.pc = "sent"
  BY DEF ReadCurrent
<1>4. FullyJudged(s)'
  BY <1>1, <1>2 DEF FullyJudged
<1>5. ASSUME s \notin disturbed' PROVE FitsPhase(s)' /\ OneReport(s)' /\ Chosen(s)' /\ Counted(s)'
  <2>1. FitsPhase(s) /\ OneReport(s) /\ Chosen(s) /\ Counted(s)
    BY <1>1, <1>5 DEF TrustedRow
  <2>2. FitsPhase(s)'
    BY <1>1, <1>2, <2>1 DEF FitsPhase
  <2>3. status[s] = "QUEUED" /\ \A m \in sends : m.sub # s
    BY <1>3, <2>1 DEF OneReport
  <2>4. OneReport(s)'
    BY <1>1, <1>2, <2>1, <2>3 DEF OneReport
  <2>5. Chosen(s)'
    BY <1>1, <2>1 DEF Chosen
  <2>6. Counted(s)'
    BY <1>1, <1>2, <2>1, <2>3 DEF Counted, PhasesEntered
  <2> QED BY <2>2, <2>4, <2>5, <2>6
<1> QED BY <1>4, <1>5 DEF TrustedRow

\* The write: it is the row's only report, so nothing else is on its way.
LEMMA WriteRow ==
    ASSUME Base, NEW c \in calls, WriteVerdict(c), FullyJudged(c.sub), TrustedRow(c.sub)
    PROVE  FullyJudged(c.sub)' /\ TrustedRow(c.sub)'
<1> DEFINE s == c.sub
<1>0. Typed /\ s \in Subs /\ c \in Call_ /\ c.verdict \in Verdicts
  BY BaseTyped DEF Typed
<1>1. /\ UNCHANGED <<judgePhase, transition, sends, job, disturbed>>
      /\ status'[s] = c.verdict
      /\ wrongAttempts'[s] = c.wrong + WrongIncrement(c.verdict)
      /\ c.pc = "write"
  <2>1. /\ status' = [status EXCEPT ![s] = c.verdict]
        /\ wrongAttempts' = [wrongAttempts EXCEPT ![s] = c.wrong + WrongIncrement(c.verdict)]
    BY DEF WriteVerdict
  <2>2. UNCHANGED <<judgePhase, transition, sends, job, disturbed>> /\ c.pc = "write"
    BY DEF WriteVerdict, threads
  <2>3. status'[s] = c.verdict
    BY <1>0, <2>1 DEF Typed
  <2>4. wrongAttempts'[s] = c.wrong + WrongIncrement(c.verdict)
    BY <1>0, <2>1, Zenon DEF Typed
  <2> QED BY <2>2, <2>3, <2>4
<1>2. \/ announced'[s] = announced[s]
      \/ announced'[s] = announced[s] + 1 /\ c.phase # "PRACTICE"
  BY <1>0 DEF WriteVerdict, Typed
<1>3. PICK d : /\ calls' = (calls \ {c}) \cup {d}
               /\ d.sub = s /\ d.phase = c.phase /\ d.verdict = c.verdict /\ d.waited = c.waited
               /\ d.pc = "reply"
  <2> DEFINE e == [c EXCEPT !.pc = "reply"]
  <2>1. calls' = (calls \ {c}) \cup {e}
    BY DEF WriteVerdict, Advance
  <2>2. /\ e.sub = s /\ e.phase = c.phase /\ e.verdict = c.verdict /\ e.waited = c.waited
        /\ e.pc = "reply"
    BY <1>0, CallFields
  <2> HIDE DEF e
  <2> QED BY <2>1, <2>2
<1>4. FullyJudged(s)'
  BY <1>1, <1>3 DEF FullyJudged
<1>5. ASSUME s \notin disturbed' PROVE FitsPhase(s)' /\ OneReport(s)' /\ Chosen(s)' /\ Counted(s)'
  <2>1. FitsPhase(s) /\ OneReport(s) /\ Chosen(s) /\ Counted(s)
    BY <1>1, <1>5 DEF TrustedRow
  <2>2. status[s] = "QUEUED" /\ c.phase = judgePhase[s] /\ \A m \in sends : m.sub # s
    BY <1>1, <2>1 DEF OneReport
  <2>3. job[s].state = "posted" /\ \A e \in calls' : e.sub = s => e = d
    BY <1>0, <1>3, <2>1, OneCallback
  <2>4. FitsPhase(s)'
    BY <1>1, <1>3, <2>1, <2>2 DEF FitsPhase
  <2>5. OneReport(s)'
    <3>1. c.waited
      BY <2>1 DEF OneReport
    <3> QED BY <1>1, <1>3, <2>2, <2>3, <3>1 DEF OneReport
  <2>6. Chosen(s)'
    BY <1>1, <2>1, <2>2 DEF Chosen
  <2>7. Counted(s)'
    <3>1. c.wrong = 0 /\ WrongIncrement(c.verdict) \in {0, 1}
      BY <1>1, <2>1 DEF Counted, WrongIncrement
    <3>2. c.verdict \notin {"ABSENT", "QUEUED"}
      BY <1>0 DEF Verdicts
    <3>3. PhasesEntered(s) \in {0, 1, 2} /\ PhasesEntered(s)' = PhasesEntered(s)
      BY <1>1 DEF PhasesEntered
    <3>4. judgePhase[s] # "PRACTICE" => PhasesEntered(s) > 0
      <4>1. c.phase \in Phases
        BY <1>0 DEF Call_
      <4> QED BY <2>2, <4>1 DEF PhasesEntered, Phases
    <3>5. announced'[s] <= PhasesEntered(s)
      <4>1. announced[s] \in Nat
        BY <1>0 DEF Typed
      <4>2. announced[s] <= PhasesEntered(s) /\ (PhasesEntered(s) > 0 => announced[s] < PhasesEntered(s))
        BY <2>1, <2>2 DEF Counted
      <4> QED BY <1>2, <2>2, <3>3, <3>4, <4>1, <4>2
    <3> QED BY <1>1, <1>3, <2>3, <3>1, <3>2, <3>3, <3>5 DEF Counted
  <2> QED BY <2>4, <2>5, <2>6, <2>7
<1> QED BY <1>4, <1>5 DEF TrustedRow

\* The response removes the job, which was not the one of a later request.
LEMMA ReplyRow ==
    ASSUME Base, NEW c \in calls, Reply(c), FullyJudged(c.sub), TrustedRow(c.sub)
    PROVE  FullyJudged(c.sub)' /\ TrustedRow(c.sub)'
<1> DEFINE s == c.sub
<1>0. Typed /\ s \in Subs
  BY BaseTyped DEF Typed
<1>1. /\ UNCHANGED <<status, judgePhase, wrongAttempts, announced, transition, sends, disturbed>>
      /\ calls' \subseteq calls
  BY DEF Reply, rows, threads
<1>2. job'[s] = job[s] \/ job'[s].state = "none"
  BY <1>0 DEF Reply, Typed, NoJob
<1>3. FullyJudged(s)'
  BY <1>1, <1>2 DEF FullyJudged
<1>4. ASSUME s \notin disturbed' PROVE FitsPhase(s)' /\ OneReport(s)' /\ Chosen(s)' /\ Counted(s)'
  <2>1. FitsPhase(s) /\ OneReport(s) /\ Chosen(s) /\ Counted(s)
    BY <1>1, <1>4 DEF TrustedRow
  <2>2. FitsPhase(s)'
    BY <1>1, <1>2, <2>1 DEF FitsPhase
  <2>3. OneReport(s)'
    BY <1>1, <1>2, <2>1 DEF OneReport
  <2> QED BY <1>0, <1>1, <2>1, <2>2, <2>3, SameRow
<1> QED BY <1>3, <1>4 DEF TrustedRow

\* The delivery that is not a retry picks accepted rows of the first phase.
LEMMA StartRow ==
    ASSUME Base, Origins, NEW t \in Transitions, NEW s \in Subs, StartTransition(t),
           FullyJudged(s), TrustedRow(s)
    PROVE  FullyJudged(s)' /\ TrustedRow(s)'
<1>0. Typed
  BY BaseTyped
<1>1. UNCHANGED <<status, judgePhase, wrongAttempts, announced, sends, job, calls, disturbed>>
  BY DEF StartTransition, rows
<1>2. \A u \in Transitions : s \in transition'[u].todo => u = t /\ s \in Eligible
  <2>1. \A u \in Transitions : transition[u].todo = {}
    BY DEF StartTransition, Origins
  <2>2. transition' = [transition EXCEPT ![t] =
          [pc |-> IF Eligible = {} THEN "done" ELSE "run", todo |-> Eligible]]
    BY DEF StartTransition
  <2> QED BY <1>0, <2>1, <2>2 DEF Typed
<1>3. FullyJudged(s)'
  BY <1>1 DEF FullyJudged
<1>4. ASSUME s \notin disturbed' PROVE FitsPhase(s)' /\ OneReport(s)' /\ Chosen(s)' /\ Counted(s)'
  <2>1. FitsPhase(s) /\ OneReport(s) /\ Chosen(s) /\ Counted(s)
    BY <1>1, <1>4 DEF TrustedRow
  <2>2. FitsPhase(s)' /\ OneReport(s)'
    BY <1>1, <2>1 DEF FitsPhase, OneReport
  <2>3. Chosen(s)'
    BY <1>1, <1>2 DEF Chosen, Eligible
  <2>4. Counted(s)'
    BY <1>1, <2>1 DEF Counted, PhasesEntered
  <2> QED BY <2>2, <2>3, <2>4
<1> QED BY <1>3, <1>4 DEF TrustedRow

\* The transition resets a row for which nothing is on its way.
LEMMA MoveRow ==
    ASSUME Base, Origins, NEW t \in Transitions, NEW s \in Subs, MoveToPhase2(t, s),
           FullyJudged(s), TrustedRow(s)
    PROVE  FullyJudged(s)' /\ TrustedRow(s)'
<1> DEFINE new == Request(s, "CONTEST_PHASE2", "all", t)
<1>0. Typed
  BY BaseTyped
<1>1. /\ status'[s] = "QUEUED" /\ judgePhase'[s] = "CONTEST_PHASE2" /\ wrongAttempts'[s] = 0
      /\ sends' = sends \cup {new}
      /\ UNCHANGED <<announced, job, calls, disturbed>>
      /\ s \in transition[t].todo
  BY <1>0 DEF MoveToPhase2, Typed
<1>2. new.sub = s /\ new.phase = "CONTEST_PHASE2" /\ new.tests = "all"
  BY DEF Request
<1> HIDE DEF new
<1>3. \A u \in Transitions : s \in transition'[u].todo => u # t /\ s \in transition[u].todo
  BY <1>0 DEF MoveToPhase2, Rest, Typed
<1>4. FullyJudged(s)'
  BY <1>1 DEF FullyJudged
<1>5. ASSUME s \notin disturbed' PROVE FitsPhase(s)' /\ OneReport(s)' /\ Chosen(s)' /\ Counted(s)'
  <2>1. FitsPhase(s) /\ OneReport(s) /\ Chosen(s) /\ Counted(s)
    BY <1>1, <1>5 DEF TrustedRow
  <2>2. status[s] = "ACCEPTED" /\ judgePhase[s] = "CONTEST_PHASE1"
    BY <1>1, <2>1 DEF Chosen
  <2>3. /\ \A m \in sends : m.sub # s
        /\ job[s].state \notin {"waiting", "judging"}
        /\ \A c \in calls : c.sub = s => c.pc = "reply"
    BY <2>1, <2>2 DEF OneReport
  <2>4. FitsPhase(s)'
    BY <1>1, <1>2, <2>1 DEF FitsPhase, TestsFor, Verdicts
  <2>5. OneReport(s)'
    BY <1>1, <1>2, <2>1, <2>3 DEF OneReport
  <2>6. Chosen(s)'
    BY <1>1, <1>3, <2>1 DEF Chosen
  <2>7. announced[s] <= 1 /\ announced[s] \in Nat
    BY <1>0, <2>1, <2>2 DEF Counted, PhasesEntered, Typed
  <2>8. PhasesEntered(s)' = 2
    BY <1>1 DEF PhasesEntered
  <2>9. Counted(s)'
    BY <1>1, <2>3, <2>7, <2>8 DEF Counted
  <2> QED BY <2>4, <2>5, <2>6, <2>9
<1> QED BY <1>4, <1>5 DEF TrustedRow

\* A rejudge sends all tests, and its rows are disturbed.
LEMMA RejudgeRow ==
    ASSUME Base, Origins, NEW r \in Rejudges, NEW s \in Subs, NEW p \in Phases,
           RejudgeOne(r, s, p), FullyJudged(s), TrustedRow(s)
    PROVE  FullyJudged(s)' /\ TrustedRow(s)'
<1> DEFINE new == Request(s, p, "all", r)
<1>0. Typed
  BY BaseTyped
<1>1. /\ status'[s] = "QUEUED" /\ sends' = sends \cup {new}
      /\ UNCHANGED <<judgePhase, job, calls, disturbed>>
  BY <1>0 DEF RejudgeOne, Typed
<1>2. new.tests = "all"
  BY DEF Request
<1> HIDE DEF new
<1>3. s \in disturbed'
  BY <1>1 DEF RejudgeOne, Origins
<1>4. FullyJudged(s)'
  BY <1>1, <1>2 DEF FullyJudged, Verdicts
<1> QED BY <1>3, <1>4 DEF TrustedRow

\* A job keeps its phase and tests when an attempt fails or stalls.
LEMMA AttemptFields ==
    \A j \in Job_ :
      /\ FailAttempt(j).phase = j.phase /\ FailAttempt(j).tests = j.tests
      /\ Stall(j).phase = j.phase /\ Stall(j).tests = j.tests
BY DEF FailAttempt, Stall, Job_

\* A failed report before the write: the job takes the callback's place.
LEMMA LoseCallRow ==
    ASSUME Base, NEW c \in calls, LoseCall(c), FullyJudged(c.sub), TrustedRow(c.sub)
    PROVE  FullyJudged(c.sub)' /\ TrustedRow(c.sub)'
<1> DEFINE s == c.sub
<1>0. Typed /\ s \in Subs
  BY BaseTyped DEF Typed
<1>1. /\ UNCHANGED <<status, judgePhase, wrongAttempts, announced, transition, sends, disturbed>>
      /\ calls' = calls \ {c} /\ c.pc # "reply"
  BY DEF LoseCall, rows, threads
<1>2. \/ job'[s] = job[s]
      \/ /\ c.waited /\ job[s].state = "posted"
         /\ job'[s].phase = job[s].phase /\ job'[s].tests = job[s].tests
  <2>1. CASE c.waited
    <3>1. job'[s] = FailAttempt(job[s]) /\ job[s] \in Job_
      BY <1>0, <2>1 DEF LoseCall, Typed
    <3> QED BY <2>1, <3>1, AttemptFields DEF Base, CallsHaveJobs
  <2>2. CASE ~c.waited
    BY <2>2 DEF LoseCall
  <2> QED BY <2>1, <2>2
<1>3. FullyJudged(s)'
  BY <1>1, <1>2 DEF FullyJudged
<1>4. ASSUME s \notin disturbed' PROVE FitsPhase(s)' /\ OneReport(s)' /\ Chosen(s)' /\ Counted(s)'
  <2>1. FitsPhase(s) /\ OneReport(s) /\ Chosen(s) /\ Counted(s)
    BY <1>1, <1>4 DEF TrustedRow
  <2>2. FitsPhase(s)'
    BY <1>1, <1>2, <2>1 DEF FitsPhase
  <2>3. status[s] = "QUEUED" /\ c.phase = judgePhase[s] /\ \A m \in sends : m.sub # s
    BY <1>1, <2>1 DEF OneReport
  <2>4. job[s].state = "posted" /\ job[s].phase = c.phase /\ \A d \in calls' : d.sub # s
    BY <1>0, <1>1, <2>1, OneCallback
  <2>5. OneReport(s)'
    BY <1>1, <1>2, <2>3, <2>4 DEF OneReport
  <2> QED BY <1>0, <1>1, <2>1, <2>2, <2>5, SameRow
<1> QED BY <1>3, <1>4 DEF TrustedRow

\* A lost response: the row is disturbed.
LEMMA GiveUpRow ==
    ASSUME Base, NEW c \in calls, GiveUp(c), FullyJudged(c.sub)
    PROVE  FullyJudged(c.sub)' /\ TrustedRow(c.sub)'
<1> DEFINE s == c.sub
<1>0. Typed /\ s \in Subs /\ c \in Call_
  BY BaseTyped DEF Typed
<1>1. /\ UNCHANGED <<status, judgePhase, sends>> /\ s \in disturbed'
      /\ calls' = (calls \ {c}) \cup {[c EXCEPT !.waited = FALSE]}
  BY DEF GiveUp, Advance, rows, threads
<1>2. job[s].state = "posted" /\ job'[s].tests = job[s].tests
  <2>1. job'[s] = FailAttempt(job[s]) /\ job[s] \in Job_
    BY <1>0 DEF GiveUp, Typed
  <2> QED BY <2>1, AttemptFields DEF GiveUp, Base, CallsHaveJobs
<1>3. [c EXCEPT !.waited = FALSE].verdict = c.verdict
  BY <1>0, CallFields
<1>4. FullyJudged(s)'
  BY <1>1, <1>2, <1>3 DEF FullyJudged
<1> QED BY <1>1, <1>4 DEF TrustedRow

\* A worker that dies while judging has reported nothing; otherwise the row is
\* disturbed.
LEMMA CrashWorkerRow ==
    ASSUME Base, NEW s \in Subs, CrashWorker(s), FullyJudged(s), TrustedRow(s)
    PROVE  FullyJudged(s)' /\ TrustedRow(s)'
<1>0. Typed
  BY BaseTyped
<1>1. /\ UNCHANGED <<status, judgePhase, wrongAttempts, announced, transition, sends>>
      /\ disturbed' = IF job[s].state = "posted" THEN disturbed \cup {s} ELSE disturbed
      /\ job[s].state \in {"judging", "posted"}
  BY DEF CrashWorker, rows, threads
<1>2. job'[s].phase = job[s].phase /\ job'[s].tests = job[s].tests
  <2>1. job'[s] = Stall(job[s]) /\ job[s] \in Job_
    BY <1>0 DEF CrashWorker, Typed
  <2> QED BY <2>1, AttemptFields
<1>3. ASSUME NEW d \in calls', d.sub = s
      PROVE  \E c \in calls : c.sub = s /\ d.verdict = c.verdict
  <2>1. PICK c \in calls : d = IF c.sub = s THEN [c EXCEPT !.waited = FALSE] ELSE c
    BY DEF CrashWorker
  <2>2. c \in Call_
    BY <1>0 DEF Typed
  <2>3. [c EXCEPT !.waited = FALSE].sub = c.sub /\ [c EXCEPT !.waited = FALSE].verdict = c.verdict
    BY <2>2, CallFields
  <2> QED BY <1>3, <2>1, <2>3
<1>4. FullyJudged(s)'
  BY <1>1, <1>2, <1>3 DEF FullyJudged
<1>5. ASSUME s \notin disturbed' PROVE FitsPhase(s)' /\ OneReport(s)' /\ Chosen(s)' /\ Counted(s)'
  <2>1. FitsPhase(s) /\ OneReport(s) /\ Chosen(s) /\ Counted(s)
    BY <1>1, <1>5 DEF TrustedRow
  <2>2. job[s].state = "judging"
    BY <1>1, <1>5
  <2>3. \A c \in calls' : c.sub # s
    BY <1>3, <2>1, <2>2, OneCallback
  <2>4. FitsPhase(s)'
    BY <1>1, <1>2, <2>1, <2>2, <2>3 DEF FitsPhase
  <2>5. OneReport(s)'
    BY <1>1, <1>2, <2>1, <2>2, <2>3 DEF OneReport
  <2>6. Chosen(s)' /\ Counted(s)'
    BY <1>1, <2>1, <2>3, SameRow
  <2> QED BY <2>4, <2>5, <2>6
<1> QED BY <1>4, <1>5 DEF TrustedRow

\* The backend restarts: the report of an undisturbed row goes back to its job.
LEMMA CrashBackendRow ==
    ASSUME Base, NEW s \in Subs, CrashBackend, FullyJudged(s), TrustedRow(s)
    PROVE  FullyJudged(s)' /\ TrustedRow(s)'
<1>0. Typed
  BY BaseTyped
<1>1. /\ UNCHANGED <<status, judgePhase, wrongAttempts, announced>>
      /\ sends' = {} /\ calls' = {}
      /\ \A t \in Transitions : transition'[t].todo = {}
      /\ disturbed' = disturbed \cup {c.sub : c \in {d \in calls : d.waited /\ d.pc = "reply"}}
  BY DEF CrashBackend, rows
<1>2. \/ job'[s] = job[s]
      \/ /\ \E c \in calls : c.sub = s /\ c.waited
         /\ job[s].state = "posted"
         /\ job'[s].phase = job[s].phase /\ job'[s].tests = job[s].tests
  <2>1. job'[s] = IF Waited(s) THEN FailAttempt(job[s]) ELSE job[s]
    BY DEF CrashBackend
  <2>2. job[s] \in Job_
    BY <1>0 DEF Typed
  <2> QED BY <2>1, <2>2, AttemptFields DEF Waited, Base, CallsHaveJobs
<1>3. FullyJudged(s)'
  BY <1>1, <1>2 DEF FullyJudged
<1>4. ASSUME s \notin disturbed' PROVE FitsPhase(s)' /\ OneReport(s)' /\ Chosen(s)' /\ Counted(s)'
  <2>1. FitsPhase(s) /\ OneReport(s) /\ Chosen(s) /\ Counted(s)
    BY <1>1, <1>4 DEF TrustedRow
  <2>2. FitsPhase(s)'
    BY <1>1, <1>2, <2>1 DEF FitsPhase
  <2>3. OneReport(s)'
    <3>1. CASE job'[s] = job[s]
      BY <1>1, <2>1, <3>1 DEF OneReport
    <3>2. ASSUME NEW c \in calls, c.sub = s, c.waited, job'[s].phase = job[s].phase
          PROVE  OneReport(s)'
      <4>1. c.pc # "reply"
        BY <1>1, <1>4, <3>2
      <4>2. status[s] = "QUEUED" /\ c.phase = judgePhase[s]
        BY <2>1, <3>2, <4>1 DEF OneReport
      <4>3. job[s].phase = c.phase
        BY <3>2 DEF Base, CallsHaveJobs
      <4> QED BY <1>1, <3>2, <4>2, <4>3 DEF OneReport
    <3> QED BY <1>2, <3>1, <3>2
  <2>4. Chosen(s)' /\ Counted(s)'
    BY <1>1, <2>1, SameRow
  <2> QED BY <2>2, <2>3, <2>4
<1> QED BY <1>3, <1>4 DEF TrustedRow

\* A second delivery disturbs the rows it picks and leaves the others alone.
LEMMA RetryRow ==
    ASSUME Base, NEW t \in Transitions, NEW s \in Subs, RetryTransition(t),
           FullyJudged(s), TrustedRow(s)
    PROVE  FullyJudged(s)' /\ TrustedRow(s)'
<1>0. Typed
  BY BaseTyped
<1>1. /\ UNCHANGED <<status, judgePhase, wrongAttempts, announced, sends, job, calls>>
      /\ disturbed' = disturbed \cup Eligible
  BY DEF RetryTransition, rows
<1>2. CASE s \in Eligible
  <2>1. FullyJudged(s)'
    BY <1>1 DEF FullyJudged
  <2> QED BY <1>1, <1>2, <2>1 DEF TrustedRow
<1>3. CASE s \notin Eligible
  <2>1. \A u \in Transitions : s \in transition'[u].todo => s \in transition[u].todo
    BY <1>0, <1>3 DEF RetryTransition, Typed
  <2>2. Quiet(s)
    BY <1>1, <2>1 DEF Quiet
  <2> QED BY <2>2, QuietRow
<1> QED BY <1>2, <1>3

\* Every step keeps what the invariant says of each row.
LEMMA NextRow ==
    ASSUME Base, Origins, NEW s \in Subs, FullyJudged(s), TrustedRow(s), [Next]_vars
    PROVE  FullyJudged(s)' /\ TrustedRow(s)'
<1> DEFINE Kept == FullyJudged(s)' /\ TrustedRow(s)'
<1>0. Typed
  BY BaseTyped
<1>a. Quiet(s) => Kept
  BY QuietRow
<1> HIDE DEF Kept
<1>1. ASSUME NEW q \in Subs, CheckWindow(q) PROVE Kept
  <2>1. Quiet(s)
    BY <1>1 DEF CheckWindow, Quiet, rows
  <2> QED BY <2>1, <1>a
<1>2. ASSUME NEW q \in Subs, CreateSubmission(q) PROVE Kept
  <2>1. CASE q = s
    BY <1>2, <2>1, CreateRow DEF Kept
  <2>2. CASE q # s
    <3>1. status'[s] = status[s] /\ judgePhase'[s] = judgePhase[s]
      BY <1>0, <1>2, <2>2 DEF CreateSubmission, Typed
    <3>2. \A m \in sends' : m.sub = s => m \in sends
      BY <1>2, <2>2 DEF CreateSubmission, Request
    <3>3. Quiet(s)
      BY <1>2, <3>1, <3>2 DEF CreateSubmission, Quiet
    <3> QED BY <3>3, <1>a
  <2> QED BY <2>1, <2>2
<1>3. ASSUME NEW q \in Subs, TakeJob(q) PROVE Kept
  <2>1. CASE q = s
    BY <1>3, <2>1, TakeRow DEF Kept
  <2>2. CASE q # s
    <3>1. job'[s] = job[s]
      BY <1>0, <1>3, <2>2 DEF TakeJob, Typed
    <3>2. Quiet(s)
      BY <1>3, <3>1 DEF TakeJob, Quiet, rows, threads
    <3> QED BY <3>2, <1>a
  <2> QED BY <2>1, <2>2
<1>4. ASSUME NEW q \in Subs, Judge(q) PROVE Kept
  <2>1. CASE q = s
    BY <1>4, <2>1, JudgeRow DEF Kept
  <2>2. CASE q # s
    <3>1. job'[s] = job[s]
      BY <1>0, <1>4, <2>2 DEF Judge, Typed
    <3>2. \A c \in calls' : c.sub = s => c \in calls
      BY <1>4, <2>2 DEF Judge
    <3>3. Quiet(s)
      BY <1>4, <3>1, <3>2 DEF Judge, Quiet, rows, threads
    <3> QED BY <3>3, <1>a
  <2> QED BY <2>1, <2>2
<1>5. ASSUME NEW m \in sends, Enqueue(m) PROVE Kept
  <2>1. CASE m.sub = s
    BY <1>5, <2>1, EnqueueRow DEF Kept
  <2>2. CASE m.sub # s
    <3>1. job'[s] = job[s]
      BY <1>0, <1>5, <2>2 DEF Enqueue, AddJob, Typed
    <3>2. Quiet(s)
      BY <1>5, <3>1 DEF Enqueue, Quiet, rows, threads
    <3> QED BY <3>2, <1>a
  <2> QED BY <2>1, <2>2
<1>6. ASSUME NEW c \in calls, NEW d, Advance(c, d), d.sub = c.sub, c.sub # s
      PROVE  \A e \in calls' : e.sub = s => e \in calls
  BY <1>6 DEF Advance
<1>7. ASSUME NEW c \in calls, ReadCurrent(c) PROVE Kept
  <2>1. CASE c.sub = s
    BY <1>7, <2>1, ReadRow DEF Kept
  <2>2. CASE c.sub # s
    <3>1. c \in Call_
      BY <1>0 DEF Typed
    <3>2. /\ [c EXCEPT !.pc = "write", !.wrong = wrongAttempts[c.sub]].sub = c.sub
          /\ [c EXCEPT !.pc = "reply"].sub = c.sub
      BY <3>1, CallFields
    <3>3. \/ Advance(c, [c EXCEPT !.pc = "write", !.wrong = wrongAttempts[c.sub]])
          \/ Advance(c, [c EXCEPT !.pc = "reply"])
      BY <1>7 DEF ReadCurrent
    <3>4. \A e \in calls' : e.sub = s => e \in calls
      BY <2>2, <3>2, <3>3, <1>6
    <3>5. Quiet(s)
      BY <1>7, <3>4 DEF ReadCurrent, Quiet, rows, threads
    <3> QED BY <3>5, <1>a
  <2> QED BY <2>1, <2>2
<1>8. ASSUME NEW c \in calls, WriteVerdict(c) PROVE Kept
  <2>1. CASE c.sub = s
    BY <1>8, <2>1, WriteRow DEF Kept
  <2>2. CASE c.sub # s
    <3>1. c \in Call_
      BY <1>0 DEF Typed
    <3>2. [c EXCEPT !.pc = "reply"].sub = c.sub
      BY <3>1, CallFields
    <3>3. \A e \in calls' : e.sub = s => e \in calls
      BY <1>8, <2>2, <3>2, <1>6 DEF WriteVerdict
    <3>4. status'[s] = status[s]
      BY <1>0, <1>8, <2>2 DEF WriteVerdict, Typed
    <3>5. wrongAttempts'[s] = wrongAttempts[s]
      BY <1>0, <1>8, <2>2, Zenon DEF WriteVerdict, Typed
    <3>6. announced'[s] = announced[s]
      BY <1>0, <1>8, <2>2 DEF WriteVerdict, Typed
    <3>7. Quiet(s)
      BY <1>8, <3>3, <3>4, <3>5, <3>6 DEF WriteVerdict, Quiet, threads
    <3> QED BY <3>7, <1>a
  <2> QED BY <2>1, <2>2
<1>9. ASSUME NEW c \in calls, Reply(c) PROVE Kept
  <2>1. CASE c.sub = s
    BY <1>9, <2>1, ReplyRow DEF Kept
  <2>2. CASE c.sub # s
    <3>1. job'[s] = job[s]
      BY <1>0, <1>9, <2>2 DEF Reply, Typed
    <3>2. Quiet(s)
      BY <1>9, <3>1 DEF Reply, Quiet, rows, threads
    <3> QED BY <3>2, <1>a
  <2> QED BY <2>1, <2>2
<1>10. ASSUME EndContest PROVE Kept
  <2>1. Quiet(s)
    BY <1>10 DEF EndContest, Quiet, rows, threads
  <2> QED BY <2>1, <1>a
<1>11. ASSUME NEW t \in Transitions, StartTransition(t) PROVE Kept
  BY <1>11, StartRow DEF Kept
<1>12. ASSUME NEW t \in Transitions, RetryTransition(t) PROVE Kept
  BY <1>12, RetryRow DEF Kept
<1>13. ASSUME NEW t \in Transitions, NEW q \in Subs, MoveToPhase2(t, q) PROVE Kept
  <2>1. CASE q = s
    BY <1>13, <2>1, MoveRow DEF Kept
  <2>2. CASE q # s
    <3>1. status'[s] = status[s] /\ judgePhase'[s] = judgePhase[s] /\ wrongAttempts'[s] = wrongAttempts[s]
      BY <1>0, <1>13, <2>2 DEF MoveToPhase2, Typed
    <3>2. \A m \in sends' : m.sub = s => m \in sends
      BY <1>13, <2>2 DEF MoveToPhase2, Request
    <3>3. \A u \in Transitions : s \in transition'[u].todo => s \in transition[u].todo
      BY <1>0, <1>13 DEF MoveToPhase2, Rest, Typed
    <3>4. Quiet(s)
      BY <1>13, <3>1, <3>2, <3>3 DEF MoveToPhase2, Quiet
    <3> QED BY <3>4, <1>a
  <2> QED BY <2>1, <2>2
<1>14. ASSUME NEW r \in Rejudges, StartRejudge(r) PROVE Kept
  <2>1. Quiet(s)
    BY <1>14 DEF StartRejudge, Quiet, rows
  <2> QED BY <2>1, <1>a
<1>15. ASSUME NEW r \in Rejudges, NEW q \in Subs, NEW p \in Phases, RejudgeOne(r, q, p) PROVE Kept
  <2>1. CASE q = s
    BY <1>15, <2>1, RejudgeRow DEF Kept
  <2>2. CASE q # s
    <3>1. status'[s] = status[s]
      BY <1>0, <1>15, <2>2 DEF RejudgeOne, Typed
    <3>2. \A m \in sends' : m.sub = s => m \in sends
      BY <1>15, <2>2 DEF RejudgeOne, Request
    <3>3. Quiet(s)
      BY <1>15, <3>1, <3>2 DEF RejudgeOne, Quiet
    <3> QED BY <3>3, <1>a
  <2> QED BY <2>1, <2>2
<1>16. ASSUME NEW m \in sends, LoseSend(m) PROVE Kept
  <2>1. Quiet(s)
    BY <1>16 DEF LoseSend, Quiet, rows, threads
  <2> QED BY <2>1, <1>a
<1>17. ASSUME NEW c \in calls, LoseCall(c) PROVE Kept
  <2>1. CASE c.sub = s
    BY <1>17, <2>1, LoseCallRow DEF Kept
  <2>2. CASE c.sub # s
    <3>1. job'[s] = job[s]
      BY <1>0, <1>17, <2>2 DEF LoseCall, Typed
    <3>2. Quiet(s)
      BY <1>17, <3>1 DEF LoseCall, Quiet, rows, threads
    <3> QED BY <3>2, <1>a
  <2> QED BY <2>1, <2>2
<1>18. ASSUME NEW c \in calls, GiveUp(c) PROVE Kept
  <2>1. CASE c.sub = s
    BY <1>18, <2>1, GiveUpRow DEF Kept
  <2>2. CASE c.sub # s
    <3>1. job'[s] = job[s]
      BY <1>0, <1>18, <2>2 DEF GiveUp, Typed
    <3>2. c \in Call_
      BY <1>0 DEF Typed
    <3>3. [c EXCEPT !.waited = FALSE].sub = c.sub
      BY <3>2, CallFields
    <3>4. \A e \in calls' : e.sub = s => e \in calls
      BY <1>18, <2>2, <3>3, <1>6 DEF GiveUp
    <3>5. Quiet(s)
      BY <1>18, <3>1, <3>4 DEF GiveUp, Quiet, rows, threads
    <3> QED BY <3>5, <1>a
  <2> QED BY <2>1, <2>2
<1>19. ASSUME NEW q \in Subs, CrashWorker(q) PROVE Kept
  <2>1. CASE q = s
    BY <1>19, <2>1, CrashWorkerRow DEF Kept
  <2>2. CASE q # s
    <3>1. job'[s] = job[s]
      BY <1>0, <1>19, <2>2 DEF CrashWorker, Typed
    <3>2. \A e \in calls' : e.sub = s => e \in calls
      <4>1. \A c \in calls : [c EXCEPT !.waited = FALSE].sub = c.sub
        BY <1>0, CallFields DEF Typed
      <4> QED BY <1>19, <2>2, <4>1 DEF CrashWorker
    <3>3. Quiet(s)
      BY <1>19, <3>1, <3>2 DEF CrashWorker, Quiet, rows, threads
    <3> QED BY <3>3, <1>a
  <2> QED BY <2>1, <2>2
<1>20. ASSUME CrashBackend PROVE Kept
  BY <1>20, CrashBackendRow DEF Kept
<1>21. ASSUME NEW t \in Transitions, NEW q \in Subs, FailMove(t, q) PROVE Kept
  <2>1. \A u \in Transitions : s \in transition'[u].todo => s \in transition[u].todo
    BY <1>0, <1>21 DEF FailMove, Rest, Typed
  <2>2. Quiet(s)
    BY <1>21, <2>1 DEF FailMove, Quiet, rows
  <2> QED BY <2>2, <1>a
<1>22. ASSUME NEW r \in Rejudges, NEW q \in Subs, NEW p \in Phases, FailRejudge(r, q, p) PROVE Kept
  <2>1. Quiet(s)
    BY <1>22 DEF FailRejudge, Quiet, rows
  <2> QED BY <2>1, <1>a
<1>23. ASSUME UNCHANGED vars PROVE Kept
  <2>1. Quiet(s)
    BY <1>23 DEF vars, Quiet, rows, threads
  <2> QED BY <2>1, <1>a
<1>24. Kept
  BY <1>1, <1>2, <1>3, <1>4, <1>5, <1>7, <1>8, <1>9, <1>10, <1>11, <1>12, <1>13, <1>14, <1>15,
     <1>16, <1>17, <1>18, <1>19, <1>20, <1>21, <1>22, <1>23
  DEF Next, Submit, Callback, Faulty
<1> QED BY <1>24 DEF Kept

(* ------------------------- Where things come from ---------------------- *)

\* A handler's step keeps the origin of the verdicts it holds.
LEMMA CallOrigins ==
    ASSUME Typed, Origins, NEW c \in calls, NEW d, Advance(c, d),
           d.sub = c.sub, d.verdict = c.verdict
    PROVE  \A e \in calls' : \E tests \in TestSets : e.verdict \in Outcome[e.sub][tests]
<1>1. \A e \in calls' : e \in calls \/ e = d
  BY DEF Advance
<1> QED BY <1>1 DEF Origins

LEMMA NextOrigins == Base /\ Origins /\ [Next]_vars => Origins'
<1> SUFFICES ASSUME Base, Origins, [Next]_vars PROVE Origins'
  OBVIOUS
<1>0. Typed
  BY BaseTyped
<1>1. ASSUME NEW s \in Subs, CheckWindow(s) PROVE Origins'
  BY <1>1 DEF CheckWindow, Origins, rows
<1>2. ASSUME NEW s \in Subs, CreateSubmission(s) PROVE Origins'
  <2>1. status[s] = "ABSENT" /\ \A t \in Transitions : s \notin transition[t].todo
    BY <1>2 DEF CreateSubmission, Origins, Base, RowsExist
  <2>2. \A q \in Subs \ {s} : status'[q] = status[q] /\ judgePhase'[q] = judgePhase[q]
    BY <1>0, <1>2 DEF CreateSubmission, Typed
  <2>3. submitting' = submitting \ {s} /\ submitting \subseteq Subs
    BY <1>2 DEF CreateSubmission, Base, TypeOK
  <2>4. UNCHANGED <<calls, transition, rejudge, disturbed>>
    BY <1>2 DEF CreateSubmission
  <2> QED BY <1>0, <2>1, <2>2, <2>3, <2>4 DEF Origins, Typed
<1>3. ASSUME NEW s \in Subs, TakeJob(s) PROVE Origins'
  BY <1>3 DEF TakeJob, Origins, rows, threads
<1>4. ASSUME NEW s \in Subs, Judge(s) PROVE Origins'
  <2>1. job[s].tests \in TestSets
    BY <1>0 DEF Typed, Job_
  <2>2. \A c \in calls' : c \in calls \/ (c.sub = s /\ c.verdict \in Outcome[s][job[s].tests])
    BY <1>4 DEF Judge
  <2> QED BY <1>4, <2>1, <2>2 DEF Judge, Origins, rows, threads
<1>5. ASSUME NEW m \in sends, Enqueue(m) PROVE Origins'
  BY <1>5 DEF Enqueue, Origins, rows, threads
<1>6. ASSUME NEW c \in calls, ReadCurrent(c) PROVE Origins'
  <2>1. c \in Call_
    BY <1>0 DEF Typed
  <2>2. \/ Advance(c, [c EXCEPT !.pc = "write", !.wrong = wrongAttempts[c.sub]])
        \/ Advance(c, [c EXCEPT !.pc = "reply"])
    BY <1>6 DEF ReadCurrent
  <2>3. PICK d : Advance(c, d) /\ d.sub = c.sub /\ d.verdict = c.verdict
    <3>1. CASE Advance(c, [c EXCEPT !.pc = "reply"])
      BY <2>1, <3>1, CallFields
    <3>2. CASE Advance(c, [c EXCEPT !.pc = "write", !.wrong = wrongAttempts[c.sub]])
      <4> DEFINE e == [c EXCEPT !.pc = "write", !.wrong = wrongAttempts[c.sub]]
      <4>1. e.sub = c.sub /\ e.verdict = c.verdict
        BY <2>1, CallFields
      <4>2. Advance(c, e)
        BY <3>2
      <4> HIDE DEF e
      <4> QED BY <4>1, <4>2
    <3> QED BY <2>2, <3>1, <3>2
  <2>4. \A e \in calls' : \E tests \in TestSets : e.verdict \in Outcome[e.sub][tests]
    BY <1>0, <2>3, CallOrigins
  <2> QED BY <1>6, <2>4 DEF ReadCurrent, Origins, rows, threads
<1>7. ASSUME NEW c \in calls, WriteVerdict(c) PROVE Origins'
  <2>1. c \in Call_
    BY <1>0 DEF Typed
  <2>2. Advance(c, [c EXCEPT !.pc = "reply"])
    BY <1>7 DEF WriteVerdict
  <2>3. \A e \in calls' : \E tests \in TestSets : e.verdict \in Outcome[e.sub][tests]
    BY <1>0, <2>1, <2>2, CallFields, CallOrigins
  <2>4. \A s \in submitting : status'[s] = "ABSENT"
    <3>1. status[c.sub] # "ABSENT" /\ status' = [status EXCEPT ![c.sub] = c.verdict]
      BY <1>7 DEF WriteVerdict, Base, RowsExist
    <3>2. submitting \subseteq Subs
      BY DEF Base, TypeOK
    <3> QED BY <1>0, <3>1, <3>2 DEF Origins, Typed
  <2> QED BY <1>7, <2>3, <2>4 DEF WriteVerdict, Origins, threads
<1>8. ASSUME NEW c \in calls, Reply(c) PROVE Origins'
  BY <1>8 DEF Reply, Origins, rows, threads
<1>9. ASSUME EndContest PROVE Origins'
  BY <1>9 DEF EndContest, Origins, rows, threads
<1>10. ASSUME NEW t \in Transitions, StartTransition(t) \/ RetryTransition(t) PROVE Origins'
  <2>1. transition' = [transition EXCEPT ![t] =
          [pc |-> IF Eligible = {} THEN "done" ELSE "run", todo |-> Eligible]]
    BY <1>10 DEF StartTransition, RetryTransition
  <2>2. \A u \in Transitions :
          \/ transition'[u] = transition[u]
          \/ /\ transition'[u].todo = Eligible
             /\ transition'[u].pc # "run" => Eligible = {}
    BY <1>0, <2>1 DEF Typed
  <2>3. UNCHANGED <<status, judgePhase, submitting, calls, rejudge>> /\ disturbed \subseteq disturbed'
    BY <1>10 DEF StartTransition, RetryTransition, rows
  <2>4. \A s \in Eligible : judgePhase[s] \in {"CONTEST_PHASE1", "CONTEST_PHASE2"}
    BY DEF Eligible
  <2> QED BY <2>2, <2>3, <2>4 DEF Origins
<1>11. ASSUME NEW t \in Transitions, NEW s \in Subs,
              transition' = [transition EXCEPT ![t] = Rest(t, s)]
       PROVE  \A u \in Transitions :
                /\ transition'[u].todo \subseteq transition[u].todo
                /\ transition'[u].pc # "run" => transition'[u].todo = {}
  <2>1. Rest(t, s).todo = transition[t].todo \ {s} /\ (Rest(t, s).pc # "run" => Rest(t, s).todo = {})
    BY DEF Rest
  <2>2. \A u \in Transitions : transition'[u] = IF u = t THEN Rest(t, s) ELSE transition[u]
    BY <1>0, <1>11 DEF Typed
  <2> QED BY <2>1, <2>2 DEF Origins
<1>12. ASSUME NEW t \in Transitions, NEW s \in Subs, MoveToPhase2(t, s) PROVE Origins'
  <2>1. \A u \in Transitions :
          /\ transition'[u].todo \subseteq transition[u].todo
          /\ transition'[u].pc # "run" => transition'[u].todo = {}
    BY <1>11, <1>12 DEF MoveToPhase2
  <2>2. \A q \in submitting : status'[q] = "ABSENT"
    <3>1. status[s] # "ABSENT" /\ status' = [status EXCEPT ![s] = "QUEUED"]
      BY <1>12 DEF MoveToPhase2, Base, RowsExist
    <3>2. submitting \subseteq Subs
      BY DEF Base, TypeOK
    <3> QED BY <1>0, <3>1, <3>2 DEF Origins, Typed
  <2>3. \A q \in Subs : judgePhase'[q] = judgePhase[q] \/ judgePhase'[q] = "CONTEST_PHASE2"
    BY <1>0, <1>12 DEF MoveToPhase2, Typed
  <2>4. UNCHANGED <<submitting, calls, rejudge, disturbed>>
    BY <1>12 DEF MoveToPhase2
  <2> QED BY <1>0, <2>1, <2>2, <2>3, <2>4 DEF Origins, Typed
<1>13. ASSUME NEW r \in Rejudges, StartRejudge(r) PROVE Origins'
  <2>1. PICK targets \in {{s} : s \in Existing} \cup {Existing} :
          /\ rejudge' = [rejudge EXCEPT ![r] =
               [pc |-> "run", todo |-> {<<s, judgePhase[s]>> : s \in targets}]]
          /\ disturbed' = disturbed \cup targets
    BY <1>13 DEF StartRejudge
  <2>2. \A q \in Rejudges : \A s \in Subs, p \in Phases :
          <<s, p>> \in rejudge'[q].todo => s \in disturbed'
    <3>1. \A q \in Rejudges : rejudge'[q].todo =
            IF q = r THEN {<<s, judgePhase[s]>> : s \in targets} ELSE rejudge[q].todo
      BY <2>1 DEF Base, TypeOK
    <3> QED BY <2>1, <3>1 DEF Origins
  <2> QED BY <1>13, <2>2 DEF StartRejudge, Origins, rows
<1>14. ASSUME NEW r \in Rejudges, NEW x, rejudge' = [rejudge EXCEPT ![r] = Remaining(r, x)]
       PROVE  \A q \in Rejudges : rejudge'[q].todo \subseteq rejudge[q].todo
  <2>1. Remaining(r, x).todo = rejudge[r].todo \ {x}
    BY DEF Remaining
  <2>2. \A q \in Rejudges : rejudge'[q] = IF q = r THEN Remaining(r, x) ELSE rejudge[q]
    BY <1>14 DEF Base, TypeOK
  <2> QED BY <2>1, <2>2
<1>15. ASSUME NEW r \in Rejudges, NEW s \in Subs, NEW p \in Phases, RejudgeOne(r, s, p) PROVE Origins'
  <2>1. \A q \in Rejudges : rejudge'[q].todo \subseteq rejudge[q].todo
    BY <1>14, <1>15 DEF RejudgeOne
  <2>2. \A q \in submitting : status'[q] = "ABSENT"
    <3>1. status[s] # "ABSENT"
      <4>1. <<s, p>> \in rejudge[r].todo
        BY <1>15 DEF RejudgeOne
      <4>2. <<s, p>>[1] = s
        OBVIOUS
      <4> QED BY <4>1, <4>2 DEF Base, RowsExist
    <3>2. submitting \subseteq Subs /\ status' = [status EXCEPT ![s] = "QUEUED"]
      BY <1>15 DEF RejudgeOne, Base, TypeOK
    <3> QED BY <1>0, <3>1, <3>2 DEF Origins, Typed
  <2> QED BY <1>15, <2>1, <2>2 DEF RejudgeOne, Origins
<1>16. ASSUME NEW m \in sends, LoseSend(m) PROVE Origins'
  BY <1>16 DEF LoseSend, Origins, rows, threads
<1>17. ASSUME NEW c \in calls, LoseCall(c) PROVE Origins'
  BY <1>17 DEF LoseCall, Origins, rows, threads
<1>18. ASSUME NEW c \in calls, GiveUp(c) PROVE Origins'
  <2>1. c \in Call_
    BY <1>0 DEF Typed
  <2>2. Advance(c, [c EXCEPT !.waited = FALSE])
    BY <1>18 DEF GiveUp
  <2>3. \A e \in calls' : \E tests \in TestSets : e.verdict \in Outcome[e.sub][tests]
    BY <1>0, <2>1, <2>2, CallFields, CallOrigins
  <2> QED BY <1>18, <2>3 DEF GiveUp, Origins, rows, threads
<1>19. ASSUME NEW s \in Subs, CrashWorker(s) PROVE Origins'
  <2>1. \A c \in calls : /\ [c EXCEPT !.waited = FALSE].sub = c.sub
                         /\ [c EXCEPT !.waited = FALSE].verdict = c.verdict
    BY <1>0, CallFields DEF Typed
  <2>2. \A d \in calls' : \E c \in calls : d.sub = c.sub /\ d.verdict = c.verdict
    BY <1>19, <2>1 DEF CrashWorker
  <2> QED BY <1>19, <2>2 DEF CrashWorker, Origins, rows, threads
<1>20. ASSUME CrashBackend PROVE Origins'
  BY <1>20 DEF CrashBackend, Origins
<1>21. ASSUME NEW t \in Transitions, NEW s \in Subs, FailMove(t, s) PROVE Origins'
  <2>1. \A u \in Transitions :
          /\ transition'[u].todo \subseteq transition[u].todo
          /\ transition'[u].pc # "run" => transition'[u].todo = {}
    BY <1>11, <1>21 DEF FailMove
  <2> QED BY <1>21, <2>1 DEF FailMove, Origins, rows
<1>22. ASSUME NEW r \in Rejudges, NEW s \in Subs, NEW p \in Phases, FailRejudge(r, s, p) PROVE Origins'
  <2>1. \A q \in Rejudges : rejudge'[q].todo \subseteq rejudge[q].todo
    BY <1>14, <1>22 DEF FailRejudge
  <2> QED BY <1>22, <2>1 DEF FailRejudge, Origins, rows
<1>23. ASSUME UNCHANGED vars PROVE Origins'
  BY <1>23 DEF vars, Origins, rows, threads
<1> QED
  BY <1>1, <1>2, <1>3, <1>4, <1>5, <1>6, <1>7, <1>8, <1>9, <1>10, <1>12, <1>13, <1>15, <1>16,
     <1>17, <1>18, <1>19, <1>20, <1>21, <1>22, <1>23
  DEF Next, Submit, Callback, Faulty

(* ------------------------------ Theorems ------------------------------- *)

LEMMA InitIInv == Init => IInv
<1> SUFFICES ASSUME Init PROVE IInv
  OBVIOUS
<1>1. Origins
  BY DEF Init, Origins
<1>2. ASSUME NEW s \in Subs PROVE FullyJudged(s) /\ TrustedRow(s)
  <2>1. /\ status[s] = "ABSENT" /\ judgePhase[s] = "NONE" /\ wrongAttempts[s] = 0 /\ announced[s] = 0
        /\ sends = {} /\ calls = {} /\ job[s].state = "none"
        /\ \A t \in Transitions : transition[t].todo = {}
    BY DEF Init, NoJob
  <2>2. FitsPhase(s) /\ OneReport(s) /\ Chosen(s)
    BY <2>1 DEF FitsPhase, OneReport, Chosen, Verdicts
  <2>3. Counted(s)
    BY <2>1 DEF Counted, PhasesEntered
  <2> QED BY <2>1, <2>2, <2>3 DEF FullyJudged, TrustedRow
<1> QED BY <1>1, <1>2, InitBase DEF IInv

LEMMA NextIInv == IInv /\ [Next]_vars => IInv'
<1> SUFFICES ASSUME IInv, [Next]_vars PROVE IInv'
  OBVIOUS
<1>1. Base'
  BY NextType, NextRows, NextCalls DEF IInv, Base
<1>2. Origins'
  BY NextOrigins DEF IInv
<1>3. \A s \in Subs : FullyJudged(s)' /\ TrustedRow(s)'
  BY NextRow DEF IInv
<1> QED BY <1>1, <1>2, <1>3 DEF IInv

LEMMA InductiveInvariant == Spec => []IInv
BY InitIInv, NextIInv, PTL DEF Spec

\* A stored verdict is one of judging on the test cases of the row's phase,
\* unless a contest row was rejudged or its report may have been repeated.
THEOREM VerdictsBacked == Spec => []VerdictBacked
<1>1. IInv => VerdictBacked
  <2> SUFFICES ASSUME IInv, NEW s \in Subs, status[s] \in Verdicts,
                      s \in disturbed => judgePhase[s] = "PRACTICE"
               PROVE  status[s] \in Outcome[s][TestsFor(judgePhase[s])]
    BY DEF VerdictBacked
  <2>1. CASE s \in disturbed
    BY <2>1 DEF IInv, FullyJudged, TestsFor
  <2>2. CASE s \notin disturbed
    BY <2>2 DEF IInv, TrustedRow, FitsPhase
  <2> QED BY <2>1, <2>2
<1> QED BY <1>1, InductiveInvariant, PTL

\* One judge phase of an undisturbed row counts at most one wrong attempt and
\* announces at most one acceptance.
THEOREM ReportedAtMostOnce == Spec => []ReportedOnce
<1>1. IInv => ReportedOnce
  BY DEF IInv, TrustedRow, Counted, PhasesEntered, ReportedOnce
<1> QED BY <1>1, InductiveInvariant, PTL

\* A row's judge phase moves from the first contest phase to the second only,
\* and the row is queued by the step that moves it.
THEOREM PhasesOnlyForward == Spec => PhaseForward
<1> DEFINE Forward ==
      \A s \in Subs :
        judgePhase'[s] # judgePhase[s] =>
          /\ <<judgePhase[s], judgePhase'[s]>> \in
               {<<"NONE", PhaseOnCreate(s)>>, <<"CONTEST_PHASE1", "CONTEST_PHASE2">>}
          /\ status'[s] = "QUEUED"
<1>1. IInv /\ [Next]_vars => [Forward]_vars
  <2> SUFFICES ASSUME IInv, Next PROVE Forward
    OBVIOUS
  <2>0. Typed /\ Origins /\ RowsExist
    BY BaseTyped DEF IInv, Base
  <2>1. ASSUME NEW s \in Subs, CreateSubmission(s) PROVE Forward
    <3>1. judgePhase[s] = "NONE"
      BY <2>0, <2>1 DEF CreateSubmission, Origins, RowsExist
    <3>2. \A q \in Subs : judgePhase'[q] = IF q = s THEN PhaseOnCreate(s) ELSE judgePhase[q]
      BY <2>0, <2>1 DEF CreateSubmission, Typed
    <3>3. status'[s] = "QUEUED"
      BY <2>0, <2>1 DEF CreateSubmission, Typed
    <3> QED BY <3>1, <3>2, <3>3
  <2>2. ASSUME NEW t \in Transitions, NEW s \in Subs, MoveToPhase2(t, s) PROVE Forward
    <3>1. judgePhase[s] \in {"CONTEST_PHASE1", "CONTEST_PHASE2"}
      BY <2>0, <2>2 DEF MoveToPhase2, Origins
    <3>2. \A q \in Subs : judgePhase'[q] = IF q = s THEN "CONTEST_PHASE2" ELSE judgePhase[q]
      BY <2>0, <2>2 DEF MoveToPhase2, Typed
    <3>3. status'[s] = "QUEUED"
      BY <2>0, <2>2 DEF MoveToPhase2, Typed
    <3> QED BY <3>1, <3>2, <3>3
  <2>3. CASE UNCHANGED judgePhase
    BY <2>3
  <2> QED
    BY <2>1, <2>2, <2>3
    DEF Next, Submit, Callback, Faulty, CheckWindow, TakeJob, Judge, Enqueue, ReadCurrent,
        WriteVerdict, Reply, EndContest, StartTransition, RetryTransition, StartRejudge,
        RejudgeOne, LoseSend, LoseCall, GiveUp, CrashWorker, CrashBackend, FailMove,
        FailRejudge, rows
<1> QED BY <1>1, InductiveInvariant, PTL DEF Spec, PhaseForward

(* ----------------------------- Refinement ------------------------------ *)

\* A step that changes no row may at most disturb some.
LEMMA RowsUnchanged ==
    UNCHANGED <<status, judgePhase>> /\ disturbed \subseteq disturbed' => Abstract!Next
BY DEF Abstract!Next, Abstract!Distrust

\* The write of a verdict.
LEMMA WriteImplements ==
    ASSUME IInv, NEW c \in calls, WriteVerdict(c)
    PROVE  Abstract!Judge(c.sub) \/ Abstract!Unreliable(c.sub)
<1> DEFINE s == c.sub
<1>0. Typed /\ s \in Subs
  BY BaseTyped DEF IInv, Typed
<1>1. /\ status' = [status EXCEPT ![s] = c.verdict]
      /\ UNCHANGED <<judgePhase, disturbed>> /\ c.pc = "write"
  BY DEF WriteVerdict
<1>2. CASE s \in disturbed
  <2>1. status[s] # "ABSENT"
    BY DEF IInv, Base, RowsExist
  <2>2. PICK tests \in TestSets : c.verdict \in Outcome[s][tests]
    BY DEF IInv, Origins
  <2> QED BY <1>1, <1>2, <2>1, <2>2 DEF Abstract!Unreliable, Abstract!TestSets, TestSets
<1>3. CASE s \notin disturbed
  <2>1. FitsPhase(s) /\ OneReport(s)
    BY <1>0, <1>3 DEF IInv, TrustedRow
  <2>2. status[s] = "QUEUED" /\ c.phase = judgePhase[s]
    BY <1>1, <2>1 DEF OneReport
  <2>3. c.verdict \in Outcome[s][TestsFor(judgePhase[s])]
    BY <2>1, <2>2 DEF FitsPhase
  <2> QED BY <1>0, <1>1, <1>3, <2>2, <2>3 DEF Abstract!Judge, Abstract!TestsFor, TestsFor
<1> QED BY <1>2, <1>3

\* Every step is a step of the abstract specification.
LEMMA NextImplements == IInv /\ Next => Abstract!Next
<1> SUFFICES ASSUME IInv, Next PROVE Abstract!Next
  OBVIOUS
<1>0. Typed /\ Origins /\ RowsExist
  BY BaseTyped DEF IInv, Base
<1>1. ASSUME NEW s \in Subs, CreateSubmission(s) PROVE Abstract!Next
  <2>1. status[s] = "ABSENT"
    BY <1>0, <1>1 DEF CreateSubmission, Origins
  <2>2. Abstract!Submit(s)
    BY <1>1, <2>1 DEF CreateSubmission, Abstract!Submit, Abstract!PhaseOnCreate, PhaseOnCreate
  <2> QED BY <2>2 DEF Abstract!Next
<1>2. ASSUME NEW c \in calls, WriteVerdict(c) PROVE Abstract!Next
  <2>1. c.sub \in Subs
    BY <1>0 DEF Typed
  <2> QED BY <1>2, <2>1, WriteImplements DEF Abstract!Next
<1>3. ASSUME NEW t \in Transitions, NEW s \in Subs, MoveToPhase2(t, s) PROVE Abstract!Next
  <2>1. s \in transition[t].todo
    BY <1>3 DEF MoveToPhase2
  <2>2. judgePhase[s] # "PRACTICE" /\ status[s] # "ABSENT"
    BY <1>0, <2>1 DEF Origins, RowsExist
  <2>3. s \notin disturbed => judgePhase[s] = "CONTEST_PHASE1" /\ status[s] = "ACCEPTED"
    BY <2>1 DEF IInv, TrustedRow, Chosen
  <2>4. Abstract!Promote(s)
    BY <1>3, <2>2, <2>3 DEF MoveToPhase2, Abstract!Promote
  <2> QED BY <2>4 DEF Abstract!Next
<1>4. ASSUME NEW r \in Rejudges, NEW s \in Subs, NEW p \in Phases, RejudgeOne(r, s, p)
      PROVE  Abstract!Next
  <2>1. <<s, p>> \in rejudge[r].todo /\ <<s, p>>[1] = s
    BY <1>4 DEF RejudgeOne
  <2>2. s \in disturbed /\ status[s] # "ABSENT"
    BY <1>0, <2>1 DEF Origins, RowsExist
  <2>3. Abstract!Unreliable(s)
    BY <1>4, <2>2 DEF RejudgeOne, Abstract!Unreliable
  <2> QED BY <2>3 DEF Abstract!Next
<1>5. CASE UNCHANGED <<status, judgePhase>> /\ disturbed \subseteq disturbed'
  BY <1>5, RowsUnchanged
<1> QED
  BY <1>1, <1>2, <1>3, <1>4, <1>5
  DEF Next, Submit, Callback, Faulty, CheckWindow, TakeJob, Judge, Enqueue, ReadCurrent,
      Reply, EndContest, StartTransition, RetryTransition, StartRejudge, LoseSend, LoseCall,
      GiveUp, CrashWorker, CrashBackend, FailMove, FailRejudge, rows

\* The queue, the callbacks, the transition and the rejudge together implement
\* the abstract specification of judging.
THEOREM JudgingImplemented == Spec => ImplementsJudging
<1>1. Init => Abstract!Init
  BY DEF Init, Abstract!Init
<1>2. IInv /\ [Next]_vars => [Abstract!Next]_(Abstract!vars)
  BY NextImplements DEF vars, rows, Abstract!vars
<1> QED BY <1>1, <1>2, InductiveInvariant, PTL DEF Spec, ImplementsJudging, Abstract!Spec
=============================================================================
