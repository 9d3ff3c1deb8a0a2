------------------------------ MODULE Judging ------------------------------
(***************************************************************************)
(* What judging promises, without queues, requests or handlers: a          *)
(* submission is queued, gets one verdict of the test cases its phase      *)
(* stands for, and an accepted one of a contest is queued a second time    *)
(* for the official verdict on all tests.                                  *)
(*                                                                         *)
(* The promise is made for the trusted rows.  A row stops being trusted    *)
(* when it is rejudged, when a report of its verdict is repeated or when   *)
(* the phase transition is delivered twice; from then on any verdict       *)
(* judging may give can be written at any time.                            *)
(***************************************************************************)
EXTENDS JudgeTypes

VARIABLES status, judgePhase, trusted
vars == <<status, judgePhase, trusted>>

Init ==
    /\ status = [s \in Subs |-> "ABSENT"]
    /\ judgePhase = [s \in Subs |-> "NONE"]
    /\ trusted = Subs

Submit(s) ==
    /\ status[s] = "ABSENT"
    /\ status' = [status EXCEPT ![s] = "QUEUED"]
    /\ judgePhase' = [judgePhase EXCEPT ![s] = PhaseOnCreate(s)]
    /\ UNCHANGED trusted

\* The one verdict of a phase.
Judge(s) ==
    /\ s \in trusted /\ status[s] = "QUEUED"
    /\ \E v \in Outcome[s][TestsFor(judgePhase[s])] : status' = [status EXCEPT ![s] = v]
    /\ UNCHANGED <<judgePhase, trusted>>

\* The second phase is for rows the first one accepted.
Promote(s) ==
    /\ judgePhase[s] # "PRACTICE" /\ status[s] # "ABSENT"
    /\ s \in trusted => judgePhase[s] = "CONTEST_PHASE1" /\ status[s] = "ACCEPTED"
    /\ judgePhase' = [judgePhase EXCEPT ![s] = "CONTEST_PHASE2"]
    /\ status' = [status EXCEPT ![s] = "QUEUED"]
    /\ UNCHANGED trusted

\* A row not trusted may be queued again, or get a verdict at any time, on
\* either set of test cases.
Unreliable(s) ==
    /\ s \notin trusted /\ status[s] # "ABSENT"
    /\ \E v \in {"QUEUED"} \cup UNION {Outcome[s][t] : t \in TestSets} :
         status' = [status EXCEPT ![s] = v]
    /\ UNCHANGED <<judgePhase, trusted>>

Distrust ==
    /\ trusted' \in SUBSET trusted
    /\ UNCHANGED <<status, judgePhase>>

Next == (\E s \in Subs : Submit(s) \/ Judge(s) \/ Promote(s) \/ Unreliable(s)) \/ Distrust

Spec == Init /\ [][Next]_vars

=============================================================================
