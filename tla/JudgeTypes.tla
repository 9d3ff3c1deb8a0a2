----------------------------- MODULE JudgeTypes -----------------------------
(***************************************************************************)
(* What the judging specifications share: the submissions, the values a    *)
(* row's status and judge phase take, and the result of judging as a       *)
(* function of the submission and of the test cases it is judged on.       *)
(***************************************************************************)

CONSTANTS
    Subs,           \* submissions
    PracticeSubs,   \* those made outside a contest or in a practice contest
    Outcome         \* Outcome[s][tests]: the verdicts judging s may end in

TestSets == {"samples", "all"}
\* The final verdicts the worker reports; the other ones of the schema's
\* SubmissionStatus are never written.
Verdicts == {"ACCEPTED", "WRONG_ANSWER", "MLE"}
Phases   == {"PRACTICE", "CONTEST_PHASE1", "CONTEST_PHASE2"}

\* The phase a new row gets, and the test cases a phase stands for.
PhaseOnCreate(s) == IF s \in PracticeSubs THEN "PRACTICE" ELSE "CONTEST_PHASE1"
TestsFor(phase) == IF phase = "CONTEST_PHASE1" THEN "samples" ELSE "all"

ASSUME SubsAssumption == PracticeSubs \subseteq Subs
ASSUME OutcomeAssumption ==
    /\ Outcome \in [Subs -> [TestSets -> SUBSET Verdicts]]
    /\ \A s \in Subs, t \in TestSets : Outcome[s][t] # {}

=============================================================================
