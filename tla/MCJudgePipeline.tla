-------------------------- MODULE MCJudgePipeline --------------------------
(* Values for the constants of JudgePipeline.                              *)
EXTENDS JudgePipeline, TLC

CONSTANTS s1, s2

\* s1 passes the samples and fails the full tests, s2 passes both.
MCOutcome ==
    [s \in Subs |-> [t \in TestSets |->
        IF s = s2 \/ t = "samples" THEN {"ACCEPTED"} ELSE {"WRONG_ANSWER"}]]

Symmetric == Permutations(Slots)
=============================================================================
