--------------------------- MODULE MCLeaderboard ---------------------------
(* Values for the constants of Leaderboard: one user with two submissions  *)
(* for one problem and one for another: everything an update reads and     *)
(* writes is of one user.  TLC explores two instances of it: every         *)
(* submission with two updates at a time and one freeze job, undisturbed,  *)
(* and the submissions for one problem, one update at a time, with a       *)
(* restart, an untrusted row and both deliveries of the freeze job.        *)
EXTENDS Leaderboard, TLC

CONSTANTS a1, a2, b1, u1, p1, p2, f1

VARIABLE explored

MCOutcome == [s \in Subs |-> [t \in TestSets |->
                IF s = a2 THEN {"ACCEPTED", "WRONG_ANSWER"} ELSE {"ACCEPTED"}]]
MCUserOf == [s \in Subs |-> u1]
MCProblemOf == [s \in Subs |-> IF s = b1 THEN p2 ELSE p1]
MCPoints == [p \in Problems |-> IF p = p1 THEN 1 ELSE 2]

Undisturbed == crashes' = 0 /\ trusted' = Subs /\ \A f \in FreezeRuns \ {f1} : freeze'[f].pc = "idle"
OneProblem == status'[b1] = "ABSENT" /\ Cardinality(Running') <= 1

MCInit == Init /\ explored \in {"problems", "restarts"}

MCNext ==
    /\ Next /\ UNCHANGED explored
    /\ explored = "problems" => Undisturbed
    /\ explored = "restarts" => OneProblem

MCSpec == MCInit /\ [][MCNext]_<<vars, explored>>

Symmetric == Permutations(Handlers)
=============================================================================
