------------------------- MODULE MCContestSchedule -------------------------
(* Values for the constants of ContestSchedule: a rated contest from time 1 *)
(* to time 3 with a freeze at time 2; a form can take the freeze away.     *)
EXTENDS ContestSchedule

MCPlans == {[start |-> 1, end |-> 3, freeze |-> 2,
             isRated |-> TRUE, isPractice |-> FALSE, registrationOpen |-> TRUE]}
=============================================================================
