-------------------------- MODULE MCServicesLive --------------------------
(***************************************************************************)
(* Small instances of three services whose progress matters - the rating   *)
(* jobs, the accounts and the workbench - and of the pages with a user's   *)
(* numbers.  They share no state, so that a behaviour of them together is  *)
(* one behaviour of each: TLC explores every behaviour of one while the    *)
(* others wait in their initial states, in which none of their fair        *)
(* actions can be taken.                                                   *)
(***************************************************************************)
EXTENDS RatingJob, Accounts, Workbench, Statistics, TLC

CONSTANTS u1, u2, u3, c1, c2, s1, s2, s3, i1, q1, q2

VARIABLE explored

MCStanding == (c1 :> <<u1, u2, u3>>) @@ (c2 :> <<u2, u1>>)
MCExpected(a, b) == ClampTo(0, 50 + (a - b) \div 7, 100)
MCContestOf == (s1 :> c1) @@ (s2 :> c1) @@ (s3 :> c2)
MCCodeOf == (s1 :> 1) @@ (s2 :> 1) @@ (s3 :> 1)
MCIpOf == [b \in Browsers |-> i1]
MCDifficulty == (q1 :> "EASY") @@ (q2 :> "HARD")
MCGoals == [submissions |-> {1, 2}, solved |-> {1, 2}, ofDifficulty |-> {1}, streak |-> {2}]
MCGains == {-60, 120}

\* BOUND: who has entered a second contest has one submission.
FewRows == Len(entered') > 1 => Len(submissions') <= 1

MCInit ==
    /\ explored \in {"ratings", "accounts", "workbench", "statistics"}
    /\ RatingInit /\ AccountInit /\ BenchInit /\ StatInit

MCNext ==
    /\ UNCHANGED explored
    /\ \/ explored = "ratings" /\ RatingNext /\ UNCHANGED <<accountVars, benchVars, statVars>>
       \/ explored = "accounts" /\ AccountNext /\ UNCHANGED <<ratingVars, benchVars, statVars>>
       \/ explored = "workbench" /\ BenchNext /\ UNCHANGED <<ratingVars, accountVars, statVars>>
       \/ explored = "statistics" /\ StatNext /\ FewRows /\ UNCHANGED <<ratingVars, accountVars, benchVars>>

MCSpec ==
    /\ MCInit /\ [][MCNext]_<<explored, ratingVars, accountVars, benchVars, statVars>>
    /\ RatingFairness /\ AccountFairness /\ BenchFairness

\* Every variable has its type; BullMQ makes at most three attempts at a rating job,
\* and a cookie names a stored session.
ServicesLiveTypeOK == RatingTypeOK /\ AccountTypeOK /\ BenchTypeOK /\ StatTypeOK
===========================================================================
