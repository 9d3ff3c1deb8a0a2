----------------------------- MODULE RatingJob -----------------------------
(***************************************************************************)
(* What happens three days after a rated contest: a job of the queue       *)
(* "ratings" asks the backend to calculate the ratings and then compares   *)
(* the accepted submissions for plagiarism.  An administrator may ask for  *)
(* the same calculation at any time.  The handler reads the participants'  *)
(* ratings one by one and stores all changes in one transaction; a lost    *)
(* response makes BullMQ run the job again while the handler goes on.      *)
(*                                                                         *)
(* Ratings are whole numbers.  The expected score of one rating against    *)
(* another, a power of ten in the code, is the parameter Expected, in      *)
(* hundredths.                                                             *)
(***************************************************************************)
EXTENDS Integers, Sequences, FiniteSets, FiniteSetsExt, Functions

CONSTANTS
    Contests,           \* rated contests that have ended
    Standing,           \* the users of each contest by points and problems solved
    Expected(_, _),     \* expectedScore, in hundredths
    Accepted,           \* accepted submissions of these contests
    ContestOf, CodeOf,  \* the contest and the normalised code of each
    Calls,              \* slots for running calculate-ratings handlers
    CheckConfigured,    \* whether WORKER_URL and BACKEND_URL are set for the worker
    MaxRequests,        \* BOUND: calculations administrators ask for
    MaxRatingFaults     \* BOUND: lost responses, failed checks, worker restarts

Rated == UNION {Range(Standing[c]) : c \in Contests}    \* the users

ASSUME RatingAssumption ==
    /\ IsFiniteSet(Contests)
    /\ \A c \in Contests : Standing[c] \in Seq(Rated) /\ IsInjective(Standing[c])
    /\ ContestOf \in [Accepted -> Contests]
    /\ DOMAIN CodeOf = Accepted
    /\ CheckConfigured \in BOOLEAN
    /\ {MaxRequests, MaxRatingFaults} \subseteq Nat

VARIABLES
    userRatings,    \* rows of UserRating in the order created
    calls,          \* running handlers
    ratingJobs,     \* the rating job of each contest
    reports,        \* how many PlagiarismReport rows a pair of submissions has
    requests,       \* calculations administrators asked for
    ratingFaults,
    checked,        \* history: contests whose submissions were compared
    missed,         \* history: contests whose job met a fault or an administrator's request
    overlapped      \* history: contests whose calculation ran beside another contest's

stored == <<userRatings, reports, checked>>
history == <<requests, ratingFaults, missed, overlapped>>
ratingVars == <<stored, calls, ratingJobs, history>>

DefaultRating == 1500
MaxDelta == 120
RatingAttempts == 3
NoCall == [pc |-> "none"]

Pairs == {p \in Accepted \X Accepted : p[1] # p[2]}

-----------------------------------------------------------------------------
(* The arithmetic.                                                         *)

ClampTo(low, x, high) == IF x < low THEN low ELSE IF x > high THEN high ELSE x

\* Math.round of n / d: to the nearest, halves upwards.
Rounded(n, d) == (2 * n + d) \div (2 * d)

\* computeDelta, with expectedRank in hundredths; a rating below 1500 scales it up.
Delta(actualRank, expectedRank, rating, participants) ==
    LET raw == (expectedRank - 100 * actualRank) * 200
        divisor == 100 * participants
        low == IF rating < 1 THEN 1 ELSE rating
        scaled == IF low < DefaultRating THEN Rounded(raw * DefaultRating, divisor * low)
                                         ELSE Rounded(raw, divisor)
    IN ClampTo(-MaxDelta, scaled, MaxDelta)

\* expectedRank: the sum runs over all ratings, the user's own among them.
ExpectedRank(known, i) ==
    100 + SumFunction([j \in DOMAIN known |-> Expected(known[i], known[j])])

Deltas(known) ==
    [i \in DOMAIN known |-> Delta(i, ExpectedRank(known, i), known[i], Len(known))]

\* Mutant: the rounding is not redistributed.
BalancedNever(deltas) == deltas

\* "Ensure total delta sum is zero": all that is missing goes to the first user.
Balanced(deltas) ==
    [deltas EXCEPT ![1] = @ - SumFunction(deltas)]

\* The rows stored for contest c from the ratings known when its handler read them.
Changes(c, known) ==
    LET deltas == Balanced(Deltas(known)) IN
    [i \in DOMAIN known |->
        [user |-> Standing[c][i], contest |-> c, before |-> known[i],
         after |-> known[i] + deltas[i]]]

\* getCurrentRating: the user's last row.
CurrentRating(u) ==
    LET mine == {i \in DOMAIN userRatings : userRatings[i].user = u} IN
    IF mine = {} THEN DefaultRating ELSE userRatings[Max(mine)].after

-----------------------------------------------------------------------------
(* The handler handleCalculateRatings.                                     *)

\* A handler starts for contest c beside the running ones.
Beside(c) ==
    LET others == {calls[k].contest : k \in {l \in Calls : calls[l].pc # "none"}} \ {c} IN
    IF others = {} THEN overlapped ELSE overlapped \union others \union {c}

\* A call reads the entries, and is refused if there are fewer than two; by is who waits.
BeginCall(k, c, by) ==
    /\ calls[k].pc = "none"
    /\ calls' = [calls EXCEPT ![k] = [pc |-> IF Len(Standing[c]) < 2 THEN "error" ELSE "read",
                                     contest |-> c, by |-> by, known |-> <<>>]]
    /\ overlapped' = Beside(c)

\* The awaited findFirst for the next participant.
ReadRating(k) ==
    /\ calls[k].pc = "read"
    /\ LET next == Len(calls[k].known) + 1
           c == calls[k].contest
           known == Append(calls[k].known, CurrentRating(Standing[c][next]))
       IN calls' = [calls EXCEPT ![k].known = known,
                                 ![k].pc = IF next = Len(Standing[c]) THEN "store" ELSE "read"]
    /\ UNCHANGED <<stored, ratingJobs, history>>

\* Mutant: rows are created whether or not the contest has some already.
RefusedNever(c) == FALSE

\* Mutant: the key is the user alone.
RefusedByUser(c) == \E i \in DOMAIN userRatings : userRatings[i].user \in Range(Standing[c])

\* The unique key of userId and contestId makes the transaction fail.
Refused(c) == \E i \in DOMAIN userRatings : userRatings[i].contest = c

\* The transaction; the handler answers.
StoreRatings(k) ==
    /\ calls[k].pc = "store"
    /\ LET c == calls[k].contest IN
       /\ calls' = [calls EXCEPT ![k].pc = IF Refused(c) THEN "error" ELSE "ok"]
       /\ userRatings' = IF Refused(c) THEN userRatings
                                       ELSE userRatings \o Changes(c, calls[k].known)
    /\ UNCHANGED <<ratingJobs, reports, checked, history>>

\* An administrator's own call.
RequestRatings(k, c) ==
    /\ requests < MaxRequests
    /\ BeginCall(k, c, "administrator")
    /\ requests' = requests + 1
    /\ missed' = missed \union {c}
    /\ UNCHANGED <<stored, ratingJobs, ratingFaults>>

-----------------------------------------------------------------------------
(* The rating worker, which runs one job at a time.                        *)

\* Mutant: the attempts are not limited.
AfterAttemptForever(j) == [j EXCEPT !.attempts = @ + 1, !.state = "waiting"]

\* BullMQ after a failed attempt.
AfterAttempt(j) == [j EXCEPT !.attempts = @ + 1,
                             !.state = IF j.attempts + 1 < RatingAttempts THEN "waiting" ELSE "failed"]

WorkerBusy == \E c \in Contests : ratingJobs[c].state \in {"calling", "checking"}

\* The delay of scheduleRatingJob passes.
RatingDue(c) ==
    /\ ratingJobs[c].state = "delayed"
    /\ ratingJobs' = [ratingJobs EXCEPT ![c].state = "waiting"]
    /\ UNCHANGED <<stored, calls, history>>

\* The processor calls calculate-ratings.
TakeRatingJob(k, c) ==
    /\ ratingJobs[c].state = "waiting" /\ ~WorkerBusy
    /\ BeginCall(k, c, "worker")
    /\ ratingJobs' = [ratingJobs EXCEPT ![c].state = "calling"]
    /\ UNCHANGED <<stored, requests, ratingFaults, missed>>

\* The answer arrives: the check follows a success, any other fails the attempt.
AnswerRatings(k) ==
    /\ calls[k].pc \in {"ok", "error"}
    /\ calls' = [calls EXCEPT ![k] = NoCall]
    /\ LET c == calls[k].contest IN
       ratingJobs' = IF calls[k].by # "worker" THEN ratingJobs
                     ELSE IF calls[k].pc = "ok" THEN [ratingJobs EXCEPT ![c].state = "checking"]
                     ELSE [ratingJobs EXCEPT ![c] = AfterAttempt(@)]
    /\ UNCHANGED <<stored, history>>

\* getContestSubmissions, as the check asks for it: the accepted ones.
AcceptedIn(c) == {s \in Accepted : ContestOf[s] = c}

\* Submissions with the same normalised code, in both orders, whoever wrote them.
Matches(c) ==
    {p \in AcceptedIn(c) \X AcceptedIn(c) : p[1] # p[2] /\ CodeOf[p[1]] = CodeOf[p[2]]}

\* handleWorkerUpdatePlagiarism creates a report for each match it is sent, whether or
\* not there is one already.
Filed(matches) == [p \in Pairs |-> reports[p] + IF p \in matches THEN 1 ELSE 0]

\* checkContestPlagiarism.
CheckPlagiarism(c) ==
    /\ ratingJobs[c].state = "checking"
    /\ CheckConfigured
    /\ reports' = Filed(Matches(c))
    /\ checked' = checked \union {c}
    /\ ratingJobs' = [ratingJobs EXCEPT ![c].state = "reported"]
    /\ UNCHANGED <<userRatings, calls, history>>

\* The check throws, which the processor only logs.
FailCheck(c) ==
    /\ ratingJobs[c].state = "checking"
    /\ ~CheckConfigured \/ ratingFaults < MaxRatingFaults
    /\ ratingFaults' = IF CheckConfigured THEN ratingFaults + 1 ELSE ratingFaults
    /\ missed' = missed \union {c}
    /\ ratingJobs' = [ratingJobs EXCEPT ![c].state = "completed"]
    /\ UNCHANGED <<stored, calls, requests, overlapped>>

\* The processor returns after the check.
CompleteRatingJob(c) ==
    /\ ratingJobs[c].state = "reported"
    /\ ratingJobs' = [ratingJobs EXCEPT ![c].state = "completed"]
    /\ UNCHANGED <<stored, calls, history>>

\* No running handler reports to a worker any more that waited for contest c.
Orphaned(c) == [k \in Calls |-> IF calls[k].pc # "none" /\ calls[k].contest = c /\ calls[k].by = "worker"
                                THEN [calls[k] EXCEPT !.by = "nobody"] ELSE calls[k]]

\* The response is lost or late; the handler goes on.
LoseRatings(c) ==
    /\ ratingJobs[c].state = "calling"
    /\ ratingFaults < MaxRatingFaults
    /\ ratingFaults' = ratingFaults + 1
    /\ missed' = missed \union {c}
    /\ calls' = Orphaned(c)
    /\ ratingJobs' = [ratingJobs EXCEPT ![c] = AfterAttempt(@)]
    /\ UNCHANGED <<stored, requests, overlapped>>

\* The worker restarts in the middle of a job: BullMQ finds it stalled, once.
RestartRatingWorker(c) ==
    /\ ratingJobs[c].state \in {"calling", "checking", "reported"}
    /\ ratingFaults < MaxRatingFaults
    /\ ratingFaults' = ratingFaults + 1
    /\ missed' = missed \union {c}
    /\ calls' = Orphaned(c)
    /\ ratingJobs' = [ratingJobs EXCEPT ![c].state = IF ratingJobs[c].stalled THEN "failed" ELSE "waiting",
                                        ![c].stalled = TRUE]
    /\ UNCHANGED <<stored, requests, overlapped>>

RatingInit ==
    /\ userRatings = <<>>
    /\ calls = [k \in Calls |-> NoCall]
    /\ ratingJobs = [c \in Contests |-> [state |-> "delayed", attempts |-> 0, stalled |-> FALSE]]
    /\ reports = [p \in Pairs |-> 0]
    /\ requests = 0 /\ ratingFaults = 0
    /\ checked = {} /\ missed = {} /\ overlapped = {}

RunCall == \E k \in Calls : ReadRating(k) \/ StoreRatings(k) \/ AnswerRatings(k)

RunRatingJob ==
    \E c \in Contests :
        \/ \E k \in Calls : TakeRatingJob(k, c)
        \/ CheckPlagiarism(c) \/ CompleteRatingJob(c)

DisturbRatings ==
    \E c \in Contests :
        \/ \E k \in Calls : RequestRatings(k, c)
        \/ RatingDue(c) \/ FailCheck(c) \/ LoseRatings(c) \/ RestartRatingWorker(c)

RatingNext == RunCall \/ RunRatingJob \/ DisturbRatings

\* Handlers and the worker go on; nothing makes a fault happen.
RatingFairness == WF_ratingVars(RunCall) /\ WF_ratingVars(RunRatingJob)

RatingSpec == RatingInit /\ [][RatingNext]_ratingVars /\ RatingFairness

-----------------------------------------------------------------------------
(* Properties.                                                             *)

Row == [user : Rated, contest : Contests, before : Int, after : Int]
Call == {NoCall} \union
        [pc : {"read", "store", "ok", "error"}, contest : Contests,
         by : {"worker", "administrator", "nobody"}, known : Seq(Int)]
RatingJob == [state : {"delayed", "waiting", "calling", "checking", "reported", "completed", "failed"},
              attempts : 0..RatingAttempts, stalled : BOOLEAN]

\* Every variable of the rating job has its type; BullMQ makes at most three attempts.
RatingTypeOK ==
    /\ userRatings \in Seq(Row)
    /\ calls \in [Calls -> Call]
    /\ ratingJobs \in [Contests -> RatingJob]
    /\ reports \in [Pairs -> Nat]
    /\ requests \in 0..MaxRequests /\ ratingFaults \in 0..MaxRatingFaults
    /\ {checked, missed, overlapped} \subseteq SUBSET Contests

\* A contest is rated once and as a whole: its rows are one block, one row for each
\* participant in the order of the standing, however often the job is run again beside
\* a handler that is still running or beside an administrator's call.
RatedWhole ==
    \A c \in Contests :
        LET mine == {i \in DOMAIN userRatings : userRatings[i].contest = c} IN
        mine = {} \/ \E n \in 0..Len(userRatings) :
            /\ mine = (n + 1)..(n + Len(Standing[c]))
            /\ \A i \in DOMAIN Standing[c] : userRatings[n + i].user = Standing[c][i]

\* The rows of a user are a chain: each starts at the rating the one before it
\* ended with, except between contests that were rated side by side.
Chained(i, j) ==
    LET a == userRatings[i]  b == userRatings[j] IN
    i < j /\ a.user = b.user /\ (\A k \in (i + 1)..(j - 1) : userRatings[k].user # a.user)
        => b.before = a.after \/ {a.contest, b.contest} \subseteq overlapped

FirstOfUser(j) ==
    (\A i \in 1..(j - 1) : userRatings[i].user # userRatings[j].user)
        => userRatings[j].before = DefaultRating

\* A user's rows start at the default rating and go on from each other, in whatever order
\* the calculations of the contests run, repeat or fail.
RatingsChained ==
    \A j \in DOMAIN userRatings :
        FirstOfUser(j) /\ \A i \in DOMAIN userRatings : Chained(i, j)

\* Each calculation starts from where the last one ended and gives what it takes:
\* a user's history is a chain, and the ratings of all users add up to what they
\* started with, unless two contests were rated side by side.
RatingHistory ==
    /\ RatingsChained
    /\ overlapped = {} =>
         SumFunction([u \in Rated |-> CurrentRating(u)]) = DefaultRating * Cardinality(Rated)

\* A pair of submissions is reported at most once, whatever is retried: the
\* check runs only after the one calculation that succeeded.
ReportedOncePerPair == \A p \in Pairs : reports[p] <= 1

\* Whatever is retried, asked for twice or left running, a contest is rated once and as
\* a whole, and its submissions are reported once.
RatedOnce == RatedWhole /\ ReportedOncePerPair

\* The submissions of a contest are compared in the end, unless its job met a
\* fault or an administrator asked for the ratings: the unique key then fails
\* every further attempt, before the check.
PlagiarismChecked ==
    []<>(\A c \in Contests :
            Len(Standing[c]) >= 2 /\ ratingJobs[c].state # "delayed"
                => c \in checked \union missed \/ ~CheckConfigured)
=============================================================================
