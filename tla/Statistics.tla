----------------------------- MODULE Statistics -----------------------------
(***************************************************************************)
(* What /api/me and /api/profile/:username show of one user.  Submissions  *)
(* are posted day by day, judged later in any order and rejudged; contests *)
(* are entered, left before they begin, and rated.  Both handlers compute  *)
(* their page from the rows, each with code of its own: /api/me from every *)
(* submission but with the calendar of one year, the profile from every    *)
(* submission but with the verdicts of the latest twenty.                  *)
(*                                                                         *)
(* The queries of one page are read at one moment.  Tags, languages, the   *)
(* colours of a tier and the lists of rows are left out.                   *)
(***************************************************************************)
EXTENDS Integers, FiniteSets, Sequences, SequencesExt, FiniteSetsExt

CONSTANTS
    Problems, DifficultyOf,
    Goals,          \* the numbers in the badges' conditions
    Tiers,          \* the ratings at which the tiers of getRankTier begin
    RecentLimit,    \* the submissions a page lists: 20
    YearDays,       \* the days of oneYearAgo
    Rivals,         \* the other users
    FirstRating,    \* the rating before the first rated contest
    Gains,          \* the rating changes of a contest
    MaxSent, MaxRejudges, MaxRated, MaxDay     \* BOUNDS

ASSUME StatAssumption ==
    /\ DifficultyOf \in [Problems -> {"EASY", "MEDIUM", "HARD"}]
    /\ Goals \in [submissions : SUBSET Nat, solved : SUBSET Nat, ofDifficulty : SUBSET Nat,
                  streak : SUBSET Nat]
    /\ IsFiniteSet(Rivals)
    /\ RecentLimit \in Nat /\ YearDays \in Nat
    /\ FirstRating \in Int /\ Gains \subseteq Int

VARIABLES
    day,
    submissions,          \* the user's submissions in the order of createdAt
    rejudged,
    myRows,         \* the user's UserRating rows, oldest first
    rivalRows,      \* ratingAfter of everyone else's rows
    entered         \* the user's LeaderboardEntry rows: isRated, rank, and whether
                    \* the contest has begun

statVars == <<day, submissions, rejudged, myRows, rivalRows, entered>>

NoRating == -1      \* a rating or a rank that is null

-----------------------------------------------------------------------------
(* The numbers.                                                            *)

DaysOf(rows) == {rows[i].day : i \in DOMAIN rows}

\* Mutant: a day is expected to be the one after.
MatchesTomorrow(d, i) == d = day - i + 2

\* Whether the i-th latest day is the one the loop expects: i - 1 days ago.
MatchesDay(d, i) == d = day - i + 1

\* calculateStreak over the days with a submission, the latest first.
Streak(days) ==
    LET Latest(i) == CHOOSE d \in days : Cardinality({e \in days : e >= d}) = i
        after[i \in 0..Cardinality(days)] ==
            IF i = 0 THEN [streak |-> 0, current |-> 0, longest |-> 0]
            ELSE LET s == after[i - 1]
                     streak == IF MatchesDay(Latest(i), i) THEN s.streak + 1 ELSE 1
                 IN  [streak |-> streak,
                      current |-> IF i = 1 THEN streak ELSE s.current,
                      longest |-> IF streak = 1 THEN Max({s.longest, s.streak}) ELSE s.longest]
        done == after[Cardinality(days)]
    IN  [current |-> done.current, longest |-> Max({done.longest, done.streak})]

AcceptedOf(rows) == {i \in DOMAIN rows : rows[i].status = "ACCEPTED"}

\* Problems with an accepted submission (distinct: ["problemId"]).
Solved == {submissions[i].problem : i \in AcceptedOf(submissions)}
Breakdown(d) == Cardinality({p \in Solved : DifficultyOf[p] = d})

\* Math.round of part / whole in percent.
Percent(part, whole) == (200 * part + whole) \div (2 * whole)
Rate(accepted) == IF submissions = <<>> THEN 0 ELSE Percent(accepted, Len(submissions))

CurrentRow == IF myRows = <<>> THEN NoRating ELSE Last(myRows).after
HighestRow == IF myRows = <<>> THEN NoRating ELSE Max({myRows[i].after : i \in DOMAIN myRows})
Climb == IF myRows = <<>> THEN 0 ELSE Last(myRows).after - Head(myRows).before

\* The heat map: the submissions of each day, and the accepted ones among them.
Heat(days) ==
    [d \in days |->
        LET sent == {i \in DOMAIN submissions : submissions[i].day = d}
        IN  [count |-> Cardinality(sent),
             accepted |-> Cardinality(sent \intersect AcceptedOf(submissions))]]

\* getRankTier, the tiers numbered from 0 for the unrated.
RankTier(rating) ==
    IF rating = NoRating THEN 0 ELSE 1 + Cardinality({t \in Tiers : t <= rating})

\* The rank column of an entry is never written by any handler.
Performance ==
    LET ranks == {entered[i].rank : i \in {j \in DOMAIN entered : entered[j].isRated}} \ {NoRating}
    IN  [totalRated |-> Cardinality({i \in DOMAIN entered : entered[i].isRated}),
         bestRank |-> IF ranks = {} THEN NoRating ELSE Min(ranks)]

\* The badges of one kind that a count has earned.
Reached(id, count, goals) == {<<id, g>> : g \in {h \in goals : count >= h}}

\* The badges of the three difficulties.
ReachedByDifficulty == UNION {Reached(d, Breakdown(d), Goals.ofDifficulty) : d \in {"EASY", "MEDIUM", "HARD"}}

\* The conditions of BADGES.
Badges(accepted, streak) ==
    Reached("submissions", Len(submissions), Goals.submissions)
      \union Reached("accepted", accepted, {1})
      \union Reached("solved", Cardinality(Solved), Goals.solved)
      \union ReachedByDifficulty
      \union Reached("streak", streak.current, Goals.streak)
      \union Reached("contests", Len(entered), {1})
      \union Reached("climb", Climb, {1})

\* The share of users, in percent, left after one is taken off for every rating row
\* above the user's current rating.
Percentile ==
    LET total == Cardinality(Rivals) + 1
        higher == Cardinality({i \in DOMAIN rivalRows : rivalRows[i] > CurrentRow})
                    + Cardinality({i \in DOMAIN myRows : myRows[i].after > CurrentRow})
    IN  IF myRows = <<>> THEN NoRating ELSE Percent(total - higher, total)

-----------------------------------------------------------------------------
(* The pages.                                                              *)

\* What both pages show, from the accepted submissions counted and the days looked at.
PageOf(accepted, days) ==
    [currentRating |-> CurrentRow, maxRating |-> HighestRow, ratingDelta |-> Climb,
     tier |-> RankTier(CurrentRow),
     totalSubmissions |-> Len(submissions), acceptedCount |-> accepted,
     acceptanceRate |-> Rate(accepted), solvedCount |-> Cardinality(Solved),
     breakdown |-> [d \in {"EASY", "MEDIUM", "HARD"} |-> Breakdown(d)],
     contestsEntered |-> Len(entered), performance |-> Performance,
     heatmap |-> Heat(days), streak |-> Streak(days),
     badges |-> Badges(accepted, Streak(days))]

\* The submissions the pages list.
LatestSent == SubSeq(submissions, Max({1, Len(submissions) - RecentLimit + 1}), Len(submissions))

\* Mutant: the accepted submissions are counted among the latest, as the profile does.
CountedLatest == Cardinality(AcceptedOf(LatestSent))

\* handleMe: the verdicts of all submissions, the days of the last year.
CountedByVerdict == Cardinality(AcceptedOf(submissions))
YearDaysOf == {d \in DaysOf(submissions) : d >= day - YearDays}
MePage == PageOf(CountedByVerdict, YearDaysOf)
EarnedBadges == Badges(CountedByVerdict, Streak(YearDaysOf))

\* handleGetProfile: the verdicts of the submissions listed, all days.
ProfilePage == PageOf(Cardinality(AcceptedOf(LatestSent)), DaysOf(submissions))

-----------------------------------------------------------------------------
(* The rows change.                                                        *)

PostSolution(p) ==
    /\ Len(submissions) < MaxSent
    /\ submissions' = Append(submissions, [day |-> day, problem |-> p, status |-> "QUEUED"])
    /\ UNCHANGED <<day, rejudged, myRows, rivalRows, entered>>

StoreVerdict(i, verdict) ==
    /\ submissions[i].status = "QUEUED"
    /\ submissions' = [submissions EXCEPT ![i].status = verdict]
    /\ UNCHANGED <<day, rejudged, myRows, rivalRows, entered>>

Rejudge(i) ==
    /\ rejudged < MaxRejudges /\ submissions[i].status # "QUEUED"
    /\ submissions' = [submissions EXCEPT ![i].status = "QUEUED"]
    /\ rejudged' = rejudged + 1
    /\ UNCHANGED <<day, myRows, rivalRows, entered>>

\* registerForContest, before or during the contest.
EnterContest(rated, begun) ==
    /\ Len(entered) < MaxRated
    /\ entered' = Append(entered, [isRated |-> rated, rank |-> NoRating, begun |-> begun])
    /\ UNCHANGED <<day, submissions, rejudged, myRows, rivalRows>>

BeginContest(i) ==
    /\ ~entered[i].begun
    /\ entered' = [entered EXCEPT ![i].begun = TRUE]
    /\ UNCHANGED <<day, submissions, rejudged, myRows, rivalRows>>

\* unregisterFromContest
LeaveContest(i) ==
    /\ ~entered[i].begun
    /\ entered' = RemoveAt(entered, i)
    /\ UNCHANGED <<day, submissions, rejudged, myRows, rivalRows>>

\* A contest that the user entered and one rival took part in is rated.
RateContest(gain, rivalAfter) ==
    /\ Len(myRows) < Cardinality({i \in DOMAIN entered : entered[i].isRated /\ entered[i].begun})
    /\ LET before == IF myRows = <<>> THEN FirstRating ELSE CurrentRow
       IN  myRows' = Append(myRows, [before |-> before, after |-> before + gain])
    /\ rivalRows' = Append(rivalRows, rivalAfter)
    /\ UNCHANGED <<day, submissions, rejudged, entered>>

NextDay ==
    /\ day < MaxDay
    /\ day' = day + 1
    /\ UNCHANGED <<submissions, rejudged, myRows, rivalRows, entered>>

StatInit ==
    /\ day = 1
    /\ submissions = <<>> /\ myRows = <<>> /\ rivalRows = <<>> /\ entered = <<>>
    /\ rejudged = 0

StatNext ==
    \/ \E p \in Problems : PostSolution(p)
    \/ \E i \in DOMAIN submissions : \/ \E v \in {"ACCEPTED", "WRONG_ANSWER"} : StoreVerdict(i, v)
                               \/ Rejudge(i)
    \/ \E rated \in BOOLEAN, begun \in BOOLEAN : EnterContest(rated, begun)
    \/ \E i \in DOMAIN entered : BeginContest(i) \/ LeaveContest(i)
    \/ \E gain \in Gains, rivalGain \in Gains : RateContest(gain, FirstRating + rivalGain)
    \/ NextDay

StatSpec == StatInit /\ [][StatNext]_statVars

-----------------------------------------------------------------------------
(* Properties.                                                             *)

\* Type correctness; only submissions of the past, and no verdict without one.
StatTypeOK ==
    /\ day \in Nat \ {0} /\ rejudged \in Nat
    /\ submissions \in Seq([day : 1..day, problem : Problems,
                      status : {"QUEUED", "ACCEPTED", "WRONG_ANSWER"}])
    /\ myRows \in Seq([before : Int, after : Int]) /\ rivalRows \in Seq(Int)
    /\ entered \in Seq([isRated : BOOLEAN, rank : {NoRating}, begun : BOOLEAN])

\* The days in a row that end today.
RunToday(days) == Max({0} \union {n \in 1..day : (day - n + 1)..day \subseteq days})

\* Whether some n days in a row have a submission each.
InARow(n, days) == \E d \in days : (d - n + 1)..d \subseteq days

\* The longest streak is no shorter than the run of days that ends today or the current
\* streak, and there has been a run as long.
LongestReached ==
    \A days \in {DaysOf(submissions), YearDaysOf} :
        LET streak == Streak(days) IN
        /\ streak.longest >= RunToday(days) /\ streak.longest >= streak.current
        /\ days # {} => InARow(streak.longest, days)

\* The two handlers show the same of a user with at most a page of submissions, all of
\* the last year.
PagesAgree ==
    Len(submissions) <= RecentLimit /\ DaysOf(submissions) = YearDaysOf => MePage = ProfilePage

\* While nobody was rated twice, the percentile is one.
PercentileInRange ==
    myRows # <<>> /\ Len(myRows) = 1 /\ Len(rivalRows) <= Cardinality(Rivals)
        => Percentile \in 0..100

\* The numbers of one page fit each other although they come from queries of their
\* own: the heat map of the profile adds up to the submissions counted, its accepted
\* squares to the acceptances /api/me counts, and the problems solved are those of the
\* three difficulties and no more than that.
NumbersFit ==
    LET page == ProfilePage
        squares == SumFunction([d \in DOMAIN page.heatmap |-> page.heatmap[d].count])
        accepted == SumFunction([d \in DOMAIN page.heatmap |-> page.heatmap[d].accepted])
    IN  /\ squares = page.totalSubmissions
        /\ accepted = CountedByVerdict
        /\ page.solvedCount <= accepted
        /\ page.solvedCount = SumFunction(page.breakdown)

\* The computed numbers: the longest streak, the two pages against each other, one page
\* against itself, the percentile.
PagesSound == LongestReached /\ PagesAgree /\ NumbersFit /\ PercentileInRange

Withdrawn == \E i \in DOMAIN submissions : submissions[i].status = "ACCEPTED" /\ submissions'[i].status # "ACCEPTED"

\* A badge /api/me shows is shown from then on, whatever is submitted, judged or entered
\* later: only a withdrawn acceptance costs a badge for what was solved, only leaving
\* a contest before it begins the one for entering, only a rated contest the one for a
\* higher rating, and only another day the one for a streak.
BadgesKept ==
    [][\A b \in EarnedBadges \ EarnedBadges' :
          \/ b[1] \in {"accepted", "solved", "EASY", "MEDIUM", "HARD"} /\ Withdrawn
          \/ b[1] = "contests" /\ Len(entered') < Len(entered)
          \/ b[1] = "climb" /\ myRows' # myRows
          \/ b[1] = "streak" /\ day' # day]_statVars

=============================================================================
