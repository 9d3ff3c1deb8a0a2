------------------------ MODULE ServicesLiveProofs -------------------------
(***************************************************************************)
(* Theorems about what is computed of the contestants.  RatingJob: a       *)
(* contest is rated once, its submissions are reported once, and the       *)
(* ratings of a user add up.  Statistics: the numbers of the pages, and    *)
(* the badges.  Last, what MCServicesLive composes keeps its types.        *)
(***************************************************************************)
EXTENDS MCServicesLive, BrowserProofs

-----------------------------------------------------------------------------
(* RatingJob: sequences whose elements have no type of their own.          *)

IsSequence(s) == s \in Seq({s[i] : i \in DOMAIN s})

LEMMA SequenceOf ==
    ASSUME NEW S, NEW s \in Seq(S)
    PROVE  /\ IsSequence(s) /\ Len(s) \in Nat /\ DOMAIN s = 1..Len(s)
           /\ \A i \in 1..Len(s) : s[i] \in S
<1> DEFINE own == {s[i] : i \in DOMAIN s}
<1>1. Len(s) \in Nat /\ DOMAIN s = 1..Len(s) /\ s \in [1..Len(s) -> S]
  BY LenProperties
<1>2. \A i \in 1..Len(s) : s[i] \in S
  BY ElementOfSeq
<1>3. s \in [1..Len(s) -> own]
  BY <1>1
<1> HIDE DEF own
<1>4. s \in Seq(own)
  BY <1>1, <1>3, IsASeq
<1> QED BY <1>1, <1>2, <1>4 DEF IsSequence, own

LEMMA EmptyIsSequence == IsSequence(<<>>) /\ Len(<<>>) = 0 /\ DOMAIN <<>> = {}
  BY EmptySeq, LenProperties DEF IsSequence

LEMMA AppendIsSequence ==
    ASSUME NEW s, IsSequence(s), NEW e
    PROVE  /\ IsSequence(Append(s, e)) /\ Len(Append(s, e)) = Len(s) + 1 /\ Len(s) \in Nat
           /\ \A i \in 1..Len(s) : Append(s, e)[i] = s[i]
           /\ Append(s, e)[Len(s) + 1] = e
<1> DEFINE S == {s[i] : i \in DOMAIN s}
           T == S \union {e}
<1>1. s \in Seq(S)
  BY DEF IsSequence
<1> HIDE DEF S
<1>2. Len(s) \in Nat /\ s \in [1..Len(s) -> S]
  BY <1>1, LenProperties
<1>3. s \in Seq(T)
  BY <1>2, IsASeq
<1> HIDE DEF T
<1>4. e \in T
  BY DEF T
<1>5. /\ Append(s, e) \in Seq(T) /\ Len(Append(s, e)) = Len(s) + 1
      /\ (\A i \in 1..Len(s) : Append(s, e)[i] = s[i]) /\ Append(s, e)[Len(s) + 1] = e
  BY <1>2, <1>3, <1>4, AppendProperties
<1> QED BY <1>2, <1>5, SequenceOf

LEMMA ConcatIsSequence ==
    ASSUME NEW s, IsSequence(s), NEW t, IsSequence(t), NEW u, u = s \o t
    PROVE  /\ IsSequence(u) /\ Len(s) \in Nat /\ Len(t) \in Nat /\ Len(u) = Len(s) + Len(t)
           /\ DOMAIN s = 1..Len(s) /\ DOMAIN t = 1..Len(t) /\ DOMAIN u = 1..(Len(s) + Len(t))
           /\ \A i \in 1..Len(s) : u[i] = s[i]
           /\ \A i \in 1..Len(t) : u[Len(s) + i] = t[i]
<1> DEFINE S == {s[i] : i \in DOMAIN s}
           R == {t[i] : i \in DOMAIN t}
           T == S \union R
<1>1. s \in Seq(S) /\ t \in Seq(R)
  BY DEF IsSequence
<1> HIDE DEF S, R
<1>2. /\ Len(s) \in Nat /\ s \in [1..Len(s) -> S] /\ DOMAIN s = 1..Len(s)
      /\ Len(t) \in Nat /\ t \in [1..Len(t) -> R] /\ DOMAIN t = 1..Len(t)
  BY <1>1, LenProperties
<1>3. s \in Seq(T) /\ t \in Seq(T)
  <2>1. s \in [1..Len(s) -> T] /\ t \in [1..Len(t) -> T]
    BY <1>2
  <2> HIDE DEF T
  <2>2. s \in Seq(T)
    BY <1>2, <2>1
  <2>3. t \in Seq(T)
    BY <1>2, <2>1
  <2> QED BY <2>2, <2>3
<1> HIDE DEF T
<1>4. /\ s \o t \in Seq(T) /\ Len(s \o t) = Len(s) + Len(t)
      /\ \A i \in 1..(Len(s) + Len(t)) : (s \o t)[i] = IF i <= Len(s) THEN s[i] ELSE t[i - Len(s)]
  BY <1>3, ConcatProperties
<1>5. IsSequence(s \o t) /\ DOMAIN (s \o t) = 1..(Len(s) + Len(t))
  BY <1>4, SequenceOf
<1>6. \A i \in 1..Len(s) : (s \o t)[i] = s[i]
  BY <1>2, <1>4
<1>7. ASSUME NEW i \in 1..Len(t) PROVE (s \o t)[Len(s) + i] = t[i]
  <2>1. Len(s) + i \in 1..(Len(s) + Len(t)) /\ ~(Len(s) + i <= Len(s)) /\ (Len(s) + i) - Len(s) = i
    BY <1>2
  <2> QED BY <1>4, <2>1
<1> QED BY <1>2, <1>4, <1>5, <1>6, <1>7

-----------------------------------------------------------------------------
(* RatingJob: what a contest has of its one calculation.                   *)

IsCall(q) ==
    q = NoCall \/ q \in [pc : {"read", "store", "ok", "error"}, contest : Contests,
                         by : {"worker", "administrator", "nobody"}, known : {q.known}]

\* A handler stores the ratings it read of all participants.
InTurn(q) ==
    /\ q.pc = "read" => IsSequence(q.known) /\ Len(q.known) < Len(Standing[q.contest])
    /\ q.pc = "store" => IsSequence(q.known) /\ Len(q.known) = Len(Standing[q.contest]) /\ Len(q.known) > 0

JobStates == {"delayed", "waiting", "calling", "checking", "reported", "completed", "failed"}
RatingJobRow == [state : JobStates, attempts : Nat, stalled : BOOLEAN]

Within(c) == {p \in Pairs : ContestOf[p[1]] = c /\ ContestOf[p[2]] = c}
Reported(c) == \E p \in Within(c) : reports[p] # 0
Succeeded(k, c) == calls[k].pc = "ok" /\ calls[k].contest = c
Checking(c) == ratingJobs[c].state = "checking"

\* The one success of contest c is an answer under way, a check about to begin, or the reports
\* of that check, and only one of them; from then on every calculation is refused.
OnceFor(c) ==
    /\ Checking(c) \/ Reported(c) \/ (\E k \in Calls : Succeeded(k, c)) => Refused(c)
    /\ \A k, l \in Calls : Succeeded(k, c) /\ Succeeded(l, c) => k = l
    /\ \A k \in Calls : Succeeded(k, c) => ~Checking(c) /\ ~Reported(c)
    /\ ~(Checking(c) /\ Reported(c))

CallsInv == DOMAIN calls = Calls /\ \A k \in Calls : IsCall(calls[k]) /\ InTurn(calls[k])
RowsInv == IsSequence(userRatings) /\ RatedWhole
ReportsInv == DOMAIN reports = Pairs /\ \A p \in Pairs : reports[p] \in {0, 1}

RatingInv ==
    /\ ratingJobs \in [Contests -> RatingJobRow]
    /\ CallsInv /\ RowsInv /\ ReportsInv
    /\ \A c \in Contests : OnceFor(c)

LEMMA RunningCall ==
    ASSUME CallsInv, NEW k \in Calls, calls[k].pc # "none"
    PROVE  /\ calls[k] \in [pc : {"read", "store", "ok", "error"}, contest : Contests,
                            by : {"worker", "administrator", "nobody"}, known : {calls[k].known}]
           /\ calls[k].contest \in Contests /\ InTurn(calls[k])
<1>1. IsCall(calls[k]) /\ calls[k] # NoCall
  BY DEF CallsInv, NoCall
<1> QED BY <1>1 DEF IsCall, CallsInv

\* A step that stores nothing: no calculation succeeds and no check begins.
LEMMA NothingStored ==
    ASSUME RatingInv, UNCHANGED <<userRatings, reports>>, CallsInv', ratingJobs' \in [Contests -> RatingJobRow],
           \A k \in Calls, c \in Contests : Succeeded(k, c)' => Succeeded(k, c),
           \A c \in Contests : Checking(c)' => Checking(c)
    PROVE  RatingInv'
<1>1. \A c \in Contests : (Reported(c)' <=> Reported(c)) /\ (Refused(c)' <=> Refused(c))
  BY DEF Reported, Refused
<1>2. \A c \in Contests : OnceFor(c)'
  BY <1>1 DEF RatingInv, OnceFor
<1>3. RowsInv' /\ ReportsInv'
  BY DEF RatingInv, RowsInv, ReportsInv, RatedWhole
<1> QED BY <1>2, <1>3 DEF RatingInv

\* One call is replaced by another.
LEMMA CallReplaced ==
    ASSUME CallsInv, NEW k \in Calls, NEW q, calls' = [calls EXCEPT ![k] = q], IsCall(q), InTurn(q)
    PROVE  CallsInv' /\ calls'[k] = q /\ \A l \in Calls : l # k => calls'[l] = calls[l]
  BY DEF CallsInv

LEMMA BeginCallKeeps ==
    ASSUME RatingInv, NEW k \in Calls, NEW c \in Contests, NEW by \in {"worker", "administrator", "nobody"},
           BeginCall(k, c, by)
    PROVE  CallsInv' /\ \A l \in Calls, d \in Contests : Succeeded(l, d)' => Succeeded(l, d)
<1> DEFINE q == [pc |-> IF Len(Standing[c]) < 2 THEN "error" ELSE "read", contest |-> c, by |-> by, known |-> <<>>]
<1>1. CallsInv /\ calls' = [calls EXCEPT ![k] = q]
  BY DEF BeginCall, RatingInv
<1>2. Len(Standing[c]) \in Nat
  BY RatingAssumption, LenProperties DEF RatingAssumption
<1>3. IsCall(q)
  BY DEF IsCall
<1>4. InTurn(q)
  BY <1>2, EmptyIsSequence DEF InTurn
<1>5. q.pc # "ok"
  OBVIOUS
<1> HIDE DEF q
<1>6. CallsInv' /\ calls'[k] = q /\ \A l \in Calls : l # k => calls'[l] = calls[l]
  BY <1>1, <1>3, <1>4, CallReplaced
<1> QED BY <1>5, <1>6 DEF Succeeded

\* A call that knows one rating more.
LEMMA CallRead ==
    ASSUME NEW K, NEW r \in [pc : {"read", "store", "ok", "error"}, contest : Contests,
                             by : {"worker", "administrator", "nobody"}, known : K],
           NEW known, NEW pc, NEW q, q = [r EXCEPT !.known = known, !.pc = pc]
    PROVE  q = [pc |-> pc, contest |-> r.contest, by |-> r.by, known |-> known]
  OBVIOUS

LEMMA ReadRatingStep ==
    ASSUME RatingInv, NEW k \in Calls, ReadRating(k)
    PROVE  RatingInv'
<1> DEFINE c == calls[k].contest
           n == Len(calls[k].known) + 1
           known == Append(calls[k].known, CurrentRating(Standing[c][n]))
           pc == IF n = Len(Standing[c]) THEN "store" ELSE "read"
           q == [calls[k] EXCEPT !.known = known, !.pc = pc]
<1>1. calls' = [calls EXCEPT ![k].known = known, ![k].pc = pc]
  BY DEF ReadRating
<1>2. CallsInv /\ calls[k].pc = "read" /\ UNCHANGED <<userRatings, reports, ratingJobs>>
  BY DEF ReadRating, RatingInv, stored
<1>3. /\ calls[k] \in [pc : {"read", "store", "ok", "error"}, contest : Contests,
                       by : {"worker", "administrator", "nobody"}, known : {calls[k].known}]
      /\ c \in Contests /\ IsSequence(calls[k].known) /\ Len(calls[k].known) < Len(Standing[c])
  BY <1>2, RunningCall DEF InTurn
<1>4. Len(Standing[c]) \in Nat
  BY <1>3, RatingAssumption, LenProperties DEF RatingAssumption
<1>5. IsSequence(known) /\ Len(known) = n /\ Len(calls[k].known) \in Nat
  BY <1>3, AppendIsSequence
<1> HIDE DEF known
<1>6. pc \in {"read", "store"} /\ (pc = "store" => n = Len(Standing[c])) /\ (pc = "read" => n # Len(Standing[c]))
  OBVIOUS
<1> HIDE DEF pc
<1>7. q = [pc |-> pc, contest |-> c, by |-> calls[k].by, known |-> known]
  BY <1>3, CallRead
<1>8. calls' = [calls EXCEPT ![k] = q]
  BY <1>1, <1>2 DEF CallsInv
<1> HIDE DEF q
<1>9. IsCall(q)
  BY <1>3, <1>6, <1>7 DEF IsCall
<1>10. InTurn(q)
  BY <1>3, <1>4, <1>5, <1>6, <1>7 DEF InTurn
<1>11. CallsInv' /\ calls'[k] = q /\ \A l \in Calls : l # k => calls'[l] = calls[l]
  BY <1>2, <1>8, <1>9, <1>10, CallReplaced
<1>12. \A l \in Calls, d \in Contests : Succeeded(l, d)' => Succeeded(l, d)
  BY <1>6, <1>7, <1>11 DEF Succeeded
<1> QED BY <1>2, <1>11, <1>12, NothingStored DEF RatingInv, Checking

LEMMA RowsJoined ==
    ASSUME IsSequence(userRatings), NEW changes, IsSequence(changes), userRatings' = userRatings \o changes
    PROVE  /\ IsSequence(userRatings') /\ Len(userRatings) \in Nat /\ Len(changes) \in Nat
           /\ Len(userRatings') = Len(userRatings) + Len(changes)
           /\ DOMAIN userRatings = 1..Len(userRatings) /\ DOMAIN changes = 1..Len(changes)
           /\ DOMAIN userRatings' = 1..(Len(userRatings) + Len(changes))
           /\ \A i \in 1..Len(userRatings) : userRatings'[i] = userRatings[i]
           /\ \A i \in 1..Len(changes) : userRatings'[Len(userRatings) + i] = changes[i]
<1>1. IsSequence(userRatings') /\ Len(userRatings) \in Nat /\ Len(changes) \in Nat
  BY ConcatIsSequence
<1>2. Len(userRatings') = Len(userRatings) + Len(changes)
  BY ConcatIsSequence
<1>3. DOMAIN userRatings = 1..Len(userRatings) /\ DOMAIN changes = 1..Len(changes)
  BY ConcatIsSequence
<1>4. DOMAIN userRatings' = 1..(Len(userRatings) + Len(changes))
  BY ConcatIsSequence
<1>5. \A i \in 1..Len(userRatings) : userRatings'[i] = userRatings[i]
  BY ConcatIsSequence
<1>6. \A i \in 1..Len(changes) : userRatings'[Len(userRatings) + i] = changes[i]
  BY ConcatIsSequence
<1> QED BY <1>1, <1>2, <1>3, <1>4, <1>5, <1>6

\* The rows of one transaction are one block.
LEMMA RowsAdded ==
    ASSUME RowsInv, NEW c \in Contests, ~Refused(c),
           NEW changes, IsSequence(changes), Len(changes) = Len(Standing[c]),
           \A i \in DOMAIN changes : changes[i].contest = c /\ changes[i].user = Standing[c][i],
           userRatings' = userRatings \o changes
    PROVE  RowsInv' /\ (Len(changes) > 0 => Refused(c)') /\ \A d \in Contests : d # c => (Refused(d)' <=> Refused(d))
<1> DEFINE n == Len(userRatings)
           m == Len(changes)
<1>1. /\ IsSequence(userRatings') /\ n \in Nat /\ m \in Nat /\ Len(userRatings') = n + m
      /\ DOMAIN userRatings = 1..n /\ DOMAIN changes = 1..m /\ DOMAIN userRatings' = 1..(n + m)
      /\ \A i \in 1..n : userRatings'[i] = userRatings[i]
      /\ \A i \in 1..m : userRatings'[n + i] = changes[i]
  BY RowsJoined DEF RowsInv
<1>2. \A j \in (n + 1)..(n + m) : j - n \in 1..m /\ j = n + (j - n)
  BY <1>1
<1>3. \A j \in (n + 1)..(n + m) : userRatings'[j].contest = c
  <2> SUFFICES ASSUME NEW j \in (n + 1)..(n + m) PROVE userRatings'[j].contest = c
    OBVIOUS
  <2>1. j - n \in 1..m /\ j = n + (j - n)
    BY <1>2
  <2>2. userRatings'[j] = changes[j - n]
    BY <1>1, <2>1
  <2> QED BY <1>1, <2>1, <2>2
<1>4. \A i \in 1..m : userRatings'[n + i].user = Standing[c][i]
  BY <1>1
<1>5. \A i \in 1..n : userRatings[i].contest # c
  BY <1>1 DEF Refused
<1>6. ASSUME NEW d \in Contests, d # c
      PROVE  {i \in DOMAIN userRatings' : userRatings'[i].contest = d} = {i \in DOMAIN userRatings : userRatings[i].contest = d}
  <2>1. \A i \in 1..(n + m) : i \in 1..n \/ i \in (n + 1)..(n + m)
    BY <1>1
  <2> QED BY <1>1, <1>3, <1>6, <2>1
<1>7. {i \in DOMAIN userRatings' : userRatings'[i].contest = c} = (n + 1)..(n + m)
  BY <1>1, <1>3, <1>5
<1>8. m > 0 => Refused(c)'
  BY <1>1, <1>7 DEF Refused
<1>9. \A d \in Contests : d # c => (Refused(d)' <=> Refused(d))
  BY <1>6 DEF Refused
<1>10. ASSUME NEW d \in Contests
       PROVE  LET mine == {i \in DOMAIN userRatings' : userRatings'[i].contest = d} IN
              mine = {} \/ \E a \in 0..Len(userRatings') :
                 /\ mine = (a + 1)..(a + Len(Standing[d]))
                 /\ \A i \in DOMAIN Standing[d] : userRatings'[a + i].user = Standing[d][i]
  <2>1. Len(Standing[d]) \in Nat /\ DOMAIN Standing[d] = 1..Len(Standing[d])
    BY RatingAssumption, LenProperties DEF RatingAssumption
  <2>2. CASE d = c
    <3>1. n \in 0..Len(userRatings')
      BY <1>1
    <3> QED BY <1>4, <1>7, <2>1, <2>2, <3>1
  <2>3. CASE d # c
    <3> DEFINE mine == {i \in DOMAIN userRatings : userRatings[i].contest = d}
    <3>1. {i \in DOMAIN userRatings' : userRatings'[i].contest = d} = mine
      BY <1>6, <2>3
    <3>2. CASE mine = {}
      BY <3>1, <3>2
    <3>3. CASE mine # {}
      <4>1. PICK a \in 0..n : /\ mine = (a + 1)..(a + Len(Standing[d]))
                              /\ \A i \in DOMAIN Standing[d] : userRatings[a + i].user = Standing[d][i]
        BY <3>3 DEF RowsInv, RatedWhole
      <4>2. ASSUME NEW i \in DOMAIN Standing[d] PROVE userRatings'[a + i].user = Standing[d][i]
        <5>1. a + i \in (a + 1)..(a + Len(Standing[d]))
          BY <1>1, <2>1
        <5>2. a + i \in 1..n
          BY <1>1, <4>1, <5>1
        <5> QED BY <1>1, <4>1, <5>2
      <4>3. a \in 0..Len(userRatings')
        BY <1>1
      <4> QED BY <3>1, <4>1, <4>2, <4>3
    <3> QED BY <3>2, <3>3
  <2> QED BY <2>2, <2>3
<1> QED BY <1>1, <1>8, <1>9, <1>10 DEF RowsInv, RatedWhole

LEMMA AfterAttemptRow ==
    ASSUME NEW j \in RatingJobRow
    PROVE  AfterAttempt(j) \in RatingJobRow /\ AfterAttempt(j).state # "checking"
<1> DEFINE state == IF j.attempts + 1 < RatingAttempts THEN "waiting" ELSE "failed"
<1>1. state \in JobStates /\ state # "checking"
  BY DEF JobStates
<1>2. AfterAttempt(j) = [j EXCEPT !.attempts = @ + 1, !.state = state]
  BY DEF AfterAttempt
<1> HIDE DEF state
<1>3. AfterAttempt(j) = [state |-> state, attempts |-> j.attempts + 1, stalled |-> j.stalled]
  BY <1>2 DEF RatingJobRow
<1>4. j.attempts + 1 \in Nat /\ j.stalled \in BOOLEAN
  BY DEF RatingJobRow
<1> QED BY <1>1, <1>3, <1>4 DEF RatingJobRow

\* The rows of a calculation: one for each participant, from the rating its handler read.
LEMMA ChangesAre ==
    ASSUME NEW c, NEW known, IsSequence(known)
    PROVE  /\ IsSequence(Changes(c, known)) /\ Len(Changes(c, known)) = Len(known)
           /\ \A i \in DOMAIN Changes(c, known) :
                /\ Changes(c, known)[i].contest = c /\ Changes(c, known)[i].user = Standing[c][i]
                /\ Changes(c, known)[i].before = known[i]
<1> DEFINE row(i) == [user |-> Standing[c][i], contest |-> c, before |-> known[i],
                      after |-> known[i] + Balanced(Deltas(known))[i]]
           changes == Changes(c, known)
<1>1. DOMAIN known = 1..Len(known) /\ Len(known) \in Nat
  BY LenProperties DEF IsSequence
<1>2. changes = [i \in 1..Len(known) |-> row(i)]
  BY <1>1 DEF Changes
<1>3. changes \in Seq({row(i) : i \in 1..Len(known)}) /\ Len(changes) = Len(known)
  <2> HIDE DEF row, changes
  <2>1. changes \in [1..Len(known) -> {row(i) : i \in 1..Len(known)}]
    BY <1>2
  <2> QED BY <1>1, <2>1, IsASeq, LenProperties
<1>4. IsSequence(changes)
  BY <1>3, SequenceOf
<1> QED BY <1>2, <1>3, <1>4

\* The transaction succeeds once for each contest.
LEMMA StoreRatingsStep ==
    ASSUME RatingInv, NEW k \in Calls, StoreRatings(k)
    PROVE  RatingInv'
<1>0. PICK c \in Contests : c = calls[k].contest
  <2>1. CallsInv /\ calls[k].pc # "none"
    BY DEF RatingInv, StoreRatings
  <2> QED BY <2>1, RunningCall
<1> DEFINE pc == IF Refused(c) THEN "error" ELSE "ok"
           q == [calls[k] EXCEPT !.pc = pc]
           changes == Changes(c, calls[k].known)
<1>1. /\ calls[k].pc = "store" /\ calls' = [calls EXCEPT ![k].pc = pc]
      /\ userRatings' = IF Refused(c) THEN userRatings ELSE userRatings \o changes
      /\ UNCHANGED <<ratingJobs, reports>>
  BY <1>0 DEF StoreRatings
<1>2. CallsInv /\ RowsInv /\ ReportsInv /\ ratingJobs \in [Contests -> RatingJobRow] /\ \A d \in Contests : OnceFor(d)
  BY DEF RatingInv
<1>3. /\ calls[k] \in [pc : {"read", "store", "ok", "error"}, contest : Contests,
                       by : {"worker", "administrator", "nobody"}, known : {calls[k].known}]
      /\ c \in Contests /\ IsSequence(calls[k].known) /\ Len(calls[k].known) = Len(Standing[c]) /\ Len(calls[k].known) > 0
  BY <1>0, <1>1, <1>2, RunningCall DEF InTurn
<1>4. pc \in {"error", "ok"} /\ (pc = "ok" <=> ~Refused(c))
  OBVIOUS
<1> HIDE DEF pc
<1>5. q = [pc |-> pc, contest |-> c, by |-> calls[k].by, known |-> calls[k].known]
  BY <1>0, <1>3
<1>6. calls' = [calls EXCEPT ![k] = q]
  BY <1>1, <1>2 DEF CallsInv
<1> HIDE DEF q
<1>7. IsCall(q) /\ InTurn(q)
  BY <1>0, <1>3, <1>4, <1>5 DEF IsCall, InTurn
<1>8. CallsInv' /\ calls'[k] = q /\ \A l \in Calls : l # k => calls'[l] = calls[l]
  BY <1>2, <1>6, <1>7, CallReplaced
<1>9. \A d \in Contests : (Reported(d)' <=> Reported(d)) /\ (Checking(d)' <=> Checking(d))
  BY <1>1 DEF Reported, Checking
<1>10. ReportsInv' /\ ratingJobs' \in [Contests -> RatingJobRow]
  BY <1>1, <1>2 DEF ReportsInv
<1>11. CASE Refused(c)
  <2>1. \A l \in Calls, d \in Contests : Succeeded(l, d)' => Succeeded(l, d)
    BY <1>4, <1>5, <1>8, <1>11 DEF Succeeded
  <2> QED BY <1>1, <1>8, <1>9, <1>10, <1>11, <2>1, NothingStored
<1>12. CASE ~Refused(c)
  <2>1. /\ IsSequence(changes) /\ Len(changes) = Len(Standing[c])
        /\ \A i \in DOMAIN changes : changes[i].contest = c /\ changes[i].user = Standing[c][i]
    BY <1>3, ChangesAre
  <2> HIDE DEF changes
  <2>2. userRatings' = userRatings \o changes
    BY <1>1, <1>12
  <2>3. RowsInv' /\ (Len(changes) > 0 => Refused(c)') /\ \A d \in Contests : d # c => (Refused(d)' <=> Refused(d))
    BY <1>2, <1>3, <1>12, <2>1, <2>2, RowsAdded
  <2>4. \A l \in Calls, d \in Contests : Succeeded(l, d)' <=> (Succeeded(l, d) \/ (l = k /\ d = c))
    BY <1>1, <1>4, <1>5, <1>8, <1>12 DEF Succeeded
  <2>5. Refused(c)'
    BY <1>3, <2>1, <2>3
  <2>6. ~Checking(c) /\ ~Reported(c) /\ \A l \in Calls : ~Succeeded(l, c)
    BY <1>2, <1>3, <1>12 DEF OnceFor
  <2>7. OnceFor(c)'
    BY <1>9, <2>4, <2>5, <2>6, <1>3 DEF OnceFor
  <2>8. \A d \in Contests : d # c => OnceFor(d)'
    BY <1>2, <1>9, <2>3, <2>4 DEF OnceFor
  <2> QED BY <1>8, <1>10, <2>3, <2>7, <2>8 DEF RatingInv
<1> QED BY <1>11, <1>12

LEMMA AnswerRatingsStep ==
    ASSUME RatingInv, NEW k \in Calls, AnswerRatings(k)
    PROVE  RatingInv'
<1>0. PICK c \in Contests : c = calls[k].contest
  <2>1. CallsInv /\ calls[k].pc # "none"
    BY DEF RatingInv, AnswerRatings
  <2> QED BY <2>1, RunningCall
<1>1. /\ calls[k].pc \in {"ok", "error"} /\ calls' = [calls EXCEPT ![k] = NoCall]
      /\ ratingJobs' = IF calls[k].by # "worker" THEN ratingJobs
                       ELSE IF calls[k].pc = "ok" THEN [ratingJobs EXCEPT ![c].state = "checking"]
                       ELSE [ratingJobs EXCEPT ![c] = AfterAttempt(@)]
      /\ UNCHANGED <<userRatings, reports>>
  BY <1>0 DEF AnswerRatings, stored
<1>2. CallsInv /\ ratingJobs \in [Contests -> RatingJobRow] /\ RowsInv /\ ReportsInv /\ \A d \in Contests : OnceFor(d)
  BY DEF RatingInv
<1>4. IsCall(NoCall) /\ InTurn(NoCall) /\ NoCall.pc = "none"
  BY DEF IsCall, InTurn, NoCall
<1>5. CallsInv' /\ calls'[k] = NoCall /\ \A l \in Calls : l # k => calls'[l] = calls[l]
  BY <1>1, <1>2, <1>4, CallReplaced
<1>6. \A l \in Calls, d \in Contests : Succeeded(l, d)' <=> (Succeeded(l, d) /\ l # k)
  BY <1>4, <1>5 DEF Succeeded
<1>7. /\ ratingJobs[c] \in RatingJobRow /\ AfterAttempt(ratingJobs[c]) \in RatingJobRow
      /\ AfterAttempt(ratingJobs[c]).state # "checking"
  BY <1>2, AfterAttemptRow
<1>8. CASE calls[k].by = "worker" /\ calls[k].pc = "ok"
  <2>1. ratingJobs' = [ratingJobs EXCEPT ![c].state = "checking"]
    BY <1>1, <1>8
  <2>2. ratingJobs' \in [Contests -> RatingJobRow]
    BY <1>2, <2>1 DEF RatingJobRow, JobStates
  <2>3. Checking(c)' /\ \A d \in Contests : d # c => (Checking(d)' <=> Checking(d))
    BY <1>2, <2>1 DEF Checking, RatingJobRow
  <2>4. Succeeded(k, c)
    BY <1>0, <1>8 DEF Succeeded
  <2>5. \A d \in Contests : (Reported(d)' <=> Reported(d)) /\ (Refused(d)' <=> Refused(d))
    BY <1>1 DEF Reported, Refused
  <2>6. Refused(c) /\ ~Reported(c) /\ \A l \in Calls : Succeeded(l, c) => l = k
    BY <1>2, <2>4 DEF OnceFor
  <2>7. OnceFor(c)'
    BY <1>6, <2>3, <2>5, <2>6 DEF OnceFor
  <2>8. \A d \in Contests : d # c => OnceFor(d)'
    BY <1>2, <1>6, <2>3, <2>5 DEF OnceFor
  <2>9. RowsInv' /\ ReportsInv'
    BY <1>1, <1>2 DEF RowsInv, ReportsInv, RatedWhole
  <2> QED BY <1>5, <2>2, <2>7, <2>8, <2>9 DEF RatingInv
<1>9. CASE ~(calls[k].by = "worker" /\ calls[k].pc = "ok")
  <2>1. ratingJobs' = ratingJobs \/ ratingJobs' = [ratingJobs EXCEPT ![c] = AfterAttempt(ratingJobs[c])]
    BY <1>1, <1>9
  <2>2. ratingJobs' \in [Contests -> RatingJobRow]
    BY <1>2, <1>7, <2>1
  <2>3. \A d \in Contests : Checking(d)' => Checking(d)
    BY <1>2, <1>7, <2>1 DEF Checking
  <2> QED BY <1>1, <1>5, <1>6, <2>2, <2>3, NothingStored
<1> QED BY <1>8, <1>9

\* A job that begins, ends or is delayed, with no check begun.
LEMMA JobMoved ==
    ASSUME RatingInv, NEW c \in Contests, NEW row \in RatingJobRow, row.state # "checking",
           ratingJobs' = [ratingJobs EXCEPT ![c] = row]
    PROVE  ratingJobs' \in [Contests -> RatingJobRow] /\ \A d \in Contests : Checking(d)' => Checking(d)
  BY DEF RatingInv, Checking

LEMMA JobRowWith ==
    ASSUME RatingInv, NEW c \in Contests, NEW state \in JobStates
    PROVE  /\ [ratingJobs EXCEPT ![c].state = state] = [ratingJobs EXCEPT ![c] = [ratingJobs[c] EXCEPT !.state = state]]
           /\ [ratingJobs[c] EXCEPT !.state = state] \in RatingJobRow
           /\ [ratingJobs[c] EXCEPT !.state = state].state = state
           /\ AfterAttempt(ratingJobs[c]) \in RatingJobRow /\ AfterAttempt(ratingJobs[c]).state # "checking"
  BY AfterAttemptRow DEF RatingInv, RatingJobRow

\* A handler nobody waits for any more is the same handler.
LEMMA OrphanedKeeps ==
    ASSUME RatingInv, NEW c \in Contests, calls' = Orphaned(c)
    PROVE  CallsInv' /\ \A l \in Calls, d \in Contests : Succeeded(l, d)' => Succeeded(l, d)
<1>1. CallsInv /\ DOMAIN calls' = Calls
  BY DEF RatingInv, Orphaned
<1>2. ASSUME NEW k \in Calls
      PROVE  /\ IsCall(calls'[k]) /\ InTurn(calls'[k])
             /\ \A d \in Contests : Succeeded(k, d)' => Succeeded(k, d)
  <2>1. CASE calls[k].pc # "none" /\ calls[k].contest = c /\ calls[k].by = "worker"
    <3>1. calls'[k] = [calls[k] EXCEPT !.by = "nobody"]
      BY <2>1 DEF Orphaned
    <3>2. calls[k] \in [pc : {"read", "store", "ok", "error"}, contest : Contests,
                        by : {"worker", "administrator", "nobody"}, known : {calls[k].known}]
          /\ InTurn(calls[k])
      BY <1>1, <2>1, RunningCall
    <3>3. calls'[k] = [pc |-> calls[k].pc, contest |-> calls[k].contest, by |-> "nobody", known |-> calls[k].known]
      BY <3>1, <3>2
    <3>4. IsCall(calls'[k])
      BY <3>2, <3>3 DEF IsCall
    <3>5. InTurn(calls'[k])
      BY <3>2, <3>3 DEF InTurn
    <3> QED BY <3>3, <3>4, <3>5 DEF Succeeded
  <2>2. CASE ~(calls[k].pc # "none" /\ calls[k].contest = c /\ calls[k].by = "worker")
    <3>1. calls'[k] = calls[k]
      BY <2>2 DEF Orphaned
    <3> QED BY <1>1, <3>1 DEF CallsInv, Succeeded
  <2> QED BY <2>1, <2>2
<1> QED BY <1>1, <1>2 DEF CallsInv

LEMMA TakeRatingJobStep ==
    ASSUME RatingInv, NEW k \in Calls, NEW c \in Contests, TakeRatingJob(k, c)
    PROVE  RatingInv'
<1>1. /\ BeginCall(k, c, "worker") /\ ratingJobs' = [ratingJobs EXCEPT ![c].state = "calling"]
      /\ UNCHANGED <<userRatings, reports>>
  BY DEF TakeRatingJob, stored
<1>2. CallsInv' /\ \A l \in Calls, d \in Contests : Succeeded(l, d)' => Succeeded(l, d)
  BY <1>1, BeginCallKeeps
<1>3. "calling" \in JobStates
  BY DEF JobStates
<1>4. ratingJobs' \in [Contests -> RatingJobRow] /\ \A d \in Contests : Checking(d)' => Checking(d)
  BY <1>1, <1>3, JobRowWith, JobMoved
<1> QED BY <1>1, <1>2, <1>4, NothingStored

LEMMA RequestRatingsStep ==
    ASSUME RatingInv, NEW k \in Calls, NEW c \in Contests, RequestRatings(k, c)
    PROVE  RatingInv'
<1>1. BeginCall(k, c, "administrator") /\ ratingJobs' = ratingJobs /\ UNCHANGED <<userRatings, reports>>
  BY DEF RequestRatings, stored
<1>2. CallsInv' /\ \A l \in Calls, d \in Contests : Succeeded(l, d)' => Succeeded(l, d)
  BY <1>1, BeginCallKeeps
<1> QED BY <1>1, <1>2, NothingStored DEF RatingInv, Checking

\* The steps of the job alone: due, failed in its check, completed.
LEMMA JobAloneStep ==
    ASSUME RatingInv, NEW c \in Contests, RatingDue(c) \/ FailCheck(c) \/ CompleteRatingJob(c)
    PROVE  RatingInv'
<1>1. /\ calls' = calls /\ UNCHANGED <<userRatings, reports>>
      /\ \E state \in {"waiting", "completed"} : ratingJobs' = [ratingJobs EXCEPT ![c].state = state]
  BY DEF RatingDue, FailCheck, CompleteRatingJob, stored
<1>2. CallsInv' /\ \A l \in Calls, d \in Contests : Succeeded(l, d)' => Succeeded(l, d)
  BY <1>1 DEF RatingInv, CallsInv, Succeeded
<1>3. PICK state \in {"waiting", "completed"} : ratingJobs' = [ratingJobs EXCEPT ![c].state = state]
  BY <1>1
<1>4. state \in JobStates /\ state # "checking"
  BY DEF JobStates
<1>5. ratingJobs' \in [Contests -> RatingJobRow] /\ \A d \in Contests : Checking(d)' => Checking(d)
  BY <1>3, <1>4, JobRowWith, JobMoved
<1> QED BY <1>1, <1>2, <1>5, NothingStored

LEMMA LoseRatingsStep ==
    ASSUME RatingInv, NEW c \in Contests, LoseRatings(c)
    PROVE  RatingInv'
<1>1. /\ calls' = Orphaned(c) /\ ratingJobs' = [ratingJobs EXCEPT ![c] = AfterAttempt(ratingJobs[c])]
      /\ UNCHANGED <<userRatings, reports>>
  BY DEF LoseRatings, stored
<1>2. ratingJobs' \in [Contests -> RatingJobRow] /\ \A d \in Contests : Checking(d)' => Checking(d)
  BY <1>1, JobRowWith, JobMoved, "calling" \in JobStates DEF JobStates
<1> QED BY <1>1, <1>2, OrphanedKeeps, NothingStored

LEMMA RestartRatingWorkerStep ==
    ASSUME RatingInv, NEW c \in Contests, RestartRatingWorker(c)
    PROVE  RatingInv'
<1> DEFINE state == IF ratingJobs[c].stalled THEN "failed" ELSE "waiting"
           row == [ratingJobs[c] EXCEPT !.state = state, !.stalled = TRUE]
<1>1. /\ calls' = Orphaned(c) /\ ratingJobs' = [ratingJobs EXCEPT ![c].state = state, ![c].stalled = TRUE]
      /\ UNCHANGED <<userRatings, reports>> /\ ratingJobs \in [Contests -> RatingJobRow]
  BY DEF RestartRatingWorker, stored, RatingInv
<1>2. state \in {"failed", "waiting"}
  OBVIOUS
<1> HIDE DEF state
<1>3. row = [state |-> state, attempts |-> ratingJobs[c].attempts, stalled |-> TRUE]
  <2>1. ASSUME NEW j \in RatingJobRow, NEW s, NEW q, q = [j EXCEPT !.state = s, !.stalled = TRUE]
        PROVE  q = [state |-> s, attempts |-> j.attempts, stalled |-> TRUE]
    BY <2>1 DEF RatingJobRow
  <2> QED BY <1>1, <2>1
<1>4. row \in RatingJobRow /\ row.state # "checking"
  BY <1>1, <1>2, <1>3 DEF RatingJobRow, JobStates
<1>5. ratingJobs' = [ratingJobs EXCEPT ![c] = row]
  BY <1>1
<1> HIDE DEF row
<1>6. ratingJobs' \in [Contests -> RatingJobRow] /\ \A d \in Contests : Checking(d)' => Checking(d)
  BY <1>4, <1>5, JobMoved
<1> QED BY <1>1, <1>6, OrphanedKeeps, NothingStored

\* The check begins once, and files its reports then.
LEMMA CheckPlagiarismStep ==
    ASSUME RatingInv, NEW c \in Contests, CheckPlagiarism(c)
    PROVE  RatingInv'
<1>1. /\ Checking(c) /\ reports' = Filed(Matches(c))
      /\ ratingJobs' = [ratingJobs EXCEPT ![c].state = "reported"] /\ UNCHANGED <<userRatings, calls>>
  BY DEF CheckPlagiarism, Checking
<1>2. CallsInv /\ RowsInv /\ ReportsInv /\ ratingJobs \in [Contests -> RatingJobRow] /\ \A d \in Contests : OnceFor(d)
  BY DEF RatingInv
<1>3. Refused(c) /\ ~Reported(c) /\ \A k \in Calls : ~Succeeded(k, c)
  BY <1>1, <1>2 DEF OnceFor
<1>4. \A p \in Pairs : p \in Matches(c) => p \in Within(c)
  BY DEF Matches, AcceptedIn, Within, Pairs
<1>5. /\ DOMAIN reports' = Pairs
      /\ \A p \in Pairs : reports'[p] = reports[p] + IF p \in Matches(c) THEN 1 ELSE 0
  BY <1>1 DEF Filed
<1>6. \A p \in Pairs : reports'[p] \in {0, 1}
  BY <1>2, <1>3, <1>4, <1>5 DEF ReportsInv, Reported
<1>7. \A d \in Contests : d # c => (Reported(d)' <=> Reported(d))
  <2> SUFFICES ASSUME NEW d \in Contests, d # c PROVE Reported(d)' <=> Reported(d)
    OBVIOUS
  <2>1. \A p \in Within(d) : p \in Pairs /\ p \notin Matches(c)
    BY <1>4 DEF Within
  <2>2. \A p \in Within(d) : reports'[p] = reports[p]
    BY <1>2, <1>5, <2>1 DEF ReportsInv
  <2> QED BY <2>2 DEF Reported
<1>8. "reported" \in JobStates
  BY DEF JobStates
<1>9. ratingJobs' \in [Contests -> RatingJobRow] /\ \A d \in Contests : Checking(d)' => Checking(d)
  BY <1>1, <1>8, JobRowWith, JobMoved
<1>10. ~Checking(c)'
  BY <1>1, <1>2 DEF Checking, RatingJobRow
<1>11. \A d \in Contests : (Refused(d)' <=> Refused(d)) /\ \A k \in Calls : Succeeded(k, d)' <=> Succeeded(k, d)
  BY <1>1 DEF Refused, Succeeded
<1>12. OnceFor(c)'
  BY <1>3, <1>10, <1>11 DEF OnceFor
<1>13. \A d \in Contests : d # c => OnceFor(d)'
  BY <1>2, <1>7, <1>9, <1>11 DEF OnceFor
<1>14. CallsInv' /\ RowsInv' /\ ReportsInv'
  BY <1>1, <1>2, <1>5, <1>6 DEF CallsInv, RowsInv, RatedWhole, ReportsInv
<1> QED BY <1>9, <1>12, <1>13, <1>14 DEF RatingInv

LEMMA RatingStart == RatingInit => RatingInv
<1> SUFFICES ASSUME RatingInit PROVE RatingInv
  OBVIOUS
<1>1. ratingJobs \in [Contests -> RatingJobRow] /\ \A c \in Contests : ~Checking(c)
  BY DEF RatingInit, RatingJobRow, JobStates, Checking
<1>2. CallsInv /\ \A k \in Calls, c \in Contests : ~Succeeded(k, c)
  BY DEF RatingInit, CallsInv, IsCall, InTurn, NoCall, Succeeded
<1>3. RowsInv
  BY EmptyIsSequence DEF RatingInit, RowsInv, RatedWhole
<1>4. ReportsInv /\ \A c \in Contests : ~Reported(c)
  BY DEF RatingInit, ReportsInv, Reported, Within
<1> QED BY <1>1, <1>2, <1>3, <1>4 DEF RatingInv, OnceFor

LEMMA RatingStep == RatingInv /\ [RatingNext]_ratingVars => RatingInv'
<1> SUFFICES ASSUME RatingInv, [RatingNext]_ratingVars PROVE RatingInv'
  OBVIOUS
<1>1. CASE RunCall
  BY <1>1, ReadRatingStep, StoreRatingsStep, AnswerRatingsStep DEF RunCall
<1>2. CASE RunRatingJob
  BY <1>2, TakeRatingJobStep, CheckPlagiarismStep, JobAloneStep DEF RunRatingJob
<1>3. CASE DisturbRatings
  BY <1>3, RequestRatingsStep, JobAloneStep, LoseRatingsStep, RestartRatingWorkerStep DEF DisturbRatings
<1>4. CASE UNCHANGED ratingVars
  <2>1. UNCHANGED <<userRatings, reports, calls, ratingJobs>>
    BY <1>4 DEF ratingVars, stored
  <2> QED BY <2>1, NothingStored DEF RatingInv, CallsInv, Succeeded, Checking
<1> QED BY <1>1, <1>2, <1>3, <1>4 DEF RatingNext

\* A contest is rated once and as a whole, and each pair of its submissions is reported at
\* most once, for any contests, standings, handlers, retries, restarts and administrators'
\* requests: the unique key lets one calculation succeed, and the check follows its answer.
THEOREM RatedOnceAlways == RatingSpec => []RatedOnce
<1>1. RatingInv => RatedOnce
  BY DEF RatingInv, RowsInv, ReportsInv, RatedOnce, ReportedOncePerPair
<1> QED BY <1>1, RatingStart, RatingStep, PTL DEF RatingSpec

-----------------------------------------------------------------------------
(* RatingJob: a user's ratings go on from each other.                      *)

\* The last row of a user u.
LastOf(a, u) ==
    /\ a \in DOMAIN userRatings /\ userRatings[a].user = u
    /\ \A b \in (a + 1)..Len(userRatings) : userRatings[b].user # u

\* The rating r is the one a calculation of contest c goes on from for a user u, unless
\* the calculation of u's last row ran beside it.
Fresh(c, u, r) ==
    /\ (\A a \in DOMAIN userRatings : userRatings[a].user # u) => r = DefaultRating
    /\ \A a \in DOMAIN userRatings :
         LastOf(a, u) => r = userRatings[a].after \/ {userRatings[a].contest, c} \subseteq overlapped

\* Calculations of two contests that run now have run side by side.
SideInv ==
    \A k, l \in Calls :
        calls[k].pc # "none" /\ calls[l].pc # "none" /\ calls[k].contest # calls[l].contest
            => {calls[k].contest, calls[l].contest} \subseteq overlapped

Reading(k) == calls[k].pc \in {"read", "store"}

\* What a handler that may still store has read is fresh.
FreshInv ==
    \A k \in Calls : Reading(k) /\ ~Refused(calls[k].contest) =>
        \A i \in DOMAIN calls[k].known :
            Fresh(calls[k].contest, Standing[calls[k].contest][i], calls[k].known[i])

ChainInv == SideInv /\ FreshInv /\ RatingsChained

\* A step that stores no row, and after which the running handlers ran and have read what
\* they have read.
LEMMA NoRowStored ==
    ASSUME ChainInv, userRatings' = userRatings, overlapped' = overlapped,
           \A k \in Calls : calls'[k].pc # "none" =>
              calls[k].pc # "none" /\ calls'[k].contest = calls[k].contest,
           \A k \in Calls : Reading(k)' => Reading(k) /\ calls'[k].known = calls[k].known
    PROVE  ChainInv'
<1>1. SideInv'
  BY DEF ChainInv, SideInv
<1>2. RatingsChained'
  BY DEF ChainInv, RatingsChained, FirstOfUser, Chained
<1>3. (\A c, u, r : Fresh(c, u, r)' <=> Fresh(c, u, r)) /\ \A c : Refused(c)' <=> Refused(c)
  BY DEF Fresh, LastOf, Refused
<1>4. FreshInv'
  <2> SUFFICES ASSUME NEW k \in Calls, Reading(k)', ~Refused(calls[k].contest)',
                      NEW i \in DOMAIN calls'[k].known
               PROVE  Fresh(calls[k].contest, Standing[calls[k].contest][i], calls[k].known[i])'
    BY DEF FreshInv
  <2>1. calls'[k].contest = calls[k].contest /\ calls'[k].known = calls[k].known /\ Reading(k)
    BY DEF Reading
  <2>2. Fresh(calls[k].contest, Standing[calls[k].contest][i], calls[k].known[i])
    BY <1>3, <2>1 DEF ChainInv, FreshInv
  <2> QED BY <1>3, <2>1, <2>2
<1> QED BY <1>1, <1>2, <1>4 DEF ChainInv

\* A handler that begins has read nothing, and is known to run beside the others.
LEMMA BeginCallChained ==
    ASSUME RatingInv, ChainInv, NEW k \in Calls, NEW c \in Contests, NEW by, BeginCall(k, c, by),
           userRatings' = userRatings
    PROVE  ChainInv'
<1> DEFINE pc == IF Len(Standing[c]) < 2 THEN "error" ELSE "read"
           q == [pc |-> pc, contest |-> c, by |-> by, known |-> <<>>]
           running == {l \in Calls : calls[l].pc # "none"}
           others == {calls[l].contest : l \in running} \ {c}
<1>1. calls[k].pc = "none" /\ calls' = [calls EXCEPT ![k] = q]
      /\ overlapped' = IF others = {} THEN overlapped ELSE overlapped \union others \union {c}
  BY DEF BeginCall, Beside
<1>2. DOMAIN calls = Calls
  BY DEF RatingInv, CallsInv
<1>3. q.contest = c /\ q.known = <<>>
  OBVIOUS
<1> HIDE DEF q, pc
<1>4. calls'[k] = q /\ \A l \in Calls : l # k => calls'[l] = calls[l]
  BY <1>1, <1>2
<1>5. overlapped \subseteq overlapped'
  BY <1>1
<1>6. ASSUME NEW l \in Calls, calls[l].pc # "none", calls[l].contest # c
      PROVE  {calls[l].contest, c} \subseteq overlapped'
  <2>1. calls[l].contest \in others
    BY <1>6
  <2> QED BY <1>1, <2>1
<1>7. SideInv'
  <2> SUFFICES ASSUME NEW l \in Calls, NEW m \in Calls, calls'[l].pc # "none", calls'[m].pc # "none",
                      calls'[l].contest # calls'[m].contest
               PROVE  {calls'[l].contest, calls'[m].contest} \subseteq overlapped'
    BY DEF SideInv
  <2>1. CASE l = k
    <3>1. m # k /\ calls'[m] = calls[m] /\ calls'[l].contest = c
      BY <1>3, <1>4, <2>1
    <3> QED BY <1>6, <3>1
  <2>2. CASE m = k
    <3>1. l # k /\ calls'[l] = calls[l] /\ calls'[m].contest = c
      BY <1>3, <1>4, <2>2
    <3> QED BY <1>6, <3>1
  <2>3. CASE l # k /\ m # k
    <3>1. calls'[l] = calls[l] /\ calls'[m] = calls[m]
      BY <1>4, <2>3
    <3> QED BY <1>5, <3>1 DEF ChainInv, SideInv
  <2> QED BY <2>1, <2>2, <2>3
<1>8. RatingsChained'
  <2>1. \A i, j : (FirstOfUser(j) => FirstOfUser(j)') /\ (Chained(i, j) => Chained(i, j)')
    BY <1>5 DEF FirstOfUser, Chained
  <2> QED BY <2>1 DEF ChainInv, RatingsChained
<1>9. \A d, u, r : Fresh(d, u, r) => Fresh(d, u, r)'
  BY <1>5 DEF Fresh, LastOf
<1>10. FreshInv'
  <2> SUFFICES ASSUME NEW l \in Calls, Reading(l)', ~Refused(calls[l].contest)', NEW i \in DOMAIN calls'[l].known
               PROVE  Fresh(calls[l].contest, Standing[calls[l].contest][i], calls[l].known[i])'
    BY DEF FreshInv
  <2>1. l # k /\ calls'[l] = calls[l]
    BY <1>3, <1>4, EmptyIsSequence
  <2>2. Reading(l) /\ ~Refused(calls[l].contest)
    BY <2>1 DEF Reading, Refused
  <2> QED BY <1>9, <2>1, <2>2 DEF ChainInv, FreshInv
<1> QED BY <1>7, <1>8, <1>10 DEF ChainInv

\* What getCurrentRating finds is fresh when it is found.
LEMMA CurrentIsFresh ==
    ASSUME RowsInv, NEW u, NEW c
    PROVE  Fresh(c, u, CurrentRating(u))
<1> DEFINE mine == {i \in DOMAIN userRatings : userRatings[i].user = u}
<1>1. DOMAIN userRatings = 1..Len(userRatings) /\ Len(userRatings) \in Nat
  BY SequenceOf DEF RowsInv, IsSequence
<1>2. ASSUME \A a \in DOMAIN userRatings : userRatings[a].user # u PROVE CurrentRating(u) = DefaultRating
  BY <1>2 DEF CurrentRating
<1>3. ASSUME NEW a \in DOMAIN userRatings, LastOf(a, u) PROVE CurrentRating(u) = userRatings[a].after
  <2>1. a \in mine /\ a \in Int
    BY <1>1, <1>3 DEF LastOf
  <2>2. \A b \in mine : b \in Int /\ a >= b
    BY <1>1, <1>3 DEF LastOf
  <2>3. \A x \in mine : (\A y \in mine : x >= y) => x = a
    BY <2>1, <2>2
  <2>4. Max(mine) = a
    BY <2>1, <2>2, <2>3 DEF Max
  <2> QED BY <2>1, <2>4 DEF CurrentRating
<1> QED BY <1>2, <1>3 DEF Fresh

LEMMA ReadRatingChained ==
    ASSUME RatingInv, ChainInv, NEW k \in Calls, ReadRating(k)
    PROVE  ChainInv'
<1> DEFINE c == calls[k].contest
           known == calls[k].known
           n == Len(known) + 1
           u == Standing[c][n]
           more == Append(known, CurrentRating(u))
           pc == IF n = Len(Standing[c]) THEN "store" ELSE "read"
           q == [calls[k] EXCEPT !.known = more, !.pc = pc]
<1>1. /\ calls[k].pc = "read" /\ calls' = [calls EXCEPT ![k].known = more, ![k].pc = pc]
      /\ UNCHANGED <<userRatings, overlapped>>
  BY DEF ReadRating, stored, history
<1>2. CallsInv /\ RowsInv
  BY DEF RatingInv
<1>3. /\ calls[k] \in [pc : {"read", "store", "ok", "error"}, contest : Contests,
                       by : {"worker", "administrator", "nobody"}, known : {known}]
      /\ IsSequence(known)
  BY <1>1, <1>2, RunningCall DEF InTurn
<1>4. /\ Len(more) = n /\ Len(known) \in Nat /\ DOMAIN more = 1..n /\ DOMAIN known = 1..Len(known)
      /\ (\A i \in 1..Len(known) : more[i] = known[i]) /\ more[n] = CurrentRating(u)
  <2>1. IsSequence(more) /\ Len(more) = n /\ Len(known) \in Nat
        /\ (\A i \in 1..Len(known) : more[i] = known[i]) /\ more[n] = CurrentRating(u)
    BY <1>3, AppendIsSequence
  <2> QED BY <1>3, <2>1, LenProperties DEF IsSequence
<1>5. Fresh(c, u, CurrentRating(u))
  BY <1>2, CurrentIsFresh
<1> HIDE DEF more, pc
<1>6. q = [pc |-> pc, contest |-> c, by |-> calls[k].by, known |-> more]
  BY <1>3, CallRead
<1>7. calls'[k] = q /\ \A l \in Calls : l # k => calls'[l] = calls[l]
  BY <1>1, <1>2 DEF CallsInv
<1> HIDE DEF q
<1>8. calls'[k].contest = c /\ calls'[k].known = more
  BY <1>6, <1>7
<1>9. \A l \in Calls : calls'[l].contest = calls[l].contest /\ (calls'[l].pc # "none" => calls[l].pc # "none")
  BY <1>1, <1>7, <1>8
<1>10. SideInv'
  BY <1>1, <1>9 DEF ChainInv, SideInv
<1>11. RatingsChained'
  BY <1>1 DEF ChainInv, RatingsChained, FirstOfUser, Chained
<1>12. (\A d, v, r : Fresh(d, v, r)' <=> Fresh(d, v, r)) /\ \A d : Refused(d)' <=> Refused(d)
  BY <1>1 DEF Fresh, LastOf, Refused
<1>13. FreshInv'
  <2> SUFFICES ASSUME NEW l \in Calls, Reading(l)', ~Refused(calls[l].contest)', NEW i \in DOMAIN calls'[l].known
               PROVE  Fresh(calls[l].contest, Standing[calls[l].contest][i], calls[l].known[i])'
    BY DEF FreshInv
  <2>1. ~Refused(calls[l].contest)
    BY <1>9, <1>12
  <2>2. CASE l # k
    <3>1. calls'[l] = calls[l]
      BY <1>7, <2>2
    <3>2. Fresh(calls[l].contest, Standing[calls[l].contest][i], calls[l].known[i])
      BY <2>1, <3>1 DEF ChainInv, FreshInv, Reading
    <3> QED BY <1>12, <3>1, <3>2
  <2>3. CASE l = k
    <3>1. i \in 1..n
      BY <1>4, <1>8, <2>3
    <3>2. CASE i = n
      BY <1>4, <1>5, <1>8, <1>12, <2>3, <3>2
    <3>3. CASE i # n
      <4>1. i \in 1..Len(known) /\ i \in DOMAIN known
        BY <1>4, <3>1, <3>3
      <4>2. Fresh(c, Standing[c][i], known[i])
        BY <1>1, <2>1, <2>3, <4>1 DEF ChainInv, FreshInv, Reading
      <4> QED BY <1>4, <1>8, <1>12, <2>3, <4>1, <4>2
    <3> QED BY <3>2, <3>3
  <2> QED BY <2>2, <2>3
<1> QED BY <1>10, <1>11, <1>13 DEF ChainInv

\* The rows of one transaction go on from what its handler has read; a handler that has
\* read before it and may still store ran beside it.
LEMMA RowsChained ==
    ASSUME RatingInv, ChainInv, NEW c \in Contests, ~Refused(c), NEW known, NEW changes,
           \A i \in DOMAIN changes : Fresh(c, Standing[c][i], known[i]),
           IsSequence(changes), Len(changes) = Len(Standing[c]),
           \A i \in DOMAIN changes : /\ changes[i].contest = c /\ changes[i].user = Standing[c][i]
                                     /\ changes[i].before = known[i],
           userRatings' = userRatings \o changes, overlapped' = overlapped
    PROVE  /\ RatingsChained'
           /\ \A d, u, r : Fresh(d, u, r) /\ {c, d} \subseteq overlapped => Fresh(d, u, r)'
<1>0. PICK n \in Nat, m \in Nat : n = Len(userRatings) /\ m = Len(changes)
  BY RowsJoined DEF RatingInv, RowsInv
<1>1. /\ n \in Nat /\ m \in Nat /\ Len(userRatings') = n + m
      /\ DOMAIN userRatings = 1..n /\ DOMAIN changes = 1..m /\ DOMAIN userRatings' = 1..(n + m)
      /\ \A i \in 1..n : userRatings'[i] = userRatings[i]
      /\ \A i \in 1..m : userRatings'[n + i] = changes[i]
  BY <1>0, RowsJoined DEF RatingInv, RowsInv
<1>2. ASSUME NEW x \in 1..m
      PROVE  /\ n + x \in 1..(n + m) /\ n + x > n /\ userRatings'[n + x].contest = c
             /\ userRatings'[n + x].user = Standing[c][x] /\ userRatings'[n + x].before = known[x]
  <2>1. n + x \in 1..(n + m) /\ n + x > n
    OBVIOUS
  <2>2. userRatings'[n + x] = changes[x] /\ x \in DOMAIN changes
    BY <1>1
  <2> QED BY <2>1, <2>2
<1>3. \A j \in 1..(n + m) : j \in 1..n \/ \E x \in 1..m : j = n + x
  <2> SUFFICES ASSUME NEW j \in 1..(n + m), j \notin 1..n PROVE \E x \in 1..m : j = n + x
    OBVIOUS
  <2>1. j - n \in 1..m /\ j = n + (j - n)
    BY <1>1
  <2> QED BY <2>1
<1>4. \A x, y \in 1..m : Standing[c][x] = Standing[c][y] => x = y
  <2>1. IsInjective(Standing[c]) /\ DOMAIN Standing[c] = 1..m
    BY <1>0, RatingAssumption, LenProperties DEF RatingAssumption
  <2> QED BY <2>1 DEF IsInjective
<1>5. ASSUME NEW j \in 1..n, NEW i \in 1..(n + m)
      PROVE  FirstOfUser(j)' /\ Chained(i, j)'
  <2>1. \A a \in 1..j : a \in 1..n /\ userRatings'[a] = userRatings[a]
    BY <1>1
  <2>2. FirstOfUser(j)
    BY <1>1 DEF ChainInv, RatingsChained
  <2>3. FirstOfUser(j)'
    BY <1>1, <2>1, <2>2 DEF FirstOfUser
  <2>4. CASE ~(i < j)
    BY <2>3, <2>4 DEF Chained
  <2>5. CASE i < j
    <3>1. i \in 1..n /\ Chained(i, j)
      BY <1>1, <2>5 DEF ChainInv, RatingsChained
    <3>2. userRatings'[i] = userRatings[i] /\ userRatings'[j] = userRatings[j]
      BY <1>1, <3>1
    <3>3. \A a \in (i + 1)..(j - 1) : a \in 1..j
      BY <3>1
    <3>4. \A a \in (i + 1)..(j - 1) : userRatings'[a] = userRatings[a]
      BY <2>1, <3>3
    <3> QED BY <2>3, <2>5, <3>1, <3>2, <3>4 DEF Chained
  <2> QED BY <2>4, <2>5
<1>6. ASSUME NEW x \in 1..m, NEW i \in 1..(n + m)
      PROVE  FirstOfUser(n + x)' /\ Chained(i, n + x)'
  <2>0. PICK u, j : u = Standing[c][x] /\ j = n + x
    OBVIOUS
  <2>1. Fresh(c, u, known[x])
    BY <1>1, <2>0
  <2>2. /\ userRatings'[j].contest = c /\ userRatings'[j].user = u /\ userRatings'[j].before = known[x]
        /\ j \in 1..(n + m) /\ j > n
    BY <1>2, <2>0
  <2>3. FirstOfUser(j)'
    <3> SUFFICES ASSUME \A a \in 1..(j - 1) : userRatings'[a].user # u PROVE known[x] = DefaultRating
      BY <2>2 DEF FirstOfUser
    <3>1. \A a \in 1..n : a \in 1..(j - 1)
      BY <1>1, <2>2
    <3>2. \A a \in DOMAIN userRatings : userRatings[a].user # u
      BY <1>1, <3>1
    <3> QED BY <2>1, <3>2 DEF Fresh
  <2>4. Chained(i, j)'
    <3> SUFFICES ASSUME i < j, userRatings'[i].user = u,
                        \A a \in (i + 1)..(j - 1) : userRatings'[a].user # u
                 PROVE  known[x] = userRatings'[i].after \/ {userRatings'[i].contest, c} \subseteq overlapped
      BY <2>2 DEF Chained
    <3>1. i \in 1..n
      <4> SUFFICES ASSUME NEW y \in 1..m, i = n + y PROVE FALSE
        BY <1>3
      <4>1. Standing[c][y] = u
        BY <1>2
      <4>2. x = y
        BY <1>4, <2>0, <4>1
      <4> QED BY <1>1, <2>0, <4>2
    <3>2. \A a \in (i + 1)..n : a \in (i + 1)..(j - 1) /\ a \in 1..n
      BY <1>1, <2>2, <3>1
    <3>3. LastOf(i, u)
      BY <1>1, <3>1, <3>2 DEF LastOf
    <3> QED BY <1>1, <2>1, <3>1, <3>3 DEF Fresh
  <2> QED BY <2>0, <2>3, <2>4
<1>7. RatingsChained'
  <2> SUFFICES ASSUME NEW j \in 1..(n + m), NEW i \in 1..(n + m) PROVE FirstOfUser(j)' /\ Chained(i, j)'
    BY <1>1 DEF RatingsChained
  <2>1. CASE j \in 1..n
    BY <1>5, <2>1
  <2>2. CASE \E x \in 1..m : j = n + x
    BY <1>6, <2>2
  <2> QED BY <1>3, <2>1, <2>2
<1>8. ASSUME NEW d, NEW u, NEW r, Fresh(d, u, r), {c, d} \subseteq overlapped
      PROVE  Fresh(d, u, r)'
  <2>1. ASSUME \A a \in 1..(n + m) : userRatings'[a].user # u PROVE r = DefaultRating
    <3>1. \A a \in 1..n : a \in 1..(n + m) /\ userRatings[a].user # u
      BY <1>1, <2>1
    <3> QED BY <1>1, <1>8, <3>1 DEF Fresh
  <2>2. ASSUME NEW a \in 1..(n + m), userRatings'[a].user = u,
               \A b \in (a + 1)..(n + m) : userRatings'[b].user # u
        PROVE  r = userRatings'[a].after \/ {userRatings'[a].contest, d} \subseteq overlapped
    <3>1. CASE a \in 1..n
      <4>1. \A b \in (a + 1)..n : b \in (a + 1)..(n + m) /\ b \in 1..n
        BY <1>1, <3>1
      <4>2. LastOf(a, u)
        BY <1>1, <2>2, <3>1, <4>1 DEF LastOf
      <4>3. a \in DOMAIN userRatings /\ userRatings'[a] = userRatings[a]
        BY <1>1, <3>1
      <4>4. r = userRatings[a].after \/ {userRatings[a].contest, d} \subseteq overlapped
        BY <1>8, <4>2, <4>3 DEF Fresh
      <4> QED BY <4>3, <4>4
    <3>2. CASE \E x \in 1..m : a = n + x
      BY <1>2, <1>8, <3>2
    <3> QED BY <1>3, <3>1, <3>2
  <2>3. \A a : LastOf(a, u)' => /\ a \in 1..(n + m) /\ userRatings'[a].user = u
                               /\ \A b \in (a + 1)..(n + m) : userRatings'[b].user # u
    BY <1>1 DEF LastOf
  <2>4. \A a : LastOf(a, u)' => r = userRatings'[a].after \/ {userRatings'[a].contest, d} \subseteq overlapped'
    BY <2>2, <2>3
  <2> QED BY <1>1, <2>1, <2>4 DEF Fresh
<1> QED BY <1>7, <1>8

LEMMA StoreRatingsChained ==
    ASSUME RatingInv, ChainInv, NEW k \in Calls, StoreRatings(k)
    PROVE  ChainInv'
<1>0. PICK c \in Contests : c = calls[k].contest
  <2>1. CallsInv /\ calls[k].pc # "none"
    BY DEF RatingInv, StoreRatings
  <2> QED BY <2>1, RunningCall
<1> DEFINE known == calls[k].known
           changes == Changes(c, known)
           pc == IF Refused(c) THEN "error" ELSE "ok"
<1>1. /\ calls[k].pc = "store" /\ calls' = [calls EXCEPT ![k].pc = pc] /\ overlapped' = overlapped
      /\ userRatings' = IF Refused(c) THEN userRatings ELSE userRatings \o changes
  BY <1>0 DEF StoreRatings, history
<1>2. /\ calls[k] \in [pc : {"read", "store", "ok", "error"}, contest : Contests,
                       by : {"worker", "administrator", "nobody"}, known : {known}]
      /\ IsSequence(known) /\ Len(known) = Len(Standing[c]) /\ Len(known) > 0
  BY <1>0, <1>1, RunningCall DEF InTurn, RatingInv
<1>3. pc \in {"error", "ok"} /\ DOMAIN calls = Calls
  BY DEF RatingInv, CallsInv
<1> HIDE DEF pc
<1>4. calls'[k].pc \in {"error", "ok"} /\ calls'[k].contest = c
  BY <1>0, <1>1, <1>2, <1>3
<1>5. \A l \in Calls : l # k => calls'[l] = calls[l]
  BY <1>1, <1>3
<1>6. \A l \in Calls : calls'[l].contest = calls[l].contest /\ (calls'[l].pc # "none" => calls[l].pc # "none")
  BY <1>0, <1>1, <1>4, <1>5
<1>7. \A l \in Calls : Reading(l)' => l # k /\ Reading(l) /\ calls'[l].known = calls[l].known
  BY <1>4, <1>5 DEF Reading
<1>8. CASE Refused(c)
  BY <1>1, <1>6, <1>7, <1>8, NoRowStored
<1>9. CASE ~Refused(c)
  <2>1. /\ IsSequence(changes) /\ Len(changes) = Len(Standing[c])
        /\ \A i \in DOMAIN changes : /\ changes[i].contest = c /\ changes[i].user = Standing[c][i]
                                     /\ changes[i].before = known[i]
    BY <1>2, ChangesAre
  <2>2. DOMAIN changes = DOMAIN known
    <3>1. DOMAIN changes = 1..Len(changes) /\ DOMAIN known = 1..Len(known)
      BY <1>2, <2>1, LenProperties DEF IsSequence
    <3> QED BY <1>2, <2>1, <3>1
  <2> HIDE DEF changes
  <2>3. userRatings' = userRatings \o changes
    BY <1>1, <1>9
  <2>4. \A i \in DOMAIN changes : Fresh(c, Standing[c][i], known[i])
    BY <1>0, <1>1, <1>9, <2>2 DEF ChainInv, FreshInv, Reading
  <2>5. RatingsChained' /\ \A d, u, r : Fresh(d, u, r) /\ {c, d} \subseteq overlapped => Fresh(d, u, r)'
    BY <1>1, <1>9, <2>1, <2>3, <2>4, RowsChained
  <2>6. Refused(c)' /\ \A d \in Contests : d # c => (Refused(d)' <=> Refused(d))
    <3>1. \A i \in DOMAIN changes : changes[i].contest = c /\ changes[i].user = Standing[c][i]
      BY <2>1
    <3> QED BY <1>2, <1>9, <2>1, <2>3, <3>1, RowsAdded DEF RatingInv
  <2>7. SideInv'
    BY <1>1, <1>6 DEF ChainInv, SideInv
  <2>8. FreshInv'
    <3> SUFFICES ASSUME NEW l \in Calls, Reading(l)', ~Refused(calls[l].contest)', NEW i \in DOMAIN calls'[l].known
                 PROVE  Fresh(calls[l].contest, Standing[calls[l].contest][i], calls[l].known[i])'
      BY DEF FreshInv
    <3>1. PICK d \in Contests : d = calls[l].contest
      <4>1. CallsInv /\ calls[l].pc # "none"
        BY <1>7 DEF RatingInv, Reading
      <4> QED BY <4>1, RunningCall
    <3>2. calls'[l] = calls[l] /\ Reading(l) /\ ~Refused(d)'
      BY <1>5, <1>7, <3>1
    <3>3. d # c /\ ~Refused(d)
      BY <2>6, <3>2
    <3>4. {c, d} \subseteq overlapped
      BY <1>0, <1>1, <3>1, <3>2, <3>3 DEF ChainInv, SideInv, Reading
    <3>5. Fresh(d, Standing[d][i], calls[l].known[i])
      BY <3>1, <3>2, <3>3 DEF ChainInv, FreshInv
    <3>6. \A u, r : Fresh(d, u, r) => Fresh(d, u, r)'
      BY <2>5, <3>4
    <3> QED BY <3>1, <3>2, <3>5, <3>6
  <2> QED BY <2>5, <2>7, <2>8 DEF ChainInv
<1> QED BY <1>8, <1>9

\* The steps of the handlers' callers that let a handler go, and those of the job alone.
LEMMA LetGoChained ==
    ASSUME RatingInv, ChainInv, NEW k \in Calls, NEW c \in Contests,
           \/ AnswerRatings(k) \/ LoseRatings(c) \/ RestartRatingWorker(c)
           \/ RatingDue(c) \/ FailCheck(c) \/ CompleteRatingJob(c) \/ CheckPlagiarism(c)
    PROVE  ChainInv'
<1>1. /\ userRatings' = userRatings /\ overlapped' = overlapped
      /\ calls' = [calls EXCEPT ![k] = NoCall] \/ calls' = Orphaned(c) \/ calls' = calls
  BY DEF AnswerRatings, LoseRatings, RestartRatingWorker, RatingDue, FailCheck, CompleteRatingJob,
         CheckPlagiarism, stored, history
<1>2. ASSUME NEW l \in Calls, calls'[l].pc # "none"
      PROVE  calls[l].pc # "none" /\ calls'[l].contest = calls[l].contest
             /\ calls'[l].pc = calls[l].pc /\ calls'[l].known = calls[l].known
  <2>1. CASE calls' = [calls EXCEPT ![k] = NoCall]
    <3>1. l # k /\ calls'[l] = calls[l]
      BY <1>2, <2>1 DEF RatingInv, CallsInv, NoCall
    <3> QED BY <1>2, <3>1
  <2>2. CASE calls' = Orphaned(c)
    <3>1. CASE calls[l].pc # "none" /\ calls[l].contest = c /\ calls[l].by = "worker"
      <4>1. calls'[l] = [calls[l] EXCEPT !.by = "nobody"]
        BY <2>2, <3>1 DEF Orphaned
      <4>2. calls[l] \in [pc : {"read", "store", "ok", "error"}, contest : Contests,
                          by : {"worker", "administrator", "nobody"}, known : {calls[l].known}]
        BY <3>1, RunningCall DEF RatingInv
      <4>3. calls'[l] = [pc |-> calls[l].pc, contest |-> calls[l].contest, by |-> "nobody", known |-> calls[l].known]
        BY <4>1, <4>2
      <4> QED BY <3>1, <4>3
    <3>2. CASE ~(calls[l].pc # "none" /\ calls[l].contest = c /\ calls[l].by = "worker")
      <4>1. calls'[l] = calls[l]
        BY <2>2, <3>2 DEF Orphaned
      <4> QED BY <1>2, <4>1
    <3> QED BY <3>1, <3>2
  <2>3. CASE calls' = calls
    BY <1>2, <2>3
  <2> QED BY <1>1, <2>1, <2>2, <2>3
<1>3. \A l \in Calls : Reading(l)' => Reading(l) /\ calls'[l].known = calls[l].known
  BY <1>2 DEF Reading
<1> QED BY <1>1, <1>2, <1>3, NoRowStored

LEMMA ChainStart == RatingInit => ChainInv
  BY EmptyIsSequence DEF RatingInit, ChainInv, SideInv, FreshInv, Reading, NoCall, RatingsChained

LEMMA ChainStep == RatingInv /\ ChainInv /\ [RatingNext]_ratingVars => ChainInv'
<1> SUFFICES ASSUME RatingInv, ChainInv, [RatingNext]_ratingVars PROVE ChainInv'
  OBVIOUS
<1>1. CASE RunCall
  <2>1. PICK k \in Calls : ReadRating(k) \/ StoreRatings(k) \/ AnswerRatings(k)
    BY <1>1 DEF RunCall
  <2>2. CASE AnswerRatings(k)
    <3>1. calls[k].contest \in Contests
      BY <2>2, RunningCall DEF RatingInv, AnswerRatings
    <3> QED BY <2>2, <3>1, LetGoChained
  <2> QED BY <2>1, <2>2, ReadRatingChained, StoreRatingsChained
<1>2. ASSUME NEW k \in Calls, NEW c \in Contests, TakeRatingJob(k, c) \/ RequestRatings(k, c)
      PROVE  ChainInv'
  <2>1. userRatings' = userRatings /\ \E by : BeginCall(k, c, by)
    BY <1>2 DEF TakeRatingJob, RequestRatings, stored
  <2> QED BY <2>1, BeginCallChained
<1>3. ASSUME NEW c \in Contests,
             \/ LoseRatings(c) \/ RestartRatingWorker(c) \/ RatingDue(c) \/ FailCheck(c)
             \/ CompleteRatingJob(c) \/ CheckPlagiarism(c)
      PROVE  ChainInv'
  <2>1. CASE Calls = {}
    <3>1. userRatings' = userRatings /\ overlapped' = overlapped
      BY <1>3 DEF LoseRatings, RestartRatingWorker, RatingDue, FailCheck, CompleteRatingJob,
                  CheckPlagiarism, stored, history
    <3> QED BY <2>1, <3>1, NoRowStored
  <2>2. CASE Calls # {}
    BY <1>3, <2>2, LetGoChained
  <2> QED BY <2>1, <2>2
<1>4. CASE RunRatingJob
  BY <1>2, <1>3, <1>4 DEF RunRatingJob
<1>5. CASE DisturbRatings
  BY <1>2, <1>3, <1>5 DEF DisturbRatings
<1>6. CASE UNCHANGED ratingVars
  <2>1. UNCHANGED <<userRatings, calls, overlapped>>
    BY <1>6 DEF ratingVars, stored, history
  <2> QED BY <2>1, NoRowStored DEF Reading
<1> QED BY <1>1, <1>4, <1>5, <1>6 DEF RatingNext

\* Every user's ratings go on from each other, from the default rating, for any contests,
\* standings, handlers, retries, restarts and administrators' requests, except where two
\* contests were rated side by side: of the handlers of one contest only the first to store
\* succeeds, and whoever has read before it for another contest ran beside it.
THEOREM RatingsChainedAlways == RatingSpec => []RatingsChained
<1>1. ChainInv => RatingsChained
  BY DEF ChainInv
<1> QED BY <1>1, RatingStart, RatingStep, ChainStart, ChainStep, PTL DEF RatingSpec


-----------------------------------------------------------------------------
(* RatingJob: types.  Ratings are whole numbers if Expected gives such.    *)

\* The parameter Expected has a value, in hundredths, for any two ratings.
ExpectedInteger == \A a, b \in Int : Expected(a, b) \in Int

\* A job has an attempt left unless it failed.
Attempted(j) == j.attempts \in 0..RatingAttempts /\ (j.state # "failed" => j.attempts < RatingAttempts)

ForWorker(k, c) == calls[k].pc # "none" /\ calls[k].contest = c /\ calls[k].by = "worker"

\* One handler at most answers the worker for a contest, whose job waits for it.
JobsInv ==
    \A c \in Contests :
        /\ Attempted(ratingJobs[c])
        /\ \A k \in Calls : ForWorker(k, c) => ratingJobs[c].state = "calling"
        /\ \A k, l \in Calls : ForWorker(k, c) /\ ForWorker(l, c) => k = l

BoundsInv ==
    /\ requests \in 0..MaxRequests /\ ratingFaults \in 0..MaxRatingFaults
    /\ checked \subseteq Contests /\ missed \subseteq Contests /\ overlapped \subseteq Contests

NumbersInv ==
    /\ \A i \in DOMAIN userRatings : userRatings[i] \in Row
    /\ \A k \in Calls : calls[k].pc # "none" => calls[k].known \in Seq(Int)

\* What the two steps of a running handler make of it.
LEMMA ReadRatingDoes ==
    ASSUME RatingInv, NEW k \in Calls, ReadRating(k)
    PROVE  /\ calls[k].pc = "read" /\ calls[k].contest \in Contests /\ IsSequence(calls[k].known)
           /\ UNCHANGED <<userRatings, ratingJobs>>
           /\ calls'[k].pc \in {"read", "store"} /\ calls'[k].contest = calls[k].contest /\ calls'[k].by = calls[k].by
           /\ calls'[k].known = Append(calls[k].known,
                                       CurrentRating(Standing[calls[k].contest][Len(calls[k].known) + 1]))
           /\ \A l \in Calls : l # k => calls'[l] = calls[l]
<1> DEFINE c == calls[k].contest
           n == Len(calls[k].known) + 1
           known == Append(calls[k].known, CurrentRating(Standing[c][n]))
           pc == IF n = Len(Standing[c]) THEN "store" ELSE "read"
           q == [calls[k] EXCEPT !.known = known, !.pc = pc]
<1>1. calls' = [calls EXCEPT ![k].known = known, ![k].pc = pc]
  BY DEF ReadRating
<1>2. CallsInv /\ calls[k].pc = "read" /\ UNCHANGED <<userRatings, ratingJobs>>
  BY DEF ReadRating, RatingInv, stored
<1>3. /\ calls[k] \in [pc : {"read", "store", "ok", "error"}, contest : Contests,
                       by : {"worker", "administrator", "nobody"}, known : {calls[k].known}]
      /\ c \in Contests /\ IsSequence(calls[k].known)
  BY <1>2, RunningCall DEF InTurn
<1> HIDE DEF known
<1>4. pc \in {"read", "store"}
  OBVIOUS
<1> HIDE DEF pc
<1>5. q = [pc |-> pc, contest |-> c, by |-> calls[k].by, known |-> known]
  BY <1>3, CallRead
<1>6. calls' = [calls EXCEPT ![k] = q]
  BY <1>1, <1>2 DEF CallsInv
<1> HIDE DEF q
<1>7. calls'[k] = q /\ \A l \in Calls : l # k => calls'[l] = calls[l]
  BY <1>2, <1>6 DEF CallsInv
<1> QED BY <1>2, <1>3, <1>4, <1>5, <1>7 DEF known

LEMMA StoreRatingsDoes ==
    ASSUME RatingInv, NEW k \in Calls, StoreRatings(k)
    PROVE  /\ calls[k].pc = "store" /\ calls[k].contest \in Contests
           /\ IsSequence(calls[k].known) /\ Len(calls[k].known) = Len(Standing[calls[k].contest]) /\ Len(calls[k].known) > 0
           /\ UNCHANGED ratingJobs
           /\ userRatings' = IF Refused(calls[k].contest) THEN userRatings
                             ELSE userRatings \o Changes(calls[k].contest, calls[k].known)
           /\ calls'[k].pc \in {"ok", "error"} /\ calls'[k].contest = calls[k].contest
           /\ calls'[k].by = calls[k].by /\ calls'[k].known = calls[k].known
           /\ \A l \in Calls : l # k => calls'[l] = calls[l]
<1>0. PICK c : c = calls[k].contest
  OBVIOUS
<1> DEFINE pc == IF Refused(c) THEN "error" ELSE "ok"
           q == [calls[k] EXCEPT !.pc = pc]
<1>1. /\ calls[k].pc = "store" /\ calls' = [calls EXCEPT ![k].pc = pc] /\ UNCHANGED ratingJobs
      /\ userRatings' = IF Refused(c) THEN userRatings ELSE userRatings \o Changes(c, calls[k].known)
  BY <1>0 DEF StoreRatings
<1>2. CallsInv
  BY DEF RatingInv
<1>3. /\ calls[k] \in [pc : {"read", "store", "ok", "error"}, contest : Contests,
                       by : {"worker", "administrator", "nobody"}, known : {calls[k].known}]
      /\ c \in Contests /\ IsSequence(calls[k].known) /\ Len(calls[k].known) = Len(Standing[c]) /\ Len(calls[k].known) > 0
  BY <1>0, <1>1, <1>2, RunningCall DEF InTurn
<1>4. pc \in {"error", "ok"}
  OBVIOUS
<1> HIDE DEF pc
<1>5. q = [pc |-> pc, contest |-> c, by |-> calls[k].by, known |-> calls[k].known]
  BY <1>0, <1>3
<1>6. calls' = [calls EXCEPT ![k] = q]
  BY <1>1, <1>2 DEF CallsInv
<1> HIDE DEF q
<1>7. calls'[k] = q /\ \A l \in Calls : l # k => calls'[l] = calls[l]
  BY <1>2, <1>6 DEF CallsInv
<1> QED BY <1>0, <1>1, <1>3, <1>4, <1>5, <1>7

LEMMA BeginCallDoes ==
    ASSUME RatingInv, NEW k \in Calls, NEW c, NEW by, BeginCall(k, c, by)
    PROVE  /\ calls[k].pc = "none" /\ calls'[k].contest = c /\ calls'[k].by = by /\ calls'[k].known = <<>>
           /\ \A l \in Calls : l # k => calls'[l] = calls[l]
<1> DEFINE pc == IF Len(Standing[c]) < 2 THEN "error" ELSE "read"
           q == [pc |-> pc, contest |-> c, by |-> by, known |-> <<>>]
<1>1. calls[k].pc = "none" /\ calls' = [calls EXCEPT ![k] = q] /\ DOMAIN calls = Calls
  BY DEF BeginCall, RatingInv, CallsInv
<1>2. q.contest = c /\ q.by = by /\ q.known = <<>>
  OBVIOUS
<1> HIDE DEF q
<1> QED BY <1>1, <1>2

\* Letting handlers go: nobody waits for those of contest c any more.
LEMMA OrphanedDoes ==
    ASSUME RatingInv, NEW c \in Contests, calls' = Orphaned(c)
    PROVE  /\ \A l \in Calls : calls'[l].pc # "none" =>
                  calls[l].pc # "none" /\ calls'[l].contest = calls[l].contest /\ calls'[l].known = calls[l].known
           /\ \A l \in Calls, d \in Contests : ForWorker(l, d)' => ForWorker(l, d) /\ d # c
<1> SUFFICES ASSUME NEW l \in Calls, calls'[l].pc # "none"
             PROVE  /\ calls[l].pc # "none" /\ calls'[l].contest = calls[l].contest /\ calls'[l].known = calls[l].known
                    /\ \A d \in Contests : ForWorker(l, d)' => ForWorker(l, d) /\ d # c
  BY DEF ForWorker
<1>1. CASE calls[l].pc # "none" /\ calls[l].contest = c /\ calls[l].by = "worker"
  <2>1. calls'[l] = [calls[l] EXCEPT !.by = "nobody"]
    BY <1>1 DEF Orphaned
  <2>2. calls[l] \in [pc : {"read", "store", "ok", "error"}, contest : Contests,
                      by : {"worker", "administrator", "nobody"}, known : {calls[l].known}]
    BY <1>1, RunningCall DEF RatingInv
  <2>3. calls'[l] = [pc |-> calls[l].pc, contest |-> calls[l].contest, by |-> "nobody", known |-> calls[l].known]
    BY <2>1, <2>2
  <2>4. calls'[l].by = "nobody" /\ calls'[l].contest = calls[l].contest /\ calls'[l].known = calls[l].known
    BY <2>3
  <2> QED BY <1>1, <2>4 DEF ForWorker
<1>2. CASE ~(calls[l].pc # "none" /\ calls[l].contest = c /\ calls[l].by = "worker")
  <2>1. calls'[l] = calls[l]
    BY <1>2 DEF Orphaned
  <2> QED BY <1>2, <2>1 DEF ForWorker
<1> QED BY <1>1, <1>2


\* The job of contest c is changed, and no other handler answers the worker than did before.
LEMMA JobsKept ==
    ASSUME RatingInv, JobsInv, NEW c \in Contests, NEW row, Attempted(row), ratingJobs' = [ratingJobs EXCEPT ![c] = row],
           \A l \in Calls, d \in Contests : ForWorker(l, d)' => ForWorker(l, d) /\ d # c
    PROVE  JobsInv'
<1>1. /\ ratingJobs'[c] = row /\ \A d \in Contests : d # c => ratingJobs'[d] = ratingJobs[d]
  BY DEF RatingInv
<1>2. ASSUME NEW d \in Contests
      PROVE  /\ Attempted(ratingJobs'[d])
             /\ \A k \in Calls : ForWorker(k, d)' => ratingJobs'[d].state = "calling"
             /\ \A k, l \in Calls : ForWorker(k, d)' /\ ForWorker(l, d)' => k = l
  <2>1. CASE d = c
    BY <1>1, <2>1
  <2>2. CASE d # c
    BY <1>1, <2>2 DEF JobsInv
  <2> QED BY <2>1, <2>2
<1> QED BY <1>2 DEF JobsInv

\* Another attempt after one that failed, and the job with another state.
LEMMA AttemptedThen ==
    ASSUME NEW j \in RatingJobRow, Attempted(j), j.state # "failed"
    PROVE  /\ Attempted(AfterAttempt(j))
           /\ \A state : Attempted([j EXCEPT !.state = state])
           /\ \A state : Attempted([j EXCEPT !.state = state, !.stalled = TRUE])
<1>1. PICK n \in 0..RatingAttempts, s \in JobStates, b \in BOOLEAN :
          j = [state |-> s, attempts |-> n, stalled |-> b] /\ n < RatingAttempts
  <2>1. j = [state |-> j.state, attempts |-> j.attempts, stalled |-> j.stalled]
    BY DEF RatingJobRow
  <2> QED BY <2>1 DEF Attempted, RatingJobRow
<1>2. Attempted(AfterAttempt(j))
  <2> DEFINE state == IF n + 1 < RatingAttempts THEN "waiting" ELSE "failed"
  <2>1. AfterAttempt(j) = [j EXCEPT !.attempts = n + 1, !.state = state]
    BY <1>1 DEF AfterAttempt
  <2>2. state # "failed" => n + 1 < RatingAttempts
    OBVIOUS
  <2> HIDE DEF state
  <2>3. AfterAttempt(j) = [state |-> state, attempts |-> n + 1, stalled |-> b]
    BY <1>1, <2>1
  <2>4. n + 1 \in 0..RatingAttempts
    BY <1>1 DEF RatingAttempts
  <2> QED BY <2>2, <2>3, <2>4 DEF Attempted
<1>3. ASSUME NEW state
      PROVE  Attempted([j EXCEPT !.state = state]) /\ Attempted([j EXCEPT !.state = state, !.stalled = TRUE])
  <2>1. [j EXCEPT !.state = state].attempts = j.attempts /\ [j EXCEPT !.state = state, !.stalled = TRUE].attempts = j.attempts
    BY DEF RatingJobRow
  <2> QED BY <1>1, <2>1 DEF Attempted
<1> QED BY <1>2, <1>3

LEMMA JobsStep == RatingInv /\ JobsInv /\ [RatingNext]_ratingVars => JobsInv'
<1> SUFFICES ASSUME RatingInv, JobsInv, [RatingNext]_ratingVars PROVE JobsInv'
  OBVIOUS
<1>0. DOMAIN ratingJobs = Contests /\ \A c \in Contests : ratingJobs[c] \in RatingJobRow /\ Attempted(ratingJobs[c])
  BY DEF RatingInv, JobsInv
<1>1. ASSUME ratingJobs' = ratingJobs, \A l \in Calls, d \in Contests : ForWorker(l, d)' => ForWorker(l, d)
      PROVE  JobsInv'
  BY <1>1 DEF JobsInv
<1>2. ASSUME NEW k \in Calls, ReadRating(k) \/ StoreRatings(k) PROVE JobsInv'
  <2>1. /\ ratingJobs' = ratingJobs /\ calls[k].pc # "none"
        /\ calls'[k].contest = calls[k].contest /\ calls'[k].by = calls[k].by
        /\ \A l \in Calls : l # k => calls'[l] = calls[l]
    <3>1. CASE ReadRating(k)
      BY <3>1, ReadRatingDoes
    <3>2. CASE StoreRatings(k)
      BY <3>2, StoreRatingsDoes
    <3> QED BY <1>2, <3>1, <3>2
  <2>2. \A l \in Calls, d \in Contests : ForWorker(l, d)' => ForWorker(l, d)
    BY <2>1 DEF ForWorker
  <2> QED BY <1>1, <2>1, <2>2
<1>3. ASSUME NEW k \in Calls, AnswerRatings(k) PROVE JobsInv'
  <2>0. PICK c \in Contests : c = calls[k].contest
    BY <1>3, RunningCall DEF RatingInv, AnswerRatings
  <2>1. /\ calls[k].pc # "none" /\ calls' = [calls EXCEPT ![k] = NoCall] /\ DOMAIN calls = Calls
        /\ ratingJobs' = IF calls[k].by # "worker" THEN ratingJobs
                         ELSE IF calls[k].pc = "ok" THEN [ratingJobs EXCEPT ![c].state = "checking"]
                         ELSE [ratingJobs EXCEPT ![c] = AfterAttempt(@)]
    BY <1>3, <2>0 DEF AnswerRatings, RatingInv, CallsInv
  <2>2. \A l \in Calls, d \in Contests : ForWorker(l, d)' => ForWorker(l, d) /\ l # k
    BY <2>1 DEF ForWorker, NoCall
  <2>3. CASE calls[k].by # "worker"
    BY <1>1, <2>1, <2>2, <2>3
  <2>4. CASE calls[k].by = "worker"
    <3>1. ForWorker(k, c)
      BY <2>0, <2>1, <2>4 DEF ForWorker
    <3>2. \A l \in Calls, d \in Contests : ForWorker(l, d)' => ForWorker(l, d) /\ d # c
      BY <2>2, <3>1 DEF JobsInv
    <3>3. ratingJobs[c].state # "failed"
      BY <3>1 DEF JobsInv
    <3>4. \/ ratingJobs' = [ratingJobs EXCEPT ![c] = [ratingJobs[c] EXCEPT !.state = "checking"]]
          \/ ratingJobs' = [ratingJobs EXCEPT ![c] = AfterAttempt(ratingJobs[c])]
      BY <1>0, <2>1, <2>4
    <3> QED BY <1>0, <3>2, <3>3, <3>4, AttemptedThen, JobsKept
  <2> QED BY <2>3, <2>4
<1>4. ASSUME NEW k \in Calls, NEW c \in Contests, TakeRatingJob(k, c) PROVE JobsInv'
  <2>1. /\ BeginCall(k, c, "worker") /\ ratingJobs[c].state = "waiting"
        /\ ratingJobs' = [ratingJobs EXCEPT ![c] = [ratingJobs[c] EXCEPT !.state = "calling"]]
    BY <1>0, <1>4 DEF TakeRatingJob
  <2>2. /\ calls'[k].contest = c /\ \A l \in Calls : l # k => calls'[l] = calls[l]
    BY <2>1, BeginCallDoes
  <2>3. \A l \in Calls, d \in Contests : ForWorker(l, d)' => ForWorker(l, d) \/ (l = k /\ d = c)
    BY <2>2 DEF ForWorker
  <2>4. \A l \in Calls : ~ForWorker(l, c)
    BY <2>1 DEF JobsInv
  <2>5. /\ Attempted(ratingJobs'[c]) /\ ratingJobs'[c].state = "calling"
        /\ \A d \in Contests : d # c => ratingJobs'[d] = ratingJobs[d]
    <3>1. ratingJobs'[c] = [ratingJobs[c] EXCEPT !.state = "calling"] /\ \A d \in Contests : d # c => ratingJobs'[d] = ratingJobs[d]
      BY <1>0, <2>1
    <3>2. Attempted([ratingJobs[c] EXCEPT !.state = "calling"])
      BY <1>0, <2>1, AttemptedThen
    <3>3. [ratingJobs[c] EXCEPT !.state = "calling"].state = "calling"
      BY <1>0 DEF RatingJobRow
    <3> QED BY <3>1, <3>2, <3>3
  <2>6. ASSUME NEW d \in Contests
        PROVE  /\ Attempted(ratingJobs'[d])
               /\ \A m \in Calls : ForWorker(m, d)' => ratingJobs'[d].state = "calling"
               /\ \A l, m \in Calls : ForWorker(l, d)' /\ ForWorker(m, d)' => l = m
    <3>1. CASE d = c
      BY <2>3, <2>4, <2>5, <3>1
    <3>2. CASE d # c
      BY <2>3, <2>5, <3>2 DEF JobsInv
    <3> QED BY <3>1, <3>2
  <2> QED BY <2>6 DEF JobsInv
<1>5. ASSUME NEW k \in Calls, NEW c \in Contests, RequestRatings(k, c) PROVE JobsInv'
  <2>1. BeginCall(k, c, "administrator") /\ ratingJobs' = ratingJobs
    BY <1>5 DEF RequestRatings
  <2>2. /\ calls'[k].by = "administrator" /\ \A l \in Calls : l # k => calls'[l] = calls[l]
    BY <2>1, BeginCallDoes
  <2>3. \A l \in Calls, d \in Contests : ForWorker(l, d)' => ForWorker(l, d)
    BY <2>2 DEF ForWorker
  <2> QED BY <1>1, <2>1, <2>3
<1>6. ASSUME NEW c \in Contests, RatingDue(c) \/ CheckPlagiarism(c) \/ FailCheck(c) \/ CompleteRatingJob(c) PROVE JobsInv'
  <2>1. /\ calls' = calls /\ ratingJobs[c].state \in {"delayed", "checking", "reported"}
        /\ \E state : ratingJobs' = [ratingJobs EXCEPT ![c] = [ratingJobs[c] EXCEPT !.state = state]]
    BY <1>0, <1>6 DEF RatingDue, CheckPlagiarism, FailCheck, CompleteRatingJob
  <2>2. \A l \in Calls, d \in Contests : ForWorker(l, d)' => ForWorker(l, d) /\ d # c
    BY <2>1 DEF JobsInv, ForWorker
  <2>3. ratingJobs[c].state # "failed"
    BY <2>1
  <2> QED BY <1>0, <2>1, <2>2, <2>3, AttemptedThen, JobsKept
<1>7. ASSUME NEW c \in Contests, LoseRatings(c) \/ RestartRatingWorker(c) PROVE JobsInv'
  <2>1. /\ calls' = Orphaned(c) /\ ratingJobs[c].state \in {"calling", "checking", "reported"}
        /\ \/ ratingJobs' = [ratingJobs EXCEPT ![c] = AfterAttempt(ratingJobs[c])]
           \/ \E state : ratingJobs' = [ratingJobs EXCEPT ![c] = [ratingJobs[c] EXCEPT !.state = state, !.stalled = TRUE]]
    <3>1. CASE LoseRatings(c)
      BY <1>0, <3>1 DEF LoseRatings
    <3>2. CASE RestartRatingWorker(c)
      <4>1. PICK state : state = IF ratingJobs[c].stalled THEN "failed" ELSE "waiting"
        OBVIOUS
      <4>2. ratingJobs' = [ratingJobs EXCEPT ![c].state = state, ![c].stalled = TRUE]
        BY <3>2, <4>1 DEF RestartRatingWorker
      <4>3. ratingJobs' = [ratingJobs EXCEPT ![c] = [ratingJobs[c] EXCEPT !.state = state, !.stalled = TRUE]]
        BY <1>0, <4>2
      <4> QED BY <3>2, <4>3 DEF RestartRatingWorker
    <3> QED BY <1>7, <3>1, <3>2
  <2>2. \A l \in Calls, d \in Contests : ForWorker(l, d)' => ForWorker(l, d) /\ d # c
    BY <2>1, OrphanedDoes
  <2>3. ratingJobs[c].state # "failed"
    BY <2>1
  <2>4. /\ Attempted(AfterAttempt(ratingJobs[c]))
        /\ \A state : Attempted([ratingJobs[c] EXCEPT !.state = state, !.stalled = TRUE])
    BY <1>0, <2>3, AttemptedThen
  <2>5. PICK row : Attempted(row) /\ ratingJobs' = [ratingJobs EXCEPT ![c] = row]
    BY <2>1, <2>4
  <2> QED BY <2>2, <2>5, JobsKept
<1>8. CASE UNCHANGED ratingVars
  BY <1>8 DEF JobsInv, ForWorker, ratingVars
<1> QED BY <1>2, <1>3, <1>4, <1>5, <1>6, <1>7, <1>8 DEF RatingNext, RunCall, RunRatingJob, DisturbRatings


LEMMA BoundsStep == RatingInv /\ BoundsInv /\ [RatingNext]_ratingVars => BoundsInv'
<1> SUFFICES ASSUME RatingInv, BoundsInv, [RatingNext]_ratingVars PROVE BoundsInv'
  OBVIOUS
<1>0. {MaxRequests, MaxRatingFaults} \subseteq Nat
  BY RatingAssumption DEF RatingAssumption
<1>1. ASSUME NEW k \in Calls, NEW c \in Contests, NEW by, BeginCall(k, c, by) PROVE overlapped' \subseteq Contests
  <2>1. \A l \in Calls : calls[l].pc # "none" => calls[l].contest \in Contests
    BY RunningCall DEF RatingInv
  <2>2. overlapped' = Beside(c)
    BY <1>1 DEF BeginCall
  <2> QED BY <2>1, <2>2 DEF Beside, BoundsInv
<1>2. CASE RunCall \/ UNCHANGED ratingVars
  BY <1>2 DEF RunCall, ReadRating, StoreRatings, AnswerRatings, ratingVars, stored, history, BoundsInv
<1>3. ASSUME NEW k \in Calls, NEW c \in Contests, TakeRatingJob(k, c) PROVE BoundsInv'
  BY <1>1, <1>3 DEF TakeRatingJob, stored, BoundsInv
<1>4. ASSUME NEW k \in Calls, NEW c \in Contests, RequestRatings(k, c) PROVE BoundsInv'
  BY <1>0, <1>1, <1>4 DEF RequestRatings, stored, BoundsInv
<1>5. ASSUME NEW c \in Contests, CheckPlagiarism(c) \/ CompleteRatingJob(c) \/ RatingDue(c) PROVE BoundsInv'
  BY <1>5 DEF CheckPlagiarism, CompleteRatingJob, RatingDue, stored, history, BoundsInv
<1>6. ASSUME NEW c \in Contests, FailCheck(c) \/ LoseRatings(c) \/ RestartRatingWorker(c) PROVE BoundsInv'
  <2>1. ratingFaults' = ratingFaults \/ (ratingFaults < MaxRatingFaults /\ ratingFaults' = ratingFaults + 1)
    BY <1>6 DEF FailCheck, LoseRatings, RestartRatingWorker
  <2>2. ratingFaults' \in 0..MaxRatingFaults
    BY <1>0, <2>1 DEF BoundsInv
  <2>3. missed' = missed \union {c} /\ UNCHANGED <<requests, checked, overlapped>>
    BY <1>6 DEF FailCheck, LoseRatings, RestartRatingWorker, stored
  <2> QED BY <2>2, <2>3 DEF BoundsInv
<1> QED BY <1>2, <1>3, <1>4, <1>5, <1>6 DEF RatingNext, RunRatingJob, DisturbRatings

LEMMA DeltaInteger ==
    ASSUME NEW a \in Int, NEW e \in Int, NEW r \in Int, NEW n \in Nat \ {0}
    PROVE  Delta(a, e, r, n) \in Int
<1>1. \A x \in Int, d \in Int : d > 0 => Rounded(x, d) \in Int
  BY DEF Rounded
<1>2. PICK low \in Int : low = (IF r < 1 THEN 1 ELSE r) /\ low > 0
  OBVIOUS
<1>3. PICK raw \in Int : raw = (e - 100 * a) * 200
  OBVIOUS
<1>4. PICK d \in Int : d = 100 * n /\ d > 0
  OBVIOUS
<1>5. PICK dl \in Int : dl = d * low
  BY <1>2, <1>4
<1>6. dl > 0
  BY <1>2, <1>4, <1>5
<1>7. PICK s : s = IF low < DefaultRating THEN Rounded(raw * DefaultRating, dl) ELSE Rounded(raw, d)
  OBVIOUS
<1>8. s \in Int
  BY <1>1, <1>3, <1>4, <1>5, <1>6, <1>7 DEF DefaultRating
<1>9. Delta(a, e, r, n) = ClampTo(-MaxDelta, s, MaxDelta)
  BY <1>2, <1>3, <1>4, <1>5, <1>7 DEF Delta
<1> QED BY <1>8, <1>9 DEF ClampTo, MaxDelta

\* The changes of a contest's ratings are whole numbers and give what they take.
LEMMA BalancedSum ==
    ASSUME ExpectedInteger, NEW known \in Seq(Int), Len(known) > 0
    PROVE  /\ Balanced(Deltas(known)) \in [1..Len(known) -> Int]
           /\ SumFunctionOnSet(Balanced(Deltas(known)), 1..Len(known)) = 0
<1>0. /\ Len(known) \in Nat /\ DOMAIN known = 1..Len(known) /\ \A i \in 1..Len(known) : known[i] \in Int
      /\ IsFiniteSet(1..Len(known)) /\ 1 \in 1..Len(known)
  <2>1. Len(known) \in Nat /\ DOMAIN known = 1..Len(known) /\ \A i \in 1..Len(known) : known[i] \in Int
    OBVIOUS
  <2> QED BY <2>1, FS_Interval
<1>1. ASSUME NEW i \in 1..Len(known) PROVE ExpectedRank(known, i) \in Int
  <2> DEFINE f == [j \in DOMAIN known |-> Expected(known[i], known[j])]
  <2>1. DOMAIN f = 1..Len(known) /\ \A j \in 1..Len(known) : f[j] \in Int
    BY <1>0 DEF ExpectedInteger
  <2> HIDE DEF f
  <2>2. SumFunctionOnSet(f, 1..Len(known)) \in Int
    BY <1>0, <2>1, SumIsInt
  <2>3. ExpectedRank(known, i) = 100 + SumFunctionOnSet(f, 1..Len(known))
    BY <2>1 DEF ExpectedRank, SumFunction, f
  <2> QED BY <2>2, <2>3
<1>2. PICK d : d = Deltas(known)
  OBVIOUS
<1>3. DOMAIN d = 1..Len(known) /\ \A i \in 1..Len(known) : d[i] \in Int
  <2>1. d = [i \in 1..Len(known) |-> Delta(i, ExpectedRank(known, i), known[i], Len(known))]
    BY <1>0, <1>2 DEF Deltas
  <2>2. ASSUME NEW i \in 1..Len(known) PROVE d[i] \in Int
    <3>1. i \in Int /\ ExpectedRank(known, i) \in Int /\ known[i] \in Int /\ Len(known) \in Nat \ {0}
      BY <1>0, <1>1
    <3>2. Delta(i, ExpectedRank(known, i), known[i], Len(known)) \in Int
      BY <3>1, DeltaInteger
    <3> QED BY <2>1, <3>2
  <2> QED BY <2>1, <2>2
<1>4. PICK sum \in Int : sum = SumFunctionOnSet(d, 1..Len(known))
  BY <1>0, <1>3, SumIsInt
<1>5. PICK b : b = Balanced(d)
  OBVIOUS
<1>6. b = [d EXCEPT ![1] = d[1] - sum] /\ d = [i \in 1..Len(known) |-> d[i]]
  <2>1. d = [i \in 1..Len(known) |-> d[i]]
    BY <1>2, <1>3 DEF Deltas
  <2> QED BY <1>3, <1>4, <1>5, <2>1 DEF Balanced, SumFunction
<1>7. b[1] = d[1] - sum /\ \A i \in (1..Len(known)) \ {1} : b[i] = d[i]
  BY <1>0, <1>3, <1>6
<1>8. d[1] - sum \in Int /\ b \in [1..Len(known) -> Int]
  <2>1. d[1] - sum \in Int
    BY <1>0, <1>3
  <2> QED BY <1>0, <1>3, <1>6, <2>1
<1>9. SumFunctionOnSet(b, 1..Len(known)) = SumFunctionOnSet(d, 1..Len(known)) + (b[1] - d[1])
  <2>1. \A i \in 1..Len(known) : d[i] \in Int /\ b[i] \in Int
    BY <1>3, <1>8
  <2>2. \A i \in (1..Len(known)) \ {1} : d[i] = b[i]
    BY <1>7
  <2>3. PICK S, x : S = 1..Len(known) /\ x = 1
    OBVIOUS
  <2>4. IsFiniteSet(S) /\ x \in S /\ (\A i \in S : d[i] \in Int /\ b[i] \in Int) /\ \A i \in S \ {x} : d[i] = b[i]
    BY <1>0, <2>1, <2>2, <2>3
  <2>5. SumFunctionOnSet(b, S) = SumFunctionOnSet(d, S) + (b[x] - d[x])
    BY <2>4, SumChanged
  <2> QED BY <2>3, <2>5
<1>10. SumFunctionOnSet(b, 1..Len(known)) = 0
  BY <1>0, <1>3, <1>4, <1>7, <1>9
<1> QED BY <1>2, <1>5, <1>8, <1>10

\* A user's rating is the number their last row ends with.
LastRating(rows, u) ==
    LET mine == {i \in DOMAIN rows : rows[i].user = u} IN
    IF mine = {} THEN DefaultRating ELSE rows[Max(mine)].after

IsLast(rows, a, u) ==
    /\ a \in DOMAIN rows /\ rows[a].user = u
    /\ \A b \in (a + 1)..Len(rows) : rows[b].user # u

LEMMA LastRowExists ==
    ASSUME NEW rows, IsSequence(rows), NEW u, \E i \in DOMAIN rows : rows[i].user = u
    PROVE  \E a : IsLast(rows, a, u)
<1>0. PICK n \in Nat : n = Len(rows) /\ DOMAIN rows = 1..n
  BY SequenceOf DEF IsSequence
<1> DEFINE back == {m \in Nat : n - m \in 1..n /\ rows[n - m].user = u}
<1>1. PICK i \in 1..n : rows[i].user = u
  BY <1>0
<1>2. n - i \in back
  <2>1. n - (n - i) = i /\ n - i \in Nat
    BY <1>0
  <2> QED BY <1>1, <2>1
<1>3. PICK m \in back : \A k \in back : m <= k
  BY <1>2, SmallestOf
<1>4. \A b \in (n - m + 1)..n : rows[b].user # u
  <2> SUFFICES ASSUME NEW b \in (n - m + 1)..n, rows[b].user = u PROVE FALSE
    OBVIOUS
  <2>1. n - b \in Nat /\ n - (n - b) = b /\ n - b < m /\ b \in 1..n
    BY <1>0, <1>3
  <2>2. n - b \in back
    BY <2>1
  <2> HIDE DEF back
  <2>3. m \in Nat /\ m <= n - b
    BY <1>3, <2>2 DEF back
  <2> QED BY <2>1, <2>3
<1>5. IsLast(rows, n - m, u)
  BY <1>0, <1>3, <1>4 DEF IsLast
<1> QED BY <1>5

LEMMA LastRatingIs ==
    ASSUME NEW rows, IsSequence(rows), NEW u
    PROVE  /\ (\A i \in DOMAIN rows : rows[i].user # u) => LastRating(rows, u) = DefaultRating
           /\ \A a : IsLast(rows, a, u) => LastRating(rows, u) = rows[a].after
<1> DEFINE mine == {i \in DOMAIN rows : rows[i].user = u}
<1>1. DOMAIN rows = 1..Len(rows) /\ Len(rows) \in Nat
  BY SequenceOf DEF IsSequence
<1>2. ASSUME \A i \in DOMAIN rows : rows[i].user # u PROVE LastRating(rows, u) = DefaultRating
  BY <1>2 DEF LastRating
<1>3. ASSUME NEW a, IsLast(rows, a, u) PROVE LastRating(rows, u) = rows[a].after
  <2>1. a \in mine /\ a \in Int
    BY <1>1, <1>3 DEF IsLast
  <2>2. \A b \in mine : b \in Int /\ a >= b
    BY <1>1, <1>3 DEF IsLast
  <2>3. \A x \in mine : (\A y \in mine : x >= y) => x = a
    BY <2>1, <2>2
  <2>4. Max(mine) = a
    BY <2>1, <2>2, <2>3 DEF Max
  <2> QED BY <2>1, <2>4 DEF LastRating
<1> QED BY <1>2, <1>3

LEMMA RatingInteger ==
    ASSUME RatingInv, NumbersInv, NEW u
    PROVE  CurrentRating(u) \in Int
<1>1. CurrentRating(u) = LastRating(userRatings, u) /\ IsSequence(userRatings)
  BY DEF CurrentRating, LastRating, RatingInv, RowsInv
<1>2. CASE \A i \in DOMAIN userRatings : userRatings[i].user # u
  BY <1>1, <1>2, LastRatingIs DEF DefaultRating
<1>3. CASE \E i \in DOMAIN userRatings : userRatings[i].user = u
  <2>1. PICK a : IsLast(userRatings, a, u)
    BY <1>1, <1>3, LastRowExists
  <2>2. userRatings[a] \in Row
    BY <2>1 DEF IsLast, NumbersInv
  <2> QED BY <1>1, <2>1, <2>2, LastRatingIs DEF Row
<1> QED BY <1>2, <1>3


\* Rows joined to rows: whose last row is among the new ones has the rating of that one, and
\* the others have the rating they had.
Joined(rows, changes, more, who) ==
    /\ IsSequence(rows) /\ IsSequence(changes) /\ more = rows \o changes
    /\ \A i \in 1..Len(changes) : changes[i].user = who[i]
    /\ \A i, j \in 1..Len(changes) : who[i] = who[j] => i = j

LEMMA LastOfJoined ==
    ASSUME NEW rows, NEW changes, NEW more, NEW who, Joined(rows, changes, more, who)
    PROVE  /\ \A i \in 1..Len(changes) : LastRating(more, who[i]) = changes[i].after
           /\ \A u : (\A i \in 1..Len(changes) : who[i] # u) => LastRating(more, u) = LastRating(rows, u)
<1>j. /\ IsSequence(rows) /\ IsSequence(changes) /\ more = rows \o changes
      /\ \A i \in 1..Len(changes) : changes[i].user = who[i]
      /\ \A i, j \in 1..Len(changes) : who[i] = who[j] => i = j
  BY DEF Joined
<1>0. PICK n \in Nat, m \in Nat : n = Len(rows) /\ m = Len(changes)
  BY <1>j, ConcatIsSequence
<1>1. /\ IsSequence(more) /\ Len(more) = n + m /\ DOMAIN rows = 1..n /\ DOMAIN more = 1..(n + m)
      /\ \A i \in 1..n : more[i] = rows[i]
      /\ \A i \in 1..m : more[n + i] = changes[i]
  <2>1. IsSequence(more) /\ Len(more) = n + m /\ DOMAIN rows = 1..n /\ DOMAIN more = 1..(n + m)
    BY <1>0, <1>j, ConcatIsSequence
  <2>2. \A i \in 1..n : more[i] = rows[i]
    BY <1>0, <1>j, ConcatIsSequence
  <2>3. \A i \in 1..m : more[n + i] = changes[i]
    BY <1>0, <1>j, ConcatIsSequence
  <2> QED BY <2>1, <2>2, <2>3
<1>s. IsSequence(more)
  BY <1>1
<1>2. ASSUME NEW i \in 1..m PROVE LastRating(more, who[i]) = changes[i].after
  <2>1. n + i \in 1..(n + m) /\ more[n + i] = changes[i]
    BY <1>1
  <2>2. ASSUME NEW b \in (n + i + 1)..(n + m) PROVE more[b].user # who[i]
    <3>1. PICK j \in 1..m : j = b - n /\ b = n + j /\ j # i
      <4>1. b - n \in 1..m /\ b = n + (b - n) /\ b - n # i
        OBVIOUS
      <4> QED BY <4>1
    <3>2. more[b] = changes[j]
      BY <1>1, <3>1
    <3> QED BY <1>0, <1>j, <3>1, <3>2
  <2>3. PICK a : a = n + i
    OBVIOUS
  <2>4. IsLast(more, a, who[i])
    BY <1>0, <1>1, <1>j, <2>1, <2>2, <2>3 DEF IsLast
  <2>5. LastRating(more, who[i]) = more[a].after
    BY <1>s, <2>4, LastRatingIs
  <2> QED BY <2>1, <2>3, <2>5
<1>3. ASSUME NEW u, \A i \in 1..m : who[i] # u PROVE LastRating(more, u) = LastRating(rows, u)
  <2>1. ASSUME NEW b \in 1..(n + m), b \notin 1..n PROVE more[b].user # u
    <3>1. PICK j \in 1..m : b = n + j
      <4>1. b - n \in 1..m /\ b = n + (b - n)
        BY <2>1
      <4> QED BY <4>1
    <3> QED BY <1>0, <1>1, <1>3, <1>j, <3>1
  <2>2. CASE \A i \in 1..n : rows[i].user # u
    <3>1. \A i \in DOMAIN more : more[i].user # u
      BY <1>1, <2>1, <2>2
    <3>2. LastRating(more, u) = DefaultRating
      BY <1>1, <3>1, LastRatingIs
    <3>3. LastRating(rows, u) = DefaultRating
      BY <1>1, <1>j, <2>2, LastRatingIs
    <3> QED BY <3>2, <3>3
  <2>3. CASE \E i \in 1..n : rows[i].user = u
    <3>1. PICK a : IsLast(rows, a, u)
      BY <1>1, <1>j, <2>3, LastRowExists
    <3>2. a \in 1..n /\ more[a] = rows[a]
      BY <1>1, <3>1 DEF IsLast
    <3>3. ASSUME NEW b \in (a + 1)..(n + m) PROVE more[b].user # u
      <4>1. b \in 1..(n + m)
        BY <3>2
      <4>2. CASE b \in 1..n
        <5>1. b \in (a + 1)..n
          BY <4>2
        <5> QED BY <1>0, <1>1, <3>1, <4>2, <5>1 DEF IsLast
      <4>3. CASE b \notin 1..n
        BY <2>1, <4>1, <4>3
      <4> QED BY <4>2, <4>3
    <3>4. IsLast(more, a, u)
      <4>1. a \in 1..(n + m) /\ more[a].user = u
        BY <3>1, <3>2 DEF IsLast
      <4> QED BY <1>1, <3>3, <4>1 DEF IsLast
    <3>5. LastRating(more, u) = more[a].after
      BY <1>s, <3>4, LastRatingIs
    <3>6. LastRating(rows, u) = rows[a].after
      BY <1>j, <3>1, LastRatingIs
    <3> QED BY <3>2, <3>5, <3>6
  <2> QED BY <2>2, <2>3
<1> QED BY <1>0, <1>2, <1>3

Ratings(rows) == [u \in Rated |-> LastRating(rows, u)]

\* Changes that give what they take leave the sum of all ratings as it is.
GiveAndTake(rows, changes, who, gain) ==
    /\ IsSequence(rows) /\ IsSequence(changes)
    /\ \A i, j \in 1..Len(changes) : who[i] = who[j] => i = j
    /\ \A i \in 1..Len(changes) :
          /\ who[i] \in Rated /\ gain[i] \in Int
          /\ changes[i].user = who[i] /\ changes[i].after = LastRating(rows, who[i]) + gain[i]
    /\ SumFunctionOnSet(gain, 1..Len(changes)) = 0

LEMMA RatingsAddUp ==
    ASSUME IsFiniteSet(Rated), NEW rows, NEW changes, NEW who, NEW gain, GiveAndTake(rows, changes, who, gain),
           \A u \in Rated : LastRating(rows, u) \in Int, NEW more, more = rows \o changes
    PROVE  SumFunctionOnSet(Ratings(more), Rated) = SumFunctionOnSet(Ratings(rows), Rated)
<1>h. /\ IsSequence(rows) /\ IsSequence(changes)
      /\ \A i, j \in 1..Len(changes) : who[i] = who[j] => i = j
      /\ \A i \in 1..Len(changes) :
            /\ who[i] \in Rated /\ gain[i] \in Int
            /\ changes[i].user = who[i] /\ changes[i].after = LastRating(rows, who[i]) + gain[i]
      /\ SumFunctionOnSet(gain, 1..Len(changes)) = 0
  BY DEF GiveAndTake
<1>a. PICK I : I = 1..Len(changes)
  OBVIOUS
<1>b. IsFiniteSet(I)
  <2>1. 1 \in Int /\ Len(changes) \in Int
    BY <1>h, ConcatIsSequence
  <2> QED BY <1>a, <2>1, FS_Interval
<1>0. I = 1..Len(changes) /\ IsFiniteSet(I)
  BY <1>a, <1>b
<1>1. PICK f : f = Ratings(rows)
  OBVIOUS
<1>2. PICK g : g = Ratings(more)
  OBVIOUS
<1>3. /\ \A i \in I : LastRating(more, who[i]) = changes[i].after
      /\ \A u : (\A i \in I : who[i] # u) => LastRating(more, u) = LastRating(rows, u)
  <2>1. Joined(rows, changes, more, who)
    BY <1>h DEF Joined
  <2>2. /\ \A i \in 1..Len(changes) : LastRating(more, who[i]) = changes[i].after
        /\ \A u : (\A i \in 1..Len(changes) : who[i] # u) => LastRating(more, u) = LastRating(rows, u)
    BY <2>1, LastOfJoined
  <2> QED BY <1>0, <2>2
<1>4. \A i \in I : who[i] \in Rated /\ gain[i] \in Int /\ g[who[i]] = f[who[i]] + gain[i] /\ f[who[i]] \in Int
  BY <1>0, <1>1, <1>2, <1>3, <1>h DEF Ratings
<1>5. \A u \in Rated : f[u] \in Int /\ ((\A i \in I : who[i] # u) => g[u] = f[u])
  BY <1>1, <1>2, <1>3 DEF Ratings
<1>6. \A u \in Rated : g[u] \in Int
  <2> SUFFICES ASSUME NEW u \in Rated PROVE g[u] \in Int
    OBVIOUS
  <2>1. CASE \E i \in I : who[i] = u
    BY <1>4, <2>1
  <2>2. CASE \A i \in I : who[i] # u
    BY <1>5, <2>2
  <2> QED BY <2>1, <2>2
<1>7. PICK h : h = [u \in Rated |-> g[u] - f[u]]
  OBVIOUS
<1>8. \A u \in Rated : h[u] \in Int /\ g[u] = f[u] + h[u] /\ h[u] = g[u] - f[u]
  BY <1>5, <1>6, <1>7
<1>9. \A i \in I : h[who[i]] = gain[i]
  BY <1>4, <1>8
<1>10. \A u \in Rated : (\A i \in I : who[i] # u) => h[u] = 0
  BY <1>5, <1>8
<1>11. SumFunctionOnSet(h, Rated) = SumFunctionOnSet(gain, I)
  <2>1. \A i \in I : who[i] \in Rated /\ gain[i] \in Int /\ h[who[i]] = gain[i]
    BY <1>4, <1>9
  <2>2. \A i, j \in I : who[i] = who[j] => i = j
    BY <1>0, <1>h
  <2>3. IsMoved(gain, I, h, Rated, who)
    BY <1>10, <2>1, <2>2 DEF IsMoved
  <2> QED BY <1>b, <2>3, SumMoved
<1>12. SumFunctionOnSet(g, Rated) = SumFunctionOnSet(f, Rated) + SumFunctionOnSet(h, Rated)
  BY <1>5, <1>8, SumAdded
<1>13. SumFunctionOnSet(f, Rated) \in Int
  BY <1>5, SumIsInt
<1> QED BY <1>0, <1>h, <1>1, <1>2, <1>11, <1>12, <1>13

\* The rows a calculation stores.
LEMMA ChangesTyped ==
    ASSUME ExpectedInteger, NEW c \in Contests, NEW known \in Seq(Int), Len(known) = Len(Standing[c]), Len(known) > 0
    PROVE  /\ IsSequence(Changes(c, known)) /\ Len(Changes(c, known)) = Len(known) /\ Len(known) \in Nat
           /\ DOMAIN Changes(c, known) = 1..Len(known)
           /\ \A i \in 1..Len(known) :
                /\ Changes(c, known)[i] \in Row
                /\ Changes(c, known)[i].contest = c /\ Changes(c, known)[i].user = Standing[c][i]
                /\ Changes(c, known)[i].before = known[i]
                /\ Changes(c, known)[i].after = known[i] + Balanced(Deltas(known))[i]
<1>0. PICK n \in Nat : n = Len(known) /\ DOMAIN known = 1..n /\ \A i \in 1..n : known[i] \in Int
  OBVIOUS
<1>1. PICK gain \in [1..n -> Int] : gain = Balanced(Deltas(known))
  BY <1>0, BalancedSum
<1>2. \A i \in 1..n : Standing[c][i] \in Rated
  <2>1. Standing[c] \in Seq(Rated)
    BY RatingAssumption DEF RatingAssumption
  <2> QED BY <1>0, <2>1
<1>3. PICK changes : changes = Changes(c, known)
  OBVIOUS
<1>4. IsSequence(changes) /\ Len(changes) = n /\ DOMAIN changes = 1..n
  <2>1. IsSequence(known)
    BY SequenceOf
  <2>2. IsSequence(changes) /\ Len(changes) = n
    BY <1>0, <1>3, <2>1, ChangesAre
  <2> QED BY <2>2, SequenceOf DEF IsSequence
<1>5. changes = [i \in 1..n |-> [user |-> Standing[c][i], contest |-> c, before |-> known[i], after |-> known[i] + gain[i]]]
  BY <1>0, <1>1, <1>3 DEF Changes
<1>6. ASSUME NEW i \in 1..n
      PROVE  /\ changes[i] \in Row /\ changes[i].contest = c /\ changes[i].user = Standing[c][i]
             /\ changes[i].before = known[i] /\ changes[i].after = known[i] + gain[i]
  <2>1. PICK u \in Rated, b \in Int, a \in Int : u = Standing[c][i] /\ b = known[i] /\ a = known[i] + gain[i]
    BY <1>0, <1>2
  <2>2. changes[i] = [user |-> u, contest |-> c, before |-> b, after |-> a]
    BY <1>5, <2>1
  <2> QED BY <2>1, <2>2 DEF Row
<1> QED BY <1>0, <1>1, <1>3, <1>4, <1>6


LEMMA NumbersStep == ExpectedInteger /\ RatingInv /\ NumbersInv /\ [RatingNext]_ratingVars => NumbersInv'
<1> SUFFICES ASSUME ExpectedInteger, RatingInv, NumbersInv, [RatingNext]_ratingVars PROVE NumbersInv'
  OBVIOUS
<1>1. ASSUME userRatings' = userRatings,
             \A l \in Calls : calls'[l].pc # "none" =>
                calls'[l].known \in Seq(Int) \/ (calls[l].pc # "none" /\ calls'[l].known = calls[l].known)
      PROVE  NumbersInv'
  BY <1>1 DEF NumbersInv
<1>2. ASSUME NEW k \in Calls, ReadRating(k) PROVE NumbersInv'
  <2>1. PICK r \in Int : calls'[k].known = Append(calls[k].known, r)
    BY <1>2, ReadRatingDoes, RatingInteger
  <2>2. calls[k].known \in Seq(Int) /\ userRatings' = userRatings /\ \A l \in Calls : l # k => calls'[l] = calls[l]
    BY <1>2, ReadRatingDoes DEF NumbersInv
  <2>3. calls'[k].known \in Seq(Int)
    BY <2>1, <2>2, AppendProperties
  <2> QED BY <1>1, <2>2, <2>3
<1>3. ASSUME NEW k \in Calls, StoreRatings(k) PROVE NumbersInv'
  <2>0. PICK c \in Contests : c = calls[k].contest
    BY <1>3, StoreRatingsDoes
  <2>1. PICK known : c = calls[k].contest /\ known = calls[k].known
    BY <2>0
  <2>2. /\ calls[k].pc # "none" /\ known \in Seq(Int) /\ Len(known) = Len(Standing[c]) /\ Len(known) > 0
        /\ userRatings' = IF Refused(c) THEN userRatings ELSE userRatings \o Changes(c, known)
        /\ calls'[k].known = known /\ \A l \in Calls : l # k => calls'[l] = calls[l]
    BY <1>3, <2>1, StoreRatingsDoes DEF NumbersInv
  <2>3. CASE Refused(c)
    BY <1>1, <2>1, <2>2, <2>3
  <2>4. CASE ~Refused(c)
    <3>1. PICK changes : changes = Changes(c, known)
      OBVIOUS
    <3>2. IsSequence(changes) /\ DOMAIN changes = 1..Len(changes) /\ \A i \in 1..Len(changes) : changes[i] \in Row
      BY <2>2, <3>1, ChangesTyped
    <3>3. IsSequence(userRatings) /\ userRatings' = userRatings \o changes
      BY <2>2, <2>4, <3>1 DEF RatingInv, RowsInv
    <3>4. PICK n \in Nat, m \in Nat : n = Len(userRatings) /\ m = Len(changes)
      BY <3>2, <3>3, RowsJoined
    <3>5. /\ DOMAIN userRatings = 1..n /\ DOMAIN userRatings' = 1..(n + m)
          /\ \A i \in 1..n : userRatings'[i] = userRatings[i]
          /\ \A i \in 1..m : userRatings'[n + i] = changes[i]
      BY <3>2, <3>3, <3>4, RowsJoined
    <3>6. ASSUME NEW i \in 1..(n + m) PROVE userRatings'[i] \in Row
      <4>1. CASE i \in 1..n
        BY <3>5, <4>1 DEF NumbersInv
      <4>2. CASE i \notin 1..n
        <5>1. i - n \in 1..m /\ i = n + (i - n)
          BY <4>2
        <5> QED BY <3>2, <3>4, <3>5, <5>1
      <4> QED BY <4>1, <4>2
    <3>7. \A l \in Calls : calls'[l].pc # "none" => calls'[l].known \in Seq(Int)
      BY <2>2 DEF NumbersInv
    <3> QED BY <3>5, <3>6, <3>7 DEF NumbersInv
  <2> QED BY <2>3, <2>4
<1>4. ASSUME NEW k \in Calls, AnswerRatings(k) PROVE NumbersInv'
  <2>1. calls'[k] = NoCall /\ userRatings' = userRatings /\ \A l \in Calls : l # k => calls'[l] = calls[l]
    BY <1>4 DEF AnswerRatings, RatingInv, CallsInv, stored
  <2> QED BY <1>1, <2>1 DEF NoCall
<1>5. ASSUME NEW k \in Calls, NEW c \in Contests, TakeRatingJob(k, c) \/ RequestRatings(k, c) PROVE NumbersInv'
  <2>1. userRatings' = userRatings /\ \E by : BeginCall(k, c, by)
    BY <1>5 DEF TakeRatingJob, RequestRatings, stored
  <2>2. calls'[k].known = <<>> /\ \A l \in Calls : l # k => calls'[l] = calls[l]
    BY <2>1, BeginCallDoes
  <2>3. <<>> \in Seq(Int)
    BY EmptySeq
  <2> QED BY <1>1, <2>1, <2>2, <2>3
<1>6. ASSUME NEW c \in Contests, RatingDue(c) \/ CheckPlagiarism(c) \/ FailCheck(c) \/ CompleteRatingJob(c) PROVE NumbersInv'
  <2>1. UNCHANGED <<userRatings, calls>>
    BY <1>6 DEF RatingDue, CheckPlagiarism, FailCheck, CompleteRatingJob, stored
  <2> QED BY <1>1, <2>1
<1>7. ASSUME NEW c \in Contests, LoseRatings(c) \/ RestartRatingWorker(c) PROVE NumbersInv'
  <2>1. calls' = Orphaned(c) /\ userRatings' = userRatings
    BY <1>7 DEF LoseRatings, RestartRatingWorker, stored
  <2> QED BY <1>1, <2>1, OrphanedDoes
<1>8. CASE UNCHANGED ratingVars
  <2>1. UNCHANGED <<userRatings, calls>>
    BY <1>8 DEF ratingVars, stored
  <2> QED BY <1>1, <2>1
<1> QED BY <1>2, <1>3, <1>4, <1>5, <1>6, <1>7, <1>8 DEF RatingNext, RunCall, RunRatingJob, DisturbRatings

\* The handlers and the reports are functions.
ShapesInv == calls = [k \in Calls |-> calls[k]] /\ reports = [p \in Pairs |-> reports[p]]

LEMMA ShapesStep == RatingInv /\ ShapesInv /\ [RatingNext]_ratingVars => ShapesInv'
<1> SUFFICES ASSUME RatingInv, ShapesInv, [RatingNext]_ratingVars PROVE ShapesInv'
  OBVIOUS
<1>0. calls \in [Calls -> {calls[k] : k \in Calls}]
  BY DEF ShapesInv
<1>1. calls' = [k \in Calls |-> calls'[k]]
  <2>1. ASSUME NEW k \in Calls, NEW q, calls' = [calls EXCEPT ![k] = q] PROVE calls' = [l \in Calls |-> calls'[l]]
    BY <1>0, <2>1
  <2>2. ASSUME NEW k \in Calls, NEW c, NEW by, BeginCall(k, c, by) PROVE \E q : calls' = [calls EXCEPT ![k] = q]
    BY <2>2 DEF BeginCall
  <2>3. ASSUME NEW k \in Calls, AnswerRatings(k) PROVE calls' = [calls EXCEPT ![k] = NoCall]
    BY <2>3 DEF AnswerRatings
  <2>4. ASSUME NEW k \in Calls, StoreRatings(k) PROVE \E pc : calls' = [calls EXCEPT ![k].pc = pc]
    BY <2>4 DEF StoreRatings
  <2>5. ASSUME NEW k \in Calls, ReadRating(k) PROVE \E pc, known : calls' = [calls EXCEPT ![k].known = known, ![k].pc = pc]
    BY <2>5 DEF ReadRating
  <2>6. ASSUME NEW k \in Calls, NEW pc, calls' = [calls EXCEPT ![k].pc = pc] PROVE \E q : calls' = [calls EXCEPT ![k] = q]
    BY <1>0, <2>6
  <2>7. ASSUME NEW k \in Calls, NEW pc, NEW known, calls' = [calls EXCEPT ![k].known = known, ![k].pc = pc]
        PROVE  \E q : calls' = [calls EXCEPT ![k] = q]
    BY <1>0, <2>7
  <2>8. CASE RunCall
    BY <2>1, <2>3, <2>4, <2>5, <2>6, <2>7, <2>8 DEF RunCall
  <2>9. ASSUME NEW k \in Calls, NEW c \in Contests, TakeRatingJob(k, c) \/ RequestRatings(k, c)
        PROVE  calls' = [l \in Calls |-> calls'[l]]
    <3>1. \E by : BeginCall(k, c, by)
      BY <2>9 DEF TakeRatingJob, RequestRatings
    <3> QED BY <2>1, <2>2, <3>1
  <2>10. ASSUME NEW c \in Contests,
                \/ RatingDue(c) \/ CheckPlagiarism(c) \/ FailCheck(c) \/ CompleteRatingJob(c)
                \/ LoseRatings(c) \/ RestartRatingWorker(c)
         PROVE  calls' = [l \in Calls |-> calls'[l]]
    <3>1. calls' = calls \/ calls' = Orphaned(c)
      BY <2>10 DEF RatingDue, CheckPlagiarism, FailCheck, CompleteRatingJob, LoseRatings, RestartRatingWorker
    <3>2. Orphaned(c) = [l \in Calls |-> Orphaned(c)[l]]
      BY DEF Orphaned
    <3> QED BY <3>1, <3>2 DEF ShapesInv
  <2>11. CASE UNCHANGED ratingVars
    BY <2>11 DEF ratingVars, ShapesInv
  <2> QED BY <2>8, <2>9, <2>10, <2>11 DEF RatingNext, RunRatingJob, DisturbRatings
<1>2. reports' = reports \/ \E matches : reports' = Filed(matches)
  BY DEF RatingNext, RunCall, RunRatingJob, DisturbRatings, ReadRating, StoreRatings, AnswerRatings, TakeRatingJob,
         RequestRatings, RatingDue, CheckPlagiarism, FailCheck, CompleteRatingJob, LoseRatings, RestartRatingWorker,
         ratingVars, stored
<1>3. reports' = [p \in Pairs |-> reports'[p]]
  <2>1. \A matches : Filed(matches) = [p \in Pairs |-> Filed(matches)[p]]
    BY DEF Filed
  <2> QED BY <1>2, <2>1 DEF ShapesInv
<1> QED BY <1>1, <1>3 DEF ShapesInv

LEMMA TypesStart == RatingInit => JobsInv /\ BoundsInv /\ NumbersInv /\ ShapesInv
<1> SUFFICES ASSUME RatingInit PROVE JobsInv /\ BoundsInv /\ NumbersInv /\ ShapesInv
  OBVIOUS
<1>1. JobsInv
  <2>1. \A c \in Contests : ratingJobs[c].attempts = 0
    BY DEF RatingInit
  <2> QED BY <2>1 DEF RatingInit, JobsInv, ForWorker, NoCall, Attempted, RatingAttempts
<1>2. BoundsInv
  BY RatingAssumption DEF RatingInit, BoundsInv, RatingAssumption
<1>3. NumbersInv
  BY EmptyIsSequence DEF RatingInit, NumbersInv, NoCall
<1>4. ShapesInv
  BY DEF RatingInit, ShapesInv
<1> QED BY <1>1, <1>2, <1>3, <1>4

LEMMA RatingTyped == RatingInv /\ JobsInv /\ BoundsInv /\ NumbersInv /\ ShapesInv => RatingTypeOK
<1> SUFFICES ASSUME RatingInv, JobsInv, BoundsInv, NumbersInv, ShapesInv PROVE RatingTypeOK
  OBVIOUS
<1>1. userRatings \in Seq(Row)
  <2>1. Len(userRatings) \in Nat /\ DOMAIN userRatings = 1..Len(userRatings) /\ userRatings = [i \in 1..Len(userRatings) |-> userRatings[i]]
    BY LenProperties DEF RatingInv, RowsInv, IsSequence
  <2>2. userRatings \in [1..Len(userRatings) -> Row]
    BY <2>1 DEF NumbersInv
  <2> QED BY <2>1, <2>2, IsASeq
<1>2. calls \in [Calls -> Call]
  <2>1. ASSUME NEW k \in Calls PROVE calls[k] \in Call
    <3>1. CASE calls[k] = NoCall
      BY <3>1 DEF Call
    <3>2. CASE calls[k] # NoCall
      <4>1. calls[k] \in [pc : {"read", "store", "ok", "error"}, contest : Contests,
                          by : {"worker", "administrator", "nobody"}, known : {calls[k].known}]
        BY <3>2 DEF RatingInv, CallsInv, IsCall
      <4>2. calls[k].pc # "none"
        BY <4>1
      <4>3. calls[k].known \in Seq(Int)
        BY <4>2 DEF NumbersInv
      <4> QED BY <4>1, <4>3 DEF Call
    <3> QED BY <3>1, <3>2
  <2>2. calls = [k \in Calls |-> calls[k]]
    BY DEF ShapesInv
  <2> QED BY <2>1, <2>2
<1>3. ratingJobs \in [Contests -> RatingJob]
  BY DEF RatingInv, JobsInv, Attempted, RatingJobRow, RatingJob, JobStates
<1>4. reports \in [Pairs -> Nat]
  BY DEF RatingInv, ReportsInv, ShapesInv
<1> QED BY <1>1, <1>2, <1>3, <1>4 DEF BoundsInv, RatingTypeOK

\* Every variable of the rating job has its type, for any contests, standings, callers,
\* retries and restarts, and any expected scores that are whole hundredths: ratings stay whole
\* numbers, and no rating job is attempted more than three times.
THEOREM RatingTypeCorrect == ExpectedInteger => (RatingSpec => []RatingTypeOK)
<1> SUFFICES ASSUME ExpectedInteger PROVE RatingSpec => []RatingTypeOK
  OBVIOUS
<1>1. NumbersInv /\ RatingInv /\ [RatingNext]_ratingVars => NumbersInv'
  BY NumbersStep
<1> QED BY <1>1, TypesStart, RatingStart, RatingStep, JobsStep, BoundsStep, ShapesStep, RatingTyped, PTL DEF RatingSpec


-----------------------------------------------------------------------------
(* RatingJob: the ratings add up.                                          *)

AddUpInv == overlapped = {} => SumFunctionOnSet(Ratings(userRatings), Rated) = DefaultRating * Cardinality(Rated)

LEMMA RatedFinite == IsFiniteSet(Rated) /\ Cardinality(Rated) \in Nat
<1> DEFINE f == [c \in Contests |-> Range(Standing[c])]
<1>1. ASSUME NEW c \in Contests PROVE IsFiniteSet(f[c])
  <2>1. PICK s \in Seq(Rated) : s = Standing[c]
    BY RatingAssumption DEF RatingAssumption
  <2>2. Len(s) \in Nat /\ s \in [1..Len(s) -> Rated]
    OBVIOUS
  <2>3. Range(s) = {s[i] : i \in 1..Len(s)}
    BY <2>2 DEF Range
  <2>4. s \in Surjection(1..Len(s), Range(s))
    BY <2>2, <2>3 DEF Surjection
  <2>5. IsFiniteSet(1..Len(s))
    BY <2>2, FS_Interval
  <2> QED BY <2>1, <2>4, <2>5, FS_Surjection
<1>2. Rated = UNION {f[c] : c \in Contests}
  BY DEF Rated
<1> HIDE DEF f
<1>3. IsFiniteSet(UNION {f[c] : c \in Contests})
  BY <1>1, RatingAssumption, FiniteUnion DEF RatingAssumption
<1> QED BY <1>2, <1>3, FS_CardinalityType

\* A fresh rating is the one stored last, unless contests were rated side by side.
LEMMA FreshIsLast ==
    ASSUME RatingInv, overlapped = {}, NEW c, NEW u, NEW r, Fresh(c, u, r)
    PROVE  r = LastRating(userRatings, u)
<1>1. IsSequence(userRatings)
  BY DEF RatingInv, RowsInv
<1>2. CASE \A i \in DOMAIN userRatings : userRatings[i].user # u
  BY <1>1, <1>2, LastRatingIs DEF Fresh
<1>3. CASE \E i \in DOMAIN userRatings : userRatings[i].user = u
  <2>1. PICK a : IsLast(userRatings, a, u)
    BY <1>1, <1>3, LastRowExists
  <2>2. LastOf(a, u) /\ a \in DOMAIN userRatings
    BY <2>1 DEF IsLast, LastOf
  <2>3. r = userRatings[a].after
    BY <2>2 DEF Fresh
  <2> QED BY <1>1, <2>1, <2>3, LastRatingIs
<1> QED BY <1>2, <1>3

LEMMA StoreAddsUp ==
    ASSUME ExpectedInteger, RatingInv, ChainInv, NumbersInv, overlapped = {}, NEW k \in Calls, StoreRatings(k)
    PROVE  SumFunctionOnSet(Ratings(userRatings'), Rated) = SumFunctionOnSet(Ratings(userRatings), Rated)
<1>0. PICK c \in Contests : c = calls[k].contest
  BY StoreRatingsDoes
<1>1. PICK known : known = calls[k].known
  OBVIOUS
<1>2. /\ calls[k].pc = "store" /\ known \in Seq(Int) /\ Len(known) = Len(Standing[c]) /\ Len(known) > 0
      /\ userRatings' = IF Refused(c) THEN userRatings ELSE userRatings \o Changes(c, known)
  BY <1>0, <1>1, StoreRatingsDoes DEF NumbersInv
<1>3. CASE Refused(c)
  BY <1>2, <1>3
<1>4. CASE ~Refused(c)
  <2>1. PICK changes : changes = Changes(c, known)
    OBVIOUS
  <2>2. PICK gain : gain = Balanced(Deltas(known))
    OBVIOUS
  <2>3. PICK rows : rows = userRatings
    OBVIOUS
  <2>4. PICK more : more = userRatings'
    OBVIOUS
  <2>5. /\ IsSequence(changes) /\ Len(changes) = Len(known) /\ DOMAIN known = 1..Len(changes)
        /\ \A i \in 1..Len(changes) : changes[i].user = Standing[c][i] /\ changes[i].after = known[i] + gain[i]
    BY <1>2, <2>1, <2>2, ChangesTyped
  <2>6. /\ \A i \in 1..Len(changes) : gain[i] \in Int
        /\ SumFunctionOnSet(gain, 1..Len(changes)) = 0
    BY <1>2, <2>2, <2>5, BalancedSum
  <2>7. \A i \in 1..Len(changes) : known[i] = LastRating(rows, Standing[c][i])
    <3> SUFFICES ASSUME NEW i \in 1..Len(changes) PROVE known[i] = LastRating(rows, Standing[c][i])
      OBVIOUS
    <3>1. Fresh(c, Standing[c][i], known[i])
      BY <1>0, <1>1, <1>2, <1>4, <2>5 DEF ChainInv, FreshInv, Reading
    <3> QED BY <2>3, <3>1, FreshIsLast
  <2>8. /\ \A i \in 1..Len(changes) : Standing[c][i] \in Rated
        /\ \A i, j \in 1..Len(changes) : Standing[c][i] = Standing[c][j] => i = j
    <3>1. PICK s \in Seq(Rated) : s = Standing[c] /\ IsInjective(s)
      BY RatingAssumption DEF RatingAssumption
    <3>2. DOMAIN s = 1..Len(changes) /\ \A i \in 1..Len(changes) : s[i] \in Rated
      BY <1>2, <2>5, <3>1
    <3>3. \A i, j \in 1..Len(changes) : s[i] = s[j] => i = j
      BY <3>1, <3>2 DEF IsInjective
    <3> QED BY <3>1, <3>2, <3>3
  <2>9. IsSequence(rows) /\ more = rows \o changes
    BY <1>2, <1>4, <2>1, <2>3, <2>4 DEF RatingInv, RowsInv
  <2>10. \A u \in Rated : LastRating(rows, u) \in Int
    <3>1. \A u : CurrentRating(u) = LastRating(rows, u)
      BY <2>3 DEF CurrentRating, LastRating
    <3> QED BY <3>1, RatingInteger
  <2>11. PICK who : who = Standing[c]
    OBVIOUS
  <2>12. \A i \in 1..Len(changes) :
           /\ who[i] \in Rated /\ gain[i] \in Int
           /\ changes[i].user = who[i] /\ changes[i].after = LastRating(rows, who[i]) + gain[i]
    BY <2>5, <2>6, <2>7, <2>8, <2>11
  <2>13. \A i, j \in 1..Len(changes) : who[i] = who[j] => i = j
    BY <2>8, <2>11
  <2>14. SumFunctionOnSet(Ratings(more), Rated) = SumFunctionOnSet(Ratings(rows), Rated)
    <3>1. GiveAndTake(rows, changes, who, gain)
      BY <2>5, <2>6, <2>9, <2>12, <2>13 DEF GiveAndTake
    <3> QED BY <2>9, <2>10, <3>1, RatedFinite, RatingsAddUp
  <2> QED BY <2>3, <2>4, <2>14
<1> QED BY <1>3, <1>4

LEMMA AddUpStart == RatingInit => AddUpInv
<1> SUFFICES ASSUME RatingInit PROVE SumFunctionOnSet(Ratings(userRatings), Rated) = DefaultRating * Cardinality(Rated)
  BY DEF AddUpInv
<1>1. PICK f : f = Ratings(userRatings)
  OBVIOUS
<1>2. \A u \in Rated : f[u] = DefaultRating
  <2>1. \A u : LastRating(<<>>, u) = DefaultRating
    BY EmptyIsSequence, LastRatingIs
  <2> QED BY <1>1, <2>1 DEF RatingInit, Ratings
<1>3. DefaultRating \in Int
  BY DEF DefaultRating
<1> QED BY <1>1, <1>2, <1>3, RatedFinite, SumConstant

LEMMA AddUpStep ==
    ExpectedInteger /\ RatingInv /\ ChainInv /\ NumbersInv /\ AddUpInv /\ [RatingNext]_ratingVars => AddUpInv'
<1> SUFFICES ASSUME ExpectedInteger, RatingInv, ChainInv, NumbersInv, AddUpInv, [RatingNext]_ratingVars, overlapped' = {}
             PROVE  SumFunctionOnSet(Ratings(userRatings'), Rated) = DefaultRating * Cardinality(Rated)
  BY DEF AddUpInv, Ratings
<1>1. overlapped \subseteq overlapped'
  <2>1. \A k, c, by : BeginCall(k, c, by) => overlapped \subseteq overlapped'
    BY DEF BeginCall, Beside
  <2> QED
    BY <2>1 DEF RatingNext, RunCall, RunRatingJob, DisturbRatings, ReadRating, StoreRatings, AnswerRatings, TakeRatingJob,
         RequestRatings, RatingDue, CheckPlagiarism, FailCheck, CompleteRatingJob, LoseRatings, RestartRatingWorker,
         ratingVars, history
<1>2. overlapped = {} /\ SumFunctionOnSet(Ratings(userRatings), Rated) = DefaultRating * Cardinality(Rated)
  BY <1>1 DEF AddUpInv
<1>3. userRatings' = userRatings \/ \E k \in Calls : StoreRatings(k)
  BY DEF RatingNext, RunCall, RunRatingJob, DisturbRatings, ReadRating, AnswerRatings, TakeRatingJob,
         RequestRatings, RatingDue, CheckPlagiarism, FailCheck, CompleteRatingJob, LoseRatings, RestartRatingWorker,
         ratingVars, stored
<1>4. CASE userRatings' = userRatings
  BY <1>2, <1>4
<1>5. ASSUME NEW k \in Calls, StoreRatings(k)
      PROVE  SumFunctionOnSet(Ratings(userRatings'), Rated) = SumFunctionOnSet(Ratings(userRatings), Rated)
  BY <1>2, <1>5, StoreAddsUp
<1> QED BY <1>2, <1>3, <1>4, <1>5

\* Each calculation starts from where the last one ended and gives what it takes, for any
\* contests, standings, handlers, retries, restarts and administrators' requests and any
\* expected scores: the chain of every user's ratings, and the sum of all of them, which stays
\* what it was unless two contests were rated side by side.
THEOREM RatingHistoryAlways == ExpectedInteger => (RatingSpec => []RatingHistory)
<1> SUFFICES ASSUME ExpectedInteger PROVE RatingSpec => []RatingHistory
  OBVIOUS
<1>1. ChainInv /\ AddUpInv => RatingHistory
  <2> SUFFICES ASSUME ChainInv, AddUpInv, overlapped = {}
               PROVE  SumFunction([u \in Rated |-> CurrentRating(u)]) = DefaultRating * Cardinality(Rated)
    BY DEF RatingHistory, ChainInv
  <2>1. [u \in Rated |-> CurrentRating(u)] = Ratings(userRatings)
    BY DEF CurrentRating, LastRating, Ratings
  <2>2. DOMAIN Ratings(userRatings) = Rated
    BY DEF Ratings
  <2> QED BY <2>1, <2>2 DEF AddUpInv, SumFunction
<1>2. NumbersInv /\ RatingInv /\ [RatingNext]_ratingVars => NumbersInv'
  BY NumbersStep
<1>3. RatingInv /\ ChainInv /\ NumbersInv /\ AddUpInv /\ [RatingNext]_ratingVars => AddUpInv'
  BY AddUpStep
<1> QED BY <1>1, <1>2, <1>3, AddUpStart, TypesStart, RatingStart, RatingStep, ChainStart, ChainStep, PTL DEF RatingSpec

-----------------------------------------------------------------------------
(* Statistics: types.                                                      *)

StatusesShown == {"QUEUED", "ACCEPTED", "WRONG_ANSWER"}
SentOf(d) == [day : 1..d, problem : Problems, status : StatusesShown]
RowType == [before : Int, after : Int]
EntryType == [isRated : BOOLEAN, rank : {NoRating}, begun : BOOLEAN]

LEMMA StatTypeIs ==
    StatTypeOK <=> /\ day \in Nat \ {0} /\ rejudged \in Nat /\ submissions \in Seq(SentOf(day))
                   /\ myRows \in Seq(RowType) /\ rivalRows \in Seq(Int) /\ entered \in Seq(EntryType)
BY DEF StatTypeOK, SentOf, StatusesShown, RowType, EntryType

\* What is known of each submission.
LEMMA SentFields ==
    ASSUME StatTypeOK
    PROVE  /\ Len(submissions) \in Nat /\ DOMAIN submissions = 1..Len(submissions)
           /\ IsFiniteSet(DOMAIN submissions) /\ Cardinality(DOMAIN submissions) = Len(submissions)
           /\ \A i \in DOMAIN submissions :
                /\ submissions[i] \in SentOf(day)
                /\ submissions[i].day \in 1..day /\ submissions[i].problem \in Problems
                /\ submissions[i].status \in StatusesShown
<1>1. submissions \in Seq(SentOf(day)) /\ Len(submissions) \in Nat /\ DOMAIN submissions = 1..Len(submissions)
  BY StatTypeIs
<1>2. \A i \in DOMAIN submissions : submissions[i] \in SentOf(day)
  BY <1>1
<1>3. IsFiniteSet(1..Len(submissions)) /\ Cardinality(1..Len(submissions)) = Len(submissions)
  BY <1>1, FS_Interval
<1> QED BY <1>1, <1>2, <1>3 DEF SentOf

\* The sequence with one submission changed.
LEMMA StatusStored ==
    ASSUME StatTypeOK, NEW i \in DOMAIN submissions, NEW v \in StatusesShown,
           submissions' = [submissions EXCEPT ![i].status = v]
    PROVE  /\ submissions' \in Seq(SentOf(day)) /\ DOMAIN submissions' = DOMAIN submissions
           /\ Len(submissions') = Len(submissions)
           /\ \A j \in DOMAIN submissions :
                /\ submissions'[j].day = submissions[j].day /\ submissions'[j].problem = submissions[j].problem
                /\ submissions'[j].status = IF j = i THEN v ELSE submissions[j].status
<1>1. PICK n \in Nat : n = Len(submissions)
  BY SentFields
<1>2. PICK s \in Seq(SentOf(day)) : s = submissions
  BY StatTypeIs
<1>3. Len(s) = n /\ DOMAIN s = 1..n /\ i \in 1..n /\ \A j \in 1..n : s[j] \in SentOf(day)
  BY <1>1, <1>2, SentFields
<1>4. PICK r : r = [s[i] EXCEPT !.status = v]
  OBVIOUS
<1>5. r \in SentOf(day) /\ r.day = s[i].day /\ r.problem = s[i].problem /\ r.status = v
  BY <1>3, <1>4 DEF SentOf
<1>6. submissions' = [s EXCEPT ![i] = r]
  BY <1>2, <1>4
<1>7. submissions' \in Seq(SentOf(day)) /\ Len(submissions') = n /\ DOMAIN submissions' = 1..n
  <2>1. PICK t : t = [s EXCEPT ![i] = r]
    OBVIOUS
  <2>2. t \in Seq(SentOf(day)) /\ Len(t) = Len(s)
    BY <1>3, <1>5, <2>1, ExceptSeq
  <2>3. DOMAIN t = 1..Len(t)
    BY <2>2
  <2> QED BY <1>3, <1>6, <2>1, <2>2, <2>3
<1>8. \A j \in 1..n : submissions'[j] = IF j = i THEN r ELSE s[j]
  BY <1>3, <1>6
<1> QED BY <1>1, <1>2, <1>3, <1>5, <1>7, <1>8

LEMMA StatTypeStep == StatTypeOK /\ [StatNext]_statVars => StatTypeOK'
<1> SUFFICES ASSUME StatTypeOK, [StatNext]_statVars PROVE StatTypeOK'
  OBVIOUS
<1> DEFINE Typed == /\ day' \in Nat \ {0} /\ rejudged' \in Nat /\ submissions' \in Seq(SentOf(day'))
                    /\ myRows' \in Seq(RowType) /\ rivalRows' \in Seq(Int) /\ entered' \in Seq(EntryType)
<1> SUFFICES Typed
  BY DEF StatTypeOK, SentOf, StatusesShown, RowType, EntryType, NoRating
<1>0. /\ day \in Nat \ {0} /\ rejudged \in Nat /\ submissions \in Seq(SentOf(day))
      /\ myRows \in Seq(RowType) /\ rivalRows \in Seq(Int) /\ entered \in Seq(EntryType)
  BY StatTypeIs
<1>1. ASSUME NEW p \in Problems, PostSolution(p) PROVE Typed
  <2>1. [day |-> day, problem |-> p, status |-> "QUEUED"] \in SentOf(day)
    BY <1>0, <1>1 DEF SentOf, StatusesShown
  <2> QED BY <1>0, <1>1, <2>1 DEF PostSolution
<1>2. ASSUME NEW i \in DOMAIN submissions, NEW v \in {"ACCEPTED", "WRONG_ANSWER"}, StoreVerdict(i, v)
      PROVE  Typed
  <2>1. submissions' \in Seq(SentOf(day))
    BY <1>2, StatusStored DEF StoreVerdict, StatusesShown
  <2> QED BY <1>0, <1>2, <2>1 DEF StoreVerdict
<1>3. ASSUME NEW i \in DOMAIN submissions, Rejudge(i) PROVE Typed
  <2>1. submissions' \in Seq(SentOf(day))
    <3>1. PICK v \in StatusesShown : v = "QUEUED"
      BY DEF StatusesShown
    <3>2. submissions' = [submissions EXCEPT ![i].status = v]
      BY <1>3, <3>1 DEF Rejudge
    <3> QED BY <3>2, StatusStored
  <2> QED BY <1>0, <1>3, <2>1 DEF Rejudge
<1>4. ASSUME NEW rated \in BOOLEAN, NEW begun \in BOOLEAN, EnterContest(rated, begun) PROVE Typed
  <2>1. [isRated |-> rated, rank |-> NoRating, begun |-> begun] \in EntryType
    BY DEF EntryType
  <2> QED BY <1>0, <1>4, <2>1 DEF EnterContest
<1>5. ASSUME NEW gain \in Gains, NEW rivalGain \in Gains, RateContest(gain, FirstRating + rivalGain)
      PROVE  Typed
  <2>1. gain \in Int /\ FirstRating + rivalGain \in Int /\ FirstRating \in Int
    BY StatAssumption DEF StatAssumption
  <2>2. myRows # <<>> => CurrentRow \in Int
    <3>1. myRows # <<>> => Len(myRows) \in 1..Len(myRows)
      BY <1>0, EmptySeq
    <3>2. myRows # <<>> => myRows[Len(myRows)] \in RowType
      BY <1>0, <3>1
    <3> QED BY <3>2 DEF CurrentRow, Last, RowType
  <2>3. \A before \in Int : [before |-> before, after |-> before + gain] \in RowType
    BY <2>1 DEF RowType
  <2> QED BY <1>0, <1>5, <2>1, <2>2, <2>3 DEF RateContest
<1>6. CASE NextDay
  <2>1. SentOf(day) \subseteq SentOf(day + 1)
    BY <1>0 DEF SentOf
  <2> QED BY <1>0, <1>6, <2>1 DEF NextDay
<1>7. ASSUME NEW i \in DOMAIN entered, BeginContest(i) PROVE Typed
  <2>1. PICK x : x = [entered[i] EXCEPT !.begun = TRUE]
    OBVIOUS
  <2>2. entered[i] \in EntryType /\ i \in 1..Len(entered)
    BY <1>0
  <2>3. x \in EntryType
    BY <2>1, <2>2 DEF EntryType
  <2>4. entered' = [entered EXCEPT ![i] = x]
    BY <1>7, <2>1 DEF BeginContest
  <2>5. entered' \in Seq(EntryType)
    BY <1>0, <2>2, <2>3, <2>4, ExceptSeq
  <2> QED BY <1>0, <1>7, <2>5 DEF BeginContest
<1>8. ASSUME NEW i \in DOMAIN entered, LeaveContest(i) PROVE Typed
  <2>1. entered' = RemoveAt(entered, i) /\ i \in 1..Len(entered)
    BY <1>0, <1>8 DEF LeaveContest
  <2>2. entered' \in Seq(EntryType)
    BY <1>0, <2>1, RemoveAtProperties
  <2> QED BY <1>0, <1>8, <2>2 DEF LeaveContest
<1>9. CASE UNCHANGED statVars
  BY <1>0, <1>9 DEF statVars
<1> QED BY <1>1, <1>2, <1>3, <1>4, <1>5, <1>6, <1>7, <1>8, <1>9 DEF StatNext

LEMMA StatTypeInit == StatInit => StatTypeOK
BY DEF StatInit, StatTypeOK

\* A user's rows keep their types: no verdict without a submission, no submission of a
\* day to come, whatever is judged, rejudged and rated.
THEOREM StatTypeCorrect == StatSpec => []StatTypeOK
BY StatTypeInit, StatTypeStep, PTL DEF StatSpec

-----------------------------------------------------------------------------
(* Statistics: counts of submissions only grow, unless one is withdrawn.   *)

AcceptedNow == AcceptedOf(submissions)

LEMMA SolvedFinite ==
    ASSUME StatTypeOK
    PROVE  /\ AcceptedNow \subseteq DOMAIN submissions /\ IsFiniteSet(AcceptedNow)
           /\ IsFiniteSet(Solved) /\ Solved \subseteq Problems
           /\ Cardinality(Solved) <= Cardinality(AcceptedNow)
           /\ Cardinality(Solved) \in Nat /\ Cardinality(AcceptedNow) \in Nat
           /\ \A d : IsFiniteSet({p \in Solved : DifficultyOf[p] = d}) /\ Breakdown(d) \in Nat
<1>1. AcceptedNow \subseteq DOMAIN submissions /\ IsFiniteSet(AcceptedNow)
  BY SentFields, FS_Subset DEF AcceptedNow, AcceptedOf
<1>2. PICK f : f = [i \in DOMAIN submissions |-> submissions[i].problem]
  OBVIOUS
<1>3. Solved = {f[i] : i \in AcceptedNow}
  BY <1>1, <1>2 DEF Solved, AcceptedNow
<1>4. IsFiniteSet(Solved) /\ Cardinality(Solved) <= Cardinality(AcceptedNow)
  BY <1>1, <1>3, ImageSize
<1>5. Solved \subseteq Problems
  BY <1>1, SentFields DEF Solved, AcceptedNow
<1>6. \A d : IsFiniteSet({p \in Solved : DifficultyOf[p] = d}) /\ Breakdown(d) \in Nat
  BY <1>4, FS_Subset, FS_CardinalityType DEF Breakdown
<1> QED BY <1>1, <1>4, <1>5, <1>6, FS_CardinalityType

LEMMA SizesFinite ==
    StatTypeOK => /\ IsFiniteSet(AcceptedNow) /\ IsFiniteSet(Solved) /\ IsFiniteSet(DOMAIN submissions)
                  /\ Cardinality(DOMAIN submissions) = Len(submissions)
BY SolvedFinite, SentFields

LEMMA CountsAreNumbers ==
    StatTypeOK => /\ Len(submissions) \in Nat /\ Cardinality(AcceptedNow) \in Nat
                  /\ Cardinality(Solved) \in Nat /\ \A d : Breakdown(d) \in Nat
BY SentFields, SolvedFinite

\* The user's submissions stay, whatever becomes of their verdicts.
RowsStay ==
    \A i \in DOMAIN submissions :
        /\ i \in DOMAIN submissions'
        /\ submissions'[i].problem = submissions[i].problem /\ submissions'[i].day = submissions[i].day

LEMMA GrownCounts ==
    ASSUME StatTypeOK, StatTypeOK', RowsStay
    PROVE  /\ Len(submissions) <= Len(submissions')
           /\ ~Withdrawn => /\ Cardinality(AcceptedNow) <= Cardinality(AcceptedNow')
                            /\ Cardinality(Solved) <= Cardinality(Solved')
                            /\ \A d : Breakdown(d) <= Breakdown(d)'
<1>1. ~Withdrawn => AcceptedNow \subseteq AcceptedNow' /\ Solved \subseteq Solved'
  <2> SUFFICES ASSUME ~Withdrawn PROVE AcceptedNow \subseteq AcceptedNow' /\ Solved \subseteq Solved'
    OBVIOUS
  <2>1. AcceptedNow \subseteq AcceptedNow'
    BY SentFields DEF RowsStay, AcceptedNow, AcceptedOf, Withdrawn
  <2>2. AcceptedNow \subseteq DOMAIN submissions
    BY DEF AcceptedNow, AcceptedOf
  <2> QED BY <2>1, <2>2 DEF RowsStay, AcceptedNow, Solved
<1>2. (/\ IsFiniteSet(AcceptedNow) /\ IsFiniteSet(Solved) /\ IsFiniteSet(DOMAIN submissions)
       /\ Cardinality(DOMAIN submissions) = Len(submissions))'
  BY SizesFinite, PTL
<1>3. Cardinality(DOMAIN submissions) = Len(submissions) /\ DOMAIN submissions \subseteq (DOMAIN submissions)'
  BY SentFields DEF RowsStay
<1>4. ~Withdrawn => \A d : Breakdown(d) <= Breakdown(d)'
  <2> SUFFICES ASSUME ~Withdrawn, NEW d PROVE Breakdown(d) <= Breakdown(d)'
    OBVIOUS
  <2> DEFINE A == {p \in Solved : DifficultyOf[p] = d}
             B == {p \in Solved' : DifficultyOf[p] = d}
  <2>1. IsFiniteSet(B) /\ A \in SUBSET B
    BY <1>1, <1>2, FS_Subset
  <2> QED BY <2>1, FS_Subset DEF Breakdown
<1> QED BY <1>1, <1>2, <1>3, <1>4, FS_Subset


-----------------------------------------------------------------------------
(* Statistics: what the loop of calculateStreak computes.                  *)

LEMMA LargestOf ==
    ASSUME NEW n \in Nat, NEW S \in SUBSET (0..n), S # {}
    PROVE  Max(S) \in S /\ \A y \in S : Max(S) >= y
<1> DEFINE T == {n - x : x \in S}
<1>1. T \subseteq Nat /\ T # {}
  <2>1. \A x \in S : n - x \in Nat
    OBVIOUS
  <2>2. PICK x \in S : TRUE
    OBVIOUS
  <2>3. n - x \in T
    OBVIOUS
  <2> QED BY <2>1, <2>3
<1>2. PICK m \in T : \A k \in T : m <= k
  <2> HIDE DEF T
  <2> QED BY <1>1, SmallestOf
<1>3. \E x \in S : \A y \in S : x >= y
  <2>1. PICK x \in S : m = n - x
    BY <1>2
  <2>2. ASSUME NEW y \in S PROVE x >= y
    <3>1. n - y \in T
      OBVIOUS
    <3>2. n - x <= n - y /\ x \in Int /\ y \in Int
      BY <1>2, <2>1, <3>1
    <3> QED BY <3>2
  <2> QED BY <2>2
<1> QED BY <1>3 DEF Max

LEMMA LargerOf == \A a, b \in Nat : Max({a, b}) = IF a >= b THEN a ELSE b
<1> SUFFICES ASSUME NEW a \in Nat, NEW b \in Nat PROVE Max({a, b}) = IF a >= b THEN a ELSE b
  OBVIOUS
<1>1. \E x \in {a, b} : \A y \in {a, b} : x >= y
  OBVIOUS
<1>2. Max({a, b}) \in {a, b} /\ \A y \in {a, b} : Max({a, b}) >= y
  BY <1>1 DEF Max
<1> QED BY <1>2

\* How many days are not before one.
Rank(days, d) == Cardinality({e \in days : e >= d})

LatestOf(days, i) == CHOOSE d \in days : Rank(days, d) = i

LEMMA DaysFinite ==
    ASSUME StatTypeOK, NEW days \in SUBSET (1..day)
    PROVE  /\ day \in Nat \ {0} /\ days \subseteq Nat /\ IsFiniteSet(days)
           /\ Cardinality(days) \in 0..day
           /\ \A d : IsFiniteSet({e \in days : e >= d})
<1>1. day \in Nat \ {0}
  BY DEF StatTypeOK
<1>2. IsFiniteSet(1..day) /\ Cardinality(1..day) = day
  BY <1>1, FS_Interval
<1>3. IsFiniteSet(days) /\ Cardinality(days) <= day /\ Cardinality(days) \in Nat
  BY <1>2, FS_Subset, FS_CardinalityType
<1> QED BY <1>1, <1>3, FS_Subset

LEMMA RanksDiffer ==
    ASSUME StatTypeOK, NEW days \in SUBSET (1..day), NEW c \in days, NEW d \in days, Rank(days, c) = Rank(days, d)
    PROVE  c = d
<1>1. ASSUME NEW a \in days, NEW b \in days, a < b PROVE Rank(days, b) < Rank(days, a)
  <2> DEFINE A == {e \in days : e >= a}
             B == {e \in days : e >= b}
  <2>1. a \in Int /\ b \in Int /\ \A e \in days : e \in Int
    BY DaysFinite
  <2>2. IsFiniteSet(A) /\ Cardinality(A) \in Nat /\ a \in A /\ B \in SUBSET (A \ {a})
    <3>1. IsFiniteSet(A)
      BY DaysFinite
    <3>2. a \in A
      BY <2>1
    <3>3. \A e \in days : e >= b => e >= a /\ e # a
      BY <1>1, <2>1
    <3>4. B \in SUBSET (A \ {a})
      BY <3>3
    <3> HIDE DEF A
    <3> QED BY <3>1, <3>2, <3>4, FS_CardinalityType
  <2> HIDE DEF A, B
  <2>3. IsFiniteSet(A \ {a}) /\ Cardinality(A \ {a}) = Cardinality(A) - 1
    BY <2>2, FS_RemoveElement
  <2>4. Cardinality(B) <= Cardinality(A) - 1 /\ Cardinality(B) \in Nat
    BY <2>2, <2>3, FS_Subset, FS_CardinalityType
  <2> QED BY <2>2, <2>4 DEF Rank, A, B
<1>2. c \in Int /\ d \in Int /\ Rank(days, c) \in Nat /\ Rank(days, d) \in Nat
  BY DaysFinite, FS_CardinalityType DEF Rank
<1> QED BY <1>1, <1>2

LEMMA LatestIs ==
    ASSUME StatTypeOK, NEW days \in SUBSET (1..day), NEW i \in 1..Cardinality(days)
    PROVE  LatestOf(days, i) \in days /\ Rank(days, LatestOf(days, i)) = i
<1>1. PICK f : f = [d \in days |-> Rank(days, d)]
  OBVIOUS
<1>2. PICK n \in Nat : n = Cardinality(days)
  BY DaysFinite
<1>3. \A d \in days : f[d] \in 1..n
  <2> SUFFICES ASSUME NEW d \in days PROVE f[d] \in 1..n
    OBVIOUS
  <2> DEFINE A == {e \in days : e >= d}
  <2>1. IsFiniteSet(A) /\ A \in SUBSET days /\ d \in A
    BY DaysFinite
  <2>2. Cardinality(A) \in Nat /\ Cardinality(A) <= n /\ Cardinality(A) # 0
    <3> HIDE DEF A
    <3> QED BY <1>2, <2>1, DaysFinite, FS_Subset, FS_CardinalityType, FS_EmptySet
  <2> QED BY <1>1, <2>2 DEF Rank
<1>4. \A c, d \in days : f[c] = f[d] => c = d
  BY <1>1, RanksDiffer
<1>5. IsFiniteSet(1..n) /\ Cardinality(1..n) = n
  BY FS_Interval
<1>6. \A y \in 1..n : \E d \in days : f[d] = y
  <2>1. PICK T : T = 1..n
    OBVIOUS
  <2>2. IsFiniteSet(T) /\ OneToOne(f, days, T) /\ Cardinality(days) = Cardinality(T)
    BY <1>2, <1>3, <1>4, <1>5, <2>1 DEF OneToOne
  <2>3. ASSUME NEW D, D = days PROVE \A y \in T : \E d \in D : f[d] = y
    <3>1. IsFiniteSet(T)
      BY <2>2
    <3>2. OneToOne(f, D, T)
      BY <2>2, <2>3
    <3>3. Cardinality(D) = Cardinality(T)
      BY <2>2, <2>3
    <3> QED BY <3>1, <3>2, <3>3, OneToOneOnto
  <2> QED BY <2>1, <2>3
<1>7. \E d \in days : Rank(days, d) = i
  BY <1>1, <1>2, <1>6
<1> QED BY <1>7 DEF LatestOf

\* The i-th latest day is the one the loop expects when all days from it on are there.
LEMMA MatchIsRun ==
    ASSUME StatTypeOK, NEW days \in SUBSET (1..day), NEW i \in 1..Cardinality(days)
    PROVE  MatchesDay(LatestOf(days, i), i) <=> (day - i + 1)..day \subseteq days
<1>1. PICK d : d = day - i + 1
  OBVIOUS
<1>2. day \in Nat /\ i \in 1..day /\ d \in 1..day /\ d \in Int /\ \A e \in days : e \in 1..day
  BY <1>1, DaysFinite
<1> DEFINE A == {e \in days : e >= d}
<1>3. IsFiniteSet(d..day) /\ Cardinality(d..day) = i
  BY <1>1, <1>2, FS_Interval
<1>4. A \in SUBSET (d..day)
  <2>1. \A e \in days : e >= d => e \in d..day
    BY <1>2
  <2> QED BY <2>1
<1>5. ASSUME d..day \subseteq days PROVE LatestOf(days, i) = d
  <2>1. A = d..day /\ d \in days
    <3>1. d \in d..day /\ \A e \in d..day : e >= d
      BY <1>2
    <3> QED BY <1>4, <1>5, <3>1
  <2>2. Rank(days, d) = i
    BY <1>3, <2>1 DEF Rank
  <2> QED BY <2>1, <2>2, LatestIs, RanksDiffer
<1>6. ASSUME LatestOf(days, i) = d PROVE d..day \subseteq days
  <2>1. Cardinality(A) = i
    BY <1>6, LatestIs DEF Rank
  <2>2. A = d..day
    <3> HIDE DEF A
    <3> QED BY <1>3, <1>4, <2>1, FS_Subset
  <2> QED BY <2>2
<1> QED BY <1>1, <1>5, <1>6 DEF MatchesDay

LEMMA RunTodayIs ==
    ASSUME StatTypeOK, NEW days \in SUBSET (1..day)
    PROVE  /\ RunToday(days) \in 0..Cardinality(days)
           /\ \A i \in 1..Cardinality(days) : (day - i + 1)..day \subseteq days <=> i <= RunToday(days)
<1> DEFINE S == {0} \union {n \in 1..day : (day - n + 1)..day \subseteq days}
<1>0. day \in Nat /\ Cardinality(days) \in 0..day
  BY DaysFinite
<1>1. S \in SUBSET (0..day) /\ S # {}
  BY <1>0
<1>2. PICK r : r = RunToday(days)
  OBVIOUS
<1>3. r \in S /\ \A n \in S : r >= n
  <2>1. r = Max(S)
    BY <1>2 DEF RunToday
  <2> HIDE DEF S
  <2> QED BY <1>0, <1>1, <2>1, LargestOf
<1>4. r \in 0..Cardinality(days)
  <2>1. CASE r = 0
    BY <1>0, <2>1
  <2>2. CASE r # 0
    <3>1. r \in 1..day /\ (day - r + 1)..day \subseteq days
      BY <1>3, <2>2
    <3>2. Cardinality((day - r + 1)..day) = r
      BY <1>0, <3>1, FS_Interval
    <3>3. Cardinality((day - r + 1)..day) <= Cardinality(days)
      BY <3>1, DaysFinite, FS_Subset
    <3> QED BY <1>0, <3>1, <3>2, <3>3
  <2> QED BY <2>1, <2>2
<1>5. ASSUME NEW i \in 1..Cardinality(days) PROVE (day - i + 1)..day \subseteq days <=> i <= r
  <2>1. i \in 1..day /\ r \in Int
    BY <1>0, <1>4
  <2>2. (day - i + 1)..day \subseteq days => i <= r
    BY <1>3, <2>1
  <2>3. ASSUME i <= r PROVE (day - i + 1)..day \subseteq days
    <3>1. r \in 1..day /\ (day - r + 1)..day \subseteq days
      BY <1>3, <2>1, <2>3
    <3>2. (day - i + 1)..day \subseteq (day - r + 1)..day
      BY <1>0, <2>1, <2>3, <3>1
    <3> QED BY <3>1, <3>2
  <2> QED BY <2>2, <2>3
<1> QED BY <1>2, <1>4, <1>5

\* One turn of the loop, and its table.
TurnOf(days, g, i) ==
    IF i = 0 THEN [streak |-> 0, current |-> 0, longest |-> 0]
    ELSE LET s == g[i - 1]
             streak == IF MatchesDay(LatestOf(days, i), i) THEN s.streak + 1 ELSE 1
         IN  [streak |-> streak,
              current |-> IF i = 1 THEN streak ELSE s.current,
              longest |-> IF streak = 1 THEN Max({s.longest, s.streak}) ELSE s.longest]

IsLoop(g, days, n) == g = [i \in 0..n |-> TurnOf(days, g, i)]

LEMMA StreakIsChosen ==
    ASSUME NEW days
    PROVE  LET g == CHOOSE g : IsLoop(g, days, Cardinality(days))
               done == g[Cardinality(days)]
           IN  Streak(days) = [current |-> done.current, longest |-> Max({done.longest, done.streak})]
BY DEF Streak, IsLoop, TurnOf, LatestOf, Rank

LEMMA LoopExists == \A days : \A n \in Nat : \E g : IsLoop(g, days, n)
<1> SUFFICES ASSUME NEW days PROVE \A n \in Nat : \E g : IsLoop(g, days, n)
  OBVIOUS
<1> DEFINE F == {n \in Nat : \E g : IsLoop(g, days, n)}
<1>1. 0 \in F
  <2> DEFINE g == [i \in 0..0 |-> TurnOf(days, <<>>, i)]
  <2>1. \A i \in 0..0 : TurnOf(days, <<>>, i) = TurnOf(days, g, i)
    BY DEF TurnOf
  <2>2. IsLoop(g, days, 0)
    BY <2>1 DEF IsLoop
  <2> QED BY <2>2
<1>2. ASSUME NEW n \in Nat, n \in F PROVE n + 1 \in F
  <2>1. PICK g : IsLoop(g, days, n)
    BY <1>2
  <2>2. PICK h : h = [i \in 0..(n + 1) |-> TurnOf(days, g, i)]
    OBVIOUS
  <2>3. \A i \in 0..n : h[i] = g[i]
    BY <2>1, <2>2 DEF IsLoop
  <2>4. \A i \in 0..(n + 1) : TurnOf(days, g, i) = TurnOf(days, h, i)
    <3> SUFFICES ASSUME NEW i \in 0..(n + 1) PROVE TurnOf(days, g, i) = TurnOf(days, h, i)
      OBVIOUS
    <3>1. i # 0 => h[i - 1] = g[i - 1]
      BY <2>3
    <3> QED BY <3>1 DEF TurnOf
  <2>5. IsLoop(h, days, n + 1)
    BY <2>2, <2>4 DEF IsLoop
  <2> QED BY <2>5
<1> HIDE DEF F
<1>3. Nat \subseteq F
  BY <1>1, <1>2, InductionNat
<1> QED BY <1>3 DEF F


\* The i-th entry of the table, when the run that ends today has r days.
Turned(i, r) ==
    IF i = 0 THEN [streak |-> 0, current |-> 0, longest |-> 0]
    ELSE [streak |-> IF i <= r THEN i ELSE 1,
          current |-> 1,
          longest |-> IF i <= r \/ i = 1 THEN 0 ELSE IF r = 0 THEN 1 ELSE r]

\* One turn from one entry to the next.
LEMMA TurnedNext ==
    ASSUME NEW r \in Nat, NEW i \in Nat, i # 0, NEW match, match <=> i <= r
    PROVE  LET s == Turned(i - 1, r)
               streak == IF match THEN s.streak + 1 ELSE 1
           IN  Turned(i, r) = [streak |-> streak,
                               current |-> IF i = 1 THEN streak ELSE s.current,
                               longest |-> IF streak = 1 THEN Max({s.longest, s.streak}) ELSE s.longest]
<1> DEFINE s == Turned(i - 1, r)
           streak == IF match THEN s.streak + 1 ELSE 1
<1>1. CASE i = 1
  <2>1. s.streak = 0 /\ s.longest = 0
    BY <1>1 DEF Turned
  <2>2. streak = 1
    BY <2>1
  <2>3. Max({s.longest, s.streak}) = 0
    BY <2>1, LargerOf
  <2>4. Turned(i, r) = [streak |-> 1, current |-> 1, longest |-> 0]
    BY <1>1 DEF Turned
  <2> HIDE DEF s, streak
  <2> QED BY <1>1, <2>2, <2>3, <2>4 DEF s, streak
<1>2. CASE i # 1 /\ i <= r
  <2>1. s.streak = i - 1 /\ s.longest = 0 /\ s.current = 1
    BY <1>2 DEF Turned
  <2>2. streak = i
    BY <1>2, <2>1
  <2>3. Turned(i, r) = [streak |-> i, current |-> 1, longest |-> 0]
    BY <1>2 DEF Turned
  <2> HIDE DEF s, streak
  <2> QED BY <1>2, <2>1, <2>2, <2>3 DEF s, streak
<1>3. CASE i # 1 /\ ~(i <= r)
  <2>1. streak = 1 /\ s.current = 1
    BY <1>3 DEF Turned
  <2>2. Max({s.longest, s.streak}) = IF r = 0 THEN 1 ELSE r
    <3>1. CASE i - 1 <= r
      <4>1. i - 1 = r /\ r # 0 /\ s.longest = 0 /\ s.streak = r
        BY <1>3, <3>1 DEF Turned
      <4> HIDE DEF s
      <4> QED BY <4>1, LargerOf
    <3>2. CASE ~(i - 1 <= r) /\ i - 1 = 1
      <4>1. r = 0 /\ s.longest = 0 /\ s.streak = 1
        BY <1>3, <3>2 DEF Turned
      <4> HIDE DEF s
      <4> QED BY <4>1, LargerOf
    <3>3. CASE ~(i - 1 <= r) /\ i - 1 # 1
      <4>1. s.longest = (IF r = 0 THEN 1 ELSE r) /\ s.streak = 1
        BY <1>3, <3>3 DEF Turned
      <4>2. PICK l \in Nat : l = s.longest /\ l >= 1
        <5>1. (IF r = 0 THEN 1 ELSE r) \in Nat /\ (IF r = 0 THEN 1 ELSE r) >= 1
          OBVIOUS
        <5> QED BY <4>1, <5>1
      <4> HIDE DEF s
      <4>3. Max({l, 1}) = l
        BY <4>2, LargerOf
      <4> QED BY <4>1, <4>2, <4>3
    <3> QED BY <3>1, <3>2, <3>3
  <2>3. Turned(i, r) = [streak |-> 1, current |-> 1, longest |-> IF r = 0 THEN 1 ELSE r]
    BY <1>3 DEF Turned
  <2> HIDE DEF s, streak
  <2> QED BY <1>3, <2>1, <2>2, <2>3 DEF s, streak
<1> QED BY <1>1, <1>2, <1>3

LEMMA StreakIs ==
    ASSUME StatTypeOK, NEW days \in SUBSET (1..day)
    PROVE  Streak(days) = [current |-> IF days = {} THEN 0 ELSE 1,
                           longest |-> IF days = {} THEN 0 ELSE Max({1, RunToday(days)})]
<1>1. PICK n \in Nat : n = Cardinality(days)
  BY DaysFinite
<1>2. PICK g : g = CHOOSE h : IsLoop(h, days, n)
  OBVIOUS
<1>3. IsLoop(g, days, n)
  BY <1>2, LoopExists
<1>4. PICK r : r = RunToday(days)
  OBVIOUS
<1>5. r \in 0..n /\ \A i \in 1..n : MatchesDay(LatestOf(days, i), i) <=> i <= r
  BY <1>1, <1>4, RunTodayIs, MatchIsRun
<1>6. \A i \in 0..n : g[i] = TurnOf(days, g, i)
  BY <1>3 DEF IsLoop
<1> DEFINE F == {i \in Nat : i <= n => g[i] = Turned(i, r)}
<1>7. 0 \in F
  <2>1. g[0] = TurnOf(days, g, 0)
    BY <1>6
  <2> QED BY <2>1 DEF TurnOf, Turned
<1>8. ASSUME NEW i \in Nat, i \in F PROVE i + 1 \in F
  <2> SUFFICES ASSUME i + 1 <= n PROVE g[i + 1] = Turned(i + 1, r)
    OBVIOUS
  <2>1. PICK j \in Nat : j = i + 1 /\ j \in 1..n /\ j \in 0..n /\ j # 0 /\ j - 1 = i
    OBVIOUS
  <2>2. g[j - 1] = Turned(j - 1, r)
    BY <1>8, <2>1
  <2>3. PICK match : match = MatchesDay(LatestOf(days, j), j)
    OBVIOUS
  <2>4. match <=> j <= r
    BY <1>5, <2>1, <2>3
  <2>5. g[j] = TurnOf(days, g, j)
    BY <1>6, <2>1
  <2> HIDE DEF F
  <2>6. TurnOf(days, g, j) = Turned(j, r)
    <3> DEFINE s == Turned(j - 1, r)
               streak == IF match THEN s.streak + 1 ELSE 1
               turned == [streak |-> streak,
                          current |-> IF j = 1 THEN streak ELSE s.current,
                          longest |-> IF streak = 1 THEN Max({s.longest, s.streak}) ELSE s.longest]
    <3>1. TurnOf(days, g, j) = turned
      BY <2>1, <2>2, <2>3 DEF TurnOf
    <3>2. r \in Nat
      BY <1>5
    <3>3. Turned(j, r) = turned
      BY <2>1, <2>4, <3>2, TurnedNext
    <3> QED BY <3>1, <3>3
  <2> QED BY <2>1, <2>5, <2>6
<1>9. g[n] = Turned(n, r)
  <2>1. n \in F
    <3> HIDE DEF F
    <3> QED BY <1>7, <1>8, InductionNat
  <2> QED BY <2>1
<1>10. Streak(days) = [current |-> g[n].current, longest |-> Max({g[n].longest, g[n].streak})]
  BY <1>1, <1>2, StreakIsChosen
<1>11. days = {} <=> n = 0
  BY <1>1, DaysFinite, FS_EmptySet
<1>12. CASE n = 0
  <2>1. g[n].current = 0 /\ g[n].longest = 0 /\ g[n].streak = 0
    BY <1>9, <1>12 DEF Turned
  <2>2. Max({0, 0}) = 0
    BY LargerOf
  <2> QED BY <1>10, <1>11, <1>12, <2>1, <2>2
<1>13. CASE n # 0
  <2>1. g[n].current = 1
    BY <1>9, <1>13 DEF Turned
  <2>2. Max({1, r}) = IF r = 0 THEN 1 ELSE r
    BY <1>5, LargerOf
  <2>3. Max({g[n].longest, g[n].streak}) = IF r = 0 THEN 1 ELSE r
    <3>1. CASE n <= r
      <4>1. g[n].longest = 0 /\ g[n].streak = r /\ r # 0 /\ r \in Nat
        BY <1>5, <1>9, <1>13, <3>1 DEF Turned
      <4> QED BY <4>1, LargerOf
    <3>2. CASE ~(n <= r) /\ n = 1
      <4>1. g[n].longest = 0 /\ g[n].streak = 1 /\ r = 0
        BY <1>5, <1>9, <3>2 DEF Turned
      <4> QED BY <4>1, LargerOf
    <3>3. CASE ~(n <= r) /\ n # 1
      <4>1. g[n].longest = (IF r = 0 THEN 1 ELSE r) /\ g[n].streak = 1
        BY <1>5, <1>9, <1>13, <3>3 DEF Turned
      <4>2. PICK l \in Nat : l = (IF r = 0 THEN 1 ELSE r) /\ l >= 1
        <5>1. (IF r = 0 THEN 1 ELSE r) \in Nat /\ (IF r = 0 THEN 1 ELSE r) >= 1
          BY <1>5
        <5> QED BY <5>1
      <4>3. Max({l, 1}) = l
        BY <4>2, LargerOf
      <4> QED BY <4>1, <4>2, <4>3
    <3> QED BY <3>1, <3>2, <3>3
  <2> QED BY <1>4, <1>10, <1>11, <1>13, <2>1, <2>2, <2>3
<1> QED BY <1>12, <1>13


-----------------------------------------------------------------------------
(* Statistics: the badges of /api/me, and that they are kept.              *)

Difficulties == {"EASY", "MEDIUM", "HARD"}

HasBadge(b) ==
    \/ \E h \in Goals.submissions : b = <<"submissions", h>> /\ Len(submissions) >= h
    \/ b = <<"accepted", 1>> /\ Cardinality(AcceptedNow) >= 1
    \/ \E h \in Goals.solved : b = <<"solved", h>> /\ Cardinality(Solved) >= h
    \/ \E d \in Difficulties, h \in Goals.ofDifficulty : b = <<d, h>> /\ Breakdown(d) >= h
    \/ \E h \in Goals.streak : b = <<"streak", h>> /\ Streak(YearDaysOf).current >= h
    \/ b = <<"contests", 1>> /\ Len(entered) >= 1
    \/ b = <<"climb", 1>> /\ Climb >= 1

LEMMA DaysShown == StatTypeOK => DaysOf(submissions) \in SUBSET (1..day) /\ YearDaysOf \in SUBSET DaysOf(submissions)
<1> SUFFICES ASSUME StatTypeOK PROVE DaysOf(submissions) \in SUBSET (1..day)
  BY DEF YearDaysOf
<1> QED BY SentFields DEF DaysOf

BadgesListed == \A b : b \in EarnedBadges <=> HasBadge(b)

\* The badges are these.
LEMMA BadgesAre == BadgesListed
<1> SUFFICES ASSUME NEW b PROVE b \in EarnedBadges <=> HasBadge(b)
  BY DEF BadgesListed
<1>1. PICK current : current = Streak(YearDaysOf).current
  OBVIOUS
<1>2. \A id, count, goals : b \in Reached(id, count, goals) <=> \E h \in goals : b = <<id, h>> /\ count >= h
  BY DEF Reached
<1>3. EarnedBadges =
        Reached("submissions", Len(submissions), Goals.submissions)
          \union Reached("accepted", Cardinality(AcceptedNow), {1})
          \union Reached("solved", Cardinality(Solved), Goals.solved)
          \union ReachedByDifficulty
          \union Reached("streak", current, Goals.streak)
          \union Reached("contests", Len(entered), {1})
          \union Reached("climb", Climb, {1})
  BY <1>1 DEF EarnedBadges, Badges, CountedByVerdict, AcceptedNow
<1>4. b \in ReachedByDifficulty <=> \E d \in Difficulties : b \in Reached(d, Breakdown(d), Goals.ofDifficulty)
  BY DEF ReachedByDifficulty, Difficulties
<1>5. b \in EarnedBadges <=>
        \/ b \in Reached("submissions", Len(submissions), Goals.submissions)
        \/ b \in Reached("accepted", Cardinality(AcceptedNow), {1})
        \/ b \in Reached("solved", Cardinality(Solved), Goals.solved)
        \/ b \in ReachedByDifficulty
        \/ b \in Reached("streak", current, Goals.streak)
        \/ b \in Reached("contests", Len(entered), {1})
        \/ b \in Reached("climb", Climb, {1})
  BY <1>3
<1>6. b \in ReachedByDifficulty <=> \E d \in Difficulties, h \in Goals.ofDifficulty : b = <<d, h>> /\ Breakdown(d) >= h
  BY <1>2, <1>4
<1> QED BY <1>1, <1>2, <1>5, <1>6 DEF HasBadge

\* The streak shown is one on a day of the last year with a submission, and none without.
LEMMA CurrentIs ==
    StatTypeOK => Streak(YearDaysOf).current = IF YearDaysOf = {} THEN 0 ELSE 1
<1> SUFFICES ASSUME StatTypeOK PROVE Streak(YearDaysOf).current = IF YearDaysOf = {} THEN 0 ELSE 1
  OBVIOUS
<1>1. PICK days \in SUBSET (1..day) : days = YearDaysOf
  BY DaysShown
<1>2. Streak(days) = [current |-> IF days = {} THEN 0 ELSE 1,
                      longest |-> IF days = {} THEN 0 ELSE Max({1, RunToday(days)})]
  BY StreakIs
<1>3. Streak(days).current = IF days = {} THEN 0 ELSE 1
  BY <1>2
<1> QED BY <1>1, <1>3

\* A step adds a submission, or changes the status of one.
LEMMA RowsStayThen ==
    ASSUME StatTypeOK, StatNext
    PROVE  RowsStay
<1>1. ASSUME NEW p \in Problems, PostSolution(p) PROVE RowsStay
  <2>1. submissions \in Seq(SentOf(day)) /\ Len(submissions) \in Nat
    BY StatTypeIs, SentFields
  <2>2. PICK x : x = [day |-> day, problem |-> p, status |-> "QUEUED"]
    OBVIOUS
  <2>3. submissions' = Append(submissions, x)
    BY <1>1, <2>2 DEF PostSolution
  <2>4. /\ DOMAIN submissions' = 1..(Len(submissions) + 1)
        /\ \A i \in 1..Len(submissions) : submissions'[i] = submissions[i]
    BY <2>1, <2>3
  <2> QED BY <2>1, <2>4, SentFields DEF RowsStay
<1>2. ASSUME NEW i \in DOMAIN submissions, NEW v \in {"ACCEPTED", "WRONG_ANSWER"}, StoreVerdict(i, v)
      PROVE  RowsStay
  BY <1>2, StatusStored DEF StoreVerdict, StatusesShown, RowsStay
<1>3. ASSUME NEW i \in DOMAIN submissions, Rejudge(i) PROVE RowsStay
  <2>1. PICK v \in StatusesShown : v = "QUEUED"
    BY DEF StatusesShown
  <2>2. submissions' = [submissions EXCEPT ![i].status = v]
    BY <1>3, <2>1 DEF Rejudge
  <2> QED BY <2>2, StatusStored DEF RowsStay
<1>4. ASSUME UNCHANGED submissions PROVE RowsStay
  BY <1>4 DEF RowsStay
<1> QED BY <1>1, <1>2, <1>3, <1>4 DEF StatNext, EnterContest, BeginContest, LeaveContest, RateContest, NextDay

LEMMA BadgesKeptStep ==
    ASSUME StatTypeOK, StatTypeOK', StatNext, NEW b \in EarnedBadges \ EarnedBadges'
    PROVE  \/ b[1] \in {"accepted", "solved", "EASY", "MEDIUM", "HARD"} /\ Withdrawn
           \/ b[1] = "contests" /\ Len(entered') < Len(entered)
           \/ b[1] = "climb" /\ myRows' # myRows
           \/ b[1] = "streak" /\ day' # day
<1> DEFINE Lost == \/ b[1] \in {"accepted", "solved", "EASY", "MEDIUM", "HARD"} /\ Withdrawn
                   \/ b[1] = "contests" /\ Len(entered') < Len(entered)
                   \/ b[1] = "climb" /\ myRows' # myRows
                   \/ b[1] = "streak" /\ day' # day
<1>1. RowsStay
  BY RowsStayThen
<1>2. Len(entered) \in Nat /\ Len(entered') \in Nat
  <2>1. (/\ day \in Nat \ {0} /\ rejudged \in Nat /\ submissions \in Seq(SentOf(day))
         /\ myRows \in Seq(RowType) /\ rivalRows \in Seq(Int) /\ entered \in Seq(EntryType))'
    BY StatTypeIs, PTL
  <2> QED BY <2>1, StatTypeIs
<1>3. /\ Len(submissions) <= Len(submissions') /\ Len(submissions) \in Nat /\ Len(submissions') \in Nat
      /\ ~Withdrawn => /\ Cardinality(AcceptedNow) <= Cardinality(AcceptedNow')
                       /\ Cardinality(Solved) <= Cardinality(Solved')
                       /\ \A d : Breakdown(d) <= Breakdown(d)'
      /\ Cardinality(AcceptedNow) \in Nat /\ Cardinality(AcceptedNow') \in Nat
      /\ Cardinality(Solved) \in Nat /\ Cardinality(Solved') \in Nat
      /\ \A d : Breakdown(d) \in Nat /\ Breakdown(d)' \in Nat
  <2>1. (/\ Len(submissions) \in Nat /\ Cardinality(AcceptedNow) \in Nat
         /\ Cardinality(Solved) \in Nat /\ \A d : Breakdown(d) \in Nat)'
    BY CountsAreNumbers, PTL
  <2> QED BY <1>1, <2>1, GrownCounts, CountsAreNumbers
<1>4. HasBadge(b) /\ ~HasBadge(b)'
  <2>1. BadgesListed /\ BadgesListed'
    BY BadgesAre, PTL
  <2> QED BY <2>1 DEF BadgesListed
<1>5. /\ Goals.submissions \subseteq Nat /\ Goals.solved \subseteq Nat /\ Goals.ofDifficulty \subseteq Nat
      /\ Goals.streak \subseteq Nat
  BY StatAssumption DEF StatAssumption
<1>6. ASSUME NEW h \in Goals.submissions, b = <<"submissions", h>>, Len(submissions) >= h PROVE FALSE
  <2>1. Len(submissions') >= h
    BY <1>3, <1>5, <1>6
  <2> QED BY <1>4, <1>6, <2>1 DEF HasBadge
<1>7. CASE b = <<"accepted", 1>> /\ Cardinality(AcceptedNow) >= 1
  <2>1. ~(Cardinality(AcceptedNow') >= 1)
    BY <1>4, <1>7 DEF HasBadge
  <2> QED BY <1>3, <1>7, <2>1
<1>8. ASSUME NEW h \in Goals.solved, b = <<"solved", h>>, Cardinality(Solved) >= h PROVE Lost
  <2>1. ~(Cardinality(Solved') >= h)
    BY <1>4, <1>8 DEF HasBadge
  <2> QED BY <1>3, <1>5, <1>8, <2>1
<1>9. ASSUME NEW d \in Difficulties, NEW h \in Goals.ofDifficulty, b = <<d, h>>, Breakdown(d) >= h PROVE Lost
  <2>1. ~(Breakdown(d)' >= h)
    BY <1>4, <1>9 DEF HasBadge
  <2>2. Withdrawn
    BY <1>3, <1>5, <1>9, <2>1
  <2> QED BY <1>9, <2>2 DEF Difficulties
<1>10. ASSUME NEW h \in Goals.streak, b = <<"streak", h>>, Streak(YearDaysOf).current >= h PROVE Lost
  <2> SUFFICES ASSUME day' = day PROVE FALSE
    BY <1>10
  <2>1. Streak(YearDaysOf).current = (IF YearDaysOf = {} THEN 0 ELSE 1)
    BY CurrentIs
  <2>2. (Streak(YearDaysOf).current = IF YearDaysOf = {} THEN 0 ELSE 1)'
    BY CurrentIs, PTL
  <2>3. YearDaysOf # {} => YearDaysOf' # {}
    BY <1>1 DEF YearDaysOf, DaysOf, RowsStay
  <2> QED BY <1>4, <1>5, <1>10, <2>1, <2>2, <2>3 DEF HasBadge
<1>11. CASE b = <<"contests", 1>> /\ Len(entered) >= 1
  <2>1. ~(Len(entered') >= 1)
    BY <1>4, <1>11 DEF HasBadge
  <2> QED BY <1>2, <1>11, <2>1
<1>12. CASE b = <<"climb", 1>> /\ Climb >= 1
  <2>1. ~(Climb' >= 1)
    BY <1>4, <1>12 DEF HasBadge
  <2> QED BY <1>12, <2>1 DEF Climb
<1> QED BY <1>4, <1>6, <1>7, <1>8, <1>9, <1>10, <1>11, <1>12 DEF HasBadge

\* The property BadgesKept: a badge /api/me shows stays, whatever is submitted, judged,
\* entered or begun, but for an acceptance withdrawn, a contest left, a rating that
\* falls, or, with a streak, another day.
THEOREM BadgesKeptAlways == StatSpec => BadgesKept
<1>1. ASSUME StatTypeOK, StatTypeOK', [StatNext]_statVars
      PROVE  [\A b \in EarnedBadges \ EarnedBadges' :
                \/ b[1] \in {"accepted", "solved", "EASY", "MEDIUM", "HARD"} /\ Withdrawn
                \/ b[1] = "contests" /\ Len(entered') < Len(entered)
                \/ b[1] = "climb" /\ myRows' # myRows
                \/ b[1] = "streak" /\ day' # day]_statVars
  BY <1>1, BadgesKeptStep
<1> QED BY <1>1, StatTypeInit, StatTypeStep, PTL DEF StatSpec, BadgesKept

-----------------------------------------------------------------------------
(* Statistics: the numbers of the pages.                                   *)

LEMMA LongestHolds == StatTypeOK => LongestReached
<1> SUFFICES ASSUME StatTypeOK, NEW D \in {DaysOf(submissions), YearDaysOf}
             PROVE  /\ Streak(D).longest >= RunToday(D) /\ Streak(D).longest >= Streak(D).current
                    /\ D # {} => InARow(Streak(D).longest, D)
  BY DEF LongestReached
<1>1. PICK days \in SUBSET (1..day) : days = D
  BY DaysShown
<1>2. Streak(days) = [current |-> IF days = {} THEN 0 ELSE 1,
                      longest |-> IF days = {} THEN 0 ELSE Max({1, RunToday(days)})]
  BY StreakIs
<1>3. PICK r \in 0..Cardinality(days) : r = RunToday(days)
  BY RunTodayIs
<1>4. day \in Nat \ {0} /\ days \subseteq Nat /\ Cardinality(days) \in Nat /\ r \in Nat
  BY <1>3, DaysFinite
<1>5. CASE days = {}
  <2>1. r = 0 /\ Streak(days).longest = 0 /\ Streak(days).current = 0
    BY <1>2, <1>3, <1>5, FS_EmptySet
  <2> QED BY <1>1, <1>3, <1>5, <2>1
<1>6. CASE days # {}
  <2>1. Max({1, r}) = IF 1 >= r THEN 1 ELSE r
    BY <1>4, LargerOf
  <2>2. Streak(days).longest = Max({1, r}) /\ Streak(days).current = 1
    <3>1. Streak(days) = [current |-> 1, longest |-> Max({1, r})]
      BY <1>2, <1>3, <1>6
    <3> QED BY <3>1
  <2>3. CASE 1 >= r
    <3>1. PICK d \in days : d \in Nat
      BY <1>4, <1>6
    <3>2. (d - 1 + 1)..d \subseteq days
      BY <3>1
    <3>3. InARow(1, days)
      BY <3>1, <3>2 DEF InARow
    <3>4. Streak(days).longest = 1
      BY <2>1, <2>2, <2>3
    <3> QED BY <1>1, <1>3, <1>4, <2>2, <2>3, <3>3, <3>4
  <2>4. CASE ~(1 >= r)
    <3>1. Streak(days).longest = r
      BY <2>1, <2>2, <2>4
    <3>2. r \in 1..Cardinality(days) /\ r <= r
      BY <1>3, <1>4, <2>4
    <3>3. (day - r + 1)..day \subseteq days
      BY <1>3, <3>2, RunTodayIs
    <3>4. day \in days
      BY <1>4, <2>4, <3>3
    <3>5. InARow(r, days)
      BY <3>3, <3>4 DEF InARow
    <3> QED BY <1>1, <1>3, <1>4, <2>2, <2>4, <3>1, <3>5
  <2> QED BY <2>3, <2>4
<1> QED BY <1>5, <1>6

\* The submissions listed are the last ones, m - 1 left out.
LEMMA LatestFrom ==
    ASSUME StatTypeOK
    PROVE  \E m \in Nat \ {0} :
             /\ LatestSent = SubSeq(submissions, m, Len(submissions))
             /\ m <= Len(submissions) + 1
             /\ Len(submissions) <= RecentLimit => m = 1
<1>1. PICK x \in Int : x = Len(submissions) - RecentLimit + 1
  BY SentFields, StatAssumption DEF StatAssumption
<1>2. x <= Len(submissions) + 1 /\ Len(submissions) \in Nat /\ (Len(submissions) <= RecentLimit => x <= 1)
  BY <1>1, SentFields, StatAssumption DEF StatAssumption
<1>3. PICK m : m = Max({1, x})
  OBVIOUS
<1>4. m \in {1, x} /\ m >= 1 /\ m >= x
  <2>1. \E c \in {1, x} : \A y \in {1, x} : c >= y
    OBVIOUS
  <2> QED BY <1>3, <2>1 DEF Max
<1>5. LatestSent = SubSeq(submissions, m, Len(submissions))
  BY <1>1, <1>3 DEF LatestSent
<1>6. m \in Nat \ {0} /\ m <= Len(submissions) + 1 /\ (Len(submissions) <= RecentLimit => m = 1)
  BY <1>2, <1>4
<1> QED BY <1>5, <1>6

LEMMA PagesAgreeHolds == StatTypeOK => PagesAgree
<1> SUFFICES ASSUME StatTypeOK, Len(submissions) <= RecentLimit, DaysOf(submissions) = YearDaysOf
             PROVE  MePage = ProfilePage
  BY DEF PagesAgree
<1>1. LatestSent = SubSeq(submissions, 1, Len(submissions))
  BY LatestFrom
<1>2. SubSeq(submissions, 1, Len(submissions)) = submissions
  BY StatTypeIs, SubSeqFull
<1> QED BY <1>1, <1>2 DEF MePage, ProfilePage, CountedByVerdict

LEMMA PercentBetween ==
    ASSUME NEW whole \in Nat \ {0}, NEW part \in 0..whole
    PROVE  Percent(part, whole) \in 0..100
<1>1. PICK a \in Nat, b \in Nat \ {0} : a = 200 * part + whole /\ b = 2 * whole
  OBVIOUS
<1>2. 2 * a <= 201 * b
  BY <1>1
<1>3. PICK q \in Nat, r \in Nat : q = a \div b /\ r < b /\ a = b * q + r
  <2>1. (a \div b) \in Nat /\ (a % b) \in Nat /\ a % b < b /\ a = b * (a \div b) + (a % b)
    OBVIOUS
  <2> QED BY <2>1
<1>4. ~(q > 100)
  <2> SUFFICES ASSUME q > 100 PROVE FALSE
    OBVIOUS
  <2>1. b * q >= b * 101
    OBVIOUS
  <2> QED BY <1>2, <1>3, <2>1
<1> QED BY <1>1, <1>3, <1>4 DEF Percent

LEMMA PercentileHolds == StatTypeOK => PercentileInRange
<1> SUFFICES ASSUME StatTypeOK, myRows # <<>>, Len(myRows) = 1, Len(rivalRows) <= Cardinality(Rivals)
             PROVE  Percentile \in 0..100
  BY DEF PercentileInRange
<1>1. PICK rivals \in Nat : rivals = Cardinality(Rivals)
  BY StatAssumption, FS_CardinalityType DEF StatAssumption
<1>2. PICK above \in Nat : above = Cardinality({i \in DOMAIN rivalRows : rivalRows[i] > CurrentRow}) /\ above <= rivals
  <2>1. rivalRows \in Seq(Int) /\ Len(rivalRows) \in Nat /\ DOMAIN rivalRows = 1..Len(rivalRows)
    BY StatTypeIs
  <2>2. IsFiniteSet(DOMAIN rivalRows) /\ Cardinality(DOMAIN rivalRows) = Len(rivalRows)
    BY <2>1, FS_Interval
  <2>3. /\ Cardinality({i \in DOMAIN rivalRows : rivalRows[i] > CurrentRow}) <= Len(rivalRows)
        /\ Cardinality({i \in DOMAIN rivalRows : rivalRows[i] > CurrentRow}) \in Nat
    BY <2>2, FS_Subset, FS_CardinalityType
  <2>4. PICK n \in Nat : n = Cardinality({i \in DOMAIN rivalRows : rivalRows[i] > CurrentRow})
    BY <2>3
  <2>5. n <= rivals
    BY <1>1, <2>1, <2>3, <2>4
  <2> QED BY <2>4, <2>5
<1>3. Cardinality({i \in DOMAIN myRows : myRows[i].after > CurrentRow}) = 0
  <2>1. myRows \in Seq(RowType) /\ DOMAIN myRows = 1..1
    BY StatTypeIs
  <2>2. CurrentRow = myRows[1].after /\ myRows[1].after \in Int
    <3>1. CurrentRow = Last(myRows).after
      BY DEF CurrentRow
    <3>2. Last(myRows) = myRows[1]
      BY DEF Last
    <3>3. myRows[1] \in RowType
      BY <2>1
    <3> QED BY <3>1, <3>2, <3>3 DEF RowType
  <2>3. {i \in DOMAIN myRows : myRows[i].after > CurrentRow} = {}
    BY <2>1, <2>2
  <2> QED BY <2>3, FS_EmptySet
<1>4. PICK whole \in Nat \ {0} : whole = rivals + 1
  OBVIOUS
<1>5. PICK part \in 0..whole : part = rivals + 1 - above
  <2>1. rivals + 1 - above \in 0..whole
    BY <1>2, <1>4
  <2> QED BY <2>1
<1>6. Percentile = Percent(part, whole)
  <2>1. Percentile = Percent((Cardinality(Rivals) + 1)
                         - (Cardinality({i \in DOMAIN rivalRows : rivalRows[i] > CurrentRow})
                              + Cardinality({i \in DOMAIN myRows : myRows[i].after > CurrentRow})),
                       Cardinality(Rivals) + 1)
    BY DEF Percentile
  <2>2. part = rivals + 1 - (above + 0) /\ whole = rivals + 1
    BY <1>2, <1>4, <1>5
  <2> QED BY <1>1, <1>2, <1>3, <2>1, <2>2
<1> QED BY <1>6, PercentBetween


\* The sum of a function over all its arguments.
LEMMA SumOverDomain == ASSUME NEW S, NEW f, DOMAIN f = S PROVE SumFunction(f) = SumFunctionOnSet(f, S)
BY DEF SumFunction

SentOn(d) == {i \in DOMAIN submissions : submissions[i].day = d}
CountOn == [d \in DaysOf(submissions) |-> Cardinality(SentOn(d))]
AcceptedOn == [d \in DaysOf(submissions) |-> Cardinality(SentOn(d) \intersect AcceptedOf(submissions))]
SolvedOf == [d \in Difficulties |-> Breakdown(d)]

LEMMA DaysAreFinite == StatTypeOK => IsFiniteSet(DaysOf(submissions))
<1> SUFFICES ASSUME StatTypeOK PROVE IsFiniteSet(DaysOf(submissions))
  OBVIOUS
<1>1. PICK f : f = [i \in DOMAIN submissions |-> submissions[i].day]
  OBVIOUS
<1>2. DaysOf(submissions) = {f[i] : i \in DOMAIN submissions}
  BY <1>1 DEF DaysOf
<1> QED BY <1>2, SentFields, ImageSize

LEMMA CountsAddUp ==
    ASSUME StatTypeOK
    PROVE  /\ SumFunction(CountOn) = Len(submissions)
           /\ SumFunction(AcceptedOn) = Cardinality(AcceptedNow)
           /\ SumFunction(SolvedOf) = Cardinality(Solved)
<1>1. PICK k : k = [i \in DOMAIN submissions |-> submissions[i].day]
  OBVIOUS
<1>2. \A i \in DOMAIN submissions : k[i] = submissions[i].day /\ k[i] \in DaysOf(submissions)
  BY <1>1 DEF DaysOf
<1>3. SumFunctionOnSet(CountOn, DaysOf(submissions)) = Cardinality(DOMAIN submissions)
  <2>1. \A d \in DaysOf(submissions) : CountOn[d] = Cardinality({i \in DOMAIN submissions : k[i] = d})
    <3>1. \A d : SentOn(d) = {i \in DOMAIN submissions : k[i] = d}
      BY <1>2 DEF SentOn
    <3> QED BY <3>1 DEF CountOn
  <2>2. CountsKinds(CountOn, DOMAIN submissions, k, DaysOf(submissions))
    BY <1>2, <2>1 DEF CountsKinds
  <2> QED BY <2>2, DaysAreFinite, SentFields, SumOfKinds
<1>4. SumFunctionOnSet(AcceptedOn, DaysOf(submissions)) = Cardinality(AcceptedNow)
  <2>1. \A d \in DaysOf(submissions) : AcceptedOn[d] = Cardinality({i \in AcceptedNow : k[i] = d})
    <3>1. \A d : SentOn(d) \intersect AcceptedNow = {i \in AcceptedNow : k[i] = d}
      BY <1>2, SolvedFinite DEF SentOn
    <3> QED BY <3>1 DEF AcceptedOn, AcceptedNow
  <2>2. \A i \in AcceptedNow : k[i] \in DaysOf(submissions)
    BY <1>2, SolvedFinite
  <2>3. CountsKinds(AcceptedOn, AcceptedNow, k, DaysOf(submissions))
    BY <2>1, <2>2 DEF CountsKinds
  <2> QED BY <2>3, DaysAreFinite, SolvedFinite, SumOfKinds
<1>5. SumFunctionOnSet(SolvedOf, Difficulties) = Cardinality(Solved)
  <2>1. IsFiniteSet(Difficulties)
    <3>1. Difficulties = ({"EASY"} \union {"MEDIUM"}) \union {"HARD"}
      BY DEF Difficulties
    <3> QED BY <3>1, FS_Singleton, FS_Union
  <2>2. \A p \in Solved : DifficultyOf[p] \in Difficulties
    BY SolvedFinite, StatAssumption DEF StatAssumption, Difficulties
  <2>3. \A d \in Difficulties : SolvedOf[d] = Cardinality({p \in Solved : DifficultyOf[p] = d})
    BY DEF SolvedOf, Breakdown
  <2>4. CountsKinds(SolvedOf, Solved, DifficultyOf, Difficulties)
    BY <2>2, <2>3 DEF CountsKinds
  <2> QED BY <2>1, <2>4, SolvedFinite, SumOfKinds
<1>6. /\ DOMAIN CountOn = DaysOf(submissions) /\ DOMAIN AcceptedOn = DaysOf(submissions)
      /\ DOMAIN SolvedOf = Difficulties
  BY DEF CountOn, AcceptedOn, SolvedOf
<1> QED BY <1>3, <1>4, <1>5, <1>6, SentFields, SumOverDomain

LEMMA NumbersFitHolds == StatTypeOK => NumbersFit
<1> SUFFICES ASSUME StatTypeOK PROVE NumbersFit
  OBVIOUS
<1>1. PICK page : page = ProfilePage
  OBVIOUS
<1>2. /\ page.heatmap = Heat(DaysOf(submissions)) /\ page.totalSubmissions = Len(submissions)
      /\ page.solvedCount = Cardinality(Solved)
      /\ page.breakdown = SolvedOf
  BY <1>1 DEF ProfilePage, PageOf, SolvedOf, Difficulties
<1>3. PICK heat : heat = Heat(DaysOf(submissions))
  OBVIOUS
<1>4. /\ DOMAIN heat = DaysOf(submissions)
      /\ \A d \in DaysOf(submissions) :
           /\ heat[d].count = Cardinality(SentOn(d))
           /\ heat[d].accepted = Cardinality(SentOn(d) \intersect AcceptedOf(submissions))
  BY <1>3 DEF Heat, SentOn
<1>5. /\ [d \in DOMAIN heat |-> heat[d].count] = CountOn
      /\ [d \in DOMAIN heat |-> heat[d].accepted] = AcceptedOn
  BY <1>4 DEF CountOn, AcceptedOn
<1>6. /\ SumFunction([d \in DOMAIN page.heatmap |-> page.heatmap[d].count]) = Len(submissions)
      /\ SumFunction([d \in DOMAIN page.heatmap |-> page.heatmap[d].accepted]) = Cardinality(AcceptedNow)
  BY <1>2, <1>3, <1>5, CountsAddUp
<1>7. Cardinality(Solved) <= Cardinality(AcceptedNow) /\ CountedByVerdict = Cardinality(AcceptedNow)
  BY SolvedFinite DEF CountedByVerdict, AcceptedNow
<1> QED BY <1>1, <1>2, <1>6, <1>7, CountsAddUp DEF NumbersFit

\* The property PagesSound: in every state the longest streak shown is the length of a run of
\* days there has been, and no run that ends today is longer; the two pages agree on what
\* both count, the numbers of a page add up, and the percentile is one.
THEOREM PagesSoundAlways == StatSpec => []PagesSound
<1>1. StatTypeOK => PagesSound
  BY LongestHolds, PagesAgreeHolds, NumbersFitHolds, PercentileHolds DEF PagesSound
<1> QED BY <1>1, StatTypeCorrect, PTL



-----------------------------------------------------------------------------
(* The four services together.                                             *)

\* A behaviour of the four is one of each, as far as the steps go.
LEMMA LiveServicesBehave ==
    MCSpec => RatingSpec /\ AccountSpec /\ BenchSpec /\ StatSpec
<1>1. MCInit => RatingInit /\ AccountInit /\ BenchInit /\ StatInit
  BY DEF MCInit
<1>2. [MCNext]_<<explored, ratingVars, accountVars, benchVars, statVars>>
        => [RatingNext]_ratingVars /\ [AccountNext]_accountVars /\ [BenchNext]_benchVars /\ [StatNext]_statVars
  BY DEF MCNext
<1> QED BY <1>1, <1>2, PTL DEF MCSpec, RatingSpec, AccountSpec, BenchSpec, StatSpec

\* Every variable of the services has its type, whichever of them steps: BullMQ makes at
\* most three attempts at a rating job, a cookie names a stored session, a page an id that
\* was given out.
THEOREM LiveServicesTypeCorrect == ExpectedInteger => (MCSpec => []ServicesLiveTypeOK)
<1>1. RatingTypeOK /\ AccountTypeOK /\ BenchTypeOK /\ StatTypeOK => ServicesLiveTypeOK
  BY DEF ServicesLiveTypeOK
<1> QED BY <1>1, LiveServicesBehave, RatingTypeCorrect, AccountTypeCorrect, BenchTypeCorrect, StatTypeCorrect, PTL
=============================================================================
