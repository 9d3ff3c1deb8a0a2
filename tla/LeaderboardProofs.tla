------------------------- MODULE LeaderboardProofs -------------------------
(***************************************************************************)
(* Theorems about Leaderboard, for every contest: users, problems, points, *)
(* submissions, times, and any number of updates and freezes at a time.    *)
(***************************************************************************)
EXTENDS Leaderboard, SequenceTheorems, SumTheorems, TLAPS

(* ----------------------------- Typing ---------------------------------- *)

\* A freeze that has read the entries holds scores of users who have an entry.
ScoresOfEntries ==
    \A f \in FreezeRuns : freeze[f].pc = "snapshot" =>
      \A u \in Users : freeze[f].scores[u].present => entry[u].present

Typed == TypeOK /\ ScoresOfEntries

\* What a running update holds.
LEMMA HandlerFields ==
    ASSUME NEW d \in Handler_
    PROVE  /\ d # Idle => d.sub \in Subs
           /\ d.pc \in {"contest", "entry"} => d.accepted \in BOOLEAN
           /\ d.pc \in {"existing", "upsert"} => d.entry \in Entry_
           /\ d.pc = "upsert" => d.first \in BOOLEAN
           /\ d.pc # "idle" => d # Idle
BY DEF Handler_, Idle

\* The kinds of update, built from their parts.
LEMMA HandlerKinds ==
    ASSUME NEW s \in Subs
    PROVE  /\ [pc |-> "submission", sub |-> s] \in Handler_
           /\ \A b \in BOOLEAN :
                /\ [pc |-> "contest", sub |-> s, accepted |-> b] \in Handler_
                /\ [pc |-> "entry", sub |-> s, accepted |-> b] \in Handler_
           /\ \A e \in Entry_ :
                /\ [pc |-> "existing", sub |-> s, entry |-> e] \in Handler_
                /\ \A b \in BOOLEAN :
                     [pc |-> "upsert", sub |-> s, entry |-> e, first |-> b] \in Handler_
BY DEF Handler_

\* What judging changes of a row is of its type.
LEMMA JudgingTypes ==
    ASSUME TypeOK, NEW s \in Subs, J!Submit(s) \/ J!Judge(s) \/ J!Promote(s) \/ J!Unreliable(s)
    PROVE  /\ status' \in [Subs -> Verdicts \cup {"ABSENT", "QUEUED"}]
           /\ judgePhase' \in [Subs -> Phases \cup {"NONE"}]
           /\ trusted' \subseteq Subs
<1>1. \A tests \in TestSets : Outcome[s][tests] \subseteq Verdicts
  BY OutcomeAssumption
<1>2. J!TestsFor(judgePhase[s]) \in TestSets /\ J!TestSets = TestSets
  BY DEF J!TestsFor, J!TestSets, TestSets
<1>3. J!PhaseOnCreate(s) \in Phases
  BY DEF J!PhaseOnCreate, Phases
<1>4. CASE J!Submit(s)
  BY <1>3, <1>4 DEF J!Submit, TypeOK
<1>5. CASE J!Judge(s)
  BY <1>1, <1>2, <1>5 DEF J!Judge, TypeOK
<1>6. CASE J!Promote(s)
  BY <1>6 DEF J!Promote, TypeOK, Phases
<1>7. CASE J!Unreliable(s)
  BY <1>1, <1>2, <1>7 DEF J!Unreliable, TypeOK
<1> QED BY <1>4, <1>5, <1>6, <1>7

LEMMA InitTyped == Init => Typed
<1> SUFFICES ASSUME Init PROVE Typed
  OBVIOUS
<1>1. NoEntry \in Entry_ /\ NoScore \in Score_ /\ NoScore.present = FALSE
  BY DEF NoEntry, Entry_, NoScore, Score_
<1>2. Idle \in Handler_ /\ [pc |-> "idle"] \in Freeze_
  BY DEF Handler_, Freeze_
<1>3. TypeOK
  BY <1>1, <1>2 DEF Init, J!Init, TypeOK
<1>4. ScoresOfEntries
  BY DEF Init, ScoresOfEntries
<1> QED BY <1>3, <1>4 DEF Typed

\* Every step keeps the types.
LEMMA NextTyped == Typed /\ [Next]_vars => Typed'
<1> SUFFICES ASSUME TypeOK, ScoresOfEntries, [Next]_vars PROVE TypeOK' /\ ScoresOfEntries'
  BY DEF Typed
<1>0. /\ \A u \in Users : entry[u] \in Entry_
      /\ \A h \in Handlers : handler[h] \in Handler_
      /\ \A s \in Subs : UserOf[s] \in Users /\ ProblemOf[s] \in Problems
      /\ \A q \in Problems : Points[q] \in Nat
  BY ContestAssumption DEF TypeOK
<1>1. CASE Tick
  BY <1>1 DEF Tick, TypeOK, ScoresOfEntries, judging, history
<1>2. ASSUME NEW u \in Users, Register(u) PROVE TypeOK' /\ ScoresOfEntries'
  <2>1. [NoEntry EXCEPT !.present = TRUE] \in Entry_ /\ [NoEntry EXCEPT !.present = TRUE].present
    BY DEF NoEntry, Entry_
  <2>2. /\ entry' = [entry EXCEPT ![u] = [NoEntry EXCEPT !.present = TRUE]]
        /\ UNCHANGED <<judging, clock, snapshot, handler, freeze, crashes, history>>
    BY <1>2 DEF Register
  <2>3. entry' \in [Users -> Entry_] /\ \A q \in Users : entry[q].present => entry'[q].present
    BY <2>1, <2>2 DEF TypeOK
  <2> QED BY <2>2, <2>3 DEF TypeOK, ScoresOfEntries, judging, history
<1>3. ASSUME NEW s \in Subs, Submit(s) \/ Promote(s) PROVE TypeOK' /\ ScoresOfEntries'
  <2>1. UNCHANGED <<clock, entry, snapshot, handler, freeze, crashes, history>>
    BY <1>3 DEF Submit, Promote
  <2>2. J!Submit(s) \/ J!Promote(s)
    BY <1>3 DEF Submit, Promote
  <2> QED BY <2>1, <2>2, JudgingTypes DEF TypeOK, ScoresOfEntries, history
<1>4. ASSUME NEW s \in Subs, WriteVerdict(s) PROVE TypeOK' /\ ScoresOfEntries'
  <2>1. UNCHANGED <<clock, entry, snapshot, freeze, crashes, skipped, credits>>
    BY <1>4 DEF WriteVerdict
  <2>2. J!Judge(s) \/ J!Unreliable(s)
    BY <1>4 DEF WriteVerdict
  <2>3. handler' \in [Handlers -> Handler_]
    <3>1. [pc |-> "submission", sub |-> s] \in Handler_
      BY DEF Handler_
    <3>2. \/ UNCHANGED handler
          \/ \E h \in Handlers : handler' = [handler EXCEPT ![h] = [pc |-> "submission", sub |-> s]]
      BY <1>4 DEF WriteVerdict
    <3> QED BY <3>1, <3>2 DEF TypeOK
  <2>4. updates' \in [Subs -> Nat]
    BY <1>4 DEF WriteVerdict, TypeOK
  <2>5. overlapped' \in BOOLEAN
    BY <1>4 DEF WriteVerdict, TypeOK
  <2> QED BY <2>1, <2>2, <2>3, <2>4, <2>5, JudgingTypes DEF TypeOK, ScoresOfEntries
<1>5. ASSUME NEW s \in Subs, Distrust(s) PROVE TypeOK' /\ ScoresOfEntries'
  BY <1>5 DEF Distrust, TypeOK, ScoresOfEntries, history
<1>6. ASSUME NEW h \in Handlers, NEW d \in Handler_, handler' = [handler EXCEPT ![h] = d]
      PROVE  handler' \in [Handlers -> Handler_]
  BY <1>6 DEF TypeOK
<1>7. ASSUME NEW h \in Handlers, handler[h] # Idle, Return(h)
      PROVE  handler' \in [Handlers -> Handler_] /\ skipped' \subseteq Subs
  <2>1. Idle \in Handler_ /\ handler[h].sub \in Subs
    BY <1>0, <1>7, HandlerFields DEF Handler_
  <2> QED BY <1>6, <1>7, <2>1 DEF Return, TypeOK
<1>8. ASSUME NEW h \in Handlers, ReadSubmission(h) PROVE TypeOK' /\ ScoresOfEntries'
  <2>1. handler[h].sub \in Subs
    BY <1>0, <1>8, HandlerFields DEF ReadSubmission
  <2> DEFINE accepted == status[handler[h].sub] = "ACCEPTED"
             d == [pc |-> "contest", sub |-> handler[h].sub, accepted |-> accepted]
  <2>2. handler' = [handler EXCEPT ![h] = d]
    BY <1>8 DEF ReadSubmission
  <2>3. handler' \in [Handlers -> Handler_]
    <3>1. accepted \in BOOLEAN
      OBVIOUS
    <3> HIDE DEF accepted
    <3>2. d \in Handler_
      BY <2>1, <3>1, HandlerKinds
    <3> HIDE DEF d
    <3> QED BY <1>6, <2>2, <3>2
  <2> QED BY <1>8, <2>3 DEF ReadSubmission, TypeOK, ScoresOfEntries, judging, history
<1>9. ASSUME NEW h \in Handlers, ReadContest(h) PROVE TypeOK' /\ ScoresOfEntries'
  <2>1. handler[h] # Idle /\ handler[h].sub \in Subs /\ handler[h].accepted \in BOOLEAN
    BY <1>0, <1>9, HandlerFields DEF ReadContest
  <2>2. \/ Return(h)
        \/ /\ handler' = [handler EXCEPT ![h] =
                [pc |-> "entry", sub |-> handler[h].sub, accepted |-> handler[h].accepted]]
           /\ UNCHANGED skipped
    BY <1>9 DEF ReadContest
  <2>3. [pc |-> "entry", sub |-> handler[h].sub, accepted |-> handler[h].accepted] \in Handler_
    BY <2>1, HandlerKinds
  <2>4. handler' \in [Handlers -> Handler_] /\ skipped' \subseteq Subs
    BY <1>6, <1>7, <2>1, <2>2, <2>3 DEF TypeOK
  <2> QED BY <1>9, <2>4 DEF ReadContest, TypeOK, ScoresOfEntries, judging
<1>10. ASSUME NEW h \in Handlers, ReadEntry(h) PROVE TypeOK' /\ ScoresOfEntries'
  <2>1. handler[h] # Idle /\ handler[h].sub \in Subs /\ entry[UserOf[handler[h].sub]] \in Entry_
    BY <1>0, <1>10, HandlerFields DEF ReadEntry
  <2>2. \/ Return(h)
        \/ /\ handler' = [handler EXCEPT ![h] =
                [pc |-> "existing", sub |-> handler[h].sub,
                 entry |-> entry[UserOf[handler[h].sub]]]]
           /\ UNCHANGED skipped
    BY <1>10 DEF ReadEntry
  <2>3. handler' \in [Handlers -> Handler_] /\ skipped' \subseteq Subs
    BY <1>6, <1>7, <2>1, <2>2, HandlerKinds DEF TypeOK
  <2> QED BY <1>10, <2>3 DEF ReadEntry, TypeOK, ScoresOfEntries, judging
<1>11. ASSUME NEW h \in Handlers, QueryExisting(h) PROVE TypeOK' /\ ScoresOfEntries'
  <2>1. handler[h].sub \in Subs /\ handler[h].entry \in Entry_
    BY <1>0, <1>11, HandlerFields DEF QueryExisting
  <2>2. handler' = [handler EXCEPT ![h] =
          [pc |-> "upsert", sub |-> handler[h].sub, entry |-> handler[h].entry,
           first |-> ~ExistingAccepted(handler[h].sub)]]
    BY <1>11 DEF QueryExisting
  <2>3. handler' \in [Handlers -> Handler_]
    BY <1>6, <2>1, <2>2, HandlerKinds
  <2> QED BY <1>11, <2>3 DEF QueryExisting, TypeOK, ScoresOfEntries, judging, history
<1>12. ASSUME NEW h \in Handlers, Upsert(h) PROVE TypeOK' /\ ScoresOfEntries'
  <2> DEFINE s == handler[h].sub
             u == UserOf[s]
             new == Scored(handler[h].entry, s, handler[h].first)
             row == [present |-> TRUE, points |-> new.points, solved |-> new.solved,
                     frozen |-> entry[u].frozen]
  <2>1. handler[h] # Idle /\ s \in Subs /\ handler[h].entry \in Entry_ /\ u \in Users
    BY <1>0, <1>12, HandlerFields DEF Upsert
  <2>2. CASE handler[h].entry.frozen
    <3>1. Return(h) /\ UNCHANGED <<entry, credits>>
      BY <1>12, <2>2 DEF Upsert
    <3>2. handler' \in [Handlers -> Handler_] /\ skipped' \subseteq Subs
      BY <1>7, <2>1, <3>1
    <3> QED BY <1>12, <3>1, <3>2 DEF Upsert, TypeOK, ScoresOfEntries, judging
  <2>3. CASE ~handler[h].entry.frozen
    <3>1. entry' = [entry EXCEPT ![u] = row] /\ UNCHANGED skipped
      BY <1>12, <2>3 DEF Upsert
    <3>2. new.points \in Nat /\ new.solved \in Nat
      BY <1>0, <2>1 DEF Scored, Entry_
    <3>3. row \in Entry_ /\ row.present
      BY <1>0, <2>1, <3>2 DEF Entry_
    <3>4. entry' \in [Users -> Entry_] /\ \A q \in Users : entry[q].present => entry'[q].present
      <4> HIDE DEF row
      <4> QED BY <3>1, <3>3 DEF TypeOK
    <3>5. handler' \in [Handlers -> Handler_]
      BY <1>6, <1>12, <2>3 DEF Upsert, Handler_
    <3>6. credits' \in [Users -> [Problems -> Nat]]
      <4>1. \/ UNCHANGED credits
            \/ credits' = [credits EXCEPT ![u] = [credits[u] EXCEPT ![ProblemOf[s]] = credits[u][ProblemOf[s]] + 1]]
        BY <1>12, <2>3 DEF Upsert
      <4>2. [credits[u] EXCEPT ![ProblemOf[s]] = credits[u][ProblemOf[s]] + 1] \in [Problems -> Nat]
        <5>1. credits[u] \in [Problems -> Nat] /\ credits[u][ProblemOf[s]] + 1 \in Nat
          BY <1>0, <2>1 DEF TypeOK
        <5> HIDE DEF u, s
        <5> QED BY <5>1
      <4> HIDE DEF u
      <4> QED BY <4>1, <4>2 DEF TypeOK
    <3> QED BY <1>12, <3>1, <3>4, <3>5, <3>6 DEF Upsert, TypeOK, ScoresOfEntries, judging
  <2> QED BY <2>2, <2>3
<1>13. ASSUME NEW f \in FreezeRuns, FreezeRead(f) PROVE TypeOK' /\ ScoresOfEntries'
  <2>1. [u \in Users |-> Score(entry[u])] \in [Users -> Score_]
    BY <1>0 DEF Score, Score_, Entry_
  <2>2. \A u \in Users : Score(entry[u]).present = entry[u].present
    BY DEF Score
  <2> DEFINE new == [pc |-> "snapshot", scores |-> [u \in Users |-> Score(entry[u])]]
  <2>3. new \in Freeze_ /\ \A u \in Users : new.scores[u].present = entry[u].present
    BY <2>1, <2>2 DEF Freeze_
  <2>4. freeze' = [freeze EXCEPT ![f] = new]
    BY <1>13 DEF FreezeRead
  <2> HIDE DEF new
  <2>5. freeze' \in [FreezeRuns -> Freeze_] /\ \A g \in FreezeRuns : freeze'[g] = IF g = f THEN new ELSE freeze[g]
    BY <2>3, <2>4 DEF TypeOK
  <2>6. UNCHANGED <<judging, clock, entry, snapshot, handler, crashes, history>>
    BY <1>13 DEF FreezeRead
  <2>7. TypeOK'
    BY <2>5, <2>6 DEF TypeOK, judging, history
  <2>8. ScoresOfEntries'
    BY <2>3, <2>5, <2>6 DEF ScoresOfEntries
  <2> QED BY <2>7, <2>8
<1>14. ASSUME NEW f \in FreezeRuns, FreezeSnapshot(f) PROVE TypeOK' /\ ScoresOfEntries'
  <2>1. freeze[f].scores \in [Users -> Score_] /\ \A u \in Users : freeze[f].scores[u].present => entry[u].present
    <3>1. freeze[f] \in Freeze_ /\ freeze[f].pc = "snapshot"
      BY <1>14 DEF FreezeSnapshot, TypeOK
    <3> QED BY <3>1 DEF Freeze_, ScoresOfEntries
  <2>2. /\ snapshot' \in [Users -> Score_]
        /\ \A u \in Users : snapshot'[u].present => entry[u].present
    BY <1>14, <2>1 DEF FreezeSnapshot, SnapshotRow, TypeOK
  <2>3. freeze' \in [FreezeRuns -> Freeze_] /\ \A g \in FreezeRuns : freeze'[g].pc = "snapshot" => freeze'[g] = freeze[g]
    <3>1. [pc |-> "stamp"] \in Freeze_
      BY DEF Freeze_
    <3> QED BY <1>14, <3>1 DEF FreezeSnapshot, TypeOK
  <2>4. UNCHANGED <<judging, clock, entry, handler, crashes, history>>
    BY <1>14 DEF FreezeSnapshot
  <2>5. TypeOK'
    BY <2>2, <2>3, <2>4 DEF TypeOK, judging, history
  <2>6. ScoresOfEntries'
    BY <2>3, <2>4 DEF ScoresOfEntries
  <2> QED BY <2>5, <2>6
<1>15. ASSUME NEW f \in FreezeRuns, FreezeStamp(f) PROVE TypeOK' /\ ScoresOfEntries'
  <2>1. \A u \in Users : /\ [entry[u] EXCEPT !.frozen = TRUE] \in Entry_
                         /\ [entry[u] EXCEPT !.frozen = TRUE].present = entry[u].present
    BY <1>0 DEF Entry_
  <2>2. entry' \in [Users -> Entry_] /\ \A u \in Users : entry'[u].present = entry[u].present
    BY <1>0, <1>15, <2>1 DEF FreezeStamp
  <2>3. freeze' \in [FreezeRuns -> Freeze_] /\ \A g \in FreezeRuns : freeze'[g].pc = "snapshot" => freeze'[g] = freeze[g]
    <3>1. [pc |-> "done"] \in Freeze_
      BY DEF Freeze_
    <3> QED BY <1>15, <3>1 DEF FreezeStamp, TypeOK
  <2>4. UNCHANGED <<judging, clock, snapshot, handler, crashes, history>>
    BY <1>15 DEF FreezeStamp
  <2>5. TypeOK'
    BY <2>2, <2>3, <2>4 DEF TypeOK, judging, history
  <2>6. ScoresOfEntries'
    BY <2>2, <2>3 DEF ScoresOfEntries
  <2> QED BY <2>5, <2>6
<1>16. CASE CrashBackend
  <2>1. handler' \in [Handlers -> Handler_]
    BY <1>16 DEF CrashBackend, Handler_
  <2>2. {handler[h].sub : h \in Running} \subseteq Subs
    BY <1>0, HandlerFields DEF Running
  <2>3. freeze' \in [FreezeRuns -> Freeze_] /\ \A g \in FreezeRuns : freeze'[g].pc = "snapshot" => freeze'[g] = freeze[g]
    <3>1. [pc |-> "done"] \in Freeze_
      BY DEF Freeze_
    <3> QED BY <1>16, <3>1 DEF CrashBackend, TypeOK
  <2>4. UNCHANGED <<status, judgePhase, clock, entry, snapshot, updates, overlapped, credits>>
    BY <1>16 DEF CrashBackend
  <2>5. trusted' \subseteq trusted /\ skipped' \subseteq Subs /\ crashes' \in Nat
    BY <1>16, <2>2 DEF CrashBackend, TypeOK
  <2>6. TypeOK'
    BY <2>1, <2>3, <2>4, <2>5 DEF TypeOK
  <2>7. ScoresOfEntries'
    BY <2>3, <2>4 DEF ScoresOfEntries
  <2> QED BY <2>6, <2>7
<1>17. CASE UNCHANGED vars
  BY <1>17 DEF vars, judging, history, TypeOK, ScoresOfEntries
<1> QED
  BY <1>1, <1>2, <1>3, <1>4, <1>5, <1>8, <1>9, <1>10, <1>11, <1>12, <1>13, <1>14, <1>15,
     <1>16, <1>17
  DEF Next, Update, Freeze

\* The leaderboard's variables keep their types, and a user with a snapshot row
\* has an entry.
THEOREM TypeCorrect == Spec => []TypeOK
<1>1. Typed => TypeOK
  BY DEF Typed
<1> QED BY <1>1, InitTyped, NextTyped, PTL DEF Spec

\* A snapshot row never changes, through repeated deliveries of the freeze job.
THEOREM SnapshotsImmutable == Spec => SnapshotImmutable
<1> DEFINE Kept == \A u \in Users : snapshot[u].present => snapshot'[u] = snapshot[u]
<1>1. [Next]_vars => [Kept]_vars
  <2> SUFFICES ASSUME Next PROVE Kept
    OBVIOUS
  <2>1. ASSUME NEW f \in FreezeRuns, FreezeSnapshot(f) PROVE Kept
    BY <2>1 DEF FreezeSnapshot, SnapshotRow
  <2>2. CASE UNCHANGED snapshot
    BY <2>2
  <2> QED
    BY <2>1, <2>2
    DEF Next, Tick, Register, Submit, WriteVerdict, Promote, Distrust, Update, ReadSubmission,
        ReadContest, ReadEntry, QueryExisting, Upsert, Freeze, FreezeRead, FreezeStamp,
        CrashBackend
<1> QED BY <1>1, PTL DEF Spec, SnapshotImmutable

(* ------------------------- One credit per problem ---------------------- *)

\* No acceptance of the user's problem was reported twice or withdrawn.
Steady(u, p) ==
    \A s \in Of(u, p) : updates[s] <= 1 /\ (updates[s] = 1 => status[s] = "ACCEPTED")

\* The update has looked for other accepted submissions and found none.
Winning(h) == handler[h] # Idle /\ handler[h].pc = "upsert" /\ handler[h].first

\* An update was started for every row that has one running, and one update of a
\* row runs at a time; practice rows start none.
UpdatesStarted ==
    \A s \in Subs :
      /\ judgePhase[s] \in {"NONE", "PRACTICE"} => updates[s] = 0
      /\ judgePhase[s] = "NONE" <=> status[s] = "ABSENT"
      /\ \A h \in Running : handler[h].sub = s => updates[s] >= 1
      /\ updates[s] <= 1 =>
           \A g, h \in Running : handler[g].sub = s /\ handler[h].sub = s => g = h

\* At most one update of the problem has found no other accepted submission and
\* not written yet; a credit was written by the one update of some submission.
OneWinner(u, p) ==
    Steady(u, p) =>
      /\ \A g, h \in Handlers :
           /\ Winning(g) /\ handler[g].sub \in Of(u, p)
           /\ Winning(h) /\ handler[h].sub \in Of(u, p)
           => g = h
      /\ credits[u][p] = 0 \/ credits[u][p] = 1
      /\ credits[u][p] = 1 =>
           /\ \A h \in Handlers : Winning(h) => handler[h].sub \notin Of(u, p)
           /\ \E s \in Of(u, p) :
                updates[s] = 1 /\ \A h \in Running : handler[h].sub # s

CInv == Typed /\ UpdatesStarted /\ \A u \in Users, p \in Problems : OneWinner(u, p)

\* The step starts no update, and a running one stays with its row.
Fewer ==
    \A h \in Handlers : handler'[h] # Idle => handler[h] # Idle /\ handler'[h].sub = handler[h].sub

\* What a step of an update does to the updates that run, and to the rows: none.
LEMMA UpdateStep ==
    ASSUME Typed, NEW h \in Handlers, Update(h)
    PROVE  Fewer /\ UNCHANGED <<status, judgePhase, updates>>
<1> DEFINE Moves(d) == handler' = [handler EXCEPT ![h] = d]
<1>0. handler \in [Handlers -> Handler_] /\ handler[h] # Idle
  <2>1. handler \in [Handlers -> Handler_]
    BY DEF Typed, TypeOK
  <2> QED
    BY <2>1, HandlerFields
    DEF Update, ReadSubmission, ReadContest, ReadEntry, QueryExisting, Upsert
<1>1. ASSUME NEW d, Moves(d), d = Idle \/ d.sub = handler[h].sub PROVE Fewer
  BY <1>0, <1>1 DEF Fewer
<1> HIDE DEF Moves
<1>2. CASE ReadSubmission(h)
  <2> DEFINE d == [pc |-> "contest", sub |-> handler[h].sub,
                   accepted |-> status[handler[h].sub] = "ACCEPTED"]
  <2>1. Moves(d) /\ d.sub = handler[h].sub
    BY <1>2 DEF ReadSubmission, Moves
  <2> HIDE DEF d
  <2> QED BY <1>1, <1>2, <2>1 DEF ReadSubmission, judging, history
<1>3. CASE ReadContest(h)
  <2> DEFINE d == [pc |-> "entry", sub |-> handler[h].sub, accepted |-> handler[h].accepted]
  <2>1. (Moves(d) \/ Moves(Idle)) /\ d.sub = handler[h].sub
    BY <1>3 DEF ReadContest, Return, Moves
  <2> HIDE DEF d
  <2> QED BY <1>1, <1>3, <2>1 DEF ReadContest, judging
<1>4. CASE ReadEntry(h)
  <2> DEFINE d == [pc |-> "existing", sub |-> handler[h].sub,
                   entry |-> entry[UserOf[handler[h].sub]]]
  <2>1. (Moves(d) \/ Moves(Idle)) /\ d.sub = handler[h].sub
    BY <1>4 DEF ReadEntry, Return, Moves
  <2> HIDE DEF d
  <2> QED BY <1>1, <1>4, <2>1 DEF ReadEntry, judging
<1>5. CASE QueryExisting(h)
  <2> DEFINE d == [pc |-> "upsert", sub |-> handler[h].sub, entry |-> handler[h].entry,
                   first |-> ~ExistingAccepted(handler[h].sub)]
  <2>1. Moves(d) /\ d.sub = handler[h].sub
    BY <1>5 DEF QueryExisting, Moves
  <2> HIDE DEF d
  <2> QED BY <1>1, <1>5, <2>1 DEF QueryExisting, judging, history
<1>6. CASE Upsert(h)
  <2>1. Moves(Idle)
    BY <1>6 DEF Upsert, Return, Moves
  <2> QED BY <1>1, <1>6, <2>1 DEF Upsert, judging
<1> QED BY <1>2, <1>3, <1>4, <1>5, <1>6 DEF Update

\* What a step does to a row: the verdict that accepts it starts an update of it.
RowStep(s) ==
    /\ updates'[s] >= updates[s]
    /\ status[s] # "ACCEPTED" /\ status'[s] = "ACCEPTED" =>
         judgePhase[s] = "PRACTICE" \/ updates'[s] = updates[s] + 1

\* The writes of judging change one row.
LEMMA JudgingStep ==
    ASSUME TypeOK, NEW s \in Subs, NEW q \in Subs,
           J!Submit(q) \/ J!Judge(q) \/ J!Promote(q) \/ J!Unreliable(q)
    PROVE  /\ s # q => status'[s] = status[s] /\ judgePhase'[s] = judgePhase[s]
           /\ J!Submit(q) => /\ status[q] = "ABSENT" /\ status'[q] = "QUEUED"
                             /\ judgePhase'[q] \in {"PRACTICE", "CONTEST_PHASE1"}
           /\ J!Promote(q) => /\ status[q] # "ABSENT" /\ status'[q] = "QUEUED"
                              /\ judgePhase'[q] = "CONTEST_PHASE2"
           /\ J!Judge(q) \/ J!Unreliable(q) =>
                status[q] # "ABSENT" /\ status'[q] # "ABSENT" /\ judgePhase'[q] = judgePhase[q]
<1>1. \A tests \in TestSets : Outcome[q][tests] \subseteq Verdicts
  BY OutcomeAssumption
<1>2. J!TestsFor(judgePhase[q]) \in TestSets /\ J!TestSets = TestSets /\ "ABSENT" \notin Verdicts
  BY DEF J!TestsFor, J!TestSets, TestSets, Verdicts
<1>3. status \in [Subs -> Verdicts \cup {"ABSENT", "QUEUED"}] /\ judgePhase \in [Subs -> Phases \cup {"NONE"}]
  BY DEF TypeOK
<1> DEFINE Same == s # q => status'[s] = status[s] /\ judgePhase'[s] = judgePhase[s]
<1>4. ASSUME J!Submit(q)
      PROVE  Same /\ status[q] = "ABSENT" /\ status'[q] = "QUEUED"
             /\ judgePhase'[q] \in {"PRACTICE", "CONTEST_PHASE1"}
  BY <1>3, <1>4 DEF J!Submit, J!PhaseOnCreate
<1>5. ASSUME J!Promote(q)
      PROVE  Same /\ status[q] # "ABSENT" /\ status'[q] = "QUEUED"
             /\ judgePhase'[q] = "CONTEST_PHASE2"
  BY <1>3, <1>5 DEF J!Promote
<1>6. ASSUME J!Judge(q) \/ J!Unreliable(q)
      PROVE  Same /\ status[q] # "ABSENT" /\ status'[q] # "ABSENT" /\ judgePhase'[q] = judgePhase[q]
  <2>1. PICK v \in Verdicts \cup {"QUEUED"} : status' = [status EXCEPT ![q] = v]
    BY <1>1, <1>2, <1>6 DEF J!Judge, J!Unreliable
  <2>2. status[q] # "ABSENT" /\ UNCHANGED judgePhase
    BY <1>6 DEF J!Judge, J!Unreliable
  <2> QED BY <1>2, <1>3, <2>1, <2>2
<1> QED BY <1>4, <1>5, <1>6

\* A written verdict: an acceptance of a contest row starts an update, no other
\* verdict does.
LEMMA VerdictStep ==
    ASSUME Typed, NEW s \in Subs, WriteVerdict(s)
    PROVE  /\ \A r \in Subs \ {s} : updates'[r] = updates[r]
           /\ \/ Fewer /\ updates'[s] = updates[s]
                 /\ (status'[s] = "ACCEPTED" => judgePhase[s] = "PRACTICE")
              \/ /\ updates'[s] = updates[s] + 1 /\ judgePhase[s] # "PRACTICE"
                 /\ \E g \in Handlers :
                      /\ handler[g] = Idle
                      /\ handler' = [handler EXCEPT ![g] = [pc |-> "submission", sub |-> s]]
<1>0. updates \in [Subs -> Nat]
  BY DEF Typed, TypeOK
<1>1. CASE status'[s] = "ACCEPTED" /\ judgePhase[s] # "PRACTICE"
  <2>1. updates' = [updates EXCEPT ![s] = @ + 1]
    BY <1>1 DEF WriteVerdict
  <2>2. PICK g \in Handlers \ Running :
          handler' = [handler EXCEPT ![g] = [pc |-> "submission", sub |-> s]]
    BY <1>1 DEF WriteVerdict
  <2> QED BY <1>0, <1>1, <2>1, <2>2 DEF Running
<1>2. CASE ~(status'[s] = "ACCEPTED" /\ judgePhase[s] # "PRACTICE")
  <2>1. UNCHANGED <<handler, updates>>
    BY <1>2 DEF WriteVerdict
  <2> QED BY <1>2, <2>1 DEF Fewer
<1> QED BY <1>1, <1>2

\* The steps that start no update and accept no row.
LEMMA OtherSteps ==
    ASSUME Typed, [Next]_vars, \A s \in Subs : ~WriteVerdict(s)
    PROVE  /\ Fewer /\ UNCHANGED updates
           /\ \/ UNCHANGED <<status, judgePhase>>
              \/ \E s \in Subs : J!Submit(s) \/ J!Promote(s)
<1>1. ASSUME NEW h \in Handlers, Update(h)
      PROVE  Fewer /\ UNCHANGED <<status, judgePhase, updates>>
  BY <1>1, UpdateStep
<1>2. CASE CrashBackend
  BY <1>2 DEF CrashBackend, Fewer
<1>3. ASSUME NEW s \in Subs, Submit(s) \/ Promote(s)
      PROVE  UNCHANGED <<handler, updates>> /\ (J!Submit(s) \/ J!Promote(s))
  BY <1>3 DEF Submit, Promote, history
<1>4. ASSUME NEW f \in FreezeRuns, Freeze(f) PROVE UNCHANGED <<handler, status, judgePhase, updates>>
  BY <1>4 DEF Freeze, FreezeRead, FreezeSnapshot, FreezeStamp, judging, history
<1>5. ASSUME Tick \/ (\E u \in Users : Register(u)) \/ (\E s \in Subs : Distrust(s)) \/ UNCHANGED vars
      PROVE UNCHANGED <<handler, status, judgePhase, updates>>
  BY <1>5 DEF Tick, Register, Distrust, vars, judging, history
<1>6. UNCHANGED handler => Fewer
  BY DEF Fewer
<1> QED BY <1>1, <1>2, <1>3, <1>4, <1>5, <1>6 DEF Next

\* Every step moves a row and its updates as RowStep says.
LEMMA NextRowStep ==
    ASSUME Typed, [Next]_vars, NEW s \in Subs
    PROVE  RowStep(s)
<1>0. updates \in [Subs -> Nat] /\ TypeOK
  BY DEF Typed, TypeOK
<1>1. ASSUME NEW q \in Subs, WriteVerdict(q) PROVE RowStep(s)
  <2>1. J!Judge(q) \/ J!Unreliable(q)
    BY <1>1 DEF WriteVerdict
  <2>2. s # q => status'[s] = status[s] /\ updates'[s] = updates[s]
    BY <1>0, <1>1, <2>1, JudgingStep, VerdictStep
  <2>3. s = q => \/ updates'[s] = updates[s] /\ (status'[s] = "ACCEPTED" => judgePhase[s] = "PRACTICE")
                 \/ updates'[s] = updates[s] + 1
    BY <1>1, VerdictStep
  <2> QED BY <1>0, <2>2, <2>3 DEF RowStep
<1>2. CASE \A q \in Subs : ~WriteVerdict(q)
  <2>1. /\ UNCHANGED updates
        /\ \/ UNCHANGED <<status, judgePhase>>
           \/ \E q \in Subs : J!Submit(q) \/ J!Promote(q)
    BY <1>2, OtherSteps
  <2>2. status'[s] = status[s] \/ status'[s] = "QUEUED"
    BY <1>0, <2>1, JudgingStep
  <2> QED BY <1>0, <2>1, <2>2 DEF RowStep
<1> QED BY <1>1, <1>2

\* What is steady after a step was so before.
LEMMA SteadyBefore ==
    ASSUME Typed, UpdatesStarted, [Next]_vars, NEW u \in Users, NEW p \in Problems, Steady(u, p)'
    PROVE  Steady(u, p)
<1> SUFFICES ASSUME NEW s \in Of(u, p)
             PROVE  updates[s] <= 1 /\ (updates[s] = 1 => status[s] = "ACCEPTED")
  BY DEF Steady
<1>1. s \in Subs /\ updates[s] \in Nat
  BY DEF Of, Typed, TypeOK
<1>2. updates'[s] <= 1 /\ (updates'[s] = 1 => status'[s] = "ACCEPTED")
  BY DEF Steady, Of
<1>3. RowStep(s) /\ updates'[s] \in Nat
  BY <1>1, NextRowStep, NextTyped DEF Typed, TypeOK
<1>4. judgePhase[s] = "PRACTICE" => updates[s] = 0
  BY <1>1 DEF UpdatesStarted
<1> QED BY <1>1, <1>2, <1>3, <1>4 DEF RowStep

LEMMA NextUpdatesStarted == Typed /\ UpdatesStarted /\ [Next]_vars => UpdatesStarted'
<1> SUFFICES ASSUME Typed, UpdatesStarted, [Next]_vars PROVE UpdatesStarted'
  OBVIOUS
<1>0. /\ updates \in [Subs -> Nat] /\ TypeOK
      /\ handler \in [Handlers -> Handler_]
  BY DEF Typed, TypeOK
<1>1. CASE \A q \in Subs : ~WriteVerdict(q)
  <2>1. /\ Fewer /\ UNCHANGED updates
        /\ \/ UNCHANGED <<status, judgePhase>>
           \/ \E q \in Subs : J!Submit(q) \/ J!Promote(q)
    BY <1>1, OtherSteps
  <2>2. ASSUME NEW s \in Subs
        PROVE  /\ judgePhase'[s] \in {"NONE", "PRACTICE"} => updates[s] = 0
               /\ judgePhase'[s] = "NONE" <=> status'[s] = "ABSENT"
    <3>1. CASE UNCHANGED <<status, judgePhase>>
      BY <3>1 DEF UpdatesStarted
    <3>2. ASSUME NEW q \in Subs, J!Submit(q) \/ J!Promote(q)
          PROVE  /\ judgePhase'[s] \in {"NONE", "PRACTICE"} => updates[s] = 0
                 /\ judgePhase'[s] = "NONE" <=> status'[s] = "ABSENT"
      BY <1>0, <3>2, JudgingStep DEF UpdatesStarted
    <3> QED BY <2>1, <3>1, <3>2
  <2> QED BY <2>1, <2>2 DEF UpdatesStarted, Running, Fewer
<1>2. ASSUME NEW q \in Subs, WriteVerdict(q) PROVE UpdatesStarted'
  <2>1. J!Judge(q) \/ J!Unreliable(q)
    BY <1>2 DEF WriteVerdict
  <2>2. ASSUME NEW s \in Subs
        PROVE  /\ judgePhase'[s] = judgePhase[s]
               /\ judgePhase'[s] = "NONE" <=> status'[s] = "ABSENT"
    BY <1>0, <2>1, JudgingStep DEF UpdatesStarted
  <2>3. judgePhase[q] # "NONE"
    BY <1>0, <2>1, JudgingStep DEF UpdatesStarted
  <2>4. CASE Fewer /\ updates'[q] = updates[q]
    <3>1. \A s \in Subs : updates'[s] = updates[s]
      BY <1>2, <2>4, VerdictStep
    <3> QED BY <2>2, <2>4, <3>1 DEF UpdatesStarted, Running, Fewer
  <2>5. ASSUME updates'[q] = updates[q] + 1, judgePhase[q] # "PRACTICE",
               NEW g \in Handlers, handler[g] = Idle,
               handler' = [handler EXCEPT ![g] = [pc |-> "submission", sub |-> q]]
        PROVE  UpdatesStarted'
    <3> DEFINE new == [pc |-> "submission", sub |-> q]
    <3>1. /\ \A h \in Handlers : handler'[h] = IF h = g THEN new ELSE handler[h]
          /\ new.sub = q
      BY <1>0, <2>5
    <3> HIDE DEF new
    <3>2. \A s \in Subs \ {q} : updates'[s] = updates[s]
      BY <1>2, VerdictStep
    <3>3. updates[q] \in Nat
      BY <1>0
    <3>4. updates[q] = 0 => \A h \in Running : handler[h].sub # q
      BY <3>3 DEF UpdatesStarted
    <3>5. \A s \in Subs : judgePhase'[s] \in {"NONE", "PRACTICE"} => updates'[s] = 0
      BY <2>2, <2>3, <2>5, <3>2 DEF UpdatesStarted
    <3>6. \A s \in Subs : \A h \in Running' : handler'[h].sub = s => updates'[s] >= 1
      BY <2>5, <3>1, <3>2, <3>3 DEF UpdatesStarted, Running
    <3>7. \A s \in Subs : updates'[s] <= 1 =>
            \A h, k \in Running' : handler'[h].sub = s /\ handler'[k].sub = s => h = k
      BY <2>5, <3>1, <3>2, <3>3, <3>4 DEF UpdatesStarted, Running
    <3> QED BY <2>2, <3>5, <3>6, <3>7 DEF UpdatesStarted
  <2> QED BY <1>2, <2>4, <2>5, VerdictStep
<1> QED BY <1>1, <1>2

\* A step that credits the problem no further and lets no update of it win.
LEMMA SameCredits ==
    ASSUME Typed, UpdatesStarted, [Next]_vars, NEW u \in Users, NEW p \in Problems,
           OneWinner(u, p),
           credits'[u][p] = credits[u][p],
           \A h \in Handlers : Winning(h)' /\ handler'[h].sub \in Of(u, p) =>
             Winning(h) /\ handler'[h].sub = handler[h].sub,
           \A h \in Handlers : handler'[h] # Idle =>
             \/ handler[h] # Idle /\ handler'[h].sub = handler[h].sub
             \/ updates'[handler'[h].sub] = updates[handler'[h].sub] + 1
    PROVE  OneWinner(u, p)'
<1> SUFFICES ASSUME Steady(u, p)' PROVE OneWinner(u, p)'
  BY DEF OneWinner
<1>1. Steady(u, p)
  BY SteadyBefore
<1>2. /\ \A g, h \in Handlers :
           /\ Winning(g)' /\ handler'[g].sub \in Of(u, p)
           /\ Winning(h)' /\ handler'[h].sub \in Of(u, p)
           => g = h
      /\ credits'[u][p] = 0 \/ credits'[u][p] = 1
  BY <1>1 DEF OneWinner
<1>3. ASSUME credits'[u][p] = 1
      PROVE  /\ \A h \in Handlers : Winning(h)' => handler'[h].sub \notin Of(u, p)
             /\ \E s \in Of(u, p) : updates'[s] = 1 /\ \A h \in Running' : handler'[h].sub # s
  <2>1. \A h \in Handlers : Winning(h)' => handler'[h].sub \notin Of(u, p)
    BY <1>1, <1>3 DEF OneWinner
  <2>2. PICK s \in Of(u, p) : updates[s] = 1 /\ \A h \in Running : handler[h].sub # s
    BY <1>1, <1>3 DEF OneWinner
  <2>3. s \in Subs
    BY DEF Of
  <2>4. updates'[s] = 1
    <3>1. updates'[s] <= 1
      BY DEF Steady, Of
    <3>2. updates'[s] >= 1 /\ updates'[s] \in Nat
      BY <2>2, <2>3, NextRowStep, NextTyped DEF RowStep, Typed, TypeOK
    <3> QED BY <3>1, <3>2
  <2>5. \A h \in Running' : handler'[h].sub # s
    BY <2>2, <2>4 DEF Running
  <2> QED BY <2>1, <2>4, <2>5
<1> QED BY <1>2, <1>3 DEF OneWinner, Of

\* The update that finds no other accepted submission is the only one of the
\* problem, and nothing is credited yet.
LEMMA QueryWins ==
    ASSUME Typed, UpdatesStarted, NEW h \in Handlers, QueryExisting(h),
           NEW u \in Users, NEW p \in Problems, Steady(u, p), OneWinner(u, p),
           handler[h].sub \in Of(u, p), ~ExistingAccepted(handler[h].sub)
    PROVE  /\ credits[u][p] = 0
           /\ \A g \in Handlers : g # h /\ Winning(g) => handler[g].sub \notin Of(u, p)
<1> DEFINE s == handler[h].sub
<1>0. /\ handler \in [Handlers -> Handler_] /\ updates \in [Subs -> Nat]
      /\ h \in Running
  <2>1. handler \in [Handlers -> Handler_] /\ updates \in [Subs -> Nat]
    BY DEF Typed, TypeOK
  <2> QED BY <2>1, HandlerFields DEF QueryExisting, Running
<1>1. \A r \in Of(u, p) : r # s => status[r] # "ACCEPTED"
  BY DEF ExistingAccepted, Of
<1>2. \A r \in Of(u, p) : updates[r] >= 1 => updates[r] = 1 /\ status[r] = "ACCEPTED"
  BY <1>0 DEF Steady, Of
<1>3. ASSUME NEW g \in Handlers, g # h, Winning(g), handler[g].sub \in Of(u, p) PROVE FALSE
  <2>1. g \in Running
    BY <1>3 DEF Winning, Running
  <2>2. handler[g].sub = s
    BY <1>1, <1>2, <1>3, <2>1 DEF UpdatesStarted, Of
  <2>3. updates[s] <= 1
    BY DEF Steady
  <2> QED BY <1>0, <1>3, <2>1, <2>2, <2>3 DEF UpdatesStarted, Of
<1>4. ASSUME credits[u][p] = 1 PROVE FALSE
  <2>1. PICK r \in Of(u, p) : updates[r] = 1 /\ \A g \in Running : handler[g].sub # r
    BY <1>4 DEF OneWinner
  <2> QED BY <1>0, <1>1, <1>2, <2>1
<1> QED BY <1>3, <1>4 DEF OneWinner

LEMMA NextOneWinner ==
    ASSUME Typed, UpdatesStarted, [Next]_vars, NEW u \in Users, NEW p \in Problems,
           OneWinner(u, p)
    PROVE  OneWinner(u, p)'
<1>0. /\ handler \in [Handlers -> Handler_] /\ updates \in [Subs -> Nat]
      /\ credits \in [Users -> [Problems -> Nat]]
  BY DEF Typed, TypeOK
<1> DEFINE Kept == \A h \in Handlers : handler'[h] # Idle =>
             \/ handler[h] # Idle /\ handler'[h].sub = handler[h].sub
             \/ updates'[handler'[h].sub] = updates[handler'[h].sub] + 1
           NoneWins == \A h \in Handlers : Winning(h)' /\ handler'[h].sub \in Of(u, p) =>
             Winning(h) /\ handler'[h].sub = handler[h].sub
<1>a. Fewer => Kept
  BY DEF Fewer
<1>b. credits'[u][p] = credits[u][p] /\ Kept /\ NoneWins => OneWinner(u, p)'
  BY SameCredits
<1>c. UNCHANGED handler => Kept /\ NoneWins
  BY DEF Winning
<1>1. ASSUME NEW s \in Subs, WriteVerdict(s) PROVE OneWinner(u, p)'
  <2>1. credits' = credits
    BY <1>1 DEF WriteVerdict
  <2>2. CASE UNCHANGED handler
    BY <1>b, <1>c, <2>1, <2>2
  <2>3. ASSUME NEW g \in Handlers, updates'[s] = updates[s] + 1,
               handler' = [handler EXCEPT ![g] = [pc |-> "submission", sub |-> s]]
        PROVE  OneWinner(u, p)'
    <3>1. \A h \in Handlers : handler'[h] = IF h = g THEN [pc |-> "submission", sub |-> s] ELSE handler[h]
      BY <1>0, <2>3
    <3>2. Kept /\ NoneWins
      BY <2>3, <3>1 DEF Winning
    <3> QED BY <1>b, <2>1, <3>2
  <2>4. \/ UNCHANGED handler
        \/ /\ updates'[s] = updates[s] + 1
           /\ \E g \in Handlers : handler' = [handler EXCEPT ![g] = [pc |-> "submission", sub |-> s]]
    BY <1>0, <1>1 DEF WriteVerdict
  <2> QED BY <2>2, <2>3, <2>4
<1>2. ASSUME NEW h \in Handlers, ReadSubmission(h) \/ ReadContest(h) \/ ReadEntry(h)
      PROVE  OneWinner(u, p)'
  <2>1. Kept
    BY <1>2, <1>a, UpdateStep DEF Update
  <2>2. credits' = credits
    BY <1>2 DEF ReadSubmission, ReadContest, ReadEntry, history
  <2>3. PICK d : handler' = [handler EXCEPT ![h] = d] /\ (d = Idle \/ d.pc # "upsert")
    BY <1>2 DEF ReadSubmission, ReadContest, ReadEntry, Return
  <2>4. NoneWins
    BY <1>0, <2>3 DEF Winning
  <2> QED BY <1>b, <2>1, <2>2, <2>4
<1>3. ASSUME NEW h \in Handlers, QueryExisting(h) PROVE OneWinner(u, p)'
  <2> DEFINE s == handler[h].sub
             new == [pc |-> "upsert", sub |-> s, entry |-> handler[h].entry,
                     first |-> ~ExistingAccepted(s)]
  <2>1. Kept
    BY <1>3, <1>a, UpdateStep DEF Update
  <2>2. credits' = credits
    BY <1>3 DEF QueryExisting, history
  <2>3. /\ \A g \in Handlers : handler'[g] = IF g = h THEN new ELSE handler[g]
        /\ new.sub = s /\ new.first = ~ExistingAccepted(s)
    BY <1>0, <1>3 DEF QueryExisting
  <2> HIDE DEF new
  <2>4. CASE ExistingAccepted(s) \/ s \notin Of(u, p)
    <3>1. NoneWins
      BY <2>3, <2>4 DEF Winning
    <3> QED BY <1>b, <2>1, <2>2, <3>1
  <2>5. CASE ~ExistingAccepted(s) /\ s \in Of(u, p)
    <3> SUFFICES ASSUME Steady(u, p)' PROVE OneWinner(u, p)'
      BY DEF OneWinner
    <3>1. Steady(u, p)
      BY SteadyBefore
    <3>2. /\ credits[u][p] = 0
          /\ \A g \in Handlers : g # h /\ Winning(g) => handler[g].sub \notin Of(u, p)
      BY <1>3, <2>5, <3>1, QueryWins
    <3>3. \A g \in Handlers : Winning(g)' /\ handler'[g].sub \in Of(u, p) => g = h
      BY <2>3, <3>2 DEF Winning
    <3> QED BY <2>2, <3>2, <3>3 DEF OneWinner, Of
  <2> QED BY <2>4, <2>5
<1>4. ASSUME NEW h \in Handlers, Upsert(h) PROVE OneWinner(u, p)'
  <2> DEFINE s == handler[h].sub
  <2>1. Kept
    BY <1>4, <1>a, UpdateStep DEF Update
  <2>2. \A g \in Handlers : handler'[g] = IF g = h THEN Idle ELSE handler[g]
    BY <1>0, <1>4 DEF Upsert, Return
  <2>3. NoneWins
    BY <2>2 DEF Winning
  <2>4. handler[h] # Idle /\ s \in Subs /\ UserOf[s] \in Users /\ ProblemOf[s] \in Problems
    BY <1>0, <1>4, HandlerFields, ContestAssumption DEF Upsert
  <2>5. CASE ~handler[h].entry.frozen /\ handler[h].first /\ s \in Of(u, p)
    <3> SUFFICES ASSUME Steady(u, p)' PROVE OneWinner(u, p)'
      BY DEF OneWinner
    <3>1. Steady(u, p)
      BY SteadyBefore
    <3>2. Winning(h)
      BY <1>4, <2>4, <2>5 DEF Winning, Upsert
    <3>3. credits[u][p] = 0 /\ \A g \in Handlers : g # h /\ Winning(g) => handler[g].sub \notin Of(u, p)
      BY <2>5, <3>1, <3>2 DEF OneWinner
    <3>4. credits'[u][p] = 1
      <4>1. credits' = [credits EXCEPT ![u][p] = @ + 1]
        BY <1>4, <2>5 DEF Upsert, Of
      <4> QED BY <1>0, <3>3, <4>1
    <3>5. updates'[s] = 1
      <4>1. updates'[s] = updates[s]
        BY <1>4 DEF Upsert
      <4>2. updates[s] <= 1 /\ updates[s] >= 1 /\ updates[s] \in Nat
        BY <1>0, <2>4, <2>5, <3>1 DEF Steady, UpdatesStarted, Running
      <4> QED BY <4>1, <4>2
    <3>6. \A g \in Running' : handler'[g].sub # s
      <4>1. updates[s] <= 1
        BY <2>5, <3>1 DEF Steady
      <4> QED BY <2>2, <2>4, <4>1 DEF UpdatesStarted, Running
    <3>7. \A g \in Handlers : Winning(g)' => handler'[g].sub \notin Of(u, p)
      BY <2>2, <3>3 DEF Winning
    <3> QED BY <2>5, <3>4, <3>5, <3>6, <3>7 DEF OneWinner, Of
  <2>6. CASE ~(~handler[h].entry.frozen /\ handler[h].first /\ s \in Of(u, p))
    <3>1. \/ credits' = credits
          \/ /\ credits' = [credits EXCEPT ![UserOf[s]][ProblemOf[s]] = @ + 1]
             /\ UserOf[s] # u \/ ProblemOf[s] # p
      BY <1>4, <2>4, <2>6 DEF Upsert, Of
    <3>2. credits'[u][p] = credits[u][p]
      BY <1>0, <2>4, <3>1
    <3> QED BY <1>b, <2>1, <2>3, <3>2
  <2> QED BY <2>5, <2>6
<1>5. CASE CrashBackend
  <2>1. credits' = credits /\ \A h \in Handlers : handler'[h] = Idle
    BY <1>5 DEF CrashBackend
  <2>2. Kept /\ NoneWins
    BY <2>1 DEF Winning
  <2> QED BY <1>b, <2>1, <2>2
<1>6. CASE UNCHANGED <<handler, credits>>
  BY <1>6, <1>b, <1>c
<1>7. ASSUME \/ Tick \/ \E q \in Users : Register(q)
             \/ \E s \in Subs : Submit(s) \/ Promote(s) \/ Distrust(s)
             \/ \E f \in FreezeRuns : Freeze(f)
             \/ UNCHANGED vars
      PROVE  UNCHANGED <<handler, credits>>
  BY <1>7
  DEF Tick, Register, Submit, Promote, Distrust, Freeze, FreezeRead, FreezeSnapshot,
      FreezeStamp, vars, history
<1> QED BY <1>1, <1>2, <1>3, <1>4, <1>5, <1>6, <1>7 DEF Next, Update

\* A problem is credited to a user at most once, however many updates of however
\* many submissions interleave, while no acceptance of it is reported twice.
THEOREM CreditsAtMostOnce == Spec => []CreditedAtMostOnce
<1>1. Init => CInv
  <2> SUFFICES ASSUME Init PROVE UpdatesStarted /\ \A u \in Users, p \in Problems : OneWinner(u, p)
    BY InitTyped DEF CInv
  <2>1. /\ Running = {} /\ \A h \in Handlers : handler[h] = Idle
        /\ \A u \in Users, p \in Problems : credits[u][p] = 0
        /\ \A s \in Subs : updates[s] = 0 /\ status[s] = "ABSENT" /\ judgePhase[s] = "NONE"
    BY DEF Init, J!Init, Running
  <2> QED BY <2>1 DEF UpdatesStarted, OneWinner, Winning
<1>2. CInv /\ [Next]_vars => CInv'
  BY NextTyped, NextUpdatesStarted, NextOneWinner DEF CInv
<1>3. CInv => CreditedAtMostOnce
  BY DEF CInv, OneWinner, Steady, CreditedAtMostOnce
<1> QED BY <1>1, <1>2, <1>3, PTL DEF Spec

(* ----------------------- No solve goes uncredited ----------------------- *)

\* An update of the row was started, and all of its updates have ended.
Ended(s) == updates[s] >= 1 /\ \A h \in Running : handler[h].sub # s

\* Each update of the problem ran to its end, and no row of it is a practice row.
Complete(u, p) == \A s \in Of(u, p) : s \notin skipped \cup PracticeSubs

\* Whoever ended, or found another accepted submission, came after the credit.
Credited(u, p) ==
    /\ (\E s \in Of(u, p) : Ended(s)) => credits[u][p] >= 1
    /\ \A h \in Running :
         handler[h].pc = "upsert" /\ ~handler[h].first /\ handler[h].sub \in Of(u, p)
           => credits[u][p] >= 1

\* An accepted row of the contest proper has started an update.
Announced ==
    \A s \in Subs \ PracticeSubs :
        judgePhase[s] # "PRACTICE" /\ (status[s] = "ACCEPTED" => updates[s] >= 1)

FirstInv ==
    /\ Typed /\ Announced
    /\ ~overlapped => /\ \A g, h \in Running : g = h
                      /\ \A u \in Users, p \in Problems : Complete(u, p) => Credited(u, p)

LEMMA NextAnnounced == Typed /\ Announced /\ [Next]_vars => Announced'
<1> SUFFICES ASSUME Typed, Announced, [Next]_vars, NEW s \in Subs, s \notin PracticeSubs
             PROVE  judgePhase'[s] # "PRACTICE" /\ (status'[s] = "ACCEPTED" => updates'[s] >= 1)
  BY DEF Announced
<1>0. /\ updates \in [Subs -> Nat] /\ updates'[s] \in Nat
      /\ judgePhase \in [Subs -> Phases \cup {"NONE"}]
  BY NextTyped DEF Typed, TypeOK
<1>1. judgePhase[s] # "PRACTICE" /\ (status[s] = "ACCEPTED" => updates[s] >= 1)
  BY DEF Announced
<1>2. RowStep(s)
  BY NextRowStep
<1>3. ASSUME NEW q \in Subs, J!Submit(q) PROVE judgePhase'[s] # "PRACTICE"
  <2>1. judgePhase' = [judgePhase EXCEPT ![q] = J!PhaseOnCreate(q)]
    BY <1>3 DEF J!Submit
  <2>2. q = s => J!PhaseOnCreate(q) = "CONTEST_PHASE1"
    BY DEF J!PhaseOnCreate
  <2> QED BY <1>0, <1>1, <2>1, <2>2
<1>4. ASSUME NEW q \in Subs, J!Promote(q) PROVE judgePhase'[s] # "PRACTICE"
  BY <1>0, <1>1, <1>4 DEF J!Promote
<1>5. ASSUME NEW q \in Subs, WriteVerdict(q) PROVE judgePhase'[s] # "PRACTICE"
  BY <1>1, <1>5 DEF WriteVerdict, J!Judge, J!Unreliable
<1>6. judgePhase'[s] # "PRACTICE"
  BY <1>1, <1>3, <1>4, <1>5, OtherSteps
<1> QED BY <1>0, <1>1, <1>2, <1>6 DEF RowStep

\* While updates never overlap, at most one runs.
LEMMA NextAlone ==
    ASSUME Typed, [Next]_vars, ~overlapped', ~overlapped => \A g, h \in Running : g = h
    PROVE  ~overlapped /\ \A g, h \in Running' : g = h
<1>0. overlapped \in BOOLEAN /\ handler \in [Handlers -> Handler_]
  BY DEF Typed, TypeOK
<1>1. ASSUME NEW s \in Subs, WriteVerdict(s) PROVE ~overlapped /\ \A g, h \in Running' : g = h
  <2>1. CASE status'[s] = "ACCEPTED" /\ judgePhase[s] # "PRACTICE"
    <3>1. ~overlapped /\ Running = {}
      BY <1>1, <2>1 DEF WriteVerdict
    <3>2. PICK g \in Handlers : handler' = [handler EXCEPT ![g] = [pc |-> "submission", sub |-> s]]
      BY <1>1, <2>1 DEF WriteVerdict
    <3> QED BY <1>0, <3>1, <3>2 DEF Running
  <2>2. CASE ~(status'[s] = "ACCEPTED" /\ judgePhase[s] # "PRACTICE")
    BY <1>1, <2>2 DEF WriteVerdict, Running
  <2> QED BY <2>1, <2>2
<1>2. CASE \A s \in Subs : ~WriteVerdict(s)
  <2>1. UNCHANGED overlapped
    BY <1>2 DEF Next, Tick, Register, Submit, Promote, Distrust, Update, ReadSubmission, ReadContest,
       ReadEntry, QueryExisting, Upsert, Freeze, FreezeRead, FreezeSnapshot, FreezeStamp,
       CrashBackend, vars, history
  <2>2. Running' \subseteq Running
    BY <1>2, OtherSteps DEF Fewer, Running
  <2> QED BY <2>1, <2>2
<1> QED BY <1>1, <1>2

LEMMA NextCredited ==
    ASSUME FirstInv, [Next]_vars, ~overlapped', NEW u \in Users, NEW p \in Problems, Complete(u, p)'
    PROVE  Credited(u, p)'
<1> DEFINE NoneEnds == \A s \in Of(u, p) : Ended(s)' => Ended(s)
           NoneFinds == \A h \in Running' :
              handler'[h].pc = "upsert" /\ ~handler'[h].first /\ handler'[h].sub \in Of(u, p)
                => h \in Running /\ handler'[h] = handler[h]
           Grows == credits[u][p] \in Nat /\ credits'[u][p] \in Nat /\ credits'[u][p] >= credits[u][p]
<1>0. /\ handler \in [Handlers -> Handler_] /\ updates \in [Subs -> Nat] /\ Typed
      /\ credits \in [Users -> [Problems -> Nat]] /\ credits' \in [Users -> [Problems -> Nat]]
      /\ credits[u][p] \in Nat /\ credits'[u][p] \in Nat
  BY NextTyped DEF FirstInv, Typed, TypeOK
<1>1. ~overlapped /\ \A g, h \in Running : g = h
  BY NextAlone DEF FirstInv
<1>2. skipped \subseteq skipped'
  BY DEF Next, Tick, Register, Submit, WriteVerdict, Promote, Distrust, Update, ReadSubmission,
     ReadContest, ReadEntry, QueryExisting, Upsert, Return, Freeze, FreezeRead, FreezeSnapshot,
     FreezeStamp, CrashBackend, vars, history
<1>3. Complete(u, p) /\ Credited(u, p) /\ \A s \in Of(u, p) : s \notin skipped'
  BY <1>1, <1>2 DEF Complete, FirstInv, Of
<1>4. NoneEnds /\ NoneFinds /\ Grows => Credited(u, p)'
  BY <1>3 DEF Credited, Of
<1>5. ASSUME NEW h \in Handlers, handler[h] # Idle, handler' = [handler EXCEPT ![h] = Idle],
             updates' = updates, handler[h].sub \notin Of(u, p), credits'[u][p] = credits[u][p]
      PROVE  Credited(u, p)'
  <2>1. NoneEnds
    BY <1>0, <1>5 DEF Ended, Running, Of
  <2>2. NoneFinds
    BY <1>0, <1>5 DEF Running
  <2>3. Grows
    BY <1>0, <1>5
  <2> QED BY <1>4, <2>1, <2>2, <2>3
<1>6. ASSUME NEW s \in Subs, WriteVerdict(s) PROVE Credited(u, p)'
  <2>1. Grows
    BY <1>0, <1>6 DEF WriteVerdict
  <2>2. CASE status'[s] = "ACCEPTED" /\ judgePhase[s] # "PRACTICE"
    <3>1. PICK g \in Handlers \ Running :
            handler' = [handler EXCEPT ![g] = [pc |-> "submission", sub |-> s]]
      BY <1>6, <2>2 DEF WriteVerdict
    <3>2. \A r \in Subs \ {s} : updates'[r] = updates[r]
      BY <1>0, <1>6, VerdictStep
    <3>3. g \in Running' /\ handler'[g].sub = s /\ handler'[g].pc = "submission"
      BY <1>0, <3>1 DEF Running, Idle
    <3>4. \A h \in Handlers \ {g} : handler'[h] = handler[h]
      BY <1>0, <3>1
    <3>5. NoneEnds
      BY <3>1, <3>2, <3>3, <3>4 DEF Ended, Running, Of
    <3>6. NoneFinds
      BY <3>3, <3>4 DEF Running
    <3> QED BY <1>4, <2>1, <3>5, <3>6
  <2>3. CASE ~(status'[s] = "ACCEPTED" /\ judgePhase[s] # "PRACTICE")
    <3>1. UNCHANGED <<handler, updates>>
      BY <1>6, <2>3 DEF WriteVerdict
    <3> QED BY <1>4, <2>1, <3>1 DEF Ended, Running
  <2> QED BY <2>2, <2>3
<1>7. ASSUME NEW h \in Handlers, ReadSubmission(h) \/ ReadContest(h) \/ ReadEntry(h)
      PROVE  Credited(u, p)'
  <2>1. credits' = credits /\ updates' = updates /\ handler[h] # Idle
    BY <1>7 DEF ReadSubmission, ReadContest, ReadEntry, history, Idle
  <2>2. CASE Return(h)
    <3>1. handler[h].sub \notin Of(u, p)
      BY <1>3, <2>2 DEF Return
    <3>2. handler' = [handler EXCEPT ![h] = Idle] /\ credits'[u][p] = credits[u][p]
      BY <2>1, <2>2 DEF Return
    <3> QED BY <1>5, <2>1, <3>1, <3>2
  <2>3. CASE ~Return(h)
    <3>1. PICK d : /\ handler' = [handler EXCEPT ![h] = d]
                   /\ d # Idle /\ d.sub = handler[h].sub /\ d.pc # "upsert"
      BY <1>7, <2>3 DEF ReadSubmission, ReadContest, ReadEntry, Idle
    <3> QED BY <1>0, <1>4, <2>1, <3>1 DEF Ended, Running
  <2> QED BY <2>2, <2>3
<1>8. ASSUME NEW h \in Handlers, QueryExisting(h) PROVE Credited(u, p)'
  <2> DEFINE s == handler[h].sub
             d == [pc |-> "upsert", sub |-> s, entry |-> handler[h].entry,
                   first |-> ~ExistingAccepted(s)]
  <2>1. credits' = credits /\ updates' = updates /\ handler[h] # Idle
    BY <1>8 DEF QueryExisting, history, Idle
  <2>2. handler' = [handler EXCEPT ![h] = d] /\ d # Idle /\ d.sub = s /\ d.first = ~ExistingAccepted(s)
    BY <1>8 DEF QueryExisting, Idle
  <2> HIDE DEF d
  <2>3. NoneEnds
    BY <1>0, <2>1, <2>2 DEF Ended, Running
  <2>4. CASE ExistingAccepted(s) /\ s \in Of(u, p)
    <3>1. PICK r \in Subs \ {s} : r \in Of(u, p) /\ status[r] = "ACCEPTED"
      BY <2>4 DEF ExistingAccepted, Of
    <3>2. updates[r] >= 1
      BY <1>3, <3>1 DEF FirstInv, Announced, Complete
    <3>3. Ended(r)
      BY <1>0, <1>1, <2>1, <3>1, <3>2 DEF Ended, Running
    <3>4. credits[u][p] >= 1
      BY <1>3, <3>1, <3>3 DEF Credited
    <3> QED BY <2>1, <3>4 DEF Credited
  <2>5. CASE ~(ExistingAccepted(s) /\ s \in Of(u, p))
    <3>1. NoneFinds
      BY <1>0, <2>2, <2>5 DEF Running
    <3> QED BY <1>0, <1>4, <2>1, <2>3, <3>1
  <2> QED BY <2>4, <2>5
<1>9. ASSUME NEW h \in Handlers, Upsert(h) PROVE Credited(u, p)'
  <2> DEFINE s == handler[h].sub
  <2>1. updates' = updates /\ handler[h] # Idle /\ handler' = [handler EXCEPT ![h] = Idle]
    BY <1>9 DEF Upsert, Return, Idle
  <2>2. s \in Subs /\ UserOf[s] \in Users /\ ProblemOf[s] \in Problems /\ handler[h].first \in BOOLEAN
    BY <1>0, <1>9, <2>1, HandlerFields, ContestAssumption DEF Upsert
  <2>3. CASE handler[h].entry.frozen
    <3>1. Return(h) /\ credits' = credits
      BY <1>9, <2>3 DEF Upsert
    <3>2. s \notin Of(u, p)
      BY <1>3, <3>1 DEF Return
    <3>3. credits'[u][p] = credits[u][p]
      BY <3>1
    <3> QED BY <1>5, <2>1, <3>2, <3>3
  <2>4. CASE ~handler[h].entry.frozen /\ handler[h].first
    <3>1. credits' = [credits EXCEPT ![UserOf[s]][ProblemOf[s]] = @ + 1]
      BY <1>9, <2>4 DEF Upsert
    <3>2. CASE s \in Of(u, p)
      <4>1. credits'[u][p] >= 1
        BY <1>0, <3>1, <3>2 DEF Of
      <4> QED BY <4>1 DEF Credited
    <3>3. CASE s \notin Of(u, p)
      <4>1. credits'[u][p] = credits[u][p]
        BY <1>0, <2>2, <3>1, <3>3 DEF Of
      <4> QED BY <1>5, <2>1, <3>3, <4>1
    <3> QED BY <3>2, <3>3
  <2>5. CASE ~handler[h].entry.frozen /\ ~handler[h].first
    <3>1. credits' = credits
      BY <1>9, <2>5 DEF Upsert
    <3>2. CASE s \in Of(u, p)
      <4>1. credits[u][p] >= 1
        BY <1>3, <1>9, <2>1, <2>5, <3>2 DEF Credited, Running, Upsert
      <4> QED BY <3>1, <4>1 DEF Credited
    <3>3. CASE s \notin Of(u, p)
      <4>1. credits'[u][p] = credits[u][p]
        BY <3>1
      <4> QED BY <1>5, <2>1, <3>3, <4>1
    <3> QED BY <3>2, <3>3
  <2> QED BY <2>2, <2>3, <2>4, <2>5
<1>10. CASE CrashBackend
  <2>1. /\ credits' = credits /\ updates' = updates /\ \A h \in Handlers : handler'[h] = Idle
        /\ \A h \in Running : handler[h].sub \in skipped'
    BY <1>10 DEF CrashBackend
  <2>2. NoneEnds
    BY <1>3, <2>1 DEF Ended
  <2>3. NoneFinds
    BY <2>1 DEF Running
  <2> QED BY <1>0, <1>4, <2>1, <2>2, <2>3
<1>11. ASSUME \/ Tick \/ \E q \in Users : Register(q)
              \/ \E s \in Subs : Submit(s) \/ Promote(s) \/ Distrust(s)
              \/ \E f \in FreezeRuns : Freeze(f)
              \/ UNCHANGED vars
       PROVE  Credited(u, p)'
  <2>1. UNCHANGED <<handler, updates, credits>>
    BY <1>11
    DEF Tick, Register, Submit, Promote, Distrust, Freeze, FreezeRead, FreezeSnapshot,
        FreezeStamp, vars, history
  <2> QED BY <1>0, <1>4, <2>1 DEF Ended, Running
<1> QED BY <1>6, <1>7, <1>8, <1>9, <1>10, <1>11 DEF Next, Update

\* A problem whose acceptances were announced one at a time, each up to its end, is
\* credited, for every contest and every order of verdicts, freezes and restarts.
THEOREM FirstSolvesCount == Spec => []FirstSolveCounts
<1>1. Init => FirstInv
  <2> SUFFICES ASSUME Init PROVE FirstInv
    OBVIOUS
  <2>1. /\ Running = {} /\ \A s \in Subs : updates[s] = 0
        /\ \A s \in Subs : status[s] = "ABSENT" /\ judgePhase[s] = "NONE"
    BY DEF Init, J!Init, Running
  <2>2. Announced
    BY <2>1 DEF Announced
  <2>3. \A u \in Users, p \in Problems : Credited(u, p)
    BY <2>1 DEF Credited, Ended, Of
  <2> QED BY <2>1, <2>2, <2>3, InitTyped DEF FirstInv
<1>2. FirstInv /\ [Next]_vars => FirstInv'
  <2> SUFFICES ASSUME FirstInv, [Next]_vars PROVE FirstInv'
    OBVIOUS
  <2>1. Typed' /\ Announced'
    BY NextTyped, NextAnnounced DEF FirstInv
  <2>2. ASSUME ~overlapped' PROVE \A g, h \in Running' : g = h
    BY <2>2, NextAlone DEF FirstInv
  <2>3. ASSUME ~overlapped', NEW u \in Users, NEW p \in Problems, Complete(u, p)'
        PROVE  Credited(u, p)'
    BY <2>3, NextCredited
  <2> QED BY <2>1, <2>2, <2>3 DEF FirstInv
<1>3. FirstInv => FirstSolveCounts
  <2> SUFFICES ASSUME FirstInv, ~overlapped, NEW u \in Users, NEW p \in Problems,
                      NEW s \in Of(u, p), updates[s] > 0,
                      \A r \in Of(u, p) : r \notin skipped \cup PracticeSubs,
                      \A h \in Running : handler[h].sub \notin Of(u, p)
               PROVE  credits[u][p] >= 1
    BY DEF FirstSolveCounts
  <2>1. Complete(u, p) /\ Credited(u, p)
    BY DEF FirstInv, Complete
  <2>2. Ended(s)
    <3>1. updates[s] \in Nat
      BY DEF FirstInv, Typed, TypeOK, Of
    <3> QED BY <3>1 DEF Ended
  <2> QED BY <2>1, <2>2 DEF Credited
<1> QED BY <1>1, <1>2, <1>3, PTL DEF Spec

(* --------------------- No update loses another's ----------------------- *)

\* A user who has not registered has no score.
Unscored == \A u \in Users : ~entry[u].present => entry[u].points = 0 /\ entry[u].solved = 0

\* What an update is about to add to is what the entry still holds.
UpToDate(h) ==
    LET u == UserOf[handler[h].sub] IN
    handler[h].pc \in {"existing", "upsert"} =>
        handler[h].entry.points = entry[u].points /\ handler[h].entry.solved = entry[u].solved

Worth(u) == [p \in Problems |-> credits[u][p] * Points[p]]

\* A user's entry holds what was credited.
Exact(u) ==
    /\ entry[u].solved = SumFunctionOnSet(credits[u], Problems)
    /\ entry[u].points = SumFunctionOnSet(Worth(u), Problems)

ExactInv ==
    /\ Typed /\ Unscored
    /\ ~overlapped => /\ \A g, h \in Running : g = h
                      /\ \A h \in Running : UpToDate(h)
                      /\ \A u \in Users : Exact(u)

SameScores == credits' = credits /\ \A u \in Users : entry'[u].points = entry[u].points /\ entry'[u].solved = entry[u].solved

\* Only the upsert changes what a user has; registering and the stamp do not.
LEMMA OnlyUpsertScores ==
    ASSUME Typed, Unscored, [Next]_vars, \A h \in Handlers : ~Upsert(h)
    PROVE  SameScores /\ Unscored'
<1>0. entry \in [Users -> Entry_]
  BY DEF Typed, TypeOK
<1>1. ASSUME NEW v \in Users, Register(v) PROVE SameScores /\ Unscored'
  <2>1. credits' = credits /\ ~entry[v].present /\ entry' = [entry EXCEPT ![v] = [NoEntry EXCEPT !.present = TRUE]]
    BY <1>1 DEF Register, history
  <2>2. entry'[v].points = 0 /\ entry'[v].solved = 0 /\ \A u \in Users : u # v => entry'[u] = entry[u]
    BY <1>0, <2>1 DEF NoEntry
  <2>3. entry[v].points = 0 /\ entry[v].solved = 0
    BY <2>1 DEF Unscored
  <2> QED BY <2>1, <2>2, <2>3 DEF SameScores, Unscored
<1>2. ASSUME NEW f \in FreezeRuns, FreezeStamp(f) PROVE SameScores /\ Unscored'
  <2>1. credits' = credits
        /\ entry' = [u \in Users |-> IF entry[u].present THEN [entry[u] EXCEPT !.frozen = TRUE] ELSE entry[u]]
    BY <1>2 DEF FreezeStamp, history
  <2>2. \A u \in Users : entry'[u].points = entry[u].points /\ entry'[u].solved = entry[u].solved
                         /\ entry'[u].present = entry[u].present
    BY <1>0, <2>1 DEF Entry_
  <2> QED BY <2>1, <2>2 DEF SameScores, Unscored
<1>3. CASE UNCHANGED <<entry, credits>>
  BY <1>3 DEF SameScores, Unscored
<1> QED
  BY <1>1, <1>2, <1>3
  DEF Next, Tick, Submit, WriteVerdict, Promote, Distrust, Update, ReadSubmission, ReadContest, ReadEntry,
      QueryExisting, Freeze, FreezeRead, FreezeSnapshot, CrashBackend, vars, history

\* An update that reads the entry, or carries on with what it read, is up to date.
LEMMA StaysUpToDate ==
    ASSUME Typed, [Next]_vars, \A h \in Handlers : ~Upsert(h), SameScores, \A h \in Running : UpToDate(h)
    PROVE  \A h \in Running' : UpToDate(h)'
<1>0. handler \in [Handlers -> Handler_] /\ UserOf \in [Subs -> Users]
  BY ContestAssumption DEF Typed, TypeOK, ContestAssumption
<1> SUFFICES ASSUME NEW h \in Handlers, handler'[h] # Idle PROVE UpToDate(h)'
  BY DEF Running
<1>1. CASE handler'[h] = handler[h]
  <2>1. UpToDate(h) /\ handler[h].sub \in Subs
    BY <1>0, <1>1, HandlerFields DEF Running
  <2> QED BY <1>0, <1>1, <2>1 DEF UpToDate, SameScores
<1>2. CASE handler'[h].pc \notin {"existing", "upsert"}
  BY <1>2 DEF UpToDate
<1>3. CASE ReadEntry(h) /\ handler[h].accepted
  <2>1. PICK s \in Subs : s = handler[h].sub
    BY <1>0, <1>3, HandlerFields DEF ReadEntry
  <2>2. handler'[h] = [pc |-> "existing", sub |-> s, entry |-> entry[UserOf[s]]]
    BY <1>0, <1>3, <2>1 DEF ReadEntry
  <2> QED BY <1>0, <2>1, <2>2 DEF UpToDate, SameScores
<1>4. CASE QueryExisting(h)
  <2>1. handler[h].pc = "existing" /\ handler[h] # Idle
    BY <1>4 DEF QueryExisting, Idle
  <2>2. PICK s \in Subs : s = handler[h].sub
    BY <1>0, <2>1, HandlerFields
  <2>3. handler'[h] = [pc |-> "upsert", sub |-> s, entry |-> handler[h].entry, first |-> ~ExistingAccepted(s)]
    BY <1>0, <1>4, <2>2 DEF QueryExisting
  <2>4. UpToDate(h)
    BY <2>1 DEF Running
  <2> QED BY <1>0, <2>1, <2>2, <2>3, <2>4 DEF UpToDate, SameScores
<1>5. ASSUME NEW g \in Handlers, Update(g) PROVE UpToDate(h)'
  <2>1. CASE g # h
    <3>1. handler'[h] = handler[h]
      BY <1>0, <1>5, <2>1 DEF Update, ReadSubmission, ReadContest, ReadEntry, QueryExisting, Upsert, Return
    <3> QED BY <1>1, <3>1
  <2>2. CASE g = h
    <3>1. CASE ReadSubmission(h)
      BY <1>0, <1>2, <3>1 DEF ReadSubmission
    <3>2. CASE ReadContest(h)
      BY <1>0, <1>2, <3>2 DEF ReadContest, Return, Idle
    <3>3. CASE ReadEntry(h) /\ ~handler[h].accepted
      BY <1>0, <1>2, <3>3 DEF ReadEntry, Return, Idle
    <3> QED BY <1>3, <1>4, <1>5, <2>2, <3>1, <3>2, <3>3 DEF Update
  <2> QED BY <2>1, <2>2
<1>6. ASSUME NEW s \in Subs, WriteVerdict(s) PROVE UpToDate(h)'
  <2>1. handler'[h] = handler[h] \/ handler'[h] = [pc |-> "submission", sub |-> s]
    BY <1>0, <1>6 DEF WriteVerdict
  <2> QED BY <1>1, <1>2, <2>1
<1>7. CASE CrashBackend
  BY <1>7 DEF CrashBackend
<1>8. CASE handler' = handler
  BY <1>1, <1>8
<1> QED
  BY <1>5, <1>6, <1>7, <1>8
  DEF Next, Tick, Register, Submit, Promote, Distrust, Freeze, FreezeRead, FreezeSnapshot, FreezeStamp, vars

\* One more credit is worth the problem's points.
LEMMA CreditAdds ==
    ASSUME Typed, NEW u \in Users, NEW p \in Problems,
           credits' = [credits EXCEPT ![u][p] = credits[u][p] + 1]
    PROVE  /\ SumFunctionOnSet(credits[u], Problems)' = SumFunctionOnSet(credits[u], Problems) + 1
           /\ SumFunctionOnSet(Worth(u), Problems)' = SumFunctionOnSet(Worth(u), Problems) + Points[p]
           /\ \A v \in Users : v # u => credits'[v] = credits[v]
<1>0. credits \in [Users -> [Problems -> Nat]] /\ Points \in [Problems -> Nat] /\ IsFiniteSet(Problems)
  BY ContestAssumption DEF Typed, TypeOK, ContestAssumption
<1>1. PICK c \in [Problems -> Nat] : c = credits[u]
  BY <1>0
<1>2. PICK d \in [Problems -> Nat] : d = [c EXCEPT ![p] = c[p] + 1]
  <2>1. c[p] + 1 \in Nat
    OBVIOUS
  <2>2. [c EXCEPT ![p] = c[p] + 1] \in [Problems -> Nat]
    BY <2>1
  <2> QED BY <2>2
<1>3. credits'[u] = d /\ \A v \in Users : v # u => credits'[v] = credits[v]
  BY <1>0, <1>1, <1>2
<1>4. d[p] = c[p] + 1 /\ \A q \in Problems \ {p} : d[q] = c[q]
  BY <1>2
<1>5. SumFunctionOnSet(d, Problems) = SumFunctionOnSet(c, Problems) + (d[p] - c[p])
  BY <1>0, <1>4, SumChanged
<1>6. SumFunctionOnSet(c, Problems) \in Int
  BY <1>0, SumIsInt
<1>a. PICK f \in [Problems -> Int] : f = [q \in Problems |-> c[q] * Points[q]]
  <2>1. \A q \in Problems : c[q] * Points[q] \in Int
    BY <1>0
  <2> QED BY <2>1
<1>b. PICK g \in [Problems -> Int] : g = [q \in Problems |-> d[q] * Points[q]]
  <2>1. \A q \in Problems : d[q] * Points[q] \in Int
    BY <1>0
  <2> QED BY <2>1
<1>8. g[p] - f[p] = Points[p] /\ \A q \in Problems \ {p} : f[q] = g[q]
  <2>1. (c[p] + 1) * Points[p] - c[p] * Points[p] = Points[p]
    BY <1>0
  <2> QED BY <1>4, <1>a, <1>b, <2>1
<1>9. Worth(u) = f /\ Worth(u)' = g
  BY <1>1, <1>3, <1>a, <1>b DEF Worth
<1>10. SumFunctionOnSet(g, Problems) = SumFunctionOnSet(f, Problems) + (g[p] - f[p])
  <2>1. \A q \in Problems \ {p} : f[q] = g[q]
    BY <1>8
  <2> QED BY <1>0, <2>1, SumChanged
<1> QED BY <1>1, <1>3, <1>4, <1>5, <1>6, <1>8, <1>9, <1>10

LEMMA UpsertExact ==
    ASSUME ExactInv, NEW h \in Handlers, Upsert(h)
    PROVE  /\ Unscored'
           /\ ~overlapped => (\A u \in Users : Exact(u)') /\ Running' = {}
<1>0. /\ handler \in [Handlers -> Handler_] /\ entry \in [Users -> Entry_] /\ credits \in [Users -> [Problems -> Nat]]
      /\ UserOf \in [Subs -> Users] /\ ProblemOf \in [Subs -> Problems] /\ Typed
  BY ContestAssumption DEF ExactInv, Typed, TypeOK, ContestAssumption
<1>1. handler[h].pc = "upsert" /\ h \in Running /\ handler'[h] = Idle /\ \A g \in Handlers : g # h => handler'[g] = handler[g]
  BY <1>0 DEF Upsert, Return, Running, Idle
<1>2. PICK s \in Subs : s = handler[h].sub
  BY <1>0, <1>1, HandlerFields DEF Running
<1>3. PICK u \in Users, p \in Problems : u = UserOf[s] /\ p = ProblemOf[s]
  BY <1>0
<1>4. ~overlapped => Running' = {}
  BY <1>1 DEF ExactInv, Running
<1>5. CASE handler[h].entry.frozen
  <2>1. UNCHANGED <<entry, credits>>
    BY <1>5 DEF Upsert
  <2> QED BY <1>4, <2>1 DEF ExactInv, Unscored, Exact, Worth
<1>6. CASE ~handler[h].entry.frozen
  <2> DEFINE new == Scored(handler[h].entry, s, handler[h].first)
  <2>1. /\ entry' = [entry EXCEPT ![u] = [present |-> TRUE, points |-> new.points, solved |-> new.solved, frozen |-> @.frozen]]
        /\ credits' = IF handler[h].first THEN [credits EXCEPT ![u][p] = credits[u][p] + 1] ELSE credits
    BY <1>0, <1>2, <1>3, <1>6 DEF Upsert
  <2>2. /\ entry'[u].present /\ entry'[u].points = new.points /\ entry'[u].solved = new.solved
        /\ \A v \in Users : v # u => entry'[v] = entry[v]
    <3> HIDE DEF new
    <3> QED BY <1>0, <2>1
  <2>3. Unscored'
    BY <2>2 DEF ExactInv, Unscored
  <2>4. ASSUME ~overlapped PROVE \A v \in Users : Exact(v)'
    <3>1. handler[h].entry.points = entry[u].points /\ handler[h].entry.solved = entry[u].solved /\ \A v \in Users : Exact(v)
      BY <1>1, <1>2, <1>3, <2>4 DEF ExactInv, UpToDate
    <3>2. CASE handler[h].first
      <4>1. new.points = entry[u].points + Points[p] /\ new.solved = entry[u].solved + 1
        BY <1>3, <3>1, <3>2 DEF Scored
      <4>2. credits' = [credits EXCEPT ![u][p] = credits[u][p] + 1]
        BY <2>1, <3>2
      <4>3. /\ SumFunctionOnSet(credits[u], Problems)' = SumFunctionOnSet(credits[u], Problems) + 1
            /\ SumFunctionOnSet(Worth(u), Problems)' = SumFunctionOnSet(Worth(u), Problems) + Points[p]
            /\ \A v \in Users : v # u => credits'[v] = credits[v]
        BY <1>0, <4>2, CreditAdds
      <4>4. Exact(u)'
        BY <2>2, <3>1, <4>1, <4>3 DEF Exact
      <4>5. \A v \in Users : v # u => Exact(v)'
        BY <2>2, <3>1, <4>3 DEF Exact, Worth
      <4> QED BY <4>4, <4>5
    <3>3. CASE ~handler[h].first
      <4>1. new.points = entry[u].points /\ new.solved = entry[u].solved /\ credits' = credits
        BY <2>1, <3>1, <3>3 DEF Scored
      <4> HIDE DEF new
      <4> QED BY <2>2, <3>1, <4>1 DEF Exact, Worth
    <3> QED BY <3>2, <3>3
  <2> QED BY <1>4, <2>3, <2>4
<1> QED BY <1>5, <1>6

LEMMA NextExact == ExactInv /\ [Next]_vars => ExactInv'
<1> SUFFICES ASSUME ExactInv, [Next]_vars PROVE ExactInv'
  OBVIOUS
<1>1. Typed' /\ Typed /\ Unscored
  BY NextTyped DEF ExactInv
<1>2. ~overlapped' => ~overlapped /\ \A g, h \in Running' : g = h
  BY NextAlone DEF ExactInv
<1>3. CASE \A h \in Handlers : ~Upsert(h)
  <2>1. SameScores /\ Unscored'
    BY <1>1, <1>3, OnlyUpsertScores
  <2>2. ASSUME ~overlapped' PROVE \A h \in Running' : UpToDate(h)'
    BY <1>1, <1>2, <1>3, <2>1, <2>2, StaysUpToDate DEF ExactInv
  <2>3. ASSUME ~overlapped' PROVE \A u \in Users : Exact(u)'
    BY <1>2, <2>1, <2>3 DEF ExactInv, Exact, Worth, SameScores
  <2> QED BY <1>1, <1>2, <2>1, <2>2, <2>3 DEF ExactInv
<1>4. CASE \E h \in Handlers : Upsert(h)
  <2>1. Unscored' /\ (~overlapped => (\A u \in Users : Exact(u)') /\ Running' = {})
    BY <1>4, UpsertExact
  <2> QED BY <1>1, <1>2, <2>1 DEF ExactInv
<1> QED BY <1>3, <1>4

\* While no two updates ran at once, an entry holds exactly what was credited and no solved
\* problem is without its credit, for any contest, points, verdicts, freezes and restarts:
\* an update adds to what it read, and nobody else has written the entry since.
THEOREM CreditsCompleteAlways == Spec => []CreditsComplete
<1>1. Init => ExactInv
  <2> SUFFICES ASSUME Init PROVE ExactInv
    OBVIOUS
  <2>1. Running = {} /\ Unscored
    BY DEF Init, Running, Unscored, NoEntry
  <2>2. ASSUME NEW u \in Users PROVE Exact(u)
    <3>1. IsFiniteSet(Problems) /\ Points \in [Problems -> Nat]
      BY ContestAssumption DEF ContestAssumption
    <3>2. \A p \in Problems : credits[u][p] = 0 /\ Worth(u)[p] = 0
      BY <3>1 DEF Init, Worth
    <3>3. SumFunctionOnSet(credits[u], Problems) = 0 * Cardinality(Problems)
      BY <3>1, <3>2, SumConstant
    <3>4. SumFunctionOnSet(Worth(u), Problems) = 0 * Cardinality(Problems)
      BY <3>1, <3>2, SumConstant
    <3>5. 0 * Cardinality(Problems) = 0
      BY <3>1, FS_CardinalityType
    <3> QED BY <3>3, <3>4, <3>5 DEF Init, Exact, NoEntry
  <2> QED BY <2>1, <2>2, InitTyped DEF ExactInv
<1>2. ExactInv => NoLostUpdate
  <2> SUFFICES ASSUME ExactInv, ~overlapped, NEW u \in Users
               PROVE  /\ entry[u].solved = SumFunction(credits[u])
                      /\ entry[u].points = SumFunction([p \in Problems |-> credits[u][p] * Points[p]])
    BY DEF NoLostUpdate
  <2>1. DOMAIN credits[u] = Problems
    BY DEF ExactInv, Typed, TypeOK
  <2>2. SumFunction(credits[u]) = SumFunctionOnSet(credits[u], Problems)
    BY <2>1 DEF SumFunction
  <2>3. SumFunction(Worth(u)) = SumFunctionOnSet(Worth(u), Problems)
    BY DEF SumFunction, Worth
  <2> QED BY <2>2, <2>3 DEF ExactInv, Exact, Worth
<1> QED BY <1>1, <1>2, NextExact, FirstSolvesCount, PTL DEF Spec, CreditsComplete

=============================================================================
