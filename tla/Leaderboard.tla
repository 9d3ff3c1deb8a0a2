---------------------------- MODULE Leaderboard ----------------------------
(***************************************************************************)
(* The leaderboard of one contest: registration, the entry each accepted   *)
(* verdict changes (handleLeaderboardUpdate), the freeze job that copies   *)
(* the entries to the snapshot and stamps them, and what the public sees.  *)
(*                                                                         *)
(* The verdicts come from the abstract specification Judging, which        *)
(* JudgePipeline implements: the handler that writes an accepted verdict   *)
(* of a contest row goes on with handleLeaderboardUpdate.  Every step      *)
(* between two database calls of the update, and of the freeze, is an      *)
(* action, so updates of several workers and the freeze job interleave.    *)
(*                                                                         *)
(* Reading the entries and publishing them after the upsert changes        *)
(* neither rows nor entries and is left out.  An entry's penaltyMins and   *)
(* lastSolvedAt are computed from the same read and written by the same    *)
(* upsert as its points and are left out.                                  *)
(***************************************************************************)
EXTENDS Integers, FiniteSets, FiniteSetsExt, JudgeTypes

CONSTANTS
    Users, Problems,
    UserOf, ProblemOf,  \* who made a submission, and for which problem
    Points,             \* ContestProblem.points
    FreezeAt, EndAt,    \* freezeTime (beyond EndAt: none) and endTime
    Handlers,           \* BOUND: leaderboard updates running at the same time
    FreezeRuns,         \* BOUND: deliveries of the freeze job
    MaxUpdates,         \* BOUND: updates started for one submission
    MaxDistrust,        \* BOUND: rows judging makes no promise for any more
    MaxCrashes          \* BOUND: backend restarts

ASSUME ContestAssumption ==
    /\ IsFiniteSet(Problems)
    /\ UserOf \in [Subs -> Users] /\ ProblemOf \in [Subs -> Problems]
    /\ Points \in [Problems -> Nat]
    /\ FreezeAt \in Nat /\ EndAt \in Nat
    /\ MaxUpdates \in Nat /\ MaxDistrust \in Nat /\ MaxCrashes \in Nat

VARIABLES
    status, judgePhase, trusted,    \* the rows, as Judging has them
    clock,          \* time since the contest started
    entry,          \* LeaderboardEntry of each user
    snapshot,       \* LeaderboardSnapshot of each user
    handler,        \* running calls of handleLeaderboardUpdate
    freeze,         \* running calls of handleFreezeContest
    crashes,        \* backend restarts so far
    updates,        \* history: how many updates were started for a row
    skipped,        \* history: rows an update of which ended without a write
    overlapped,     \* history: two updates have run at the same time
    credits         \* history: how often a user's problem was credited

judging == <<status, judgePhase, trusted>>
history == <<updates, skipped, overlapped, credits>>
vars == <<judging, clock, entry, snapshot, handler, freeze, crashes, history>>

J == INSTANCE Judging

NoEntry == [present |-> FALSE, points |-> 0, solved |-> 0, frozen |-> FALSE]
NoScore == [present |-> FALSE, points |-> 0, solved |-> 0]
Idle == [pc |-> "idle"]

Running == {h \in Handlers : handler[h] # Idle}

-----------------------------------------------------------------------------
(* Time, registration and the verdicts.                                    *)

Tick ==
    /\ clock <= EndAt
    /\ clock' = clock + 1
    /\ UNCHANGED <<judging, entry, snapshot, handler, freeze, crashes, history>>

\* registerForContest: until the contest has ended, also after the freeze.
Register(u) ==
    /\ clock <= EndAt /\ ~entry[u].present
    /\ entry' = [entry EXCEPT ![u] = [NoEntry EXCEPT !.present = TRUE]]
    /\ UNCHANGED <<judging, clock, snapshot, handler, freeze, crashes, history>>

Submit(s) ==
    /\ J!Submit(s)
    /\ clock <= EndAt /\ entry[UserOf[s]].present
    /\ UNCHANGED <<clock, entry, snapshot, handler, freeze, crashes, history>>

\* The verdict is written; an acceptance starts the leaderboard update.
WriteVerdict(s) ==
    /\ J!Judge(s) \/ J!Unreliable(s)
    /\ IF status'[s] = "ACCEPTED" /\ judgePhase[s] # "PRACTICE"
         THEN /\ updates[s] < MaxUpdates
              /\ \E h \in Handlers \ Running :
                   handler' = [handler EXCEPT ![h] = [pc |-> "submission", sub |-> s]]
              /\ updates' = [updates EXCEPT ![s] = @ + 1]
              /\ overlapped' = (overlapped \/ Running # {})
         ELSE UNCHANGED <<handler, updates, overlapped>>
    /\ UNCHANGED <<clock, entry, snapshot, freeze, crashes, skipped, credits>>

\* The phase transition runs after the end; it leaves the leaderboard as it is.
Promote(s) ==
    /\ clock >= EndAt /\ J!Promote(s)
    /\ UNCHANGED <<clock, entry, snapshot, handler, freeze, crashes, history>>

Distrust(s) ==
    /\ Cardinality(Subs \ trusted) < MaxDistrust
    /\ s \in trusted /\ trusted' = trusted \ {s}
    /\ UNCHANGED <<status, judgePhase, clock, entry, snapshot, handler, freeze,
                   crashes, history>>

-----------------------------------------------------------------------------
(* handleLeaderboardUpdate.                                                *)

Return(h) ==
    /\ handler' = [handler EXCEPT ![h] = Idle]
    /\ skipped' = skipped \cup {handler[h].sub}

ReadSubmission(h) ==
    /\ handler[h].pc = "submission"
    /\ handler' = [handler EXCEPT ![h] =
          [pc |-> "contest", sub |-> @.sub, accepted |-> status[@.sub] = "ACCEPTED"]]
    /\ UNCHANGED <<judging, clock, entry, snapshot, freeze, crashes, history>>

InFreezeWindow == FreezeAt <= clock /\ clock <= EndAt

ReadContest(h) ==
    /\ handler[h].pc = "contest"
    /\ IF InFreezeWindow
         THEN Return(h)
         ELSE /\ handler' = [handler EXCEPT ![h] =
                    [pc |-> "entry", sub |-> @.sub, accepted |-> @.accepted]]
              /\ UNCHANGED skipped
    /\ UNCHANGED <<judging, clock, entry, snapshot, freeze, crashes,
                   updates, overlapped, credits>>

\* The entry is read once; all that is written is computed from this read.
ReadEntry(h) ==
    /\ handler[h].pc = "entry"
    /\ IF handler[h].accepted
         THEN /\ handler' = [handler EXCEPT ![h] =
                    [pc |-> "existing", sub |-> @.sub, entry |-> entry[UserOf[@.sub]]]]
              /\ UNCHANGED skipped
         ELSE Return(h)
    /\ UNCHANGED <<judging, clock, entry, snapshot, freeze, crashes,
                   updates, overlapped, credits>>

\* Mutants: the query never finds one; it finds the submission itself.
ExistingAcceptedNever(s) == FALSE
ExistingAcceptedOrSelf(s) ==
    \E r \in Subs :
        UserOf[r] = UserOf[s] /\ ProblemOf[r] = ProblemOf[s] /\ status[r] = "ACCEPTED"

\* Another accepted submission of the user for the same problem.
ExistingAccepted(s) ==
    \E r \in Subs \ {s} :
        UserOf[r] = UserOf[s] /\ ProblemOf[r] = ProblemOf[s] /\ status[r] = "ACCEPTED"

QueryExisting(h) ==
    /\ handler[h].pc = "existing"
    /\ handler' = [handler EXCEPT ![h] =
          [pc |-> "upsert", sub |-> @.sub, entry |-> @.entry,
           first |-> ~ExistingAccepted(@.sub)]]
    /\ UNCHANGED <<judging, clock, entry, snapshot, freeze, crashes, history>>

\* Mutant: points are added for a repeated acceptance as well.
ScoredAlways(e, s, first) ==
    [present |-> TRUE, points |-> e.points + Points[ProblemOf[s]],
     solved |-> IF first THEN e.solved + 1 ELSE e.solved]

\* The score an accepted submission s makes of the entry e that was read.
Scored(e, s, first) ==
    [present |-> TRUE,
     points |-> IF first THEN e.points + Points[ProblemOf[s]] ELSE e.points,
     solved |-> IF first THEN e.solved + 1 ELSE e.solved]

\* The flag looked at is the one read with the entry; the stored one is kept.
Upsert(h) ==
    /\ handler[h].pc = "upsert"
    /\ LET s == handler[h].sub
           u == UserOf[s]
           new == Scored(handler[h].entry, s, handler[h].first)
       IN  IF handler[h].entry.frozen
             THEN Return(h) /\ UNCHANGED <<entry, credits>>
             ELSE /\ entry' = [entry EXCEPT ![u] =
                        [present |-> TRUE, points |-> new.points,
                         solved |-> new.solved, frozen |-> @.frozen]]
                  /\ credits' = IF handler[h].first
                                  THEN [credits EXCEPT ![u][ProblemOf[s]] = @ + 1]
                                  ELSE credits
                  /\ handler' = [handler EXCEPT ![h] = Idle]
                  /\ UNCHANGED skipped
    /\ UNCHANGED <<judging, clock, snapshot, freeze, crashes,
                   updates, overlapped>>

Update(h) ==
    \/ ReadSubmission(h) \/ ReadContest(h) \/ ReadEntry(h) \/ QueryExisting(h) \/ Upsert(h)

-----------------------------------------------------------------------------
(* handleFreezeContest.                                                    *)

Score(e) == [present |-> e.present, points |-> e.points, solved |-> e.solved]

FreezeRead(f) ==
    /\ freeze[f].pc = "idle" /\ clock >= FreezeAt
    /\ freeze' = [freeze EXCEPT ![f] =
          [pc |-> "snapshot", scores |-> [u \in Users |-> Score(entry[u])]]]
    /\ UNCHANGED <<judging, clock, entry, snapshot, handler, crashes, history>>

\* Mutants: an upsert in the place of skipDuplicates; a row for every user.
SnapshotRowOverwritten(old, new) == IF new.present THEN new ELSE old
SnapshotRowForAll(old, new) == [new EXCEPT !.present = TRUE]

\* createMany with skipDuplicates: a row that exists is kept.
SnapshotRow(old, new) == IF old.present THEN old ELSE new

FreezeSnapshot(f) ==
    /\ freeze[f].pc = "snapshot"
    /\ snapshot' = [u \in Users |-> SnapshotRow(snapshot[u], freeze[f].scores[u])]
    /\ freeze' = [freeze EXCEPT ![f] = [pc |-> "stamp"]]
    /\ UNCHANGED <<judging, clock, entry, handler, crashes, history>>

FreezeStamp(f) ==
    /\ freeze[f].pc = "stamp"
    /\ entry' = [u \in Users |->
                   IF entry[u].present THEN [entry[u] EXCEPT !.frozen = TRUE] ELSE entry[u]]
    /\ freeze' = [freeze EXCEPT ![f] = [pc |-> "done"]]
    /\ UNCHANGED <<judging, clock, snapshot, handler, crashes, history>>

\* The backend restarts: the updates and freezes it was running are gone; the
\* workers report those verdicts again.
CrashBackend ==
    /\ crashes < MaxCrashes /\ crashes' = crashes + 1
    /\ handler' = [h \in Handlers |-> Idle]
    /\ freeze' = [f \in FreezeRuns |->
          IF freeze[f].pc \in {"snapshot", "stamp"} THEN [pc |-> "done"] ELSE freeze[f]]
    /\ skipped' = skipped \cup {handler[h].sub : h \in Running}
    /\ trusted' = trusted \ {handler[h].sub : h \in Running}
    /\ UNCHANGED <<status, judgePhase, clock, entry, snapshot, updates,
                   overlapped, credits>>

-----------------------------------------------------------------------------
Init ==
    /\ J!Init
    /\ clock = 0 /\ crashes = 0
    /\ entry = [u \in Users |-> NoEntry]
    /\ snapshot = [u \in Users |-> NoScore]
    /\ handler = [h \in Handlers |-> Idle]
    /\ freeze = [f \in FreezeRuns |-> [pc |-> "idle"]]
    /\ updates = [s \in Subs |-> 0] /\ skipped = {} /\ overlapped = FALSE
    /\ credits = [u \in Users |-> [p \in Problems |-> 0]]

Freeze(f) == FreezeRead(f) \/ FreezeSnapshot(f) \/ FreezeStamp(f)

Next ==
    \/ Tick
    \/ \E u \in Users : Register(u)
    \/ \E s \in Subs : Submit(s) \/ WriteVerdict(s) \/ Promote(s) \/ Distrust(s)
    \/ \E h \in Handlers : Update(h)
    \/ \E f \in FreezeRuns : Freeze(f)
    \/ CrashBackend

Spec == Init /\ [][Next]_vars

-----------------------------------------------------------------------------
(* Properties.                                                             *)

Entry_ == [present : BOOLEAN, points : Nat, solved : Nat, frozen : BOOLEAN]
Score_ == [present : BOOLEAN, points : Nat, solved : Nat]
Handler_ ==
    {Idle} \cup [pc : {"submission"}, sub : Subs]
           \cup [pc : {"contest", "entry"}, sub : Subs, accepted : BOOLEAN]
           \cup [pc : {"existing"}, sub : Subs, entry : Entry_]
           \cup [pc : {"upsert"}, sub : Subs, entry : Entry_, first : BOOLEAN]
Freeze_ == [pc : {"idle", "stamp", "done"}]
           \cup [pc : {"snapshot"}, scores : [Users -> Score_]]

\* Every variable has its type, and a user with a snapshot has an entry.
TypeOK ==
    /\ status \in [Subs -> Verdicts \cup {"ABSENT", "QUEUED"}]
    /\ judgePhase \in [Subs -> Phases \cup {"NONE"}]
    /\ trusted \subseteq Subs
    /\ clock \in Nat /\ crashes \in Nat
    /\ entry \in [Users -> Entry_]
    /\ snapshot \in [Users -> Score_]
    /\ \A u \in Users : snapshot[u].present => entry[u].present
    /\ handler \in [Handlers -> Handler_]
    /\ freeze \in [FreezeRuns -> Freeze_]
    /\ updates \in [Subs -> Nat]
    /\ skipped \subseteq Subs
    /\ overlapped \in BOOLEAN
    /\ credits \in [Users -> [Problems -> Nat]]

Of(u, p) == {s \in Subs : UserOf[s] = u /\ ProblemOf[s] = p}

\* "A user should earn points once per contest problem" (contest.ts:1123), as
\* far as it goes: while no acceptance of the problem was withdrawn and reported
\* again, the problem is credited at most once, however many updates interleave.
\* The verdict is in the database before its update looks for another one.
CreditedAtMostOnce ==
    \A u \in Users, p \in Problems :
        (\A s \in Of(u, p) : updates[s] <= 1 /\ (updates[s] = 1 => status[s] = "ACCEPTED"))
          => credits[u][p] <= 1

\* Updates that never overlapped lose nothing of each other: an entry holds
\* exactly what was credited.
NoLostUpdate ==
    ~overlapped => \A u \in Users :
        /\ entry[u].solved = SumFunction(credits[u])
        /\ entry[u].points = SumFunction([p \in Problems |-> credits[u][p] * Points[p]])

\* A problem whose acceptances were announced one at a time, and none of them skipped
\* for the freeze, a withdrawal or a restart, is credited, also when they are withdrawn
\* later.  Submissions of the time a contest was a practice contest stand in the way:
\* they count as accepted and credit nothing.
FirstSolveCounts ==
    ~overlapped => \A u \in Users, p \in Problems :
        (/\ \E s \in Of(u, p) : updates[s] > 0
         /\ \A s \in Of(u, p) : s \notin skipped \cup PracticeSubs
         /\ \A h \in Running : handler[h].sub \notin Of(u, p))
          => credits[u][p] >= 1

\* No credit is missing: neither from an entry nor for a solved problem.
CreditsComplete == NoLostUpdate /\ FirstSolveCounts

\* The snapshot rows are immutable (schema.prisma:302), through repeated
\* deliveries of the freeze job and whatever the entries become.
SnapshotImmutable ==
    [][\A u \in Users : snapshot[u].present => snapshot'[u] = snapshot[u]]_vars

-----------------------------------------------------------------------------
(* What the comments say and the code does not do.                         *)

\* "Only the first accepted submission for this problem should change the
\* leaderboard." (contest.ts:1136)
CreditOnce == \A u \in Users, p \in Problems : credits[u][p] <= 1

\* "Re-check: if entry was frozen by background job between our initial check
\* and now, skip" (contest.ts:1156): a stamped entry is not written any more.
FrozenEntriesKept ==
    [][\A u \in Users : entry[u].frozen => entry'[u].points = entry[u].points]_vars

=============================================================================
