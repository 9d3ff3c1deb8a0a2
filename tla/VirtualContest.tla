---------------------------- MODULE VirtualContest ----------------------------
(***************************************************************************)
(* One user's virtual run of a practice contest.  A page asks the backend  *)
(* to start or resume a timed session and keeps the answer in the storage  *)
(* of its browser; the handler finds, deletes and creates the row in       *)
(* statements of their own.  The solutions to one problem are sent with    *)
(* the session's id, or from the contest's ordinary page without one, and  *)
(* are checked against its deadline and the cooldown before they are       *)
(* stored.  Times are kept as what is left or has passed, from the moment  *)
(* the program took its own time stamp.                                    *)
(***************************************************************************)
EXTENDS Integers, Sequences, FiniteSets

CONSTANTS
    Windows,            \* the user's browsers, each with storage of its own
    Starts, Posts,      \* slots for running handlers
    Duration,           \* VIRTUAL_DURATION_MS
    Cooldown,           \* the ten seconds between submissions
    MaxHandling,        \* BOUND: how long a handler runs
    MaxStarts, MaxPosts \* BOUND: sessions that may be started, solutions that may be sent

ASSUME VirtualAssumption ==
    {Duration, Cooldown, MaxHandling, MaxStarts, MaxPosts} \subseteq Nat

VARIABLES
    virtualRow,     \* the row of VirtualContestSession
    nextId,
    storage,        \* virtual_session_<contest> of each browser
    window,         \* the virtual page open in each browser
    starts,         \* running startVirtualContest
    posts,          \* running submitContestProblemSolution
    solutions,      \* the submissions stored, in their order
    sent,           \* solutions sent so far
    crossed         \* history: whether two starts ran at once

virtualRows == <<virtualRow, nextId>>
pages == <<storage, window>>
postVars == <<posts, solutions, sent>>
virtualVars == <<virtualRows, pages, starts, crossed, postVars>>

Past == -MaxHandling - 1        \* times before this one are all alike
NoSession == [id |-> 0, left |-> Past]
Idle == [pc |-> "none"]
Aged(n) == IF n > Past THEN n - 1 ELSE n

-----------------------------------------------------------------------------
(* Starting.                                                               *)

\* The page is opened again: a stored session is shown as started, an answer is not awaited.
ReloadWindow(w) ==
    /\ window' = [window EXCEPT ![w] = IF storage[w].id = 0 THEN "idle" ELSE "started"]
    /\ starts' = [s \in Starts |-> IF starts[s].pc # "none" /\ starts[s].by = w
                                   THEN [starts[s] EXCEPT !.by = "nobody"] ELSE starts[s]]
    /\ UNCHANGED <<virtualRows, storage, crossed, postVars>>

\* handleStart; the button is there until a session is shown.
ClickStart(w, s) ==
    /\ window[w] = "idle" /\ starts[s].pc = "none"
    /\ nextId <= MaxStarts
    /\ window' = [window EXCEPT ![w] = "starting"]
    /\ starts' = [starts EXCEPT ![s] = [pc |-> "find", by |-> w]]
    /\ crossed' = (crossed \/ \E t \in Starts : starts[t].pc # "none")
    /\ UNCHANGED <<virtualRows, storage, postVars>>

\* Mutant: a start replaces any session.
ResumesNever == FALSE

\* The row found has not expired.
Resumes == virtualRow.id # 0 /\ virtualRow.left > 0

\* findUnique, and the answer when the session is resumed.
FindSession(s) ==
    /\ starts[s].pc = "find"
    /\ starts' = [starts EXCEPT ![s] =
                    IF Resumes THEN [pc |-> "answer", by |-> @.by, session |-> virtualRow]
                    ELSE [@ EXCEPT !.pc = IF virtualRow.id = 0 THEN "create" ELSE "delete"]]
    /\ UNCHANGED <<virtualRows, pages, crossed, postVars>>

\* delete by user and contest: whatever row is there now, an error when there is none.
DropSession(s) ==
    /\ starts[s].pc = "delete"
    /\ virtualRow' = NoSession
    /\ starts' = [starts EXCEPT ![s].pc = IF virtualRow.id = 0 THEN "error" ELSE "create"]
    /\ UNCHANGED <<nextId, pages, crossed, postVars>>

\* create; the unique key refuses a second row.
OpenSession(s) ==
    /\ starts[s].pc = "create"
    /\ IF virtualRow.id # 0
       THEN /\ starts' = [starts EXCEPT ![s].pc = "error"]
            /\ UNCHANGED virtualRows
       ELSE LET new == [id |-> nextId, left |-> Duration] IN
            /\ virtualRow' = new /\ nextId' = nextId + 1
            /\ starts' = [starts EXCEPT ![s] = [pc |-> "answer", by |-> @.by, session |-> new]]
    /\ UNCHANGED <<pages, crossed, postVars>>

\* The page, if it still waits, stores and shows the session, or an error.
AnswerStart(s) ==
    /\ starts[s].pc \in {"answer", "error"}
    /\ LET w == starts[s].by IN
       IF w = "nobody" THEN UNCHANGED pages
       ELSE IF starts[s].pc = "error"
       THEN window' = [window EXCEPT ![w] = "error"] /\ UNCHANGED storage
       ELSE /\ storage' = [storage EXCEPT ![w] = starts[s].session]
            /\ window' = [window EXCEPT ![w] = "started"]
    /\ starts' = [starts EXCEPT ![s] = Idle]
    /\ UNCHANGED <<virtualRows, crossed, postVars>>

-----------------------------------------------------------------------------
(* Submitting, by the registered user.                                     *)

\* A solution is sent with the id a page's links carry, or without one, and given its
\* time stamp.  Without one nothing is ever checked against the session's deadline.
SendSolution(p, id) ==
    /\ posts[p].pc = "none" /\ sent < MaxPosts
    /\ sent' = sent + 1
    /\ posts' = [posts EXCEPT ![p] =
                   [pc |-> "deadline", session |-> id, since |-> 0, beside |-> FALSE]]
    /\ UNCHANGED <<virtualRows, pages, starts, crossed, solutions>>

\* The session named is the user's, and had not expired at the time stamp.
InTime(q) == q.session = virtualRow.id /\ virtualRow.left + q.since >= 0

\* The check of the deadline.
CheckDeadline(p) ==
    /\ posts[p].pc = "deadline"
    /\ posts' = [posts EXCEPT ![p] =
                   IF @.session = 0 \/ InTime(@) THEN [@ EXCEPT !.pc = "cooldown"] ELSE Idle]
    /\ UNCHANGED <<virtualRows, pages, starts, crossed, solutions, sent>>

\* Mutant: only submissions after the time stamp count.
RecentAtOnce(q) == \E i \in DOMAIN solutions : solutions[i].age <= q.since

\* A submission was created less than ten seconds before the time stamp.
Recent(q) == \E i \in DOMAIN solutions : solutions[i].age <= q.since + Cooldown

\* The check of the cooldown.
CheckCooldown(p) ==
    /\ posts[p].pc = "cooldown"
    /\ posts' = [posts EXCEPT ![p] = IF Recent(@) THEN Idle ELSE [@ EXCEPT !.pc = "create"]]
    /\ UNCHANGED <<virtualRows, pages, starts, crossed, solutions, sent>>

\* submission.create; handlers past the check do not know of it.
StoreSolution(p) ==
    /\ posts[p].pc = "create"
    /\ solutions' = Append(solutions,
                        [age |-> 0, beside |-> posts[p].beside,
                         close |-> \E i \in DOMAIN solutions : solutions[i].age <= Cooldown])
    /\ posts' = [q \in Posts |-> IF q = p THEN Idle
                                 ELSE IF posts[q].pc = "create" THEN [posts[q] EXCEPT !.beside = TRUE]
                                 ELSE posts[q]]
    /\ UNCHANGED <<virtualRows, pages, starts, crossed, sent>>

\* One unit of time.
TickVirtual ==
    /\ \A p \in Posts : posts[p].pc # "none" => posts[p].since < MaxHandling
    /\ virtualRow' = [virtualRow EXCEPT !.left = Aged(@)]
    /\ storage' = [w \in Windows |-> [storage[w] EXCEPT !.left = Aged(@)]]
    /\ starts' = [s \in Starts |-> IF starts[s].pc = "answer"
                                   THEN [starts[s] EXCEPT !.session.left = Aged(@)] ELSE starts[s]]
    /\ posts' = [p \in Posts |-> IF posts[p].pc = "none" THEN posts[p]
                                 ELSE [posts[p] EXCEPT !.since = @ + 1]]
    /\ solutions' = [i \in DOMAIN solutions |->
                       [solutions[i] EXCEPT !.age = IF @ > Cooldown + MaxHandling THEN @ ELSE @ + 1]]
    /\ UNCHANGED <<nextId, window, crossed, sent>>

VirtualInit ==
    /\ virtualRow = NoSession /\ nextId = 1
    /\ storage = [w \in Windows |-> NoSession]
    /\ window = [w \in Windows |-> "idle"]
    /\ starts = [s \in Starts |-> Idle]
    /\ posts = [p \in Posts |-> Idle]
    /\ solutions = <<>> /\ sent = 0
    /\ crossed = FALSE

UseVirtual ==
    \E w \in Windows :
        \/ ReloadWindow(w)
        \/ \E s \in Starts : ClickStart(w, s)
        \/ \E p \in Posts : SendSolution(p, storage[w].id)

RunStart == \E s \in Starts : FindSession(s) \/ DropSession(s) \/ OpenSession(s) \/ AnswerStart(s)

RunPost ==
    \E p \in Posts : SendSolution(p, 0) \/ CheckDeadline(p) \/ CheckCooldown(p) \/ StoreSolution(p)

VirtualNext == UseVirtual \/ RunStart \/ RunPost \/ TickVirtual

VirtualSpec == VirtualInit /\ [][VirtualNext]_virtualVars

-----------------------------------------------------------------------------
(* Properties.                                                             *)

SessionRecord == [id : Nat, left : Past..Duration]
ByWindow == Windows \union {"nobody"}
StartRecord ==
    {Idle} \union [pc : {"find", "delete", "create", "error"}, by : ByWindow]
           \union [pc : {"answer"}, by : ByWindow, session : SessionRecord]
PostRecord ==
    {Idle} \union [pc : {"deadline", "cooldown", "create"}, session : Nat,
                   since : 0..MaxHandling, beside : BOOLEAN]
Solution == [age : Nat, beside : BOOLEAN, close : BOOLEAN]

\* Every variable of the virtual contest has its type.
VirtualTypeOK ==
    /\ virtualRow \in SessionRecord /\ nextId \in Nat
    /\ storage \in [Windows -> SessionRecord]
    /\ window \in [Windows -> {"idle", "starting", "started", "error"}]
    /\ starts \in [Starts -> StartRecord] /\ posts \in [Posts -> PostRecord]
    /\ solutions \in Seq(Solution)
    /\ sent \in 0..MaxPosts /\ crossed \in BOOLEAN

\* A session a browser counts down stays stored until its time is up, and with it the
\* right to submit, whatever the user's other browsers do; only two starts at once,
\* one of which may delete the row the other has just created, take it away.
SessionKept ==
    \A w \in Windows : storage[w].left > 0 => virtualRow.id = storage[w].id \/ crossed

\* Two submissions are stored within the cooldown only if the later one was past its
\* check when the earlier one was stored.
CooldownHolds == \A i \in DOMAIN solutions : solutions[i].close => solutions[i].beside
=============================================================================
