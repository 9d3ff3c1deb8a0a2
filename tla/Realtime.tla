-------------------------------- MODULE Realtime --------------------------------
(***************************************************************************)
(* Live standings: a leaderboard update of the backend changes the         *)
(* standings, reads them back and publishes them on a Redis channel; the   *)
(* SSE server forwards what it receives to the streams of the contest's    *)
(* pages; a page shows what its stream or its own requests bring, and      *)
(* after errors reconnects or falls back to polling.  Registrations change *)
(* the standings too and publish nothing, and from its freeze time on a    *)
(* contest's snapshot is what the requests of contestants bring.           *)
(*                                                                         *)
(* The standings of a contest are the number of changes made to them, and  *)
(* 0 is the empty list.  The contests are no practice contests and keep    *)
(* their times.  What the Redis client does by itself is external: it can  *)
(* connect once, and reconnects when the server is there again.            *)
(***************************************************************************)
EXTENDS Integers, Sequences, FiniteSets, SequencesExt

CONSTANTS
    LiveContests, Pages,
    FreezingContests,   \* contests with a freezeTime
    PageContest,        \* the contest each page shows
    AdminPages,         \* pages an administrator has open
    Publishers,         \* slots for running leaderboard updates
    BootAttempts,       \* MAX_RETRIES of the subscriptions
    ReconnectLimit,     \* maxReconnectAttempts of a page
    MaxChanges,         \* BOUND: changes of the standings
    MaxStreams,         \* BOUND: connections of pages
    MaxLiveFaults       \* BOUND: broken connections, Redis outages, server restarts

ASSUME RealtimeAssumption ==
    /\ PageContest \in [Pages -> LiveContests] /\ FreezingContests \subseteq LiveContests
    /\ BootAttempts \in Nat \ {0} /\ ReconnectLimit \in Nat
    /\ {MaxChanges, MaxStreams, MaxLiveFaults} \subseteq Nat

VARIABLES
    phase,              \* where each contest's clock stands
    standing,           \* changes made to each contest's standings
    openRows,           \* how many of their rows are not marked isFrozen
    snapshot,           \* leaderboardSnapshot: the standings the freeze job copied
    credited,           \* history: the standings each contest's last update made
    publishing,         \* running leaderboard updates
    redisUp, redisMain, \* whether Redis is there, and the state of the server's own connection
    boot,               \* startRedisSubscriptionsWithRetry
    subscriptions,      \* subscribers to leaderboard channels
    channel,            \* messages on their way to the server, by subscriber in one order
    sseClients,         \* clients of the server
    contestClients,     \* their ids by contest
    streams,            \* events on their way to pages, by client id
    livePages,          \* state of useContestLeaderboard
    liveFaults,
    disordered          \* history: pages and contests for which something came late or not at all

redisVars == <<redisUp, redisMain, boot, subscriptions, channel>>
tables == <<sseClients, contestClients, streams>>
board == <<phase, standing, openRows, snapshot, credited>>
realtimeVars == <<board, publishing, redisVars, tables, livePages, liveFaults, disordered>>

NoUpdate == [pc |-> "none"]
StreamIds == 1..Len(streams)
ClientIds == {c.id : c \in sseClients}

-----------------------------------------------------------------------------
(* The backend: the contest's clock and rows.                              *)

\* The phases of a contest: its start, its freezeTime if it has one, and its end pass.
NextPhase(c) ==
    IF phase[c] = "before" THEN "running"
    ELSE IF phase[c] = "running" /\ c \in FreezingContests THEN "frozen" ELSE "over"

PassTime(c) ==
    /\ phase[c] # "over"
    /\ phase' = [phase EXCEPT ![c] = NextPhase(c)]
    /\ UNCHANGED <<standing, openRows, snapshot, credited, publishing, redisVars, tables, livePages, liveFaults, disordered>>

\* registerForContest: a new row, of which no message tells.
Register(c) ==
    /\ phase[c] # "over"
    /\ standing[c] < MaxChanges
    /\ standing' = [standing EXCEPT ![c] = @ + 1]
    /\ openRows' = [openRows EXCEPT ![c] = @ + 1]
    /\ UNCHANGED <<phase, snapshot, credited, publishing, redisVars, tables, livePages, liveFaults, disordered>>

\* unregisterFromContest: a row less, and no message either.
Unregister(c) ==
    /\ phase[c] = "before" /\ openRows[c] > 0
    /\ standing[c] < MaxChanges
    /\ standing' = [standing EXCEPT ![c] = @ + 1]
    /\ openRows' = [openRows EXCEPT ![c] = @ - 1]
    /\ UNCHANGED <<phase, snapshot, credited, publishing, redisVars, tables, livePages, liveFaults, disordered>>

\* handleFreezeContest: the rows are copied and marked.  BOUND: a run after one that copied
\* rows, which adds those registered since, is left out.
FreezeBoard(c) ==
    /\ c \in FreezingContests /\ phase[c] \in {"frozen", "over"}
    /\ snapshot[c] = 0
    /\ snapshot' = [snapshot EXCEPT ![c] = standing[c]]
    /\ openRows' = [openRows EXCEPT ![c] = 0]
    /\ UNCHANGED <<phase, standing, credited, publishing, redisVars, tables, livePages, liveFaults, disordered>>

-----------------------------------------------------------------------------
(* The backend: handleLeaderboardUpdate of an accepted submission.         *)

\* Updates past their upsert.
Updating(c) == {b \in Publishers : publishing[b].pc \in {"read", "publish"} /\ publishing[b].contest = c}

\* It returns during the freeze; the row it reads is one the freeze job has not marked.
BeginUpdate(b, c) ==
    /\ publishing[b].pc = "none"
    /\ phase[c] \in {"running", "over"} /\ openRows[c] > 0
    /\ publishing' = [publishing EXCEPT ![b] = [pc |-> "checked", contest |-> c, value |-> 0]]
    /\ UNCHANGED <<board, redisVars, tables, livePages, liveFaults, disordered>>

\* The upsert, whatever has passed since; another update of the contest past its own may
\* publish later.
ChangeStandings(b) ==
    /\ publishing[b].pc = "checked"
    /\ LET c == publishing[b].contest IN
       /\ standing[c] < MaxChanges
       /\ standing' = [standing EXCEPT ![c] = @ + 1]
       /\ credited' = [credited EXCEPT ![c] = standing[c] + 1]
       /\ disordered' = IF Updating(c) # {} THEN disordered \union {c} ELSE disordered
    /\ publishing' = [publishing EXCEPT ![b].pc = "read"]
    /\ UNCHANGED <<phase, openRows, snapshot, redisVars, tables, livePages, liveFaults>>

\* findMany
ReadStandings(b) ==
    /\ publishing[b].pc = "read"
    /\ publishing' = [publishing EXCEPT ![b].pc = "publish", ![b].value = standing[publishing[b].contest]]
    /\ UNCHANGED <<board, redisVars, tables, livePages, liveFaults, disordered>>

\* publish: each subscriber gets a copy, and nobody does without one.
PublishStandings(b) ==
    /\ publishing[b].pc = "publish"
    /\ LET message == [contest |-> publishing[b].contest, value |-> publishing[b].value] IN
       /\ channel' = IF redisUp THEN channel \o [i \in 1..subscriptions |-> message] ELSE channel
       /\ disordered' = IF redisUp /\ subscriptions > 0 THEN disordered
                        ELSE disordered \union {message.contest}
    /\ publishing' = [publishing EXCEPT ![b] = NoUpdate]
    /\ UNCHANGED <<board, redisUp, redisMain, boot, subscriptions, tables, livePages, liveFaults>>

-----------------------------------------------------------------------------
(* The SSE server's subscriptions.                                         *)

\* A failed attempt is followed by another one, up to the last.
Retry == [pc |-> IF boot.attempt < BootAttempts THEN "connect" ELSE "exhausted",
          attempt |-> boot.attempt + 1]

\* redis.connect(), which is an error once the connection is there, however it came.
ConnectRedis ==
    /\ boot.pc = "connect"
    /\ IF redisMain # "ready" /\ redisUp
       THEN boot' = [boot EXCEPT !.pc = "leaderboard"] /\ redisMain' = "ready"
       ELSE boot' = Retry /\ redisMain' = IF redisMain = "new" THEN "reconnecting" ELSE redisMain
    /\ UNCHANGED <<board, publishing, redisUp, subscriptions, channel, tables, livePages, liveFaults, disordered>>

\* subscribeToLeaderboard, and then subscribeToAnnouncements, each with a connection of its own.
Subscribe(pc, next) ==
    /\ boot.pc = pc
    /\ boot' = IF redisUp THEN [boot EXCEPT !.pc = next] ELSE Retry
    /\ subscriptions' = subscriptions + IF redisUp /\ pc = "leaderboard" THEN 1 ELSE 0
    /\ UNCHANGED <<board, publishing, redisUp, redisMain, channel, tables, livePages, liveFaults, disordered>>

\* The client library reconnects.
ReconnectRedis ==
    /\ redisMain = "reconnecting" /\ redisUp
    /\ redisMain' = "ready"
    /\ UNCHANGED <<board, publishing, redisUp, boot, subscriptions, channel, tables, livePages, liveFaults, disordered>>

\* broadcastToContest
Broadcast ==
    /\ channel # <<>>
    /\ LET m == Head(channel) IN
       streams' = [i \in StreamIds |-> IF i \in contestClients[m.contest] /\ i \in ClientIds
                                       THEN Append(streams[i], [type |-> "LEADERBOARD_UPDATE", data |-> m])
                                       ELSE streams[i]]
    /\ channel' = Tail(channel)
    /\ UNCHANGED <<board, publishing, redisUp, redisMain, boot, subscriptions, sseClients, contestClients,
                   livePages, liveFaults, disordered>>

-----------------------------------------------------------------------------
(* The SSE server's clients.                                               *)

\* A page's request: the stream's client is in both tables before its session is looked up.
AcceptStream(p) ==
    /\ livePages[p].status = "connecting" /\ livePages[p].stream = 0
    /\ Len(streams) < MaxStreams
    /\ LET id == Len(streams) + 1 IN
       /\ sseClients' = sseClients \union {[id |-> id, contest |-> PageContest[p], told |-> FALSE]}
       /\ contestClients' = [contestClients EXCEPT ![PageContest[p]] = @ \union {id}]
       /\ streams' = Append(streams, <<>>)
       /\ livePages' = [livePages EXCEPT ![p].stream = id, ![p].attempts = 0, ![p].status = "connected"]
    /\ UNCHANGED <<board, publishing, redisVars, liveFaults, disordered>>

\* validateSession has answered, one way or the other.
TellConnected(c) ==
    /\ c \in sseClients /\ ~c.told
    /\ sseClients' = (sseClients \ {c}) \union {[c EXCEPT !.told = TRUE]}
    /\ streams' = [streams EXCEPT ![c.id] = Append(@, [type |-> "CONNECTED", data |-> NoUpdate])]
    /\ UNCHANGED <<board, publishing, redisVars, contestClients, livePages, liveFaults, disordered>>

\* removeClientFromContest
WithoutClient(c) == [contestClients EXCEPT ![c.contest] = @ \ {c.id}]

\* The abort of a request nobody reads any more.
AbortStream(c) ==
    /\ c \in sseClients
    /\ \A p \in Pages : livePages[p].stream # c.id
    /\ sseClients' = sseClients \ {c}
    /\ contestClients' = WithoutClient(c)
    /\ UNCHANGED <<board, publishing, redisVars, streams, livePages, liveFaults, disordered>>

-----------------------------------------------------------------------------
(* The page.                                                               *)

NoFetch == [pc |-> "none"]

\* Mutant: the standings are not fetched on connecting.
FetchOnConnectedNever(fetch) == fetch

\* fetchLeaderboard of the CONNECTED listener; a request under way is left alone and a
\* second one is not told apart from one that starts later.
FetchOnConnected(fetch) == [pc |-> "sent"]

\* The stream's next event.
ReceiveEvent(p) ==
    /\ livePages[p].stream # 0 /\ streams[livePages[p].stream] # <<>>
    /\ LET i == livePages[p].stream  event == Head(streams[i]) IN
       /\ streams' = [streams EXCEPT ![i] = Tail(@)]
       /\ livePages' = IF event.type = "CONNECTED"
                       THEN [livePages EXCEPT ![p].fetch = FetchOnConnected(@)]
                       ELSE [livePages EXCEPT ![p].shown = event.data]
    /\ UNCHANGED <<board, publishing, redisVars, sseClients, contestClients, liveFaults, disordered>>

\* refresh, or the interval of the fallback.
Fetch(p) ==
    /\ livePages[p].fetch.pc = "none"
    /\ livePages' = [livePages EXCEPT ![p].fetch = [pc |-> "sent"]]
    /\ UNCHANGED <<board, publishing, redisVars, tables, liveFaults, disordered>>

\* useSnapshot: the freezeTime has passed, also when the contest is over.
Frozen(p) ==
    LET c == PageContest[p] IN
    p \notin AdminPages /\ c \in FreezingContests /\ phase[c] \in {"frozen", "over"}

\* getContestLeaderboard: the snapshot, empty until the freeze job has made it, or the rows.
ServeFetch(p) ==
    /\ livePages[p].fetch.pc = "sent"
    /\ LET c == PageContest[p]  served == IF Frozen(p) THEN snapshot[c] ELSE standing[c] IN
       livePages' = [livePages EXCEPT ![p].fetch =
                        [pc |-> "answer", data |-> [contest |-> c, value |-> served]]]
    /\ UNCHANGED <<board, publishing, redisVars, tables, liveFaults, disordered>>

\* v is what the contest's freeze leaves for page p.
FromFreeze(p, v) == Frozen(p) /\ v \in {0, snapshot[PageContest[p]]}

\* Its answer is shown, whatever has been shown since it was read.
AnswerFetch(p) ==
    /\ livePages[p].fetch.pc = "answer"
    /\ LET data == livePages[p].fetch.data IN
       /\ livePages' = [livePages EXCEPT ![p].shown = data, ![p].fetch = NoFetch]
       /\ disordered' = IF data.value < livePages[p].shown.value /\ ~FromFreeze(p, data.value)
                        THEN disordered \union {p} ELSE disordered
    /\ UNCHANGED <<board, publishing, redisVars, tables, liveFaults>>

\* onerror: a timer for the next attempt, or the fallback.
StreamError(p) ==
    [livePages[p] EXCEPT !.stream = 0,
        !.status = IF livePages[p].attempts < ReconnectLimit THEN "disconnected" ELSE "fallback",
        !.fetch = IF livePages[p].attempts < ReconnectLimit \/ @.pc # "none" THEN @ ELSE [pc |-> "sent"]]

\* The timer: connectSSE again.
ReconnectPage(p) ==
    /\ livePages[p].status = "disconnected"
    /\ livePages' = [livePages EXCEPT ![p].status = "connecting", ![p].attempts = @ + 1]
    /\ UNCHANGED <<board, publishing, redisVars, tables, liveFaults, disordered>>

-----------------------------------------------------------------------------
(* Faults.                                                                 *)

Fault == liveFaults < MaxLiveFaults /\ liveFaults' = liveFaults + 1

\* A page's connection breaks, or cannot be made.
BreakStream(p) ==
    /\ Fault
    /\ livePages[p].status \in {"connecting", "connected"}
    /\ livePages' = [livePages EXCEPT ![p] = StreamError(p)]
    /\ UNCHANGED <<board, publishing, redisVars, tables, disordered>>

\* Redis goes, with the messages under way; subscribers come back by themselves.
StopRedis ==
    /\ Fault
    /\ redisUp
    /\ redisUp' = FALSE
    /\ redisMain' = IF redisMain = "ready" THEN "reconnecting" ELSE redisMain
    /\ channel' = <<>>
    /\ disordered' = disordered \union {channel[i].contest : i \in DOMAIN channel}
    /\ UNCHANGED <<board, publishing, boot, subscriptions, tables, livePages>>

StartRedis ==
    /\ ~redisUp
    /\ redisUp' = TRUE
    /\ UNCHANGED <<board, publishing, redisMain, boot, subscriptions, channel, tables, livePages, liveFaults, disordered>>

\* shutdown and a new start: the tables are empty, every page meets an error.
RestartServer ==
    /\ Fault
    /\ sseClients' = {} /\ contestClients' = [c \in LiveContests |-> {}]
    /\ streams' = [i \in StreamIds |-> <<>>]
    /\ channel' = <<>> /\ subscriptions' = 0
    /\ disordered' = disordered \union {channel[i].contest : i \in DOMAIN channel}
    /\ boot' = [pc |-> "connect", attempt |-> 1] /\ redisMain' = "new"
    /\ livePages' = [p \in Pages |-> IF livePages[p].stream # 0 THEN StreamError(p) ELSE livePages[p]]
    /\ UNCHANGED <<board, publishing, redisUp>>

RealtimeInit ==
    /\ phase = [c \in LiveContests |-> "before"]
    /\ standing = [c \in LiveContests |-> 0] /\ openRows = [c \in LiveContests |-> 0]
    /\ snapshot = [c \in LiveContests |-> 0] /\ credited = [c \in LiveContests |-> 0]
    /\ publishing = [b \in Publishers |-> NoUpdate]
    /\ redisUp \in BOOLEAN /\ redisMain = "new"
    /\ boot = [pc |-> "connect", attempt |-> 1]
    /\ subscriptions = 0 /\ channel = <<>>
    /\ sseClients = {} /\ contestClients = [c \in LiveContests |-> {}] /\ streams = <<>>
    /\ livePages = [p \in Pages |-> [status |-> "connecting", stream |-> 0, attempts |-> 0,
                      shown |-> [contest |-> PageContest[p], value |-> 0], fetch |-> NoFetch]]
    /\ liveFaults = 0 /\ disordered = {}

RunContests == \E c \in LiveContests : PassTime(c) \/ Register(c) \/ Unregister(c) \/ FreezeBoard(c)

UpdateStandings ==
    \E b \in Publishers :
        \/ ChangeStandings(b) \/ ReadStandings(b) \/ PublishStandings(b)
        \/ \E c \in LiveContests : BeginUpdate(b, c)

BootServer ==
    \/ ConnectRedis \/ Subscribe("leaderboard", "announcements") \/ Subscribe("announcements", "done")
    \/ ReconnectRedis

ServeStreams ==
    \/ Broadcast
    \/ \E p \in Pages : AcceptStream(p)
    \/ \E c \in sseClients : TellConnected(c) \/ AbortStream(c)

ShowStandings ==
    \E p \in Pages :
        ReceiveEvent(p) \/ Fetch(p) \/ ServeFetch(p) \/ AnswerFetch(p) \/ ReconnectPage(p)

DisturbRealtime == StopRedis \/ StartRedis \/ RestartServer \/ \E p \in Pages : BreakStream(p)

RealtimeNext == RunContests \/ UpdateStandings \/ BootServer \/ ServeStreams \/ ShowStandings \/ DisturbRealtime

RealtimeSpec == RealtimeInit /\ [][RealtimeNext]_realtimeVars

-----------------------------------------------------------------------------
(* Properties.                                                             *)

Message == [contest : LiveContests, value : 0..MaxChanges]
Page == [status : {"connecting", "connected", "disconnected", "fallback"}, stream : 0..MaxStreams,
         attempts : 0..ReconnectLimit, shown : Message,
         fetch : {NoFetch} \union [pc : {"sent"}] \union [pc : {"answer"}, data : Message]]

\* Every variable of the live updates has its type; the server's two tables list the
\* same clients, and no stream holds another contest's standings.
RealtimeTypeOK ==
    /\ phase \in [LiveContests -> {"before", "running", "frozen", "over"}]
    /\ {standing, openRows, snapshot, credited} \subseteq [LiveContests -> 0..MaxChanges]
    /\ publishing \in [Publishers -> {NoUpdate} \union
          [pc : {"checked", "read", "publish"}, contest : LiveContests, value : 0..MaxChanges]]
    /\ redisUp \in BOOLEAN /\ redisMain \in {"new", "reconnecting", "ready"}
    /\ boot \in [pc : {"connect", "leaderboard", "announcements", "done", "exhausted"}, attempt : 1..BootAttempts + 1]
    /\ subscriptions \in 0..BootAttempts /\ channel \in Seq(Message)
    /\ sseClients \subseteq [id : 1..Len(streams), contest : LiveContests, told : BOOLEAN]
    /\ \A c \in LiveContests : contestClients[c] = {s.id : s \in {t \in sseClients : t.contest = c}}
    /\ livePages \in [Pages -> Page]
    /\ \A p \in Pages : livePages[p].stream # 0 =>
         \A i \in DOMAIN streams[livePages[p].stream] :
            LET event == streams[livePages[p].stream][i] IN
            event.type = "LEADERBOARD_UPDATE" => event.data.contest = PageContest[p]
    /\ liveFaults \in 0..MaxLiveFaults /\ disordered \subseteq LiveContests \union Pages

Settled(p) ==
    /\ livePages[p].status = "connected" /\ livePages[p].fetch.pc = "none"
    /\ \E c \in sseClients : c.id = livePages[p].stream /\ c.told
    /\ streams[livePages[p].stream] = <<>> /\ channel = <<>>
    /\ Updating(PageContest[p]) = {}

\* Once nothing is on its way any more, a connected page shows its contest's standings
\* with every result credited so far, however connections broke before: only
\* registrations since the last update may be missing, as nothing tells of them.  From
\* the freeze on a contestant's page may also show what its requests get then: the
\* snapshot, or the empty list that stands for it until the freeze job has run.
\* Excepted are two updates of the contest past their upserts at once, which may be
\* published in the wrong order, a message without a subscriber, and an answer that
\* came after what had overtaken it.
LatestShown ==
    \A p \in Pages :
        LET c == PageContest[p]  shown == livePages[p].shown IN
        Settled(p) /\ {p, c} \intersect disordered = {} =>
            shown.contest = c /\ (credited[c] <= shown.value \/ FromFreeze(p, shown.value))
=============================================================================
