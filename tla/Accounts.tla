------------------------------ MODULE Accounts ------------------------------
(***************************************************************************)
(* Registering, signing in and out.  A request is counted against the      *)
(* limiter of its address, finds or creates the user, creates a session    *)
(* and answers with a cookie, one awaited statement after the other; the   *)
(* limiter lives in memory, users and sessions in the database.            *)
(*                                                                         *)
(* A window is kept as what is left of it, so that the clock needs no      *)
(* bound.  A password is right or wrong, a token is the number of its      *)
(* session.  Cookies and sessions expire together, after seven days; that  *)
(* is left out.                                                            *)
(***************************************************************************)
EXTENDS Integers, Sequences, FiniteSets, FiniteSetsExt

CONSTANTS
    Browsers, Emails,
    Usernames,          \* usernames that may be given on registering
    Ips, IpOf,          \* the addresses requests come from
    RateWindow, RateMaxLogin, RateMaxRegister,  \* RATE_WINDOW_MS, RATE_MAX_*
    DevLogin,           \* whether dev-login is available
    MaxSessions,        \* BOUND: sessions that may be created
    MaxAccountFaults    \* BOUND: restarts and lost answers

ASSUME AccountsAssumption ==
    /\ IpOf \in [Browsers -> Ips]
    /\ RateWindow \in Nat
    /\ RateMaxRegister \in 1..RateMaxLogin /\ RateMaxLogin \in Nat
    /\ DevLogin \in BOOLEAN
    /\ {MaxSessions, MaxAccountFaults} \subseteq Nat

VARIABLES
    bucket,         \* ipBuckets
    accounts,       \* rows of User
    sessions,       \* rows of Session
    cookie,         \* the session cookie of each browser, 0 for none
    attempt,        \* the request of each browser's form
    signout,        \* the token of each browser's running sign-out, 0 for none
    accountFaults,
    admitted,       \* history: requests the limiter let pass, by age
    interrupted,    \* history: emails whose registration was cut short
    unanswered      \* history: browsers that missed an answer

limiter == <<bucket, admitted>>
database == <<accounts, sessions>>
accountVars == <<limiter, database, cookie, attempt, signout, accountFaults, interrupted, unanswered>>

NoBucket == [count |-> 0, left |-> -1]
NoAttempt == [pc |-> "none"]
NoName == "no name"
Kinds == {"register", "login", "dev"}
Ages == 0..RateWindow
Later1(n) == IF n < 0 THEN n ELSE n - 1

-----------------------------------------------------------------------------
(* The limiter.                                                            *)

Limit(kind) == IF kind = "register" THEN RateMaxRegister ELSE RateMaxLogin

Saturated(n) == IF n > RateMaxLogin THEN RateMaxLogin + 1 ELSE n

\* Mutant: every attempt starts the window again.
CountedExtending(b) ==
    IF b.left < 0 THEN [count |-> 1, left |-> RateWindow]
    ELSE [count |-> Saturated(b.count + 1), left |-> RateWindow]

\* checkRateLimit's effect on a bucket: a stale one starts again, any other counts on.
\* Counts above the larger limit are all alike.
Counted(b) ==
    IF b.left < 0 THEN [count |-> 1, left |-> RateWindow]
    ELSE [b EXCEPT !.count = Saturated(@ + 1)]

\* Mutant: the count is compared before it is raised.
AdmitsBefore(b, kind) == b.left < 0 \/ b.count <= Limit(kind)

\* Its result.
Admits(b, kind) == Counted(b).count <= Limit(kind)

Noted(ip, kind) == [admitted EXCEPT ![ip][0][kind] = @ + 1]

-----------------------------------------------------------------------------
(* Requests of the form.                                                   *)

InProgress == Cardinality({b \in Browsers : attempt[b].pc # "none"})

\* A request arrives; ok says whether its password is right.  Dev logins are not limited.
Attempt(b, kind, e, name, ok) ==
    /\ attempt[b].pc = "none"
    /\ kind = "dev" => DevLogin
    /\ ok => Len(sessions) + InProgress < MaxSessions
    /\ LET ip == IpOf[b]
           limited == kind # "dev"
           passes == limited => Admits(bucket[ip], kind)
       IN /\ bucket' = IF limited THEN [bucket EXCEPT ![ip] = Counted(@)] ELSE bucket
          /\ admitted' = IF limited /\ passes THEN Noted(ip, kind) ELSE admitted
          /\ attempt' = IF passes /\ ok
                        THEN [attempt EXCEPT ![b] = [pc |-> "find", kind |-> kind, email |-> e, name |-> name]]
                        ELSE attempt
    /\ UNCHANGED <<database, cookie, signout, accountFaults, interrupted, unanswered>>

Known(e) == \E a \in accounts : a.email = e
HasPassword(e) == \E a \in accounts : a.email = e /\ a.password
Taken(e, name) == \E a \in accounts : a.email = e \/ (name # NoName /\ a.name = name)

\* The queries before the first write.
FindUser(b) ==
    /\ attempt[b].pc = "find"
    /\ LET q == attempt[b]
           next == CASE q.kind = "register" -> IF Taken(q.email, q.name) THEN "none" ELSE "create"
                     [] q.kind = "login" -> IF HasPassword(q.email) THEN "session" ELSE "none"
                     [] q.kind = "dev" -> IF Known(q.email) THEN "session" ELSE "create"
       IN attempt' = [attempt EXCEPT ![b] = IF next = "none" THEN NoAttempt ELSE [@ EXCEPT !.pc = next]]
    /\ UNCHANGED <<limiter, database, cookie, signout, accountFaults, interrupted, unanswered>>

\* Mutant: the email has no unique key, only the username.
UniqueName(e, name) == name # NoName => ~\E a \in accounts : a.name = name

\* The unique keys of User.
Unique(e, name) == ~Taken(e, name)

\* user.create; a violated key answers 500.
CreateUser(b) ==
    /\ attempt[b].pc = "create"
    /\ LET q == attempt[b] IN
       IF Unique(q.email, q.name)
       THEN /\ accounts' = accounts \union {[email |-> q.email, name |-> q.name, by |-> b,
                                             password |-> q.kind = "register"]}
            /\ attempt' = [attempt EXCEPT ![b].pc = "session"]
       ELSE /\ attempt' = [attempt EXCEPT ![b] = NoAttempt]
            /\ UNCHANGED accounts
    /\ UNCHANGED <<limiter, sessions, cookie, signout, accountFaults, interrupted, unanswered>>

\* The sessions with one more for the user.
WithSession(e) == Append(sessions, [email |-> e, revoked |-> FALSE])

\* session.create; its number is the token.
CreateSession(b) ==
    /\ attempt[b].pc = "session"
    /\ sessions' = WithSession(attempt[b].email)
    /\ attempt' = [attempt EXCEPT ![b] = [pc |-> "answer", token |-> Len(sessions) + 1]]
    /\ UNCHANGED <<limiter, accounts, cookie, signout, accountFaults, interrupted, unanswered>>

\* The answer sets the cookie.
AnswerAttempt(b) ==
    /\ attempt[b].pc = "answer"
    /\ cookie' = [cookie EXCEPT ![b] = attempt[b].token]
    /\ attempt' = [attempt EXCEPT ![b] = NoAttempt]
    /\ UNCHANGED <<limiter, database, signout, accountFaults, interrupted, unanswered>>

-----------------------------------------------------------------------------
(* Signing out, and what a session is good for.                            *)

\* getUserFromRequest finds a user for the token.
Valid(token) == token # 0 /\ ~sessions[token].revoked

\* The request is sent with the cookie of the moment, and handled at once.
SignOut(b) ==
    /\ signout[b] = 0 /\ cookie[b] # 0
    /\ sessions' = [sessions EXCEPT ![cookie[b]].revoked = TRUE]
    /\ signout' = [signout EXCEPT ![b] = cookie[b]]
    /\ UNCHANGED <<limiter, accounts, cookie, attempt, accountFaults, interrupted, unanswered>>

\* Mutant: the answer carries no cookie.
ClearedNever(b) == cookie

\* Max-Age=0 clears whatever cookie the browser has by then.
Cleared(b) == [cookie EXCEPT ![b] = 0]

\* The answer to a sign-out.
AnswerSignOut(b) ==
    /\ signout[b] # 0
    /\ cookie' = Cleared(b)
    /\ signout' = [signout EXCEPT ![b] = 0]
    /\ UNCHANGED <<limiter, database, attempt, accountFaults, interrupted, unanswered>>

-----------------------------------------------------------------------------
(* Time, eviction and faults.                                              *)

\* One unit of time.
TickAccounts ==
    /\ bucket' = [ip \in Ips |-> [bucket[ip] EXCEPT !.left = Later1(@)]]
    /\ admitted' = [ip \in Ips |-> [a \in Ages |->
                      IF a = 0 THEN [kind \in Kinds |-> 0] ELSE admitted[ip][a - 1]]]
    /\ UNCHANGED <<database, cookie, attempt, signout, accountFaults, interrupted, unanswered>>

\* The interval that evicts stale buckets.
EvictBuckets ==
    /\ \E ip \in Ips : bucket[ip].left < 0 /\ bucket[ip] # NoBucket
    /\ bucket' = [ip \in Ips |-> IF bucket[ip].left < 0 THEN NoBucket ELSE bucket[ip]]
    /\ UNCHANGED <<admitted, database, cookie, attempt, signout, accountFaults, interrupted, unanswered>>

\* The backend restarts: requests and buckets are gone.
RestartAccounts ==
    /\ accountFaults < MaxAccountFaults
    /\ accountFaults' = accountFaults + 1
    /\ bucket' = [ip \in Ips |-> NoBucket]
    /\ admitted' = [ip \in Ips |-> [a \in Ages |-> [kind \in Kinds |-> 0]]]
    /\ interrupted' = interrupted \union {attempt[b].email : b \in {c \in Browsers : attempt[c].pc = "session"}}
    /\ unanswered' = unanswered \union {b \in Browsers : attempt[b].pc # "none" \/ signout[b] # 0}
    /\ attempt' = [b \in Browsers |-> NoAttempt]
    /\ signout' = [b \in Browsers |-> 0]
    /\ UNCHANGED <<database, cookie>>

\* An answer is lost on its way.
LoseAnswer(b) ==
    /\ accountFaults < MaxAccountFaults
    /\ accountFaults' = accountFaults + 1
    /\ unanswered' = unanswered \union {b}
    /\ \/ attempt[b].pc = "answer" /\ attempt' = [attempt EXCEPT ![b] = NoAttempt] /\ UNCHANGED signout
       \/ signout[b] # 0 /\ signout' = [signout EXCEPT ![b] = 0] /\ UNCHANGED attempt
    /\ UNCHANGED <<limiter, database, cookie, interrupted>>

AccountInit ==
    /\ bucket = [ip \in Ips |-> NoBucket]
    /\ accounts = {} /\ sessions = <<>>
    /\ cookie = [b \in Browsers |-> 0]
    /\ attempt = [b \in Browsers |-> NoAttempt]
    /\ signout = [b \in Browsers |-> 0]
    /\ accountFaults = 0
    /\ admitted = [ip \in Ips |-> [a \in Ages |-> [kind \in Kinds |-> 0]]]
    /\ interrupted = {} /\ unanswered = {}

UseForm ==
    \E b \in Browsers :
        \/ \E e \in Emails, ok \in BOOLEAN :
              \/ Attempt(b, "login", e, NoName, ok)
              \/ ok /\ Attempt(b, "dev", e, NoName, ok)
              \/ \E name \in Usernames \union {NoName} : Attempt(b, "register", e, name, ok)
        \/ SignOut(b)

ServeForm ==
    \E b \in Browsers :
        FindUser(b) \/ CreateUser(b) \/ CreateSession(b) \/ AnswerAttempt(b) \/ AnswerSignOut(b)

DisturbAccounts == RestartAccounts \/ \E b \in Browsers : LoseAnswer(b)

AccountNext == UseForm \/ ServeForm \/ TickAccounts \/ EvictBuckets \/ DisturbAccounts

\* Time passes.
AccountFairness == WF_accountVars(TickAccounts)

AccountSpec == AccountInit /\ [][AccountNext]_accountVars /\ AccountFairness

-----------------------------------------------------------------------------
(* Properties.                                                             *)

AttemptRecord ==
    {NoAttempt} \union
    [pc : {"find", "create", "session"}, kind : Kinds, email : Emails, name : Usernames \union {NoName}] \union
    [pc : {"answer"}, token : 1..Len(sessions)]

\* Every variable of the accounts has its type, and a cookie or an answer names a stored session.
AccountTypeOK ==
    /\ bucket \in [Ips -> [count : 0..(RateMaxLogin + 1), left : -1..RateWindow]]
    /\ accounts \subseteq [email : Emails, name : Usernames \union {NoName}, by : Browsers, password : BOOLEAN]
    /\ sessions \in Seq([email : Emails, revoked : BOOLEAN])
    /\ cookie \in [Browsers -> 0..Len(sessions)]
    /\ attempt \in [Browsers -> AttemptRecord]
    /\ signout \in [Browsers -> 0..Len(sessions)]
    /\ accountFaults \in 0..MaxAccountFaults
    /\ admitted \in [Ips -> [Ages -> [Kinds -> Nat]]]
    /\ interrupted \subseteq Emails /\ unanswered \subseteq Browsers

AdmittedOf(ip, kinds) == SumFunction([a \in Ages |-> SumFunctionOnSet(admitted[ip][a], kinds)])

\* However attempts of both kinds fall around the edge of the fixed window, in any
\* stretch as long as the window at most twice the limit passes: twice the register
\* limit of registrations, twice the login limit of both kinds, which share a bucket.
BurstBounded ==
    \A ip \in Ips :
        /\ AdmittedOf(ip, {"register"}) <= 2 * RateMaxRegister
        /\ AdmittedOf(ip, Kinds) <= 2 * RateMaxLogin

Blocked(ip) == bucket[ip].left >= 0 /\ bucket[ip].count >= RateMaxLogin

\* An address over the limit is let in again, also when it never stops trying.
LimiterReopens == \A ip \in Ips : []<>~Blocked(ip)

\* An account whose registration was not cut short by a restart has had a session,
\* or is just getting it; one email is never given to two registrations that raced.
AccountsComplete ==
    /\ \A a \in accounts :
        \/ a.email \in interrupted
        \/ \E t \in DOMAIN sessions : sessions[t].email = a.email
        \/ attempt[a.by].pc = "session" /\ attempt[a.by].email = a.email
    /\ \A a, b \in accounts : a.email = b.email => a = b

\* A browser that keeps a cookie is signed in until it expires: only while a sign-out
\* with it is under way, or after a lost answer, does its session stand revoked.
CookiesBacked ==
    \A b \in Browsers \ unanswered :
        cookie[b] # 0 /\ ~Valid(cookie[b]) => signout[b] # 0
=============================================================================
