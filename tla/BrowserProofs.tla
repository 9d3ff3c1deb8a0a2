----------------------------- MODULE BrowserProofs -----------------------------
(***************************************************************************)
(* Theorems about what the browser shares with the backend, for any number *)
(* of browsers, accounts, pages, orders, faults and restarts.              *)
(* Accounts: types; an account is complete or being completed; a cookie is *)
(* backed by a session; the limiter bounds what passes in a window.        *)
(* Workbench: a verdict is the one its test cases call for; a page shows   *)
(* the verdict of the id it shows.                                         *)
(***************************************************************************)
EXTENDS Accounts, Workbench, SequenceTheorems, SumTheorems, TLAPS

-----------------------------------------------------------------------------
(* Accounts: types.                                                        *)

BucketType == [count : 0..(RateMaxLogin + 1), left : -1..RateWindow]
SessionType == [email : Emails, revoked : BOOLEAN]
NamesGiven == Usernames \union {NoName}
AccountRow == [email : Emails, name : NamesGiven, by : Browsers, password : BOOLEAN]

\* A request that is not answered yet.
Asking == [pc : {"find", "create", "session"}, kind : Kinds, email : Emails, name : NamesGiven]

\* What a browser's request holds.
LEMMA AttemptFields ==
    ASSUME AccountTypeOK, NEW b \in Browsers
    PROVE  \/ attempt[b] = NoAttempt /\ attempt[b].pc = "none"
           \/ attempt[b] \in Asking /\ attempt[b].pc \in {"find", "create", "session"}
           \/ attempt[b].pc = "answer" /\ attempt[b].token \in 1..Len(sessions)
<1>1. attempt[b] \in AttemptRecord
  BY DEF AccountTypeOK
<1> QED BY <1>1 DEF AttemptRecord, NoAttempt, Asking, NamesGiven

LEMMA AskingFields ==
    ASSUME NEW q \in Asking
    PROVE  /\ q.kind \in Kinds /\ q.email \in Emails /\ q.name \in NamesGiven
           /\ \A pc \in {"find", "create", "session"} :
                /\ [q EXCEPT !.pc = pc] \in Asking
                /\ [q EXCEPT !.pc = pc].pc = pc /\ [q EXCEPT !.pc = pc].email = q.email
BY DEF Asking

LEMMA FindStep ==
    ASSUME AccountTypeOK, NEW b \in Browsers, FindUser(b)
    PROVE  \E d \in Asking \union {NoAttempt} : attempt' = [attempt EXCEPT ![b] = d]
<1>1. attempt[b] \in Asking
  BY AttemptFields DEF FindUser, NoAttempt
<1>2. attempt[b].kind \in {"register", "login", "dev"}
  BY <1>1 DEF Asking, Kinds
<1>3. \E x \in {"none", "create", "session"} :
         attempt' = [attempt EXCEPT ![b] = IF x = "none" THEN NoAttempt ELSE [@ EXCEPT !.pc = x]]
  <2>1. attempt[b].kind = "register" \/ attempt[b].kind = "login" \/ attempt[b].kind = "dev"
    BY <1>2
  <2> QED BY <2>1, Zenon DEF FindUser
<1>4. PICK x \in {"none", "create", "session"} :
         attempt' = [attempt EXCEPT ![b] = IF x = "none" THEN NoAttempt ELSE [@ EXCEPT !.pc = x]]
  BY <1>3
<1>5. CASE x = "none"
  BY <1>4, <1>5
<1>6. CASE x # "none"
  <2>1. [attempt[b] EXCEPT !.pc = x] \in Asking
    BY <1>1, <1>6, AskingFields
  <2>2. attempt' = [attempt EXCEPT ![b] = [attempt[b] EXCEPT !.pc = x]]
    BY <1>4, <1>6
  <2> QED BY <2>1, <2>2
<1> QED BY <1>5, <1>6

\* user.create adds a row of the request's email, or ends the request.
LEMMA CreateStep ==
    ASSUME AccountTypeOK, NEW b \in Browsers, CreateUser(b)
    PROVE  \/ /\ attempt' = [attempt EXCEPT ![b] = NoAttempt] /\ accounts' = accounts
           \/ \E d \in Asking, r \in AccountRow :
                 /\ attempt' = [attempt EXCEPT ![b] = d] /\ d.pc = "session"
                 /\ accounts' = accounts \union {r} /\ r.by = b /\ r.email = d.email
                 /\ \A a \in accounts : a.email # r.email
<1>1. attempt[b] \in Asking
  BY AttemptFields DEF CreateUser, NoAttempt
<1>2. CASE ~Unique(attempt[b].email, attempt[b].name)
  BY <1>2 DEF CreateUser
<1>3. CASE Unique(attempt[b].email, attempt[b].name)
  <2> DEFINE q == attempt[b]
             d == [q EXCEPT !.pc = "session"]
             r == [email |-> q.email, name |-> q.name, by |-> b, password |-> q.kind = "register"]
  <2>1. d \in Asking /\ d.pc = "session" /\ d.email = q.email
    BY <1>1, AskingFields
  <2>2. r \in AccountRow /\ r.by = b /\ r.email = q.email
    BY <1>1, AskingFields DEF AccountRow
  <2>3. attempt' = [attempt EXCEPT ![b] = d] /\ accounts' = accounts \union {r}
    BY <1>3 DEF CreateUser
  <2>4. \A a \in accounts : a.email # q.email
    BY <1>3 DEF Unique, Taken
  <2> HIDE DEF q, d, r
  <2> QED BY <2>1, <2>2, <2>3, <2>4
<1> QED BY <1>2, <1>3

\* session.create and the sign-out: what becomes of the sessions.
LEMMA SessionStep ==
    ASSUME AccountTypeOK, NEW b \in Browsers, CreateSession(b)
    PROVE  /\ attempt[b] \in Asking
           /\ sessions' \in Seq(SessionType) /\ Len(sessions') = Len(sessions) + 1
           /\ \A t \in 1..Len(sessions) : sessions'[t] = sessions[t]
           /\ sessions'[Len(sessions) + 1].email = attempt[b].email
           /\ ~sessions'[Len(sessions) + 1].revoked
           /\ attempt' = [attempt EXCEPT ![b] = [pc |-> "answer", token |-> Len(sessions) + 1]]
<1>1. attempt[b] \in Asking
  BY AttemptFields DEF CreateSession, NoAttempt
<1>2. [email |-> attempt[b].email, revoked |-> FALSE] \in SessionType
  BY <1>1, AskingFields DEF SessionType
<1>3. sessions \in Seq(SessionType)
  BY DEF AccountTypeOK, SessionType
<1> QED BY <1>1, <1>2, <1>3 DEF CreateSession, WithSession

LEMMA SignOutStep ==
    ASSUME AccountTypeOK, NEW b \in Browsers, SignOut(b)
    PROVE  /\ cookie[b] \in 1..Len(sessions)
           /\ sessions' \in Seq(SessionType) /\ Len(sessions') = Len(sessions)
           /\ \A t \in 1..Len(sessions) :
                /\ sessions'[t].email = sessions[t].email
                /\ t # cookie[b] => sessions'[t] = sessions[t]
<1>1. sessions \in Seq(SessionType) /\ Len(sessions) \in Nat
  BY DEF AccountTypeOK, SessionType
<1>2. cookie[b] \in 1..Len(sessions)
  BY <1>1 DEF SignOut, AccountTypeOK
<1> DEFINE c == cookie[b]
           s == [sessions[c] EXCEPT !.revoked = TRUE]
<1>3. s \in SessionType /\ s.email = sessions[c].email
  <2>1. sessions[c] \in SessionType
    BY <1>1, <1>2
  <2> QED BY <2>1 DEF SessionType
<1>4. sessions' = [sessions EXCEPT ![c] = s]
  BY DEF SignOut
<1> HIDE DEF s
<1> QED BY <1>1, <1>2, <1>3, <1>4

\* The sessions only grow in number, so requests and cookies keep their types.
LEMMA AttemptKept ==
    ASSUME AccountTypeOK, Len(sessions') \in Nat, Len(sessions') >= Len(sessions)
    PROVE  /\ cookie \in [Browsers -> 0..Len(sessions')]
           /\ signout \in [Browsers -> 0..Len(sessions')]
           /\ attempt \in [Browsers -> AttemptRecord']
<1>1. Len(sessions) \in Nat /\ 0..Len(sessions) \subseteq 0..Len(sessions') /\ 1..Len(sessions) \subseteq 1..Len(sessions')
  BY DEF AccountTypeOK
<1>2. AttemptRecord \subseteq AttemptRecord'
  BY <1>1 DEF AttemptRecord
<1> QED BY <1>1, <1>2 DEF AccountTypeOK

LEMMA AccountTypeInit == AccountInit => AccountTypeOK
<1> SUFFICES ASSUME AccountInit PROVE AccountTypeOK
  OBVIOUS
<1> USE AccountsAssumption DEF AccountsAssumption
<1>1. bucket \in [Ips -> [count : 0..(RateMaxLogin + 1), left : -1..RateWindow]]
  BY DEF AccountInit, NoBucket
<1>2. sessions \in Seq([email : Emails, revoked : BOOLEAN]) /\ Len(sessions) = 0
  BY DEF AccountInit
<1>3. attempt \in [Browsers -> AttemptRecord] /\ accountFaults \in 0..MaxAccountFaults
  BY DEF AccountInit, AttemptRecord
<1>4. admitted \in [Ips -> [Ages -> [Kinds -> Nat]]]
  BY DEF AccountInit
<1> QED BY <1>1, <1>2, <1>3, <1>4 DEF AccountInit, AccountTypeOK

LEMMA AccountTypeStep == AccountTypeOK /\ [AccountNext]_accountVars => AccountTypeOK'
<1> SUFFICES ASSUME AccountTypeOK, [AccountNext]_accountVars PROVE AccountTypeOK'
  OBVIOUS
<1> USE AccountsAssumption DEF AccountsAssumption
<1>0. Len(sessions) \in Nat /\ sessions \in Seq(SessionType)
  BY DEF AccountTypeOK, SessionType
<1>1. ASSUME NEW b \in Browsers, NEW kind \in Kinds, NEW e \in Emails, NEW name \in NamesGiven,
             NEW ok \in BOOLEAN, Attempt(b, kind, e, name, ok)
      PROVE  AccountTypeOK'
  <2>1. \A x \in BucketType : Counted(x) \in BucketType
    BY DEF Counted, Saturated, BucketType
  <2>2. bucket' \in [Ips -> BucketType]
    BY <1>1, <2>1 DEF Attempt, AccountTypeOK, BucketType
  <2>3. admitted' \in [Ips -> [Ages -> [Kinds -> Nat]]]
    <3>1. 0 \in Ages
      BY DEF Ages
    <3>2. Noted(IpOf[b], kind) \in [Ips -> [Ages -> [Kinds -> Nat]]]
      BY <3>1 DEF Noted, AccountTypeOK
    <3> QED BY <1>1, <3>2 DEF Attempt, AccountTypeOK
  <2>4. attempt' \in [Browsers -> AttemptRecord]
    BY <1>1 DEF Attempt, AccountTypeOK, AttemptRecord, NamesGiven
  <2> QED
    BY <1>1, <2>2, <2>3, <2>4 DEF Attempt, AccountTypeOK, AttemptRecord, BucketType, database
<1>2. ASSUME NEW b \in Browsers, FindUser(b) PROVE AccountTypeOK'
  <2>1. attempt' \in [Browsers -> AttemptRecord]
    BY <1>2, FindStep DEF AccountTypeOK, AttemptRecord, Asking, NamesGiven
  <2> QED BY <1>2, <2>1 DEF FindUser, AccountTypeOK, AttemptRecord, database, limiter
<1>3. ASSUME NEW b \in Browsers, CreateUser(b) PROVE AccountTypeOK'
  <2>1. PICK d \in Asking \union {NoAttempt} :
           /\ attempt' = [attempt EXCEPT ![b] = d]
           /\ accounts' = accounts \/ \E r \in AccountRow : accounts' = accounts \union {r}
    BY <1>3, CreateStep
  <2>2. d \in AttemptRecord
    BY DEF AttemptRecord, Asking, NamesGiven
  <2>3. attempt' \in [Browsers -> AttemptRecord]
    BY <2>1, <2>2 DEF AccountTypeOK
  <2>4. accounts' \subseteq AccountRow
    BY <2>1 DEF AccountTypeOK, AccountRow, NamesGiven
  <2> QED BY <1>3, <2>3, <2>4 DEF CreateUser, AccountTypeOK, AttemptRecord, AccountRow, NamesGiven, limiter
<1>4. ASSUME NEW b \in Browsers, CreateSession(b) PROVE AccountTypeOK'
  <2>1. sessions' \in Seq(SessionType) /\ Len(sessions') = Len(sessions) + 1
    BY <1>4, SessionStep
  <2>2. attempt' \in [Browsers -> AttemptRecord']
    <3>1. [pc |-> "answer", token |-> Len(sessions) + 1] \in AttemptRecord'
      BY <1>0, <2>1 DEF AttemptRecord
    <3>2. attempt \in [Browsers -> AttemptRecord']
      BY <1>0, <2>1, AttemptKept
    <3> QED BY <1>4, <3>1, <3>2, SessionStep
  <2>3. cookie' \in [Browsers -> 0..Len(sessions')] /\ signout' \in [Browsers -> 0..Len(sessions')]
    BY <1>0, <1>4, <2>1, AttemptKept DEF CreateSession
  <2> QED BY <1>4, <2>1, <2>2, <2>3 DEF CreateSession, AccountTypeOK, SessionType, limiter
<1>5. ASSUME NEW b \in Browsers, AnswerAttempt(b) PROVE AccountTypeOK'
  <2>1. attempt' \in [Browsers -> AttemptRecord]
    BY <1>5 DEF AnswerAttempt, AccountTypeOK, AttemptRecord
  <2>2. cookie' \in [Browsers -> 0..Len(sessions)]
    <3>1. attempt[b].token \in 0..Len(sessions)
      BY <1>0, <1>5, AttemptFields DEF AnswerAttempt, NoAttempt
    <3> QED BY <1>5, <3>1 DEF AnswerAttempt, AccountTypeOK
  <2> QED BY <1>5, <2>1, <2>2 DEF AnswerAttempt, AccountTypeOK, AttemptRecord, limiter, database
<1>6. ASSUME NEW b \in Browsers, SignOut(b) PROVE AccountTypeOK'
  <2>1. sessions' \in Seq(SessionType) /\ Len(sessions') = Len(sessions)
    BY <1>6, SignOutStep
  <2>2. AttemptRecord' = AttemptRecord
    BY <2>1 DEF AttemptRecord
  <2>3. signout' \in [Browsers -> 0..Len(sessions)]
    BY <1>6 DEF SignOut, AccountTypeOK
  <2> QED BY <1>6, <2>1, <2>2, <2>3 DEF SignOut, AccountTypeOK, SessionType, limiter
<1>7. ASSUME NEW b \in Browsers, AnswerSignOut(b) PROVE AccountTypeOK'
  BY <1>0, <1>7 DEF AnswerSignOut, Cleared, AccountTypeOK, AttemptRecord, limiter, database
<1>8. CASE TickAccounts
  <2>1. bucket' \in [Ips -> BucketType]
    <3>1. \A x \in BucketType : [x EXCEPT !.left = Later1(@)] \in BucketType
      BY DEF Later1, BucketType
    <3> QED BY <1>8, <3>1 DEF TickAccounts, AccountTypeOK, BucketType
  <2>2. admitted' \in [Ips -> [Ages -> [Kinds -> Nat]]]
    <3>1. \A a \in Ages : a # 0 => a - 1 \in Ages
      BY DEF Ages
    <3> QED BY <1>8, <3>1 DEF TickAccounts, AccountTypeOK
  <2> QED BY <1>8, <2>1, <2>2 DEF TickAccounts, AccountTypeOK, AttemptRecord, BucketType, database
<1>9. CASE EvictBuckets
  BY <1>9 DEF EvictBuckets, NoBucket, AccountTypeOK, AttemptRecord, database
<1>10. CASE RestartAccounts
  <2>1. bucket' \in [Ips -> BucketType] /\ admitted' \in [Ips -> [Ages -> [Kinds -> Nat]]]
    BY <1>10 DEF RestartAccounts, NoBucket, BucketType
  <2>2. interrupted' \subseteq Emails
    <3>1. \A b \in Browsers : attempt[b].pc = "session" => attempt[b].email \in Emails
      BY AttemptFields, AskingFields DEF NoAttempt
    <3> QED BY <1>10, <3>1 DEF RestartAccounts, AccountTypeOK
  <2>3. attempt' \in [Browsers -> AttemptRecord] /\ signout' \in [Browsers -> 0..Len(sessions)]
    BY <1>0, <1>10 DEF RestartAccounts, AttemptRecord
  <2> QED BY <1>10, <2>1, <2>2, <2>3 DEF RestartAccounts, AccountTypeOK, AttemptRecord, BucketType, database
<1>11. ASSUME NEW b \in Browsers, LoseAnswer(b) PROVE AccountTypeOK'
  <2>1. attempt' \in [Browsers -> AttemptRecord] /\ signout' \in [Browsers -> 0..Len(sessions)]
    <3>1. NoAttempt \in AttemptRecord /\ 0 \in 0..Len(sessions)
      BY <1>0 DEF AttemptRecord
    <3> QED BY <1>11, <3>1 DEF LoseAnswer, AccountTypeOK
  <2>2. AttemptRecord' = AttemptRecord
    BY <1>11 DEF LoseAnswer, database, AttemptRecord
  <2>3. accountFaults' \in 0..MaxAccountFaults
    BY <1>11 DEF LoseAnswer, AccountTypeOK
  <2> QED BY <1>11, <2>1, <2>2, <2>3 DEF LoseAnswer, AccountTypeOK, limiter, database
<1>12. CASE UNCHANGED accountVars
  BY <1>12 DEF accountVars, limiter, database, AccountTypeOK, AttemptRecord
<1> QED
  BY <1>1, <1>2, <1>3, <1>4, <1>5, <1>6, <1>7, <1>8, <1>9, <1>10, <1>11, <1>12
     DEF AccountNext, UseForm, ServeForm, DisturbAccounts, Kinds, NamesGiven

\* Every variable keeps its type: above all, every cookie and every answer under way
\* names a stored session, through restarts and lost answers.
THEOREM AccountTypeCorrect == AccountSpec => []AccountTypeOK
BY AccountTypeInit, AccountTypeStep, PTL DEF AccountSpec

-----------------------------------------------------------------------------
(* Accounts: every account has had a session.                              *)

LEMMA AccountsStep ==
    AccountTypeOK /\ AccountsComplete /\ [AccountNext]_accountVars => AccountsComplete'
<1> SUFFICES ASSUME AccountTypeOK, AccountsComplete, [AccountNext]_accountVars PROVE AccountsComplete'
  OBVIOUS
<1> DEFINE Served(a) == \/ a.email \in interrupted
                        \/ \E t \in 1..Len(sessions) : sessions[t].email = a.email
                        \/ attempt[a.by].pc = "session" /\ attempt[a.by].email = a.email
           Apart == \A a, c \in accounts : a.email = c.email => a = c
<1>0. /\ Len(sessions) \in Nat /\ Len(sessions)' \in Nat
      /\ DOMAIN sessions = 1..Len(sessions) /\ (DOMAIN sessions)' = 1..Len(sessions)'
      /\ \A a \in accounts : a.by \in Browsers
      /\ attempt \in [Browsers -> AttemptRecord]
  BY AccountTypeStep DEF AccountTypeOK
<1>1. (\A a \in accounts : Served(a)) /\ Apart
  BY <1>0 DEF AccountsComplete
<1>2. (\A a \in accounts' : Served(a)') /\ Apart' => AccountsComplete'
  BY <1>0 DEF AccountsComplete
<1>3. ASSUME accounts' = accounts, sessions' = sessions, interrupted' = interrupted,
             \A c \in Browsers : attempt[c].pc = "session" => attempt'[c] = attempt[c]
      PROVE  AccountsComplete'
  BY <1>0, <1>1, <1>2, <1>3
<1>4. ASSUME NEW b \in Browsers, CreateUser(b) PROVE AccountsComplete'
  <2>1. attempt[b].pc = "create" /\ sessions' = sessions /\ interrupted' = interrupted
    BY <1>4 DEF CreateUser
  <2>2. CASE attempt' = [attempt EXCEPT ![b] = NoAttempt] /\ accounts' = accounts
    BY <1>3, <2>1, <2>2
  <2>3. ASSUME NEW d \in Asking, NEW r \in AccountRow,
               attempt' = [attempt EXCEPT ![b] = d], d.pc = "session",
               accounts' = accounts \union {r}, r.by = b, r.email = d.email,
               \A a \in accounts : a.email # r.email
        PROVE  AccountsComplete'
    <3>1. \A a \in accounts : Served(a)'
      BY <1>0, <1>1, <2>1, <2>3
    <3>2. Served(r)'
      BY <1>0, <2>3
    <3>3. Apart'
      BY <1>1, <2>3
    <3> QED BY <1>2, <2>3, <3>1, <3>2, <3>3
  <2> QED BY <1>4, <2>2, <2>3, CreateStep
<1>5. ASSUME NEW b \in Browsers, CreateSession(b) PROVE AccountsComplete'
  <2>1. accounts' = accounts /\ interrupted' = interrupted
    BY <1>5 DEF CreateSession
  <2> DEFINE n == Len(sessions) + 1
  <2>3. /\ Len(sessions') = n /\ n \in 1..Len(sessions')
        /\ sessions'[n].email = attempt[b].email
        /\ \A t \in 1..Len(sessions) : t \in 1..Len(sessions') /\ sessions'[t] = sessions[t]
    <3>1. /\ Len(sessions') = n /\ sessions'[n].email = attempt[b].email
          /\ \A t \in 1..Len(sessions) : sessions'[t] = sessions[t]
      BY <1>5, SessionStep
    <3>2. n \in 1..n /\ 1..Len(sessions) \subseteq 1..n
      BY <1>0
    <3> HIDE DEF n
    <3> QED BY <3>1, <3>2
  <2> HIDE DEF n
  <2>2. ASSUME NEW a \in accounts PROVE Served(a)'
    <3>1. CASE a.by = b /\ attempt[b].email = a.email
      BY <2>3, <3>1
    <3>2. CASE ~(a.by = b /\ attempt[b].email = a.email)
      <4>1. attempt'[a.by] = attempt[a.by] \/ a.by = b
        BY <1>0, <1>5, SessionStep
      <4>2. CASE a.email \in interrupted
        BY <2>1, <4>2
      <4>3. CASE \E t \in 1..Len(sessions) : sessions[t].email = a.email
        BY <2>3, <4>3
      <4>4. CASE attempt[a.by].pc = "session" /\ attempt[a.by].email = a.email
        BY <3>2, <4>1, <4>4
      <4> QED BY <1>1, <4>2, <4>3, <4>4
    <3> QED BY <3>1, <3>2
  <2> QED BY <1>1, <1>2, <2>1, <2>2
<1>6. ASSUME NEW b \in Browsers, SignOut(b) PROVE AccountsComplete'
  <2>1. accounts' = accounts /\ interrupted' = interrupted /\ attempt' = attempt
    BY <1>6 DEF SignOut
  <2>2. /\ Len(sessions') = Len(sessions)
        /\ \A t \in 1..Len(sessions) : sessions'[t].email = sessions[t].email
    BY <1>6, SignOutStep
  <2>3. \A a \in accounts : Served(a)'
    BY <1>1, <2>1, <2>2
  <2> QED BY <1>1, <1>2, <2>1, <2>3
<1>7. CASE RestartAccounts
  <2>1. /\ accounts' = accounts /\ sessions' = sessions /\ interrupted \subseteq interrupted'
        /\ \A b \in Browsers : attempt[b].pc = "session" => attempt[b].email \in interrupted'
    BY <1>7 DEF RestartAccounts, database
  <2> QED BY <1>0, <1>1, <1>2, <2>1
<1>8. ASSUME NEW b \in Browsers, NEW kind \in Kinds, NEW e \in Emails, NEW name \in NamesGiven,
             NEW ok \in BOOLEAN, Attempt(b, kind, e, name, ok)
      PROVE  AccountsComplete'
  BY <1>0, <1>3, <1>8 DEF Attempt, database
<1>9. ASSUME NEW b \in Browsers, FindUser(b) \/ AnswerAttempt(b) \/ AnswerSignOut(b) \/ LoseAnswer(b)
      PROVE  AccountsComplete'
  BY <1>0, <1>3, <1>9 DEF FindUser, AnswerAttempt, AnswerSignOut, LoseAnswer, database
<1>10. CASE TickAccounts \/ EvictBuckets \/ UNCHANGED accountVars
  BY <1>3, <1>10 DEF TickAccounts, EvictBuckets, accountVars, database
<1> QED
  BY <1>4, <1>5, <1>6, <1>7, <1>8, <1>9, <1>10
     DEF AccountNext, UseForm, ServeForm, DisturbAccounts, Kinds, NamesGiven

\* However registrations race and restarts cut them short, an email belongs to one
\* account, and an account without a session is getting it or was interrupted.
THEOREM AccountsCompleteAlways == AccountSpec => []AccountsComplete
<1>1. AccountInit => AccountsComplete
  BY DEF AccountInit, AccountsComplete
<1> QED BY <1>1, AccountTypeInit, AccountTypeStep, AccountsStep, PTL DEF AccountSpec

-----------------------------------------------------------------------------
(* Accounts: a cookie stands for a session that is not revoked.            *)

\* A token belongs to one browser, as its cookie or in the answer on its way, and one
\* in an answer is not revoked.
OneHolder ==
    /\ \A b, c \in Browsers : cookie[b] = cookie[c] /\ cookie[b] # 0 => b = c
    /\ \A b, c \in Browsers : attempt[b].pc = "answer" => cookie[c] # attempt[b].token
    /\ \A b, c \in Browsers :
         attempt[b].pc = "answer" /\ attempt[c].pc = "answer" /\ attempt[b].token = attempt[c].token
           => b = c
    /\ \A b \in Browsers : attempt[b].pc = "answer" => ~sessions[attempt[b].token].revoked

CookieInv == OneHolder /\ CookiesBacked

LEMMA CookieStep == AccountTypeOK /\ CookieInv /\ [AccountNext]_accountVars => CookieInv'
<1> SUFFICES ASSUME AccountTypeOK, CookieInv, [AccountNext]_accountVars PROVE CookieInv'
  OBVIOUS
<1> DEFINE Answering(b) == attempt[b].pc = "answer"
           Token(b) == attempt[b].token
<1>0. /\ Len(sessions) \in Nat /\ cookie \in [Browsers -> 0..Len(sessions)]
      /\ signout \in [Browsers -> 0..Len(sessions)] /\ attempt \in [Browsers -> AttemptRecord]
      /\ \A b \in Browsers : Answering(b) => Token(b) \in 1..Len(sessions)
  <2>1. \A b \in Browsers : Answering(b) => Token(b) \in 1..Len(sessions)
    BY AttemptFields DEF NoAttempt
  <2> QED BY <2>1 DEF AccountTypeOK
<1>1. ASSUME cookie' = cookie, sessions' = sessions, unanswered \subseteq unanswered',
             \A b \in Browsers : \/ attempt'[b] = attempt[b] \/ attempt'[b].pc # "answer",
             \A b \in Browsers \ unanswered' : signout'[b] = signout[b]
      PROVE  CookieInv'
  <2>1. OneHolder'
    BY <1>1 DEF CookieInv, OneHolder
  <2>2. CookiesBacked'
    BY <1>1 DEF CookieInv, CookiesBacked, Valid
  <2> QED BY <2>1, <2>2 DEF CookieInv
<1>2. ASSUME NEW b \in Browsers, CreateSession(b) PROVE CookieInv'
  <2>1. /\ cookie' = cookie /\ signout' = signout /\ unanswered' = unanswered
        /\ attempt'[b].pc = "answer" /\ attempt'[b].token = Len(sessions) + 1
        /\ \A c \in Browsers \ {b} : attempt'[c] = attempt[c]
    BY <1>0, <1>2, SessionStep DEF CreateSession
  <2>2. /\ ~sessions'[Len(sessions) + 1].revoked
        /\ \A t \in 1..Len(sessions) : sessions'[t] = sessions[t]
    BY <1>2, SessionStep
  <2>3. OneHolder'
    <3>1. \A c \in Browsers : cookie[c] # Len(sessions) + 1
      BY <1>0
    <3>2. \A c \in Browsers : Answering(c) => /\ Token(c) # Len(sessions) + 1
                                             /\ sessions'[Token(c)] = sessions[Token(c)]
      BY <1>0, <2>2
    <3> QED BY <2>1, <2>2, <3>1, <3>2 DEF CookieInv, OneHolder
  <2>4. CookiesBacked'
    BY <1>0, <2>1, <2>2 DEF CookieInv, CookiesBacked, Valid
  <2> QED BY <2>3, <2>4 DEF CookieInv
<1>3. ASSUME NEW b \in Browsers, AnswerAttempt(b) PROVE CookieInv'
  <2>1. /\ sessions' = sessions /\ signout' = signout /\ unanswered' = unanswered
        /\ Answering(b) /\ cookie'[b] = Token(b) /\ attempt'[b].pc = "none"
        /\ \A c \in Browsers \ {b} : attempt'[c] = attempt[c] /\ cookie'[c] = cookie[c]
    BY <1>0, <1>3 DEF AnswerAttempt, NoAttempt, database
  <2>2. OneHolder'
    <3>1. \A c \in Browsers : attempt'[c].pc = "answer" => c # b /\ attempt'[c] = attempt[c]
      BY <2>1
    <3> QED BY <2>1, <3>1 DEF CookieInv, OneHolder
  <2>3. CookiesBacked'
    BY <1>0, <2>1 DEF CookieInv, OneHolder, CookiesBacked, Valid
  <2> QED BY <2>2, <2>3 DEF CookieInv
<1>4. ASSUME NEW b \in Browsers, SignOut(b) PROVE CookieInv'
  <2>1. /\ cookie' = cookie /\ attempt' = attempt /\ unanswered' = unanswered
        /\ cookie[b] # 0 /\ signout'[b] # 0
        /\ \A c \in Browsers \ {b} : signout'[c] = signout[c]
    BY <1>0, <1>4 DEF SignOut
  <2>2. \A t \in 1..Len(sessions) : t # cookie[b] => sessions'[t] = sessions[t]
    BY <1>4, SignOutStep
  <2>3. OneHolder'
    BY <1>0, <2>1, <2>2 DEF CookieInv, OneHolder
  <2>4. CookiesBacked'
    BY <1>0, <2>1, <2>2 DEF CookieInv, OneHolder, CookiesBacked, Valid
  <2> QED BY <2>3, <2>4 DEF CookieInv
<1>5. ASSUME NEW b \in Browsers, AnswerSignOut(b) PROVE CookieInv'
  <2>1. /\ sessions' = sessions /\ attempt' = attempt /\ unanswered' = unanswered
        /\ cookie'[b] = 0
        /\ \A c \in Browsers \ {b} : signout'[c] = signout[c] /\ cookie'[c] = cookie[c]
    BY <1>0, <1>5 DEF AnswerSignOut, Cleared, database
  <2>2. OneHolder'
    BY <1>0, <2>1 DEF CookieInv, OneHolder
  <2>3. CookiesBacked'
    BY <1>0, <2>1 DEF CookieInv, CookiesBacked, Valid
  <2> QED BY <2>2, <2>3 DEF CookieInv
<1>6. CASE RestartAccounts
  BY <1>0, <1>1, <1>6 DEF RestartAccounts, NoAttempt, database
<1>7. ASSUME NEW b \in Browsers, LoseAnswer(b) PROVE CookieInv'
  BY <1>0, <1>1, <1>7 DEF LoseAnswer, NoAttempt, database
<1>8. ASSUME NEW b \in Browsers, NEW kind \in Kinds, NEW e \in Emails, NEW name \in NamesGiven,
             NEW ok \in BOOLEAN, Attempt(b, kind, e, name, ok)
      PROVE  CookieInv'
  BY <1>0, <1>1, <1>8 DEF Attempt, database
<1>9. ASSUME NEW b \in Browsers, FindUser(b) \/ CreateUser(b) PROVE CookieInv'
  <2>1. PICK d \in Asking \union {NoAttempt} : attempt' = [attempt EXCEPT ![b] = d]
    BY <1>9, FindStep, CreateStep
  <2>2. d.pc # "answer"
    BY DEF Asking, NoAttempt
  <2> QED BY <1>0, <1>1, <1>9, <2>1, <2>2 DEF FindUser, CreateUser, database
<1>10. CASE TickAccounts \/ EvictBuckets \/ UNCHANGED accountVars
  BY <1>1, <1>10 DEF TickAccounts, EvictBuckets, accountVars, database
<1> QED
  BY <1>2, <1>3, <1>4, <1>5, <1>6, <1>7, <1>8, <1>9, <1>10
     DEF AccountNext, UseForm, ServeForm, DisturbAccounts, Kinds, NamesGiven

\* A browser that missed no answer keeps a revoked cookie only while its own sign-out
\* is under way, for any number of browsers that sign in and out at the same time.
THEOREM CookiesBackedAlways == AccountSpec => []CookiesBacked
<1>1. AccountInit => CookieInv
  BY DEF AccountInit, CookieInv, OneHolder, CookiesBacked, NoAttempt, Valid
<1>2. CookieInv => CookiesBacked
  BY DEF CookieInv
<1> QED BY <1>1, <1>2, AccountTypeInit, AccountTypeStep, CookieStep, PTL DEF AccountSpec

-----------------------------------------------------------------------------
(* Accounts: what passes the limiter in a stretch as long as the window.   *)

\* The ages of what arrived since the window with n left was opened.
Current(n) == {a \in Ages : a + n <= RateWindow}

\* Of the requests w that passed, by age, no more than the limit are of the running
\* window, and no more than the limit are older; the bucket counts those of a window
\* that is still open.
Bounded(w, b, limit) ==
    /\ w \in [Ages -> Nat]
    /\ SumFunctionOnSet(w, Current(b.left)) <= limit
    /\ SumFunctionOnSet(w, Ages \ Current(b.left)) <= limit
    /\ IF b.left < 0 THEN w[0] = 0 ELSE SumFunctionOnSet(w, Current(b.left)) <= b.count

\* One unit of time later.
Older(w, v) ==
    /\ w \in [Ages -> Nat] /\ v \in [Ages -> Nat]
    /\ v[0] = 0 /\ \A a \in Ages : a # 0 => v[a] = w[a - 1]

LEMMA AgesFinite ==
    /\ IsFiniteSet(Ages) /\ 0 \in Ages /\ Ages \subseteq Nat
    /\ \A n : Current(n) \in SUBSET Ages /\ IsFiniteSet(Current(n)) /\ IsFiniteSet(Ages \ Current(n))
<1>1. IsFiniteSet(Ages) /\ 0 \in Ages /\ Ages \subseteq Nat
  BY AccountsAssumption, FS_Interval DEF AccountsAssumption, Ages
<1>2. \A n : Current(n) \in SUBSET Ages
  BY DEF Current
<1> QED BY <1>1, <1>2, FS_Subset

LEMMA OlderSum ==
    ASSUME NEW w, NEW v, Older(w, v), NEW S \in SUBSET Ages, NEW T \in SUBSET Ages,
           \A y \in T : y # 0 => y - 1 \in S
    PROVE  SumFunctionOnSet(v, T) <= SumFunctionOnSet(w, S)
<1>1. PICK A : A = {a \in S : a + 1 \in T}
  OBVIOUS
<1>2. PICK p : p = [a \in Ages |-> a + 1]
  OBVIOUS
<1>3. IsFiniteSet(A) /\ IsFiniteSet(T) /\ IsFiniteSet(S) /\ A \in SUBSET S /\ Ages \subseteq Nat
  BY <1>1, AgesFinite, FS_Subset
<1>4. IsMoved(w, A, v, T, p)
  <2>1. \A x \in A : p[x] = x + 1 /\ x + 1 \in T /\ x \in Ages /\ x \in Nat
    BY <1>1, <1>2, <1>3
  <2>2. \A x \in A : p[x] \in T /\ w[x] \in Int /\ v[p[x]] = w[x]
    <3> SUFFICES ASSUME NEW x \in A PROVE p[x] \in T /\ w[x] \in Int /\ v[p[x]] = w[x]
      OBVIOUS
    <3>1. x + 1 \in Ages /\ x + 1 # 0 /\ (x + 1) - 1 = x
      BY <2>1
    <3>2. v[x + 1] = w[x]
      BY <3>1 DEF Older
    <3> QED BY <2>1, <3>2 DEF Older
  <2>3. \A x, y \in A : p[x] = p[y] => x = y
    BY <2>1
  <2>4. \A y \in T : (\A x \in A : p[x] # y) => v[y] = 0
    <3> SUFFICES ASSUME NEW y \in T, \A x \in A : p[x] # y PROVE v[y] = 0
      OBVIOUS
    <3>1. y = 0
      <4> SUFFICES ASSUME y # 0 PROVE FALSE
        OBVIOUS
      <4>1. y \in Nat /\ y - 1 \in S /\ (y - 1) + 1 = y
        BY <1>3
      <4>2. y - 1 \in A
        BY <1>1, <4>1
      <4> QED BY <2>1, <4>1, <4>2
    <3> QED BY <3>1 DEF Older
  <2> QED BY <2>2, <2>3, <2>4 DEF IsMoved
<1>5. SumFunctionOnSet(v, T) = SumFunctionOnSet(w, A)
  BY <1>3, <1>4, SumMoved
<1>6. SumFunctionOnSet(w, A) <= SumFunctionOnSet(w, S)
  <2>1. \A x \in S : w[x] \in Nat
    BY DEF Older
  <2> QED BY <1>3, <2>1, SumOfPart
<1> QED BY <1>5, <1>6

\* A bound holds on a stretch as long as the window.
LEMMA BoundedInAll ==
    ASSUME NEW w, NEW b, NEW limit \in Nat, Bounded(w, b, limit)
    PROVE  SumFunctionOnSet(w, Ages) <= 2 * limit
<1>1. \A a \in Ages : w[a] \in Nat /\ w[a] \in Int
  BY DEF Bounded
<1>2. PICK A : A = Current(b.left)
  OBVIOUS
<1>3. A \in SUBSET Ages /\ Ages \ A \in SUBSET Ages /\ IsFiniteSet(Ages)
  BY <1>2, AgesFinite
<1>4. SumFunctionOnSet(w, Ages) = SumFunctionOnSet(w, A) + SumFunctionOnSet(w, Ages \ A)
  BY <1>1, <1>3, SumSplit
<1>5. SumFunctionOnSet(w, A) \in Int /\ SumFunctionOnSet(w, Ages \ A) \in Int
  BY <1>1, <1>3, SumIsInt
<1> QED BY <1>2, <1>4, <1>5 DEF Bounded

LEMMA TickBounded ==
    ASSUME NEW w, NEW v, Older(w, v), NEW b \in BucketType, NEW limit \in Nat, Bounded(w, b, limit)
    PROVE  Bounded(v, [b EXCEPT !.left = Later1(@)], limit)
<1>1. PICK n : n = b.left
  OBVIOUS
<1>2. PICK m : m = Later1(n)
  OBVIOUS
<1>3. PICK c : c = [b EXCEPT !.left = Later1(@)]
  OBVIOUS
<1>4. c.left = m /\ c.count = b.count /\ b.count \in Nat
  BY <1>1, <1>2, <1>3 DEF BucketType
<1>5. n \in -1..RateWindow /\ m \in -1..RateWindow /\ RateWindow \in Nat /\ Ages = 0..RateWindow
  BY <1>1, <1>2, AccountsAssumption DEF BucketType, Later1, AccountsAssumption, Ages
<1>6. m = n - 1 \/ (m = n /\ n = -1)
  BY <1>2, <1>5 DEF Later1
<1>7. SumFunctionOnSet(v, Current(m)) <= SumFunctionOnSet(w, Current(n))
  <2>1. \A y \in Current(m) : y # 0 => y - 1 \in Current(n)
    BY <1>5, <1>6 DEF Current
  <2> QED BY <2>1, AgesFinite, OlderSum
<1>8. SumFunctionOnSet(v, Ages \ Current(m)) <= SumFunctionOnSet(w, Ages \ Current(n))
  <2>1. \A y \in Ages \ Current(m) : y # 0 => y - 1 \in Ages \ Current(n)
    BY <1>5, <1>6 DEF Current
  <2> QED BY <2>1, AgesFinite, OlderSum
<1>9. /\ SumFunctionOnSet(v, Current(m)) \in Int /\ SumFunctionOnSet(w, Current(n)) \in Int
      /\ SumFunctionOnSet(v, Ages \ Current(m)) \in Int /\ SumFunctionOnSet(w, Ages \ Current(n)) \in Int
  <2>1. \A a \in Ages : w[a] \in Int /\ v[a] \in Int
    BY DEF Older
  <2>2. Ages \ Current(m) \in SUBSET Ages /\ Ages \ Current(n) \in SUBSET Ages
    OBVIOUS
  <2> QED BY <2>1, <2>2, AgesFinite, SumIsInt
<1>10. m >= 0 => n >= 0
  BY <1>5, <1>6
<1>11. /\ SumFunctionOnSet(w, Current(n)) <= limit /\ SumFunctionOnSet(w, Ages \ Current(n)) <= limit
       /\ n >= 0 => SumFunctionOnSet(w, Current(n)) <= b.count
  BY <1>1, <1>5 DEF Bounded
<1>12. /\ SumFunctionOnSet(v, Current(m)) <= limit /\ SumFunctionOnSet(v, Ages \ Current(m)) <= limit
       /\ m >= 0 => SumFunctionOnSet(v, Current(m)) <= b.count
  BY <1>4, <1>5, <1>7, <1>8, <1>9, <1>10, <1>11
<1>13. v \in [Ages -> Nat] /\ v[0] = 0
  BY DEF Older
<1>14. Bounded(v, c, limit)
  BY <1>4, <1>5, <1>12, <1>13 DEF Bounded
<1> QED BY <1>3, <1>14

LEMMA CountedBounded ==
    ASSUME NEW w, NEW b \in BucketType, NEW limit \in 1..RateMaxLogin, Bounded(w, b, limit),
           NEW d \in {0, 1}, d = 1 => Counted(b).count <= limit
    PROVE  Bounded([w EXCEPT ![0] = @ + d], Counted(b), limit)
<1>1. PICK v : v = [w EXCEPT ![0] = @ + d]
  OBVIOUS
<1>2. PICK c : c = Counted(b)
  OBVIOUS
<1>3. /\ v \in [Ages -> Nat] /\ v[0] = w[0] + d /\ w \in [Ages -> Nat] /\ w[0] \in Nat
      /\ \A a \in Ages : a # 0 => v[a] = w[a]
  BY <1>1, AgesFinite DEF Bounded
<1>4. PICK n : n = b.left
  OBVIOUS
<1>5. /\ n \in -1..RateWindow /\ b.count \in Nat /\ b.count <= RateMaxLogin + 1 /\ Ages = 0..RateWindow
      /\ RateWindow \in Nat /\ RateMaxLogin \in Nat
  BY <1>4, AccountsAssumption DEF AccountsAssumption, BucketType, Ages
<1>6. \A a \in Ages : w[a] \in Nat /\ w[a] \in Int /\ v[a] \in Nat /\ v[a] \in Int
  BY <1>3
<1>7. CASE n < 0
  <2>1. c.count = 1 /\ c.left = RateWindow
    BY <1>2, <1>4, <1>7 DEF Counted
  <2>2. Current(RateWindow) = {0} /\ Current(n) = Ages
    BY <1>5, <1>7 DEF Current
  <2>3. w[0] = 0
    BY <1>4, <1>7 DEF Bounded
  <2>4. SumFunctionOnSet(v, {0}) = d
    <3>1. IsFiniteSet({0})
      BY FS_Singleton
    <3>2. SumFunctionOnSet(v, {0}) = v[0] + SumFunctionOnSet(v, {0} \ {0})
      <4>1. \A a \in {0} : v[a] \in Int
        BY <1>3
      <4>2. PICK x : x = 0
        OBVIOUS
      <4> QED BY <3>1, <4>1, <4>2, SumTakeOut
    <3>3. {0} \ {0} = {}
      OBVIOUS
    <3>4. SumFunctionOnSet(v, {0} \ {0}) = 0
      BY <3>3, SumOfEmpty
    <3>5. v[0] = d /\ d \in Int
      BY <1>3, <2>3
    <3> QED BY <3>2, <3>4, <3>5
  <2>5. SumFunctionOnSet(v, Ages \ {0}) = SumFunctionOnSet(w, Ages \ {0})
    <3>1. IsFiniteSet(Ages \ {0})
      BY AgesFinite, FS_Subset
    <3> QED BY <1>3, <3>1, SumSame
  <2>6. SumFunctionOnSet(w, Ages \ {0}) <= SumFunctionOnSet(w, Ages)
    BY <1>6, AgesFinite, SumOfPart
  <2>7. SumFunctionOnSet(w, Ages) <= limit
    BY <1>4, <2>2 DEF Bounded
  <2>8. SumFunctionOnSet(w, Ages) \in Int /\ SumFunctionOnSet(w, Ages \ {0}) \in Int
    <3>1. Ages \in SUBSET Ages /\ Ages \ {0} \in SUBSET Ages
      OBVIOUS
    <3> QED BY <1>6, <3>1, AgesFinite, SumIsInt
  <2>9. SumFunctionOnSet(v, {0}) <= limit /\ SumFunctionOnSet(v, {0}) <= 1 /\ SumFunctionOnSet(v, Ages \ {0}) <= limit
    BY <2>4, <2>5, <2>6, <2>7, <2>8
  <2>10. Current(c.left) = {0} /\ ~(c.left < 0)
    BY <1>5, <2>1, <2>2
  <2>11. Bounded(v, c, limit)
    BY <1>3, <2>1, <2>9, <2>10 DEF Bounded
  <2> QED BY <1>1, <1>2, <2>11
<1>8. CASE n >= 0
  <2>1. c.left = n /\ c.count = Saturated(b.count + 1)
    BY <1>2, <1>4, <1>5, <1>8 DEF Counted, BucketType
  <2>2. PICK A : A = Current(n)
    OBVIOUS
  <2>3. A \in SUBSET Ages /\ IsFiniteSet(A) /\ 0 \in A /\ IsFiniteSet(Ages \ A)
    <3>1. 0 \in Current(n)
      BY <1>5, <1>8 DEF Current
    <3> QED BY <2>2, <3>1, AgesFinite
  <2>4. SumFunctionOnSet(v, A) = SumFunctionOnSet(w, A) + d
    <3>1. PICK x \in A : x = 0
      BY <2>3
    <3>2. \A y \in A : w[y] \in Int /\ v[y] \in Int
      BY <1>6, <2>3
    <3>3. \A y \in A \ {x} : w[y] = v[y]
      BY <1>3, <2>3, <3>1
    <3>4. /\ IsFiniteSet(A) /\ x \in A /\ (\A y \in A : w[y] \in Int /\ v[y] \in Int)
          /\ \A y \in A \ {x} : w[y] = v[y]
      BY <2>3, <3>1, <3>2, <3>3
    <3>5. SumFunctionOnSet(v, A) = SumFunctionOnSet(w, A) + (v[x] - w[x])
      BY <3>4, SumChanged
    <3> QED BY <1>3, <3>1, <3>5
  <2>5. SumFunctionOnSet(v, Ages \ A) = SumFunctionOnSet(w, Ages \ A)
    BY <1>3, <2>3, SumSame
  <2>6. SumFunctionOnSet(w, A) \in Int
    BY <1>6, <2>3, AgesFinite, SumIsInt
  <2>7. SumFunctionOnSet(w, A) <= limit /\ SumFunctionOnSet(w, Ages \ A) <= limit /\ SumFunctionOnSet(w, A) <= b.count
    BY <1>4, <1>5, <1>8, <2>2 DEF Bounded
  <2>8. SumFunctionOnSet(w, A) + d <= c.count /\ SumFunctionOnSet(w, A) + d <= limit
    BY <1>2, <1>5, <2>1, <2>6, <2>7 DEF Saturated
  <2>9. Bounded(v, c, limit)
    BY <1>3, <1>5, <1>8, <2>1, <2>2, <2>4, <2>5, <2>7, <2>8 DEF Bounded
  <2> QED BY <1>1, <1>2, <2>9
<1> QED BY <1>5, <1>7, <1>8


\* The requests of some kinds that passed at an address, by age.
PassedOf(ip, kinds) == [a \in Ages |-> SumFunctionOnSet(admitted[ip][a], kinds)]

BoundedAt(ip) ==
    /\ Bounded(PassedOf(ip, {"register"}), bucket[ip], RateMaxRegister)
    /\ Bounded(PassedOf(ip, Kinds), bucket[ip], RateMaxLogin)

BurstInv == \A ip \in Ips : BoundedAt(ip)

LEMMA KindsFinite == IsFiniteSet(Kinds)
<1>1. IsFiniteSet({"register"})
  BY FS_Singleton
<1>2. IsFiniteSet({"register"} \union {"login"})
  BY <1>1, FS_AddElement
<1>3. IsFiniteSet(({"register"} \union {"login"}) \union {"dev"})
  BY <1>2, FS_AddElement
<1>4. ({"register"} \union {"login"}) \union {"dev"} = Kinds
  BY DEF Kinds
<1> QED BY <1>3, <1>4

LEMMA LimitsAre ==
    /\ RateMaxRegister \in 1..RateMaxLogin /\ RateMaxLogin \in 1..RateMaxLogin
    /\ RateMaxRegister \in Nat /\ RateMaxLogin \in Nat
BY AccountsAssumption DEF AccountsAssumption

LEMMA PassedType ==
    ASSUME AccountTypeOK, NEW ip \in Ips, NEW K \in SUBSET Kinds
    PROVE  /\ PassedOf(ip, K) \in [Ages -> Nat]
           /\ \A a \in Ages : PassedOf(ip, K)[a] = SumFunctionOnSet(admitted[ip][a], K)
<1>1. \A a \in Ages : SumFunctionOnSet(admitted[ip][a], K) \in Nat
  <2> SUFFICES ASSUME NEW a \in Ages PROVE SumFunctionOnSet(admitted[ip][a], K) \in Nat
    OBVIOUS
  <2>1. \A k \in Kinds : admitted[ip][a][k] \in Nat
    BY DEF AccountTypeOK
  <2> QED BY <2>1, KindsFinite, SumOfPart
<1> QED BY <1>1 DEF PassedOf

\* Nothing has passed, and nothing is counted.
NothingPassed ==
    \A ip \in Ips : /\ bucket[ip] = NoBucket
                    /\ admitted[ip] = [a \in Ages |-> [kind \in Kinds |-> 0]]

LEMMA NothingBounded ==
    ASSUME NEW ip \in Ips, AccountTypeOK, bucket[ip] = NoBucket,
           admitted[ip] = [a \in Ages |-> [kind \in Kinds |-> 0]]
    PROVE  BoundedAt(ip)
<1> SUFFICES ASSUME NEW K \in SUBSET Kinds, NEW limit \in Nat
             PROVE  Bounded(PassedOf(ip, K), NoBucket, limit)
  BY LimitsAre DEF BoundedAt, Kinds
<1>1. PICK w \in [Ages -> Nat] : w = PassedOf(ip, K)
  BY PassedType
<1>2. \A a \in Ages : w[a] = 0
  <2> SUFFICES ASSUME NEW a \in Ages PROVE w[a] = 0
    OBVIOUS
  <2>1. \A k \in K : admitted[ip][a][k] = 0
    OBVIOUS
  <2>2. IsFiniteSet(K) /\ Cardinality(K) \in Nat
    BY KindsFinite, FS_Subset, FS_CardinalityType
  <2>3. PICK z \in Int : z = 0
    OBVIOUS
  <2>4. SumFunctionOnSet(admitted[ip][a], K) = z * Cardinality(K)
    BY <2>1, <2>2, <2>3, SumConstant
  <2> QED BY <1>1, <2>2, <2>3, <2>4, PassedType
<1>3. \A S \in SUBSET Ages : SumFunctionOnSet(w, S) = 0
  <2> SUFFICES ASSUME NEW S \in SUBSET Ages PROVE SumFunctionOnSet(w, S) = 0
    OBVIOUS
  <2>1. IsFiniteSet(S) /\ Cardinality(S) \in Nat
    BY AgesFinite, FS_Subset, FS_CardinalityType
  <2>2. PICK z \in Int : z = 0
    OBVIOUS
  <2>3. \A a \in S : w[a] = z
    BY <1>2, <2>2
  <2>4. SumFunctionOnSet(w, S) = z * Cardinality(S)
    BY <2>1, <2>3, SumConstant
  <2> QED BY <2>1, <2>2, <2>4
<1>4. Current(NoBucket.left) \in SUBSET Ages /\ Ages \ Current(NoBucket.left) \in SUBSET Ages
  BY AgesFinite
<1>5. Bounded(w, NoBucket, limit)
  BY <1>1, <1>2, <1>3, <1>4, AgesFinite DEF Bounded, NoBucket
<1> QED BY <1>1, <1>5

LEMMA NothingStays == AccountTypeOK /\ NothingPassed => BurstInv
BY NothingBounded DEF NothingPassed, BurstInv

\* One more request of a kind has passed, or none.
LEMMA NotedPassed ==
    ASSUME AccountTypeOK, NEW ip \in Ips, NEW kind \in Kinds, NEW K \in SUBSET Kinds,
           admitted' = Noted(ip, kind)
    PROVE  PassedOf(ip, K)' = [PassedOf(ip, K) EXCEPT ![0] = @ + IF kind \in K THEN 1 ELSE 0]
<1>1. PICK f \in [Kinds -> Nat] : f = admitted[ip][0]
  BY AgesFinite DEF AccountTypeOK
<1>2. PICK g \in [Kinds -> Nat] : g = [f EXCEPT ![kind] = @ + 1]
  <2>1. f[kind] + 1 \in Nat
    OBVIOUS
  <2>2. [f EXCEPT ![kind] = f[kind] + 1] \in [Kinds -> Nat]
    BY <2>1
  <2> QED BY <2>2
<1>3. /\ admitted'[ip][0] = g
      /\ \A a \in Ages : a # 0 => admitted'[ip][a] = admitted[ip][a]
  BY <1>1, <1>2, AgesFinite DEF Noted, AccountTypeOK
<1>4. IsFiniteSet(K) /\ \A k \in K : f[k] \in Int /\ g[k] \in Int
  BY KindsFinite, FS_Subset
<1>5. SumFunctionOnSet(g, K) = SumFunctionOnSet(f, K) + IF kind \in K THEN 1 ELSE 0
  <2>1. CASE kind \in K
    <3>1. \A k \in K \ {kind} : f[k] = g[k]
      BY <1>2
    <3>2. SumFunctionOnSet(g, K) = SumFunctionOnSet(f, K) + (g[kind] - f[kind])
      BY <1>4, <2>1, <3>1, SumChanged
    <3>3. g[kind] = f[kind] + 1 /\ f[kind] \in Nat
      BY <1>2
    <3> QED BY <2>1, <3>2, <3>3
  <2>2. CASE kind \notin K
    <3>1. \A k \in K : f[k] = g[k]
      BY <1>2, <2>2
    <3>2. SumFunctionOnSet(g, K) = SumFunctionOnSet(f, K)
      BY <1>4, <3>1, SumSame
    <3>3. SumFunctionOnSet(f, K) \in Int
      BY <1>4, SumIsInt
    <3> QED BY <2>2, <3>2, <3>3
  <2> QED BY <2>1, <2>2
<1>6. PICK w \in [Ages -> Nat] : w = PassedOf(ip, K)
  BY PassedType
<1>7. w[0] = SumFunctionOnSet(f, K) /\ \A a \in Ages : w[a] = SumFunctionOnSet(admitted[ip][a], K)
  BY <1>1, <1>6, AgesFinite, PassedType
<1>8. PassedOf(ip, K)' = [a \in Ages |-> SumFunctionOnSet(admitted'[ip][a], K)]
  BY DEF PassedOf, Ages
<1>9. PICK v : v = [a \in Ages |-> SumFunctionOnSet(admitted'[ip][a], K)]
  OBVIOUS
<1>10. PICK d \in Int : d = IF kind \in K THEN 1 ELSE 0
  <2>1. CASE kind \in K
    BY <2>1
  <2>2. CASE kind \notin K
    BY <2>2
  <2> QED BY <2>1, <2>2
<1>11. v[0] = w[0] + d /\ \A a \in Ages : a # 0 => v[a] = w[a]
  BY <1>3, <1>5, <1>7, <1>9, <1>10, AgesFinite
<1>12. v = [w EXCEPT ![0] = @ + d]
  BY <1>9, <1>11
<1> QED BY <1>6, <1>8, <1>9, <1>10, <1>12


\* An attempt that is counted, and let pass or not.
LEMMA AttemptBurst ==
    ASSUME AccountTypeOK, BurstInv, NEW b \in Browsers, NEW kind \in Kinds, NEW e \in Emails,
           NEW name \in NamesGiven, NEW ok \in BOOLEAN, Attempt(b, kind, e, name, ok)
    PROVE  BurstInv'
<1>1. PICK ip \in Ips : ip = IpOf[b]
  BY AccountsAssumption DEF AccountsAssumption
<1>2. /\ \A i \in Ips : i # ip => bucket'[i] = bucket[i] /\ admitted'[i] = admitted[i]
      /\ kind = "dev" => bucket' = bucket /\ admitted' = admitted
      /\ kind # "dev" => bucket'[ip] = Counted(bucket[ip])
      /\ kind # "dev" => IF Admits(bucket[ip], kind) THEN admitted' = Noted(ip, kind) ELSE admitted' = admitted
  BY <1>1 DEF Attempt, AccountTypeOK, Noted
<1>3. \A i \in Ips : bucket'[i] = bucket[i] /\ admitted'[i] = admitted[i] => BoundedAt(i)'
  <2> SUFFICES ASSUME NEW i \in Ips, bucket'[i] = bucket[i], admitted'[i] = admitted[i] PROVE BoundedAt(i)'
    OBVIOUS
  <2>1. BoundedAt(i)
    BY DEF BurstInv
  <2>2. \A K : PassedOf(i, K)' = PassedOf(i, K)
    BY DEF PassedOf, Ages
  <2> QED BY <2>1, <2>2 DEF BoundedAt, Bounded, Current, Ages, Kinds
<1>4. CASE kind = "dev"
  BY <1>2, <1>3, <1>4 DEF BurstInv
<1>5. CASE kind # "dev"
  <2> SUFFICES BoundedAt(ip)'
    BY <1>2, <1>3, <1>5 DEF BurstInv
  <2>1. PICK c : c = bucket[ip]
    OBVIOUS
  <2>2. c \in BucketType /\ bucket'[ip] = Counted(c)
    BY <1>2, <1>5, <2>1 DEF AccountTypeOK, BucketType
  <2>3. ASSUME NEW K \in SUBSET Kinds, NEW limit \in 1..RateMaxLogin, Bounded(PassedOf(ip, K), c, limit),
               kind \in K => Limit(kind) <= limit
        PROVE  Bounded(PassedOf(ip, K)', Counted(c), limit)
    <3>1. CASE Admits(c, kind)
      <4>1. PICK d \in {0, 1} : d = IF kind \in K THEN 1 ELSE 0
        OBVIOUS
      <4>2. d = 1 => Counted(c).count <= limit
        <5>1. Counted(c).count <= Limit(kind)
          BY <3>1 DEF Admits
        <5>2. Counted(c).count \in Int /\ Limit(kind) \in Int
          BY <2>2, LimitsAre DEF Counted, Saturated, BucketType, Limit
        <5> QED BY <2>3, <4>1, <5>1, <5>2
      <4>3. PassedOf(ip, K)' = [PassedOf(ip, K) EXCEPT ![0] = @ + d]
        <5>1. admitted' = Noted(ip, kind)
          BY <1>2, <1>5, <2>1, <3>1
        <5> QED BY <4>1, <5>1, NotedPassed
      <4>4. PICK w \in [Ages -> Nat] : w = PassedOf(ip, K)
        BY PassedType
      <4>5. Bounded(w, c, limit) /\ c \in BucketType
        BY <2>2, <2>3, <4>4
      <4>6. Bounded([w EXCEPT ![0] = @ + d], Counted(c), limit)
        BY <4>2, <4>5, CountedBounded
      <4> QED BY <4>3, <4>4, <4>6
    <3>2. CASE ~Admits(c, kind)
      <4>1. admitted' = admitted
        BY <1>2, <1>5, <2>1, <3>2
      <4>2. PICK w \in [Ages -> Nat] : w = PassedOf(ip, K)
        BY PassedType
      <4>3. PassedOf(ip, K)' = w
        BY <4>1, <4>2 DEF PassedOf, Ages
      <4>4. PICK d \in {0, 1} : d = 0
        OBVIOUS
      <4>5. [w EXCEPT ![0] = @ + d] = w
        <5>1. w[0] + d = w[0]
          BY <4>4, AgesFinite
        <5> QED BY <5>1
      <4>6. Bounded(w, c, limit) /\ c \in BucketType /\ (d = 1 => Counted(c).count <= limit)
        BY <2>2, <2>3, <4>2, <4>4
      <4>7. Bounded([w EXCEPT ![0] = @ + d], Counted(c), limit)
        BY <4>6, CountedBounded
      <4> QED BY <4>3, <4>5, <4>7
    <3> QED BY <3>1, <3>2
  <2>4. /\ Bounded(PassedOf(ip, {"register"}), c, RateMaxRegister)
        /\ Bounded(PassedOf(ip, Kinds), c, RateMaxLogin)
    BY <2>1 DEF BurstInv, BoundedAt
  <2>5. Bounded(PassedOf(ip, {"register"})', Counted(c), RateMaxRegister)
    <3>1. kind \in {"register"} => Limit(kind) <= RateMaxRegister
      BY LimitsAre DEF Limit
    <3>2. {"register"} \in SUBSET Kinds
      BY DEF Kinds
    <3> QED BY <2>3, <2>4, <3>1, <3>2, LimitsAre
  <2>6. Bounded(PassedOf(ip, Kinds)', Counted(c), RateMaxLogin)
    <3>1. Limit(kind) <= RateMaxLogin
      BY LimitsAre DEF Limit
    <3> QED BY <2>3, <2>4, <3>1, LimitsAre
  <2> QED BY <2>2, <2>5, <2>6 DEF BoundedAt, Bounded, Current, Ages, Kinds
<1> QED BY <1>4, <1>5


LEMMA BurstStep == AccountTypeOK /\ BurstInv /\ [AccountNext]_accountVars => BurstInv'
<1> SUFFICES ASSUME AccountTypeOK, BurstInv, [AccountNext]_accountVars PROVE BurstInv'
  OBVIOUS
<1>0. AccountTypeOK'
  BY AccountTypeStep
<1>1. ASSUME NEW ip \in Ips, admitted' = admitted,
             bucket'[ip] = bucket[ip] \/ (bucket[ip].left < 0 /\ bucket'[ip] = NoBucket)
      PROVE  BoundedAt(ip)'
  <2>1. BoundedAt(ip) /\ bucket[ip] \in BucketType
    BY DEF BurstInv, AccountTypeOK, BucketType
  <2>2. \A K : PassedOf(ip, K)' = PassedOf(ip, K)
    BY <1>1 DEF PassedOf, Ages
  <2>3. CASE bucket'[ip] = bucket[ip]
    BY <2>1, <2>2, <2>3 DEF BoundedAt, Bounded, Current, Ages, Kinds
  <2>4. CASE bucket[ip].left < 0 /\ bucket'[ip] = NoBucket
    <3>1. bucket[ip].left = bucket'[ip].left /\ bucket'[ip].left < 0
      BY <2>1, <2>4 DEF BucketType, NoBucket
    <3> QED BY <2>1, <2>2, <2>4, <3>1 DEF BoundedAt, Bounded, Current, Ages, Kinds
  <2> QED BY <1>1, <2>3, <2>4
<1>2. CASE TickAccounts
  <2> SUFFICES ASSUME NEW ip \in Ips PROVE BoundedAt(ip)'
    BY DEF BurstInv
  <2>1. PICK b \in BucketType : b = bucket[ip]
    BY DEF AccountTypeOK, BucketType
  <2>2. bucket'[ip] = [b EXCEPT !.left = Later1(@)]
    BY <1>2, <2>1 DEF TickAccounts
  <2>3. \A a \in Ages : a # 0 => admitted'[ip][a] = admitted[ip][a - 1]
    BY <1>2 DEF TickAccounts
  <2>4. admitted'[ip][0] = [kind \in Kinds |-> 0]
    BY <1>2, AgesFinite DEF TickAccounts
  <2>5. ASSUME NEW K \in SUBSET Kinds, NEW limit \in Nat, Bounded(PassedOf(ip, K), b, limit)
        PROVE  Bounded(PassedOf(ip, K)', [b EXCEPT !.left = Later1(@)], limit)
    <3>1. PICK w \in [Ages -> Nat] : w = PassedOf(ip, K)
      BY PassedType
    <3>2. PICK v : v = [a \in Ages |-> SumFunctionOnSet(admitted'[ip][a], K)]
      OBVIOUS
    <3>3. PassedOf(ip, K)' = v
      BY <3>2 DEF PassedOf, Ages
    <3>4. v[0] = 0
      <4>1. IsFiniteSet(K) /\ Cardinality(K) \in Nat
        BY KindsFinite, FS_Subset, FS_CardinalityType
      <4>2. PICK z \in Int : z = 0
        OBVIOUS
      <4> DEFINE f == [kind \in Kinds |-> 0]
      <4>3. \A k \in K : f[k] = z
        BY <4>2
      <4>4. SumFunctionOnSet(f, K) = z * Cardinality(K)
        BY <4>1, <4>3, SumConstant
      <4>5. v[0] = SumFunctionOnSet(f, K)
        BY <2>4, <3>2, AgesFinite
      <4> QED BY <4>1, <4>2, <4>4, <4>5
    <3>5. \A a \in Ages : a # 0 => a - 1 \in Ages
      BY AccountsAssumption DEF AccountsAssumption, Ages
    <3>6. \A a \in Ages : a # 0 => v[a] = w[a - 1]
      <4> SUFFICES ASSUME NEW a \in Ages, a # 0 PROVE v[a] = w[a - 1]
        OBVIOUS
      <4>1. v[a] = SumFunctionOnSet(admitted[ip][a - 1], K)
        BY <2>3, <3>2
      <4>2. w[a - 1] = SumFunctionOnSet(admitted[ip][a - 1], K)
        BY <3>1, <3>5, PassedType
      <4> QED BY <4>1, <4>2
    <3>7. \A a \in Ages : v[a] \in Nat
      BY <3>1, <3>4, <3>5, <3>6
    <3>8. Older(w, v)
      BY <3>2, <3>4, <3>6, <3>7 DEF Older
    <3>9. Bounded(v, [b EXCEPT !.left = Later1(@)], limit)
      BY <2>5, <3>1, <3>8, TickBounded
    <3> QED BY <3>3, <3>9
  <2>6. /\ Bounded(PassedOf(ip, {"register"}), b, RateMaxRegister)
        /\ Bounded(PassedOf(ip, Kinds), b, RateMaxLogin)
    BY <2>1 DEF BurstInv, BoundedAt
  <2>7. /\ Bounded(PassedOf(ip, {"register"})', [b EXCEPT !.left = Later1(@)], RateMaxRegister)
        /\ Bounded(PassedOf(ip, Kinds)', [b EXCEPT !.left = Later1(@)], RateMaxLogin)
    <3>1. {"register"} \in SUBSET Kinds /\ Kinds \in SUBSET Kinds
      BY DEF Kinds
    <3> QED BY <2>5, <2>6, <3>1, LimitsAre
  <2> QED BY <2>2, <2>7 DEF BoundedAt, Bounded, Current, Ages, Kinds
<1>3. CASE RestartAccounts
  <2>1. NothingPassed'
    BY <1>3 DEF RestartAccounts, NothingPassed, Ages, Kinds, NoBucket
  <2> QED BY <1>0, <2>1, NothingStays, PTL
<1>4. CASE EvictBuckets
  <2>1. \A ip \in Ips : bucket'[ip] = bucket[ip] \/ (bucket[ip].left < 0 /\ bucket'[ip] = NoBucket)
    BY <1>4 DEF EvictBuckets
  <2> QED BY <1>1, <1>4, <2>1 DEF EvictBuckets, BurstInv
<1>5. ASSUME NEW b \in Browsers, FindUser(b) \/ CreateUser(b) \/ CreateSession(b) \/ AnswerAttempt(b)
                                 \/ SignOut(b) \/ AnswerSignOut(b) \/ LoseAnswer(b)
      PROVE  BurstInv'
  <2>1. bucket' = bucket /\ admitted' = admitted
    BY <1>5 DEF FindUser, CreateUser, CreateSession, AnswerAttempt, SignOut, AnswerSignOut, LoseAnswer, limiter
  <2> QED BY <1>1, <2>1 DEF BurstInv
<1>6. CASE UNCHANGED accountVars
  BY <1>1, <1>6 DEF accountVars, limiter, BurstInv
<1>7. ASSUME NEW b \in Browsers, NEW kind \in Kinds, NEW e \in Emails, NEW name \in NamesGiven,
             NEW ok \in BOOLEAN, Attempt(b, kind, e, name, ok)
      PROVE  BurstInv'
  BY <1>7, AttemptBurst
<1> QED
  BY <1>2, <1>3, <1>4, <1>5, <1>6, <1>7
     DEF AccountNext, UseForm, ServeForm, DisturbAccounts, Kinds, NamesGiven

\* The limiter of an address: in any stretch as long as its window, whatever the clock
\* ticks, evicts and restarts between the attempts, no more than twice the limit pass.
THEOREM BurstBoundedAlways == AccountSpec => []BurstBounded
<1>1. AccountInit => BurstInv
  <2>1. AccountInit => NothingPassed
    BY DEF AccountInit, NothingPassed
  <2> QED BY <2>1, AccountTypeInit, NothingStays
<1>2. AccountTypeOK /\ BurstInv => BurstBounded
  <2> SUFFICES ASSUME AccountTypeOK, BurstInv, NEW ip \in Ips
               PROVE  /\ AdmittedOf(ip, {"register"}) <= 2 * RateMaxRegister
                      /\ AdmittedOf(ip, Kinds) <= 2 * RateMaxLogin
    BY DEF BurstBounded
  <2>1. ASSUME NEW K \in SUBSET Kinds, NEW limit \in Nat, Bounded(PassedOf(ip, K), bucket[ip], limit)
        PROVE  AdmittedOf(ip, K) <= 2 * limit
    <3>1. PICK w \in [Ages -> Nat] : w = PassedOf(ip, K)
      BY PassedType
    <3>2. AdmittedOf(ip, K) = SumFunctionOnSet(w, Ages)
      <4>1. DOMAIN PassedOf(ip, K) = Ages
        BY DEF PassedOf
      <4> QED BY <3>1, <4>1 DEF AdmittedOf, SumFunction, PassedOf
    <3>3. SumFunctionOnSet(w, Ages) <= 2 * limit
      BY <2>1, <3>1, BoundedInAll
    <3> QED BY <3>2, <3>3
  <2>2. {"register"} \in SUBSET Kinds /\ Kinds \in SUBSET Kinds
    BY DEF Kinds
  <2> QED BY <2>1, <2>2, LimitsAre DEF BurstInv, BoundedAt
<1> QED BY <1>1, <1>2, AccountTypeInit, AccountTypeStep, BurstStep, PTL DEF AccountSpec

-----------------------------------------------------------------------------
(* Workbench: sequences of orders.                                         *)

\* The sequence without its i-th element: each element was there before.
LEMMA RemoveAtProperties ==
    ASSUME NEW S, NEW s \in Seq(S), NEW i \in 1..Len(s)
    PROVE  /\ RemoveAt(s, i) \in Seq(S) /\ Len(RemoveAt(s, i)) = Len(s) - 1
           /\ \A k \in 1..(Len(s) - 1) :
                RemoveAt(s, i)[k] = IF k < i THEN s[k] ELSE s[k + 1]
<1> DEFINE a == SubSeq(s, 1, i - 1)
           b == SubSeq(s, i + 1, Len(s))
<1>0. Len(s) \in Nat /\ i \in Nat /\ \A k \in 1..Len(s) : s[k] \in S
  BY LenProperties
<1>1. a \in Seq(S) /\ Len(a) = i - 1 /\ \A k \in 1..(i - 1) : a[k] = s[k]
  <2>1. \A k \in 1..(i - 1) : s[k] \in S
    BY <1>0
  <2> QED BY <1>0, <2>1, SubSeqProperties
<1>2. b \in Seq(S) /\ Len(b) = Len(s) - i /\ \A k \in 1..(Len(s) - i) : b[k] = s[i + k]
  <2>1. \A k \in (i + 1)..Len(s) : s[k] \in S
    BY <1>0
  <2>2. b \in Seq(S) /\ Len(b) = Len(s) - i
    BY <1>0, <2>1, SubSeqProperties
  <2> QED BY <1>0, <2>2
<1> HIDE DEF a, b
<1>3. RemoveAt(s, i) = a \o b
  BY DEF RemoveAt, a, b
<1>4. /\ a \o b \in Seq(S) /\ Len(a \o b) = Len(a) + Len(b)
      /\ \A k \in 1..(Len(a) + Len(b)) : (a \o b)[k] = IF k <= Len(a) THEN a[k] ELSE b[k - Len(a)]
  BY <1>1, <1>2, ConcatProperties
<1>5. Len(a) = i - 1 /\ Len(a) + Len(b) = Len(s) - 1 /\ i \in 1..Len(s)
  BY <1>0, <1>1, <1>2
<1>6. ASSUME NEW k \in 1..(Len(s) - 1)
      PROVE  (a \o b)[k] = IF k < i THEN s[k] ELSE s[k + 1]
  <2>1. CASE k < i
    BY <1>0, <1>1, <1>4, <1>5, <2>1
  <2>2. CASE ~(k < i)
    <3>1. (a \o b)[k] = b[k - (i - 1)]
      BY <1>0, <1>4, <1>5, <2>2
    <3>2. k - (i - 1) \in 1..(Len(s) - i) /\ i + (k - (i - 1)) = k + 1
      BY <1>0, <2>2
    <3>3. b[k - (i - 1)] = s[i + (k - (i - 1))]
      BY <1>2, <3>2
    <3> QED BY <2>2, <3>1, <3>2, <3>3
  <2> QED BY <2>1, <2>2
<1> QED BY <1>3, <1>4, <1>5, <1>6

-----------------------------------------------------------------------------
(* Workbench: the machine.                                                 *)

Stderrs == {"", "any", "memory_limit"}
CaseStatuses == {"TLE", "MLE", "RUNTIME_ERROR", "COMPILE_ERROR", "ACCEPTED", "WRONG_ANSWER"}
MachineJob == [id : Ids, left : 0..CaseCount, allAccepted : BOOLEAN, lastStderr : Stderrs, met : SUBSET CaseStatuses]

\* What the loop keeps says what happened in the test cases.
Keeps(m) ==
    /\ "COMPILE_ERROR" \notin m.met => (m.allAccepted <=> m.met \subseteq {"ACCEPTED"})
    /\ "MLE" \in m.met /\ "RUNTIME_ERROR" \notin m.met => m.lastStderr = "memory_limit"

MachineInv == machine = NoJob \/ (machine \in MachineJob /\ Keeps(machine))

\* runCode, exit by exit.
LEMMA Results ==
    ASSUME NEW exit \in Exits
    PROVE  /\ exit = "0" => ResultOf(exit).status = "OK"
           /\ exit = "137" => ResultOf(exit).status = "MLE" /\ ResultOf(exit).stderr = "memory_limit"
           /\ exit = "timeout" => ResultOf(exit).status = "TLE"
           /\ exit = "other_saying_mle" =>
                ResultOf(exit).status = "RUNTIME_ERROR" /\ ResultOf(exit).stderr = "memory_limit"
           /\ exit = "unknown_language" => ResultOf(exit).status = "COMPILE_ERROR"
           /\ exit = "other" => ResultOf(exit).status = "RUNTIME_ERROR" /\ ResultOf(exit).stderr = "any"
<1>1. exit = "0" => ResultOf(exit) = [status |-> "OK", stderr |-> "any"]
  BY Zenon DEF ResultOf
<1>2. exit = "137" => ResultOf(exit) = [status |-> "MLE", stderr |-> "memory_limit"]
  BY Zenon DEF ResultOf
<1>3. exit = "timeout" => ResultOf(exit) = [status |-> "TLE", stderr |-> "time_limit"]
  BY Zenon DEF ResultOf
<1>4. exit = "other_saying_mle" =>
        ResultOf(exit) = [status |-> "RUNTIME_ERROR", stderr |-> "memory_limit"]
  BY Zenon DEF ResultOf
<1>5. exit = "unknown_language" => ResultOf(exit) = [status |-> "COMPILE_ERROR", stderr |-> "any"]
  BY Zenon DEF ResultOf
<1>6. exit = "other" => ResultOf(exit) = [status |-> "RUNTIME_ERROR", stderr |-> "any"]
  BY Zenon DEF ResultOf
<1> HIDE DEF ResultOf
<1>7. exit = "0" => ResultOf(exit).status = "OK"
  BY <1>1
<1>8. exit = "137" => ResultOf(exit).status = "MLE" /\ ResultOf(exit).stderr = "memory_limit"
  BY <1>2
<1>9. exit = "timeout" => ResultOf(exit).status = "TLE"
  BY <1>3
<1>10. exit = "other_saying_mle" =>
        ResultOf(exit).status = "RUNTIME_ERROR" /\ ResultOf(exit).stderr = "memory_limit"
  BY <1>4
<1>11. exit = "unknown_language" => ResultOf(exit).status = "COMPILE_ERROR"
  BY <1>5
<1>12. exit = "other" => ResultOf(exit).status = "RUNTIME_ERROR" /\ ResultOf(exit).stderr = "any"
  BY <1>6
<1> QED BY <1>7, <1>8, <1>9, <1>10, <1>11, <1>12

\* A test case of a known language passes exactly if it gave the right answer without
\* failing; stderr is kept of those that broke.
LEMMA CaseJudged ==
    ASSUME NEW exit \in Exits, NEW right \in BOOLEAN
    PROVE  LET r == ResultOf(exit)  o == CaseOf(r, right) IN
           /\ o \in CaseStatuses
           /\ o # "COMPILE_ERROR" => (Passes(r, right) <=> o = "ACCEPTED")
           /\ r.status \in {"MLE", "RUNTIME_ERROR"} <=> o \in {"MLE", "RUNTIME_ERROR"}
           /\ r.status \in {"MLE", "RUNTIME_ERROR"} => r.stderr \in Stderrs
           /\ o = "MLE" => r.stderr = "memory_limit"
<1>1. exit = "0" \/ exit = "137" \/ exit = "timeout" \/ exit = "other_saying_mle"
      \/ exit = "unknown_language" \/ exit = "other"
  BY DEF Exits
<1> QED BY <1>1, Results DEF CaseOf, Passes, Failing, Stderrs, CaseStatuses

LEMMA JobFields ==
    ASSUME NEW m \in MachineJob
    PROVE  /\ \A n \in 0..CaseCount : [m EXCEPT !.left = n] \in MachineJob
           /\ \A b \in BOOLEAN : [m EXCEPT !.allAccepted = b] \in MachineJob
           /\ \A e \in Stderrs : [m EXCEPT !.lastStderr = e] \in MachineJob
           /\ \A M \in SUBSET CaseStatuses : [m EXCEPT !.met = M] \in MachineJob
BY DEF MachineJob

LEMMA JudgedKeeps ==
    ASSUME WorkbenchAssumption, NEW m \in MachineJob, Keeps(m), m.left > 0, NEW exit \in Exits, NEW right \in BOOLEAN
    PROVE  Judged(m, exit, right) \in MachineJob /\ Keeps(Judged(m, exit, right)) /\ Judged(m, exit, right).id = m.id
<1> DEFINE r == ResultOf(exit)
           o == CaseOf(r, right)
           stderr == IF r.status \in {"MLE", "RUNTIME_ERROR"} THEN r.stderr ELSE m.lastStderr
           accepted == m.allAccepted /\ Passes(r, right)
           met == m.met \union {o}
           m1 == [m EXCEPT !.left = m.left - 1]
           m2 == [m1 EXCEPT !.allAccepted = accepted]
           m3 == [m2 EXCEPT !.lastStderr = stderr]
           m4 == [m3 EXCEPT !.met = met]
<1>1. m.left - 1 \in 0..CaseCount /\ m.lastStderr \in Stderrs /\ m.met \in SUBSET CaseStatuses /\ m.allAccepted \in BOOLEAN
  BY DEF MachineJob, WorkbenchAssumption
<1>2. /\ o \in CaseStatuses
      /\ o # "COMPILE_ERROR" => (Passes(r, right) <=> o = "ACCEPTED")
      /\ r.status \in {"MLE", "RUNTIME_ERROR"} <=> o \in {"MLE", "RUNTIME_ERROR"}
      /\ r.status \in {"MLE", "RUNTIME_ERROR"} => r.stderr \in Stderrs
      /\ o = "MLE" => r.stderr = "memory_limit"
  BY CaseJudged
<1>3. Judged(m, exit, right) = m4
  BY Zenon DEF Judged
<1> HIDE DEF r, o
<1>4. stderr \in Stderrs /\ met \in SUBSET CaseStatuses /\ accepted \in BOOLEAN
  BY <1>1, <1>2
<1>5. "COMPILE_ERROR" \notin met => (accepted <=> met \subseteq {"ACCEPTED"})
  BY <1>2 DEF Keeps
<1>6. "MLE" \in met /\ "RUNTIME_ERROR" \notin met => stderr = "memory_limit"
  <2>1. CASE o = "MLE"
    BY <1>2, <2>1
  <2>2. CASE o # "MLE"
    BY <1>2, <2>2 DEF Keeps
  <2> QED BY <2>1, <2>2
<1> HIDE DEF stderr, accepted, met
<1>7. m1 \in MachineJob /\ m1.id = m.id
  BY <1>1, JobFields DEF MachineJob
<1> HIDE DEF m1
<1>8. m2 \in MachineJob /\ m2.id = m1.id /\ m2.allAccepted = accepted
  BY <1>4, <1>7, JobFields DEF MachineJob
<1> HIDE DEF m2
<1>9. m3 \in MachineJob /\ m3.id = m2.id /\ m3.allAccepted = m2.allAccepted /\ m3.lastStderr = stderr
  BY <1>4, <1>8, JobFields DEF MachineJob
<1> HIDE DEF m3
<1>10. /\ m4 \in MachineJob /\ m4.id = m3.id /\ m4.allAccepted = m3.allAccepted
       /\ m4.lastStderr = m3.lastStderr /\ m4.met = met
  BY <1>4, <1>9, JobFields DEF MachineJob
<1> HIDE DEF m4
<1>11. Keeps(m4)
  BY <1>5, <1>6, <1>8, <1>9, <1>10 DEF Keeps
<1> QED BY <1>3, <1>7, <1>8, <1>9, <1>10, <1>11

-----------------------------------------------------------------------------
(* Workbench: types.                                                       *)

Hook == [busy : BOOLEAN, shown : Shown]
Order == [hook : Hooks, id : Ids \union {0}]
PollState == [hook : Hooks, id : Ids, pc : {"fetch", "answered", "timer"}, status : Statuses]

LEMMA HookFields ==
    ASSUME NEW k \in Hook
    PROVE  /\ \A b \in BOOLEAN : [k EXCEPT !.busy = b] \in Hook
           /\ \A x \in Shown : [k EXCEPT !.shown = x] \in Hook
BY DEF Hook

LEMMA PollFields ==
    ASSUME NEW p \in PollState
    PROVE  /\ \A c \in {"fetch", "answered", "timer"} : [p EXCEPT !.pc = c] \in PollState
           /\ \A x \in Statuses : [p EXCEPT !.status = x] \in PollState
BY DEF PollState

\* The page's part of the type.
PageTypeOK ==
    /\ hooks \in [Hooks -> Hook] /\ orders \in Seq(Order) /\ polls \subseteq PollState
    /\ pollRefs \in [Hooks -> Ids \union {0}] /\ mounted \in BOOLEAN /\ pressed \in 0..MaxOrders
    /\ upset \subseteq Hooks

\* The server's.
ServerTypeOK ==
    /\ issued \in Seq(Hooks)
    /\ verdicts \in Seq(Statuses) /\ Len(verdicts) = Len(issued)
    /\ waiting \in Seq(Ids)
    /\ benchFaults \in 0..MaxBenchFaults /\ gone \subseteq Ids

\* The types of BenchTypeOK, and what the loop of the worker keeps.
BenchInv == PageTypeOK /\ ServerTypeOK /\ MachineInv

LEMMA IdsAre ==
    ASSUME ServerTypeOK
    PROVE  Ids = 1..Len(issued) /\ Len(issued) \in Nat /\ Ids = DOMAIN verdicts /\ 0 \notin Ids
BY DEF ServerTypeOK, Ids

LEMMA BenchTypeInit ==
    ASSUME WorkbenchAssumption, BenchInit
    PROVE  BenchInv
<1>1. Ids = {}
  BY DEF BenchInit, Ids
<1>2. Nothing \in Shown
  BY DEF Nothing, Shown, Statuses
<1>3. [h \in Hooks |-> [busy |-> FALSE, shown |-> Nothing]] \in [Hooks -> Hook]
  BY <1>2 DEF Hook
<1>4. hooks \in [Hooks -> Hook] /\ orders \in Seq(Order) /\ polls \subseteq PollState /\ upset \subseteq Hooks
  BY <1>3, EmptySeq DEF BenchInit
<1>5. pollRefs \in [Hooks -> Ids \union {0}] /\ mounted \in BOOLEAN /\ pressed \in 0..MaxOrders
  BY DEF BenchInit, WorkbenchAssumption
<1>6. issued \in Seq(Hooks) /\ Len(issued) = 0 /\ verdicts \in Seq(Statuses) /\ Len(verdicts) = 0 /\ waiting \in Seq(Ids)
  BY EmptySeq DEF BenchInit
<1>7. benchFaults \in 0..MaxBenchFaults /\ gone \subseteq Ids
  BY <1>6 DEF BenchInit, WorkbenchAssumption
<1>8. MachineInv
  BY Zenon DEF BenchInit, MachineInv
<1>9. PageTypeOK
  BY <1>4, <1>5 DEF PageTypeOK
<1>10. ServerTypeOK
  BY <1>6, <1>7 DEF ServerTypeOK
<1> QED BY <1>8, <1>9, <1>10 DEF BenchInv

\* Where the ids stay the page's type does.
LEMMA SameIds ==
    ASSUME issued' = issued
    PROVE  Ids' = Ids /\ Shown' = Shown /\ Hook' = Hook /\ Order' = Order /\ PollState' = PollState
           /\ MachineJob' = MachineJob
<1>1. Ids' = Ids
  BY DEF Ids
<1> QED BY <1>1, Zenon DEF Shown, Hook, Order, PollState, MachineJob

\* Ids are only added.
LEMMA MoreIds ==
    ASSUME Ids \subseteq Ids'
    PROVE  Shown \subseteq Shown' /\ Hook \subseteq Hook' /\ Order \subseteq Order' /\ PollState \subseteq PollState'
           /\ MachineJob \subseteq MachineJob'
<1>1. Shown \subseteq Shown'
  BY DEF Shown
<1>2. Hook \subseteq Hook'
  BY <1>1 DEF Hook
<1>3. Order \subseteq Order' /\ PollState \subseteq PollState'
  BY DEF Order, PollState
<1>4. MachineJob \subseteq MachineJob'
  BY DEF MachineJob
<1> QED BY <1>1, <1>2, <1>3, <1>4

\* An order leaves the sequence of orders.
LEMMA OrderLeaves ==
    ASSUME PageTypeOK, NEW i \in DOMAIN orders, orders' = RemoveAt(orders, i)
    PROVE  /\ orders' \in Seq(Order) /\ Len(orders') = Len(orders) - 1
           /\ \A k \in DOMAIN orders' : orders'[k] = IF k < i THEN orders[k] ELSE orders[k + 1]
           /\ \A k \in DOMAIN orders' : \E n \in DOMAIN orders : n # i /\ orders'[k] = orders[n]
           /\ \A h \in Hooks : (\A m, n \in DOMAIN orders : orders[m].hook = h /\ orders[n].hook = h => m = n)
                => (\A m, n \in DOMAIN orders' : orders'[m].hook = h /\ orders'[n].hook = h => m = n)
           /\ orders[i] \in Order /\ orders[i].hook \in Hooks /\ orders[i].id \in Ids \union {0}
<1>1. orders \in Seq(Order) /\ Len(orders) \in Nat /\ DOMAIN orders = 1..Len(orders) /\ i \in 1..Len(orders)
  BY LenProperties DEF PageTypeOK
<1>2. /\ orders' \in Seq(Order) /\ Len(orders') = Len(orders) - 1
      /\ \A k \in 1..(Len(orders) - 1) : orders'[k] = IF k < i THEN orders[k] ELSE orders[k + 1]
  BY <1>1, RemoveAtProperties
<1>3. DOMAIN orders' = 1..(Len(orders) - 1)
  BY <1>2, LenProperties
<1>4. orders[i] \in Order
  BY <1>1
<1>5. \A k \in DOMAIN orders' : \E n \in DOMAIN orders : n # i /\ orders'[k] = orders[n]
  <2> SUFFICES ASSUME NEW k \in DOMAIN orders'
               PROVE  \E n \in DOMAIN orders : n # i /\ orders'[k] = orders[n]
    OBVIOUS
  <2>1. CASE k < i
    BY <1>1, <1>2, <1>3, <2>1
  <2>2. CASE ~(k < i)
    <3>1. k + 1 \in DOMAIN orders /\ k + 1 # i /\ orders'[k] = orders[k + 1]
      BY <1>1, <1>2, <1>3, <2>2
    <3> QED BY <3>1
  <2> QED BY <2>1, <2>2
<1>6. ASSUME NEW h \in Hooks, \A m, n \in DOMAIN orders : orders[m].hook = h /\ orders[n].hook = h => m = n,
             NEW m \in DOMAIN orders', NEW n \in DOMAIN orders', orders'[m].hook = h, orders'[n].hook = h
      PROVE  m = n
  <2> DEFINE at(k) == IF k < i THEN k ELSE k + 1
  <2>1. \A k \in DOMAIN orders' : at(k) \in DOMAIN orders /\ orders'[k] = orders[at(k)]
    BY <1>1, <1>2, <1>3
  <2>2. at(m) = at(n)
    <3> HIDE DEF at
    <3> QED BY <1>6, <2>1
  <2>3. m \in Int /\ n \in Int
    BY <1>3
  <2> QED BY <1>1, <2>2, <2>3
<1>7. orders[i].hook \in Hooks /\ orders[i].id \in Ids \union {0}
  BY <1>4 DEF Order
<1> QED BY <1>2, <1>3, <1>4, <1>5, <1>6, <1>7


\* The steps of the page alone.
LEMMA PageStepType ==
    ASSUME WorkbenchAssumption, PageTypeOK, ServerTypeOK,
           UNCHANGED issued,
           \/ \E h \in Hooks, byKey \in BOOLEAN : Press(h, byKey)
           \/ \E i \in DOMAIN orders : AnswerOrder(i) \/ RefuseOrder(i)
           \/ LeavePage
           \/ \E p \in polls : AnswerStatus(p) \/ AnswerPoll(p) \/ PollAgain(p)
           \/ RestartBench
    PROVE  PageTypeOK'
<1>0. /\ hooks \in [Hooks -> Hook] /\ orders \in Seq(Order) /\ polls \subseteq PollState
      /\ pollRefs \in [Hooks -> Ids \union {0}] /\ mounted \in BOOLEAN /\ pressed \in 0..MaxOrders
      /\ upset \subseteq Hooks /\ pressed \in Nat /\ MaxOrders \in Nat
  BY DEF PageTypeOK, WorkbenchAssumption
<1>1. Ids' = Ids /\ Shown' = Shown /\ Hook' = Hook /\ Order' = Order /\ PollState' = PollState
  BY SameIds
<1>2. SUFFICES /\ hooks' \in [Hooks -> Hook] /\ orders' \in Seq(Order) /\ polls' \subseteq PollState
               /\ pollRefs' \in [Hooks -> Ids \union {0}] /\ mounted' \in BOOLEAN
               /\ pressed' \in 0..MaxOrders /\ upset' \subseteq Hooks
  BY <1>1 DEF PageTypeOK
<1>3. ASSUME NEW h \in Hooks, NEW byKey \in BOOLEAN, Press(h, byKey)
      PROVE  /\ hooks' \in [Hooks -> Hook] /\ orders' \in Seq(Order) /\ polls' \subseteq PollState
             /\ pollRefs' \in [Hooks -> Ids \union {0}] /\ mounted' \in BOOLEAN
             /\ pressed' \in 0..MaxOrders /\ upset' \subseteq Hooks
  <2>1. [busy |-> TRUE, shown |-> Nothing] \in Hook
    BY DEF Hook, Shown, Statuses, Nothing
  <2>2. [hook |-> h, id |-> 0] \in Order
    BY DEF Order
  <2>3. hooks' \in [Hooks -> Hook] /\ orders' \in Seq(Order)
    BY <1>0, <1>3, <2>1, <2>2, AppendProperties DEF Press
  <2>4. pressed' \in 0..MaxOrders /\ upset' \subseteq Hooks
    BY <1>0, <1>3 DEF Press
  <2> QED BY <1>0, <1>3, <2>3, <2>4 DEF Press
<1>4. ASSUME NEW i \in DOMAIN orders, AnswerOrder(i)
      PROVE  /\ hooks' \in [Hooks -> Hook] /\ orders' \in Seq(Order) /\ polls' \subseteq PollState
             /\ UNCHANGED <<pollRefs, mounted, pressed, upset>>
  <2>1. orders' \in Seq(Order) /\ orders[i].hook \in Hooks /\ orders[i].id \in Ids
    BY <1>4, OrderLeaves DEF AnswerOrder
  <2> DEFINE x == [id |-> orders[i].id, status |-> "QUEUED"]
             q == [hook |-> orders[i].hook, id |-> orders[i].id, pc |-> "fetch", status |-> "none"]
  <2>2. x \in Shown /\ q \in PollState
    BY <2>1 DEF Shown, PollState, Statuses
  <2>3. hooks' = [hooks EXCEPT ![orders[i].hook].shown = x] /\ polls' = polls \union {q}
    BY <1>4 DEF AnswerOrder
  <2> HIDE DEF x, q
  <2>4. hooks[orders[i].hook] \in Hook
    BY <1>0, <2>1
  <2>5. [hooks[orders[i].hook] EXCEPT !.shown = x] \in Hook
    BY <2>2, <2>4, HookFields
  <2>6. hooks' \in [Hooks -> Hook]
    BY <1>0, <2>1, <2>3, <2>5
  <2> QED BY <1>0, <1>4, <2>1, <2>2, <2>3, <2>6 DEF AnswerOrder
<1>5. ASSUME NEW i \in DOMAIN orders, RefuseOrder(i)
      PROVE  /\ hooks' \in [Hooks -> Hook] /\ orders' \in Seq(Order) /\ upset' \subseteq Hooks
             /\ UNCHANGED <<polls, pollRefs, mounted, pressed>>
  <2>1. orders' \in Seq(Order) /\ orders[i].hook \in Hooks
    BY <1>5, OrderLeaves DEF RefuseOrder
  <2>2. [hooks[orders[i].hook] EXCEPT !.busy = FALSE] \in Hook
    BY <1>0, <2>1, HookFields
  <2> QED BY <1>0, <1>5, <2>1, <2>2 DEF RefuseOrder
<1>6. ASSUME LeavePage
      PROVE  polls' \subseteq PollState /\ mounted' \in BOOLEAN /\ UNCHANGED <<hooks, orders, pollRefs, pressed, upset>>
  BY <1>0, <1>6 DEF LeavePage
<1>7. ASSUME NEW p \in polls, AnswerStatus(p)
      PROVE  polls' \subseteq PollState /\ UNCHANGED <<hooks, orders, pollRefs, mounted, pressed, upset>>
  <2> DEFINE x == IF verdicts[p.id] = "none" THEN "error" ELSE verdicts[p.id]
             q == [p EXCEPT !.pc = "answered"]
             r == [q EXCEPT !.status = x]
  <2>1. p \in PollState /\ p.id \in Ids
    BY <1>0 DEF PollState
  <2>2. verdicts[p.id] \in Statuses
    BY <2>1 DEF ServerTypeOK, Ids
  <2>3. x \in Statuses
    BY <2>2 DEF Statuses
  <2>4. polls' = (polls \ {p}) \union {r} /\ UNCHANGED <<hooks, orders, pollRefs, mounted, pressed, upset>>
    BY <1>7, Zenon DEF AnswerStatus
  <2> HIDE DEF x
  <2>5. q \in PollState
    BY <2>1, PollFields
  <2> HIDE DEF q
  <2>6. r \in PollState
    BY <2>3, <2>5, PollFields
  <2> HIDE DEF r
  <2> QED BY <1>0, <2>4, <2>6
<1>8. ASSUME NEW p \in polls, AnswerPoll(p)
      PROVE  /\ hooks' \in [Hooks -> Hook] /\ polls' \subseteq PollState /\ pollRefs' \in [Hooks -> Ids \union {0}]
             /\ UNCHANGED <<orders, mounted, pressed, upset>>
  <2>1. p \in PollState /\ p.id \in Ids /\ p.hook \in Hooks /\ p.status \in Statuses
    BY <1>0 DEF PollState
  <2> DEFINE done == IsTerminal(p.status)
             x == [id |-> p.id, status |-> p.status]
             k == [hooks[p.hook] EXCEPT !.shown = x]
             j == [k EXCEPT !.busy = k.busy /\ ~done]
             q == [p EXCEPT !.pc = "timer"]
             r == [q EXCEPT !.status = "none"]
  <2>2. hooks[p.hook] \in Hook /\ x \in Shown
    BY <1>0, <2>1 DEF Shown
  <2>3. k \in Hook
    BY <2>2, HookFields
  <2>4. (k.busy /\ ~done) \in BOOLEAN
    BY Zenon
  <2>5. j \in Hook
    <3> HIDE DEF k, done
    <3> QED BY <2>3, <2>4, HookFields
  <2>6. r \in PollState
    <3>1. q \in PollState
      BY <2>1, PollFields
    <3>2. "none" \in Statuses
      BY DEF Statuses
    <3> HIDE DEF q
    <3> QED BY <3>1, <3>2, PollFields
  <2>7. hooks' = [hooks EXCEPT ![p.hook] = j]
    BY <1>0, <1>8, <2>1 DEF AnswerPoll, Merged
  <2>8. /\ polls' \subseteq polls \union {r}
        /\ pollRefs' = IF done THEN pollRefs ELSE [pollRefs EXCEPT ![p.hook] = p.id]
        /\ UNCHANGED <<orders, mounted, pressed, upset>>
    BY <1>8 DEF AnswerPoll
  <2> HIDE DEF j, r, done
  <2> QED BY <1>0, <2>1, <2>5, <2>6, <2>7, <2>8
<1>9. ASSUME NEW p \in polls, PollAgain(p)
      PROVE  polls' \subseteq PollState /\ UNCHANGED <<hooks, orders, pollRefs, mounted, pressed, upset>>
  <2>1. [p EXCEPT !.pc = "fetch"] \in PollState
    BY <1>0, PollFields
  <2> QED BY <1>0, <1>9, <2>1 DEF PollAgain
<1>10. ASSUME RestartBench
       PROVE  /\ hooks' \in [Hooks -> Hook] /\ orders' \in Seq(Order) /\ polls' \subseteq PollState
              /\ upset' \subseteq Hooks /\ UNCHANGED <<pollRefs, mounted, pressed>>
  <2> DEFINE cut == {orders[i].hook : i \in DOMAIN orders} \union {p.hook : p \in {q \in polls : q.pc = "fetch"}}
  <2>1. cut \subseteq Hooks
    <3>0. \A i \in DOMAIN orders : orders[i] \in Order
      BY <1>0
    <3>1. \A i \in DOMAIN orders : orders[i].hook \in Hooks
      BY <3>0 DEF Order
    <3>2. \A p \in polls : p.hook \in Hooks
      BY <1>0 DEF PollState
    <3> QED BY <3>1, <3>2
  <2>2. /\ hooks' = [h \in Hooks |-> [hooks[h] EXCEPT !.busy = hooks[h].busy /\ h \notin cut]]
        /\ upset' = upset \union cut /\ orders' = <<>> /\ polls' \subseteq polls
        /\ UNCHANGED <<pollRefs, mounted, pressed>>
    BY <1>10 DEF RestartBench
  <2> HIDE DEF cut
  <2>3. \A h \in Hooks : [hooks[h] EXCEPT !.busy = hooks[h].busy /\ h \notin cut] \in Hook
    BY <1>0, HookFields
  <2> QED BY <1>0, <2>1, <2>2, <2>3, EmptySeq
<1> QED BY <1>0, <1>3, <1>4, <1>5, <1>6, <1>7, <1>8, <1>9, <1>10


\* An order is accepted: an id is given out, and queued.
LEMMA AcceptStepType ==
    ASSUME WorkbenchAssumption, BenchInv, NEW i \in DOMAIN orders, AcceptOrder(i)
    PROVE  /\ BenchInv'
           /\ Ids' = Ids \union {Len(issued) + 1} /\ Len(issued) + 1 \notin Ids
           /\ issued' = Append(issued, orders[i].hook)
           /\ \A id \in Ids : issued'[id] = issued[id] /\ verdicts'[id] = verdicts[id]
           /\ issued'[Len(issued) + 1] = orders[i].hook /\ verdicts'[Len(issued) + 1] \in {"QUEUED", "none"}
<1>0. PageTypeOK /\ ServerTypeOK /\ MachineInv /\ Ids = 1..Len(issued) /\ Len(issued) \in Nat
  BY IdsAre DEF BenchInv
<1>1. orders[i] \in Order /\ orders[i].hook \in Hooks
  <2>1. orders[i] \in Order
    BY <1>0 DEF PageTypeOK
  <2> QED BY <2>1 DEF Order
<1>2. /\ issued' \in Seq(Hooks) /\ Len(issued') = Len(issued) + 1
      /\ \A id \in Ids : issued'[id] = issued[id]
      /\ issued'[Len(issued) + 1] = orders[i].hook
  BY <1>0, <1>1, AppendProperties DEF AcceptOrder, ServerTypeOK
<1>3. Ids' = 1..(Len(issued) + 1)
  BY <1>2, LenProperties DEF Ids
<1>4. Ids' = Ids \union {Len(issued) + 1} /\ Len(issued) + 1 \notin Ids /\ Len(issued) + 1 # 0
  BY <1>0, <1>3
<1>5. /\ verdicts' \in Seq(Statuses) /\ Len(verdicts') = Len(issued) + 1
      /\ \A id \in Ids : verdicts'[id] = verdicts[id]
      /\ verdicts'[Len(issued) + 1] \in {"QUEUED", "none"}
  <2> DEFINE v == IF orders[i].hook = "submit" THEN "QUEUED" ELSE "none"
  <2>1. v \in Statuses /\ v \in {"QUEUED", "none"}
    BY DEF Statuses
  <2>2. verdicts' = Append(verdicts, v)
    BY DEF AcceptOrder
  <2> HIDE DEF v
  <2> QED BY <1>0, <2>1, <2>2, AppendProperties DEF ServerTypeOK
<1>6. /\ Shown \subseteq Shown' /\ Hook \subseteq Hook' /\ Order \subseteq Order' /\ PollState \subseteq PollState'
      /\ MachineJob \subseteq MachineJob'
  BY <1>4, MoreIds
<1>7. PageTypeOK'
  <2>1. orders' = [orders EXCEPT ![i].id = Len(issued) + 1] /\ UNCHANGED <<hooks, polls, pollRefs, mounted, pressed, upset>>
    BY DEF AcceptOrder, view
  <2>2. [orders[i] EXCEPT !.id = Len(issued) + 1] \in Order'
    BY <1>1, <1>4 DEF Order
  <2>3. orders \in Seq(Order')
    <3> HIDE DEF Order
    <3> QED BY <1>0, <1>6 DEF PageTypeOK
  <2>4. orders' \in Seq(Order')
    BY <2>1, <2>2, <2>3, ExceptSeq
  <2>5. hooks' \in [Hooks -> Hook'] /\ polls' \subseteq PollState' /\ pollRefs' \in [Hooks -> Ids' \union {0}]
    BY <1>0, <1>4, <1>6, <2>1 DEF PageTypeOK
  <2> QED BY <1>0, <2>1, <2>4, <2>5 DEF PageTypeOK
<1>8. ServerTypeOK'
  <2>1. waiting' = Append(waiting, Len(issued) + 1) /\ UNCHANGED <<benchFaults, gone>>
    BY DEF AcceptOrder
  <2>2. waiting \in Seq(Ids')
    BY <1>0, <1>4 DEF ServerTypeOK
  <2>3. waiting' \in Seq(Ids')
    BY <1>4, <2>1, <2>2, AppendProperties
  <2> QED BY <1>0, <1>2, <1>4, <1>5, <2>1, <2>3 DEF ServerTypeOK, WorkbenchAssumption
<1>9. MachineInv'
  <2>1. machine' = machine
    BY DEF AcceptOrder
  <2>2. CASE machine = NoJob
    BY <2>1, <2>2, Zenon DEF MachineInv, NoJob
  <2>3. CASE machine \in MachineJob /\ Keeps(machine)
    <3>1. machine' \in MachineJob' /\ Keeps(machine)'
      BY <1>6, <2>1, <2>3 DEF Keeps
    <3> QED BY <3>1, Zenon DEF MachineInv
  <2> QED BY <1>0, <2>2, <2>3 DEF MachineInv
<1>10. BenchInv'
  BY <1>7, <1>8, <1>9 DEF BenchInv
<1> QED BY <1>2, <1>4, <1>5, <1>10 DEF AcceptOrder


\* The steps that give out no id keep the types; those of the worker and the losses do.
LEMMA ServerStepType ==
    ASSUME WorkbenchAssumption, BenchInv,
           \/ TakeOrder \/ Report \/ LoseVerdict \/ RestartBench
           \/ \E exit \in Exits, right \in BOOLEAN : JudgeCase(exit, right)
           \/ \E id \in DOMAIN issued : ExpireRun(id)
    PROVE  ServerTypeOK' /\ MachineInv' /\ issued' = issued
<1>0. /\ ServerTypeOK /\ MachineInv /\ Ids = 1..Len(issued) /\ Len(issued) \in Nat /\ 0 \notin Ids
      /\ issued \in Seq(Hooks) /\ verdicts \in Seq(Statuses) /\ Len(verdicts) = Len(issued)
      /\ DOMAIN verdicts = Ids /\ waiting \in Seq(Ids) /\ benchFaults \in 0..MaxBenchFaults
      /\ benchFaults \in Nat /\ MaxBenchFaults \in Nat /\ gone \subseteq Ids
  BY IdsAre DEF BenchInv, ServerTypeOK, WorkbenchAssumption
<1>1. issued' = issued
  BY DEF TakeOrder, Report, LoseVerdict, RestartBench, JudgeCase, ExpireRun
<1>2. Ids' = Ids /\ MachineJob' = MachineJob
  BY <1>1, SameIds
<1>3. SUFFICES /\ verdicts' \in Seq(Statuses) /\ Len(verdicts') = Len(issued) /\ waiting' \in Seq(Ids)
               /\ benchFaults' \in 0..MaxBenchFaults /\ gone' \subseteq Ids
               /\ machine' = NoJob \/ (machine' \in MachineJob /\ Keeps(machine'))
  <2>1. ServerTypeOK'
    BY <1>0, <1>1, <1>2, <1>3 DEF ServerTypeOK
  <2>2. MachineInv'
    BY <1>2, <1>3 DEF MachineInv, Keeps
  <2> QED BY <1>1, <2>1, <2>2
<1>4. machine.id # 0 => machine \in MachineJob /\ Keeps(machine) /\ machine.id \in Ids
  BY <1>0 DEF MachineInv, MachineJob, NoJob
<1>4a. machine = NoJob \/ (machine \in MachineJob /\ Keeps(machine))
  BY <1>0, Zenon DEF MachineInv
<1>5. CASE TakeOrder
  <2> DEFINE id == Head(waiting)
             k == issued[id]
             n == CasesOf(k)
  <2>1. waiting # <<>> /\ UNCHANGED <<verdicts, benchFaults, gone>>
    BY <1>5 DEF TakeOrder
  <2>2. id \in Ids /\ Tail(waiting) \in Seq(Ids)
    BY <1>0, <2>1, HeadTailProperties
  <2>3. n \in 0..CaseCount
    BY DEF CasesOf, WorkbenchAssumption
  <2>4. machine' = [id |-> id, left |-> n, allAccepted |-> TRUE, lastStderr |-> "", met |-> {}]
        /\ waiting' = Tail(waiting)
    BY <1>5, Zenon DEF TakeOrder
  <2> HIDE DEF id, n
  <2>5. machine' \in MachineJob
    BY <2>2, <2>3, <2>4 DEF MachineJob, Stderrs
  <2>6. Keeps(machine')
    BY <2>4 DEF Keeps
  <2> QED BY <1>0, <2>1, <2>2, <2>4, <2>5, <2>6
<1>6. CASE Report
  <2>1. FinalStatus(machine) \in Statuses
    BY DEF FinalStatus, Statuses, Terminal
  <2>2. /\ machine.id # 0 /\ verdicts' = [verdicts EXCEPT ![machine.id] = FinalStatus(machine)] /\ machine' = NoJob
        /\ UNCHANGED <<waiting, benchFaults, gone>>
    BY <1>6 DEF Report
  <2>3. verdicts' \in Seq(Statuses) /\ Len(verdicts') = Len(verdicts)
    <3> HIDE DEF FinalStatus
    <3> QED BY <1>0, <1>4, <2>1, <2>2, ExceptSeq
  <2> QED BY <1>0, <2>2, <2>3
<1>7. CASE LoseVerdict
  <2>1. /\ benchFaults' = benchFaults + 1 /\ benchFaults < MaxBenchFaults /\ machine.id # 0
        /\ gone' = gone \union {machine.id} /\ machine' = NoJob
        /\ UNCHANGED <<verdicts, waiting>>
    BY <1>7 DEF LoseVerdict
  <2>2. benchFaults' \in 0..MaxBenchFaults
    BY <1>0, <2>1
  <2> QED BY <1>0, <1>4, <2>1, <2>2
<1>8. CASE RestartBench
  <2> DEFINE lost == {id \in DOMAIN issued : IsRun(id) /\ verdicts[id] # "none"}
             f == [id \in DOMAIN issued |-> IF IsRun(id) THEN "none" ELSE verdicts[id]]
  <2>1. /\ benchFaults' = benchFaults + 1 /\ benchFaults < MaxBenchFaults
        /\ gone' = gone \union lost /\ verdicts' = f
        /\ UNCHANGED <<machine, waiting>>
    BY <1>8 DEF RestartBench
  <2>2. benchFaults' \in 0..MaxBenchFaults
    BY <1>0, <2>1
  <2>3. lost \subseteq Ids /\ DOMAIN issued = 1..Len(issued)
    BY <1>0 DEF Ids
  <2>4. f \in [1..Len(issued) -> Statuses]
    <3>1. \A id \in DOMAIN issued : verdicts[id] \in Statuses
      BY <1>0, <2>3
    <3> QED BY <2>3, <3>1 DEF Statuses
  <2> HIDE DEF f, lost
  <2>5. f \in Seq(Statuses) /\ Len(f) = Len(issued)
    BY <1>0, <2>4, SeqDef, LenProperties
  <2> QED BY <1>0, <1>4a, <2>1, <2>2, <2>3, <2>5
<1>9. ASSUME NEW exit \in Exits, NEW right \in BOOLEAN, JudgeCase(exit, right)
      PROVE  machine' \in MachineJob /\ Keeps(machine') /\ UNCHANGED <<verdicts, waiting, benchFaults, gone>>
  <2>1. machine.id # 0 /\ machine.left > 0 /\ machine' = Judged(machine, exit, right)
    BY <1>9 DEF JudgeCase
  <2>2. Judged(machine, exit, right) \in MachineJob /\ Keeps(Judged(machine, exit, right))
    BY <1>4, <2>1, JudgedKeeps
  <2> QED BY <1>9, <2>1, <2>2 DEF JudgeCase
<1>10. ASSUME NEW id \in DOMAIN issued, ExpireRun(id)
       PROVE  /\ verdicts' \in Seq(Statuses) /\ Len(verdicts') = Len(issued) /\ benchFaults' \in 0..MaxBenchFaults
              /\ gone' \subseteq Ids /\ UNCHANGED <<machine, waiting>>
  <2>1. /\ verdicts' = [verdicts EXCEPT ![id] = "none"] /\ gone' = gone \union {id}
        /\ benchFaults' = benchFaults + 1 /\ benchFaults < MaxBenchFaults
        /\ UNCHANGED <<machine, waiting>>
    BY <1>10 DEF ExpireRun
  <2>2. "none" \in Statuses /\ id \in Ids
    BY DEF Statuses, Ids
  <2>3. verdicts' \in Seq(Statuses) /\ Len(verdicts') = Len(verdicts)
    BY <1>0, <2>1, <2>2, ExceptSeq
  <2> QED BY <1>0, <2>1, <2>2, <2>3
<1> QED BY <1>0, <1>4a, <1>5, <1>6, <1>7, <1>8, <1>9, <1>10

\* Every step keeps the types and what the worker keeps.
LEMMA BenchStep ==
    ASSUME WorkbenchAssumption, BenchInv, [BenchNext]_benchVars
    PROVE  BenchInv'
<1>0. PageTypeOK /\ ServerTypeOK /\ MachineInv
  BY DEF BenchInv
<1>1. ASSUME issued' = issued, UNCHANGED <<view, orders, upset>>
      PROVE  PageTypeOK'
  <2>1. Ids' = Ids /\ Hook' = Hook /\ Order' = Order /\ PollState' = PollState
    BY <1>1, SameIds
  <2> QED BY <1>0, <1>1, <2>1 DEF PageTypeOK, view
<1>2. ASSUME UNCHANGED <<server, benchFaults, gone>>
      PROVE  ServerTypeOK' /\ MachineInv' /\ issued' = issued
  <2>1. issued' = issued /\ verdicts' = verdicts /\ waiting' = waiting /\ machine' = machine
        /\ benchFaults' = benchFaults /\ gone' = gone
    BY <1>2 DEF server
  <2>2. Ids' = Ids /\ MachineJob' = MachineJob
    BY <2>1, SameIds
  <2> QED BY <1>0, <2>1, <2>2 DEF ServerTypeOK, MachineInv, Keeps
<1>3. CASE UNCHANGED benchVars
  <2>1. UNCHANGED <<server, benchFaults, gone>> /\ UNCHANGED <<view, orders, upset>>
    BY <1>3 DEF benchVars
  <2>2. issued' = issued
    BY <2>1 DEF server
  <2> QED BY <1>1, <1>2, <2>1, <2>2 DEF BenchInv
<1>4. CASE \/ \E h \in Hooks, byKey \in BOOLEAN : Press(h, byKey)
           \/ \E i \in DOMAIN orders : AnswerOrder(i) \/ RefuseOrder(i)
           \/ LeavePage
           \/ \E p \in polls : AnswerStatus(p) \/ AnswerPoll(p) \/ PollAgain(p)
  <2>1. UNCHANGED <<server, benchFaults, gone>>
    BY <1>4 DEF Press, AnswerOrder, RefuseOrder, LeavePage, AnswerStatus, AnswerPoll, PollAgain
  <2>2. issued' = issued
    BY <2>1 DEF server
  <2> QED BY <1>0, <1>2, <1>4, <2>1, <2>2, PageStepType DEF BenchInv
<1>5. CASE \E i \in DOMAIN orders : AcceptOrder(i)
  BY <1>5, AcceptStepType
<1>6. CASE RestartBench
  <2>1. ServerTypeOK' /\ MachineInv' /\ issued' = issued
    BY <1>6, ServerStepType
  <2> QED BY <1>0, <1>6, <2>1, PageStepType DEF BenchInv
<1>7. CASE \/ TakeOrder \/ Report \/ LoseVerdict
           \/ \E exit \in Exits, right \in BOOLEAN : JudgeCase(exit, right)
           \/ \E id \in DOMAIN issued : ExpireRun(id)
  <2>1. ServerTypeOK' /\ MachineInv' /\ issued' = issued
    BY <1>7, ServerStepType
  <2>2. UNCHANGED <<view, orders, upset>>
    BY <1>7 DEF TakeOrder, Report, LoseVerdict, JudgeCase, ExpireRun
  <2> QED BY <1>1, <2>1, <2>2 DEF BenchInv
<1>8. CASE BenchNext
  BY <1>4, <1>5, <1>6, <1>7, <1>8 DEF BenchNext, UseBench, ServeOrder, Poll, RunMachine, DisturbBench
<1> QED BY <1>3, <1>8

\* The types of the workbench, at any time.
LEMMA BenchAlways == BenchSpec => []BenchInv
<1>1. BenchInit => BenchInv
  BY BenchTypeInit, WorkbenchAssumption
<1>2. BenchInv /\ [BenchNext]_benchVars => BenchInv'
  BY BenchStep, WorkbenchAssumption
<1> QED BY <1>1, <1>2, PTL DEF BenchSpec

\* The property VerdictSound: a job of a known language that went through its test cases is
\* accepted exactly if each gave the right answer without failing, and is over memory if
\* tests broke for nothing but memory, whatever else happened in the others.
THEOREM VerdictsAreSound == BenchSpec => []VerdictSound
<1>1. BenchInv => VerdictSound
  <2> SUFFICES ASSUME BenchInv, machine.id # 0, machine.left = 0, machine.met # {}, "COMPILE_ERROR" \notin machine.met
               PROVE  /\ FinalStatus(machine) = "ACCEPTED" <=> machine.met = {"ACCEPTED"}
                      /\ machine.met \intersect {"MLE", "RUNTIME_ERROR"} = {"MLE"} => FinalStatus(machine) = "MLE"
    BY DEF VerdictSound, AllJudged
  <2>1. Keeps(machine)
    BY DEF BenchInv, MachineInv, NoJob
  <2>2. FinalStatus(machine) = "ACCEPTED" <=> machine.allAccepted
    BY DEF FinalStatus
  <2>3. machine.allAccepted <=> machine.met = {"ACCEPTED"}
    BY <2>1 DEF Keeps
  <2>4. ASSUME machine.met \intersect {"MLE", "RUNTIME_ERROR"} = {"MLE"} PROVE FinalStatus(machine) = "MLE"
    <3>1. "MLE" \in machine.met /\ "RUNTIME_ERROR" \notin machine.met
      BY <2>4
    <3>2. ~machine.allAccepted /\ machine.lastStderr = "memory_limit"
      BY <2>1, <2>3, <3>1 DEF Keeps
    <3> QED BY <3>2 DEF FinalStatus
  <2> QED BY <2>2, <2>3, <2>4
<1> QED BY <1>1, BenchAlways, PTL

-----------------------------------------------------------------------------
(* Workbench: no more ids than orders.                                     *)

\* The orders that have no id yet.
WithoutId == {i \in DOMAIN orders : orders[i].id = 0}

\* Every id, and every order without one, is of a press of its own.
IdsInv == Len(issued) + Cardinality(WithoutId) <= pressed

LEMMA WithoutIdFinite ==
    PageTypeOK => /\ IsFiniteSet(WithoutId) /\ Cardinality(WithoutId) \in Nat
                  /\ orders \in Seq(Order) /\ Len(orders) \in Nat /\ DOMAIN orders = 1..Len(orders)
<1> SUFFICES ASSUME PageTypeOK
             PROVE  /\ IsFiniteSet(WithoutId) /\ Cardinality(WithoutId) \in Nat
                    /\ orders \in Seq(Order) /\ Len(orders) \in Nat /\ DOMAIN orders = 1..Len(orders)
  OBVIOUS
<1>1. orders \in Seq(Order) /\ Len(orders) \in Nat /\ DOMAIN orders = 1..Len(orders)
  BY LenProperties DEF PageTypeOK
<1>2. IsFiniteSet(1..Len(orders))
  BY <1>1, FS_Interval
<1>3. WithoutId \in SUBSET (1..Len(orders))
  BY <1>1 DEF WithoutId
<1> QED BY <1>1, <1>2, <1>3, FS_Subset, FS_CardinalityType

\* The order that leaves may have been one of them.
LEMMA WithoutIdLeaves ==
    ASSUME PageTypeOK, PageTypeOK', NEW i \in DOMAIN orders, orders' = RemoveAt(orders, i)
    PROVE  Cardinality(WithoutId') <= Cardinality(WithoutId)
<1>1. \A k \in DOMAIN orders' : orders'[k] = IF k < i THEN orders[k] ELSE orders[k + 1]
  BY OrderLeaves
<1>2. Len(orders') = Len(orders) - 1
  BY OrderLeaves
<1>3. Len(orders) \in Nat /\ DOMAIN orders = 1..Len(orders) /\ DOMAIN orders' = 1..(Len(orders) - 1)
  <2>1. (DOMAIN orders = 1..Len(orders))'
    BY WithoutIdFinite, PTL
  <2> QED BY <1>2, <2>1, WithoutIdFinite
<1>4. PICK f : f = [k \in DOMAIN orders' |-> IF k < i THEN k ELSE k + 1]
  OBVIOUS
<1>5. \A k \in DOMAIN orders' : f[k] \in DOMAIN orders /\ orders'[k] = orders[f[k]]
  BY <1>1, <1>3, <1>4
<1>6. \A k, n \in DOMAIN orders' : f[k] = f[n] => k = n
  BY <1>3, <1>4
<1>7. OneToOne(f, WithoutId', WithoutId)
  BY <1>5, <1>6 DEF OneToOne, WithoutId
<1> QED BY <1>7, WithoutIdFinite, OneToOneSize

LEMMA IdsKept ==
    ASSUME WorkbenchAssumption, BenchInv, BenchInv', IdsInv, [BenchNext]_benchVars
    PROVE  IdsInv'
<1>0. PageTypeOK /\ PageTypeOK' /\ ServerTypeOK /\ pressed \in Nat /\ Len(issued) \in Nat
  BY IdsAre DEF BenchInv, PageTypeOK, WorkbenchAssumption
<1>1. /\ IsFiniteSet(WithoutId) /\ orders \in Seq(Order) /\ Len(orders) \in Nat /\ DOMAIN orders = 1..Len(orders)
  BY <1>0, WithoutIdFinite
<1>2. Cardinality(WithoutId) \in Nat /\ Cardinality(WithoutId') \in Nat
  <2>1. (Cardinality(WithoutId) \in Nat)'
    BY <1>0, WithoutIdFinite, PTL
  <2> QED BY <1>0, <2>1, WithoutIdFinite
<1>3. ASSUME NEW h \in Hooks, NEW byKey \in BOOLEAN, Press(h, byKey)
      PROVE  IdsInv'
  <2>1. PICK o \in Order : o = [hook |-> h, id |-> 0]
    BY DEF Order
  <2>2. orders' = Append(orders, o) /\ pressed' = pressed + 1 /\ issued' = issued
    BY <1>3, <2>1 DEF Press, server
  <2>3. /\ DOMAIN orders' = 1..(Len(orders) + 1) /\ orders'[Len(orders) + 1] = o
        /\ \A k \in 1..Len(orders) : orders'[k] = orders[k]
    BY <1>1, <2>2, AppendProperties, LenProperties
  <2>4. WithoutId' = WithoutId \union {Len(orders) + 1} /\ Len(orders) + 1 \notin WithoutId
    BY <1>1, <2>1, <2>3 DEF WithoutId
  <2>5. Cardinality(WithoutId') = Cardinality(WithoutId) + 1
    BY <1>1, <2>4, FS_AddElement
  <2> QED BY <1>0, <1>2, <2>2, <2>5 DEF IdsInv
<1>4. ASSUME NEW i \in DOMAIN orders, AcceptOrder(i)
      PROVE  IdsInv'
  <2>1. /\ orders[i].id = 0 /\ orders' = [orders EXCEPT ![i].id = Len(issued) + 1]
        /\ issued' = Append(issued, orders[i].hook) /\ pressed' = pressed
    BY <1>4 DEF AcceptOrder, view
  <2>2. orders[i] \in Order /\ orders[i].hook \in Hooks
    <3>1. orders[i] \in Order
      BY <1>1
    <3> QED BY <3>1 DEF Order
  <2>3. Len(issued') = Len(issued) + 1
    BY <2>1, <2>2, AppendProperties DEF ServerTypeOK, BenchInv
  <2>4. /\ DOMAIN orders' = DOMAIN orders /\ orders'[i].id # 0
        /\ \A k \in DOMAIN orders : k # i => orders'[k] = orders[k]
    BY <1>0, <1>1, <2>1, <2>2 DEF Order
  <2>5. WithoutId' = WithoutId \ {i} /\ i \in WithoutId
    BY <2>1, <2>4 DEF WithoutId
  <2>6. Cardinality(WithoutId') = Cardinality(WithoutId) - 1
    BY <1>1, <2>5, FS_RemoveElement
  <2> QED BY <1>0, <1>2, <2>1, <2>3, <2>6 DEF IdsInv
<1>5. ASSUME NEW i \in DOMAIN orders, AnswerOrder(i) \/ RefuseOrder(i)
      PROVE  IdsInv'
  <2>1. orders' = RemoveAt(orders, i) /\ pressed' = pressed /\ issued' = issued
    BY <1>5 DEF AnswerOrder, RefuseOrder, server
  <2>2. Cardinality(WithoutId') <= Cardinality(WithoutId)
    BY <1>0, <2>1, WithoutIdLeaves
  <2> QED BY <1>0, <1>2, <2>1, <2>2 DEF IdsInv
<1>6. CASE RestartBench
  <2>1. orders' = <<>> /\ pressed' = pressed /\ issued' = issued
    BY <1>6 DEF RestartBench
  <2>2. Cardinality(WithoutId') = 0
    <3>1. WithoutId' = {}
      BY <2>1 DEF WithoutId
    <3> QED BY <3>1, FS_EmptySet
  <2> QED BY <1>0, <1>2, <2>1, <2>2 DEF IdsInv
<1>7. CASE UNCHANGED <<orders, pressed, issued>>
  BY <1>7 DEF IdsInv, WithoutId
<1>8. \/ UNCHANGED <<orders, pressed, issued>> \/ RestartBench
      \/ \E h \in Hooks, byKey \in BOOLEAN : Press(h, byKey)
      \/ \E i \in DOMAIN orders : AcceptOrder(i) \/ AnswerOrder(i) \/ RefuseOrder(i)
  BY DEF BenchNext, UseBench, ServeOrder, Poll, RunMachine, DisturbBench, benchVars, server, view,
         LeavePage, AnswerStatus, AnswerPoll, PollAgain, TakeOrder, Report, LoseVerdict, JudgeCase, ExpireRun
<1> QED BY <1>3, <1>4, <1>5, <1>6, <1>7, <1>8

\* The types of the workbench: ids are given out to orders and to nothing else, and
\* whatever shows, polls for, waits or judges names one of them.
THEOREM BenchTypeCorrect == BenchSpec => []BenchTypeOK
<1>1. BenchInit => BenchInv /\ IdsInv
  <2> SUFFICES ASSUME BenchInit PROVE BenchInv /\ IdsInv
    OBVIOUS
  <2>1. Len(issued) = 0 /\ pressed = 0 /\ WithoutId = {}
    BY DEF BenchInit, WithoutId
  <2> QED BY <2>1, FS_EmptySet, BenchTypeInit, WorkbenchAssumption DEF IdsInv
<1>2. (BenchInv /\ IdsInv) /\ [BenchNext]_benchVars => (BenchInv /\ IdsInv)'
  BY BenchStep, IdsKept, WorkbenchAssumption
<1>3. BenchInv /\ IdsInv => BenchTypeOK
  <2> SUFFICES ASSUME BenchInv, IdsInv PROVE BenchTypeOK
    OBVIOUS
  <2>1. Len(issued) <= MaxOrders
    <3>1. Cardinality(WithoutId) \in Nat /\ Len(issued) \in Nat /\ pressed \in 0..MaxOrders
      BY WithoutIdFinite, IdsAre DEF BenchInv, PageTypeOK
    <3> QED BY <3>1, WorkbenchAssumption DEF IdsInv, WorkbenchAssumption
  <2>2. machine # NoJob => machine.id \in Ids /\ machine.left \in 0..CaseCount
    BY DEF BenchInv, MachineInv, MachineJob
  <2> QED BY <2>1, <2>2 DEF BenchInv, PageTypeOK, ServerTypeOK, BenchTypeOK, Hook, Order, PollState
<1> QED BY <1>1, <1>2, <1>3, PTL DEF BenchSpec

-----------------------------------------------------------------------------
(* Workbench: a page shows its own verdict.                                *)

\* An id in the queue or with the worker is there once, and has no verdict.
QueueInv ==
    /\ \A i, j \in DOMAIN waiting : waiting[i] = waiting[j] => i = j
    /\ \A i \in DOMAIN waiting : waiting[i] # machine.id /\ verdicts[waiting[i]] \notin Terminal
    /\ machine.id # 0 => verdicts[machine.id] \notin Terminal

\* What a page shows or a poll brings as a verdict is the id's.
AnswerInv ==
    /\ \A h \in Hooks : hooks[h].shown.status \in Terminal => hooks[h].shown.id \in Ids
    /\ \A h \in Hooks : hooks[h].shown.status \in Terminal /\ hooks[h].shown.id \notin gone =>
         hooks[h].shown.status = verdicts[hooks[h].shown.id]
    /\ \A p \in polls : p.status \in Terminal /\ p.id \notin gone => p.status = verdicts[p.id]

\* A hook that nothing disturbed waits for one order, or polls for the last id of its kind.
AtRest(h) ==
    \/ hooks[h].shown = Nothing /\ \A id \in Ids : issued[id] # h
    \/ hooks[h].shown.status \in Terminal /\ \A id \in Ids : issued[id] = h => id <= hooks[h].shown.id

HookInv(h) ==
    /\ hooks[h].busy \/ ((\A i \in DOMAIN orders : orders[i].hook # h) /\ (\A p \in polls : p.hook # h) /\ AtRest(h))
    /\ \A i, j \in DOMAIN orders : orders[i].hook = h /\ orders[j].hook = h => i = j
    /\ \A p, q \in polls : p.hook = h /\ q.hook = h => p = q
    /\ \A i \in DOMAIN orders, p \in polls : ~(orders[i].hook = h /\ p.hook = h)
    /\ \A p \in polls : p.hook = h => \A id \in Ids : issued[id] = h => id <= p.id
    /\ \A i \in DOMAIN orders : orders[i].hook = h /\ orders[i].id # 0 =>
         \A id \in Ids : issued[id] = h => id <= orders[i].id

WaitInv == \A h \in Hooks : mounted /\ h \notin upset => HookInv(h)


\* What the step relation says of the ids: they stay, one may be added.
LEMMA IdsStep ==
    ASSUME WorkbenchAssumption, BenchInv, [BenchNext]_benchVars
    PROVE  /\ Ids \subseteq Ids' /\ \A id \in Ids : issued'[id] = issued[id]
           /\ 0 \notin Ids /\ Ids \subseteq Int /\ (machine.id = 0 \/ machine.id \in Ids)
           /\ \A k \in DOMAIN waiting : waiting[k] \in Ids
           /\ waiting \in Seq(Ids) /\ Len(waiting) \in Nat /\ DOMAIN waiting = 1..Len(waiting)
<1>1. /\ Ids = 1..Len(issued) /\ Len(issued) \in Nat /\ 0 \notin Ids
  BY IdsAre DEF BenchInv
<1>2. machine.id = 0 \/ machine.id \in Ids
  BY DEF BenchInv, MachineInv, MachineJob, NoJob
<1>3. waiting \in Seq(Ids)
  BY DEF BenchInv, ServerTypeOK
<1>4. Len(waiting) \in Nat /\ DOMAIN waiting = 1..Len(waiting) /\ \A k \in DOMAIN waiting : waiting[k] \in Ids
  BY <1>3, LenProperties, ElementOfSeq
<1>5. Ids \subseteq Ids' /\ \A id \in Ids : issued'[id] = issued[id]
  <2>1. CASE issued' = issued
    BY <2>1 DEF Ids
  <2>2. CASE \E i \in DOMAIN orders : AcceptOrder(i)
    BY <2>2, AcceptStepType
  <2>3. issued' = issued \/ \E i \in DOMAIN orders : AcceptOrder(i)
    BY DEF BenchNext, UseBench, ServeOrder, Poll, RunMachine, DisturbBench, benchVars, server, view,
           Press, AnswerOrder, RefuseOrder, LeavePage, AnswerStatus, AnswerPoll, PollAgain,
           TakeOrder, Report, LoseVerdict, RestartBench, JudgeCase, ExpireRun
  <2> QED BY <2>1, <2>2, <2>3
<1> QED BY <1>1, <1>2, <1>3, <1>4, <1>5

LEMMA QueueStep ==
    ASSUME WorkbenchAssumption, BenchInv, QueueInv, [BenchNext]_benchVars
    PROVE  QueueInv'
<1>0. /\ 0 \notin Ids /\ (machine.id = 0 \/ machine.id \in Ids)
      /\ \A k \in DOMAIN waiting : waiting[k] \in Ids
      /\ waiting \in Seq(Ids) /\ Len(waiting) \in Nat /\ DOMAIN waiting = 1..Len(waiting)
      /\ Ids = 1..Len(issued) /\ Len(issued) \in Nat /\ Ids = DOMAIN verdicts /\ DOMAIN issued = Ids
      /\ verdicts \in Seq(Statuses)
  BY IdsStep, IdsAre DEF BenchInv, Ids, ServerTypeOK
<1>0a. "none" \notin Terminal /\ "QUEUED" \notin Terminal
  BY DEF Terminal
<1>0b. /\ \A i, j \in DOMAIN waiting : waiting[i] = waiting[j] => i = j
       /\ \A i \in DOMAIN waiting : waiting[i] # machine.id /\ verdicts[waiting[i]] \notin Terminal
       /\ machine.id # 0 => verdicts[machine.id] \notin Terminal
  BY DEF QueueInv
<1>1. ASSUME waiting' = waiting, machine'.id = machine.id \/ machine'.id = 0,
             \A id \in Ids : (id # machine'.id /\ id = machine.id) \/ verdicts'[id] = verdicts[id] \/ verdicts'[id] = "none"
      PROVE  QueueInv'
  BY <1>0, <1>0a, <1>0b, <1>1 DEF QueueInv
<1>2. ASSUME waiting' = waiting, machine' = machine, verdicts' = verdicts
      PROVE  QueueInv'
  BY <1>0b, <1>2 DEF QueueInv
<1>3. CASE UNCHANGED benchVars
  BY <1>2, <1>3 DEF benchVars, server
<1>4. CASE \/ \E h \in Hooks, byKey \in BOOLEAN : Press(h, byKey)
           \/ \E i \in DOMAIN orders : AnswerOrder(i) \/ RefuseOrder(i)
           \/ LeavePage
           \/ \E p \in polls : AnswerStatus(p) \/ AnswerPoll(p) \/ PollAgain(p)
  BY <1>2, <1>4 DEF server, Press, AnswerOrder, RefuseOrder, LeavePage, AnswerStatus, AnswerPoll, PollAgain
<1>5. ASSUME NEW i \in DOMAIN orders, AcceptOrder(i)
      PROVE  QueueInv'
  <2>1. /\ \A id \in Ids : verdicts'[id] = verdicts[id]
        /\ verdicts'[Len(issued) + 1] \in {"QUEUED", "none"} /\ Len(issued) + 1 \notin Ids
    BY <1>5, AcceptStepType
  <2>2. waiting' = Append(waiting, Len(issued) + 1) /\ machine' = machine
    BY <1>5 DEF AcceptOrder
  <2>3. Len(waiting') = Len(waiting) + 1 /\ DOMAIN waiting' = 1..(Len(waiting) + 1)
        /\ \A k \in DOMAIN waiting : waiting'[k] = waiting[k]
        /\ waiting'[Len(waiting) + 1] = Len(issued) + 1
    <3>1. waiting \in Seq(Nat) /\ Len(issued) + 1 \in Nat
      BY <1>0
    <3> QED BY <1>0, <2>2, <3>1, AppendProperties, LenProperties
  <2>4. \A k \in DOMAIN waiting' : k \in DOMAIN waiting \/ k = Len(waiting) + 1
    BY <1>0, <2>3
  <2>5. \A k \in DOMAIN waiting' : waiting'[k] # machine'.id /\ verdicts'[waiting'[k]] \notin Terminal
    BY <1>0, <1>0a, <1>0b, <2>1, <2>2, <2>3, <2>4
  <2>6. \A k, j \in DOMAIN waiting' : waiting'[k] = waiting'[j] => k = j
    BY <1>0, <1>0b, <2>1, <2>3, <2>4
  <2>7. machine'.id # 0 => verdicts'[machine'.id] \notin Terminal
    BY <1>0, <1>0b, <2>1, <2>2
  <2> QED BY <2>5, <2>6, <2>7 DEF QueueInv
<1>6. CASE TakeOrder
  <2>1. machine.id = 0 /\ waiting # <<>> /\ machine'.id = Head(waiting) /\ waiting' = Tail(waiting) /\ verdicts' = verdicts
    BY <1>6 DEF TakeOrder
  <2>2. Len(waiting) > 0 /\ Head(waiting) = waiting[1] /\ Len(waiting') = Len(waiting) - 1 /\ waiting' \in Seq(Ids)
        /\ \A k \in 1..(Len(waiting) - 1) : waiting'[k] = waiting[k + 1]
    BY <1>0, <2>1, HeadTailProperties, EmptySeq
  <2>3. DOMAIN waiting' = 1..(Len(waiting) - 1)
    BY <2>2, LenProperties
  <2>4. \A k \in DOMAIN waiting' : k + 1 \in DOMAIN waiting /\ k + 1 # 1 /\ waiting'[k] = waiting[k + 1]
    BY <1>0, <2>2, <2>3
  <2>5. \A k \in DOMAIN waiting' : waiting'[k] # machine'.id /\ verdicts'[waiting'[k]] \notin Terminal
    BY <1>0, <1>0b, <2>1, <2>2, <2>4
  <2>6. \A k, j \in DOMAIN waiting' : waiting'[k] = waiting'[j] => k = j
    BY <1>0, <1>0b, <2>3, <2>4
  <2>7. machine'.id # 0 => verdicts'[machine'.id] \notin Terminal
    BY <1>0, <1>0b, <2>1, <2>2
  <2> QED BY <2>5, <2>6, <2>7 DEF QueueInv
<1>7. CASE Report
  <2>1. /\ machine.id # 0 /\ verdicts' = [verdicts EXCEPT ![machine.id] = FinalStatus(machine)] /\ machine' = NoJob
        /\ waiting' = waiting
    BY <1>7 DEF Report
  <2>2. machine'.id = 0
    BY <2>1 DEF NoJob
  <2>3. \A id \in Ids : id = machine.id \/ verdicts'[id] = verdicts[id]
    BY <1>0, <2>1
  <2> QED BY <1>0, <1>1, <2>1, <2>2, <2>3
<1>8. CASE LoseVerdict
  BY <1>1, <1>8 DEF LoseVerdict, NoJob
<1>9. CASE RestartBench
  <2>1. verdicts' = [id \in DOMAIN issued |-> IF IsRun(id) THEN "none" ELSE verdicts[id]]
        /\ waiting' = waiting /\ machine' = machine
    BY <1>9 DEF RestartBench
  <2> QED BY <1>0, <1>1, <2>1
<1>10. ASSUME NEW exit \in Exits, NEW right \in BOOLEAN, JudgeCase(exit, right)
       PROVE  QueueInv'
  <2>1. machine.id # 0 /\ machine.left > 0 /\ machine' = Judged(machine, exit, right)
        /\ waiting' = waiting /\ verdicts' = verdicts
    BY <1>10 DEF JudgeCase
  <2>2. machine \in MachineJob /\ Keeps(machine)
    BY <2>1 DEF BenchInv, MachineInv, NoJob
  <2>3. machine'.id = machine.id
    BY <2>1, <2>2, JudgedKeeps
  <2> QED BY <1>1, <2>1, <2>3
<1>11. ASSUME NEW id \in DOMAIN issued, ExpireRun(id)
       PROVE  QueueInv'
  <2>1. verdicts' = [verdicts EXCEPT ![id] = "none"] /\ waiting' = waiting /\ machine' = machine
    BY <1>11 DEF ExpireRun
  <2> QED BY <1>0, <1>1, <2>1
<1>12. CASE BenchNext
  BY <1>4, <1>5, <1>6, <1>7, <1>8, <1>9, <1>10, <1>11, <1>12
     DEF BenchNext, UseBench, ServeOrder, Poll, RunMachine, DisturbBench
<1> QED BY <1>3, <1>12


LEMMA AnswerStep ==
    ASSUME WorkbenchAssumption, BenchInv, QueueInv, AnswerInv, [BenchNext]_benchVars
    PROVE  AnswerInv'
<1>0. /\ hooks \in [Hooks -> Hook] /\ \A p \in polls : p \in PollState /\ p.id \in Ids /\ p.hook \in Hooks
      /\ Ids \subseteq Ids' /\ DOMAIN verdicts = Ids /\ DOMAIN issued = Ids
  <2>1. hooks \in [Hooks -> Hook] /\ polls \subseteq PollState
    BY DEF BenchInv, PageTypeOK
  <2> QED BY <2>1, IdsStep, IdsAre DEF BenchInv, PollState, Ids
<1>0a. "none" \notin Terminal /\ "QUEUED" \notin Terminal /\ "error" \notin Terminal
  BY DEF Terminal
<1>0b. /\ \A h \in Hooks : hooks[h].shown.status \in Terminal => hooks[h].shown.id \in Ids
       /\ \A h \in Hooks : hooks[h].shown.status \in Terminal /\ hooks[h].shown.id \notin gone =>
            hooks[h].shown.status = verdicts[hooks[h].shown.id]
       /\ \A p \in polls : p.status \in Terminal /\ p.id \notin gone => p.status = verdicts[p.id]
  BY DEF AnswerInv
<1>1. ASSUME \A h \in Hooks : hooks'[h].shown = hooks[h].shown, polls' \subseteq polls, gone \subseteq gone',
             \A id \in Ids : id \in gone' \/ verdicts'[id] = verdicts[id] \/ verdicts[id] \notin Terminal
      PROVE  AnswerInv'
  BY <1>0, <1>0b, <1>1 DEF AnswerInv
<1>2. ASSUME UNCHANGED <<issued, verdicts, gone>>,
             \A h \in Hooks : \/ hooks'[h].shown = hooks[h].shown
                              \/ hooks'[h].shown.status \notin Terminal
                              \/ \E p \in polls : hooks'[h].shown = [id |-> p.id, status |-> p.status],
             \A q \in polls' : \/ q \in polls \/ q.status \notin Terminal \/ q.status = verdicts[q.id]
                               \/ \E p \in polls : q.id = p.id /\ q.status = p.status
      PROVE  AnswerInv'
  <2>1. Ids' = Ids
    BY <1>2 DEF Ids
  <2>2. \A h \in Hooks : hooks'[h].shown.status \in Terminal =>
           hooks'[h].shown.id \in Ids /\ (hooks'[h].shown.id \notin gone =>
             hooks'[h].shown.status = verdicts[hooks'[h].shown.id])
    <3> SUFFICES ASSUME NEW h \in Hooks, hooks'[h].shown.status \in Terminal
                 PROVE  hooks'[h].shown.id \in Ids /\ (hooks'[h].shown.id \notin gone =>
                          hooks'[h].shown.status = verdicts[hooks'[h].shown.id])
      OBVIOUS
    <3>1. CASE hooks'[h].shown = hooks[h].shown
      BY <1>0b, <3>1
    <3>2. ASSUME NEW p \in polls, hooks'[h].shown = [id |-> p.id, status |-> p.status]
          PROVE  hooks'[h].shown.id \in Ids /\ (hooks'[h].shown.id \notin gone =>
                   hooks'[h].shown.status = verdicts[hooks'[h].shown.id])
      <4>1. hooks'[h].shown.id = p.id /\ hooks'[h].shown.status = p.status
        BY <3>2
      <4> QED BY <1>0, <1>0b, <4>1
    <3> QED BY <1>2, <3>1, <3>2
  <2>3. \A q \in polls' : q.status \in Terminal /\ q.id \notin gone => q.status = verdicts[q.id]
    BY <1>0, <1>0b, <1>2
  <2> QED BY <1>2, <2>1, <2>2, <2>3 DEF AnswerInv
<1>3. CASE UNCHANGED benchVars
  BY <1>1, <1>3 DEF benchVars, server, view
<1>4. ASSUME NEW h \in Hooks, NEW byKey \in BOOLEAN, Press(h, byKey)
      PROVE  AnswerInv'
  <2>1. /\ hooks' = [hooks EXCEPT ![h] = [busy |-> TRUE, shown |-> Nothing]]
        /\ UNCHANGED <<polls, issued, verdicts, gone>>
    BY <1>4 DEF Press, server
  <2>2. \A k \in Hooks : hooks'[k].shown = hooks[k].shown \/ hooks'[k].shown.status \notin Terminal
    BY <1>0, <1>0a, <2>1 DEF Nothing
  <2> QED BY <1>2, <2>1, <2>2
<1>5. ASSUME NEW i \in DOMAIN orders, AnswerOrder(i)
      PROVE  AnswerInv'
  <2> DEFINE x == [id |-> orders[i].id, status |-> "QUEUED"]
             q == [hook |-> orders[i].hook, id |-> orders[i].id, pc |-> "fetch", status |-> "none"]
  <2>1. /\ hooks' = [hooks EXCEPT ![orders[i].hook].shown = x] /\ polls' = polls \union {q}
        /\ UNCHANGED <<issued, verdicts, gone>>
    BY <1>5 DEF AnswerOrder, server
  <2>2. x.status \notin Terminal /\ q.status \notin Terminal
    BY <1>0a
  <2> HIDE DEF x, q
  <2>3. \A k \in Hooks : hooks'[k].shown = hooks[k].shown \/ hooks'[k].shown = x
    BY <1>0, <2>1 DEF Hook
  <2> QED BY <1>2, <2>1, <2>2, <2>3
<1>6. ASSUME NEW i \in DOMAIN orders, RefuseOrder(i)
      PROVE  AnswerInv'
  <2>1. /\ hooks' = [hooks EXCEPT ![orders[i].hook].busy = FALSE]
        /\ UNCHANGED <<polls, issued, verdicts, gone>>
    BY <1>6 DEF RefuseOrder, server
  <2>2. \A k \in Hooks : hooks'[k].shown = hooks[k].shown
    BY <1>0, <2>1 DEF Hook
  <2> QED BY <1>2, <2>1, <2>2
<1>7. CASE LeavePage
  BY <1>1, <1>7 DEF LeavePage, server
<1>8. ASSUME NEW p \in polls, AnswerStatus(p)
      PROVE  AnswerInv'
  <2> DEFINE x == IF verdicts[p.id] = "none" THEN "error" ELSE verdicts[p.id]
             q == [p EXCEPT !.pc = "answered", !.status = x]
  <2>1. polls' = (polls \ {p}) \union {q} /\ UNCHANGED <<hooks, issued, verdicts, gone>>
    BY <1>8, Zenon DEF AnswerStatus, server
  <2>2. q.id = p.id /\ q.status = x
    BY <1>0 DEF PollState
  <2>3. q.status \notin Terminal \/ q.status = verdicts[q.id]
    BY <1>0a, <2>2
  <2> HIDE DEF q
  <2> QED BY <1>2, <2>1, <2>3
<1>9. ASSUME NEW p \in polls, AnswerPoll(p)
      PROVE  AnswerInv'
  <2> DEFINE done == IsTerminal(p.status)
             x == [id |-> p.id, status |-> p.status]
             r == [p EXCEPT !.pc = "timer", !.status = "none"]
  <2>1. /\ hooks' = [hooks EXCEPT ![p.hook].shown = x, ![p.hook].busy = hooks[p.hook].busy /\ ~done]
        /\ polls' \subseteq polls \union {r} /\ UNCHANGED <<issued, verdicts, gone>>
    BY <1>9 DEF AnswerPoll, Merged, server
  <2>2. \A k \in Hooks : hooks'[k].shown = hooks[k].shown \/ hooks'[k].shown = x
    <3> HIDE DEF x, done
    <3> QED BY <1>0, <2>1 DEF Hook
  <2>3. r.status \notin Terminal
    BY <1>0, <1>0a DEF PollState
  <2> HIDE DEF r, done
  <2> QED BY <1>2, <2>1, <2>2, <2>3
<1>10. ASSUME NEW p \in polls, PollAgain(p)
       PROVE  AnswerInv'
  <2> DEFINE r == [p EXCEPT !.pc = "fetch"]
  <2>1. polls' = (polls \ {p}) \union {r} /\ UNCHANGED <<hooks, issued, verdicts, gone>>
    BY <1>10 DEF PollAgain, server
  <2>2. r.id = p.id /\ r.status = p.status
    BY <1>0 DEF PollState
  <2> HIDE DEF r
  <2> QED BY <1>2, <2>1, <2>2
<1>11. ASSUME NEW i \in DOMAIN orders, AcceptOrder(i)
       PROVE  AnswerInv'
  <2>1. \A id \in Ids : verdicts'[id] = verdicts[id]
    BY <1>11, AcceptStepType
  <2>2. UNCHANGED <<hooks, polls, gone>>
    BY <1>11 DEF AcceptOrder, view
  <2> QED BY <1>1, <2>1, <2>2
<1>12. CASE TakeOrder
  BY <1>1, <1>12 DEF TakeOrder, view
<1>13. CASE Report
  <2>1. /\ machine.id # 0 /\ verdicts' = [verdicts EXCEPT ![machine.id] = FinalStatus(machine)]
        /\ UNCHANGED <<hooks, polls, gone>>
    BY <1>13 DEF Report, view
  <2>2. verdicts[machine.id] \notin Terminal
    BY <2>1 DEF QueueInv
  <2> HIDE DEF FinalStatus
  <2>3. \A id \in Ids : verdicts'[id] = verdicts[id] \/ verdicts[id] \notin Terminal
    BY <1>0, <2>1, <2>2
  <2> QED BY <1>1, <2>1, <2>3
<1>14. CASE LoseVerdict
  BY <1>1, <1>14 DEF LoseVerdict, view
<1>15. CASE RestartBench
  <2> DEFINE lost == {id \in DOMAIN issued : IsRun(id) /\ verdicts[id] # "none"}
             cut == {orders[i].hook : i \in DOMAIN orders} \union {p.hook : p \in {q \in polls : q.pc = "fetch"}}
  <2>1. /\ gone' = gone \union lost
        /\ verdicts' = [id \in DOMAIN issued |-> IF IsRun(id) THEN "none" ELSE verdicts[id]]
        /\ hooks' = [h \in Hooks |-> [hooks[h] EXCEPT !.busy = hooks[h].busy /\ h \notin cut]]
        /\ polls' \subseteq polls
    BY <1>15 DEF RestartBench
  <2>2. \A id \in Ids : id \in gone' \/ verdicts'[id] = verdicts[id]
    BY <1>0, <2>1
  <2> HIDE DEF cut, lost
  <2>3. \A h \in Hooks : hooks'[h].shown = hooks[h].shown
    BY <1>0, <2>1 DEF Hook
  <2> QED BY <1>1, <2>1, <2>2, <2>3
<1>16. ASSUME NEW exit \in Exits, NEW right \in BOOLEAN, JudgeCase(exit, right)
       PROVE  AnswerInv'
  BY <1>1, <1>16 DEF JudgeCase, view
<1>17. ASSUME NEW id \in DOMAIN issued, ExpireRun(id)
       PROVE  AnswerInv'
  <2>1. verdicts' = [verdicts EXCEPT ![id] = "none"] /\ gone' = gone \union {id} /\ UNCHANGED <<hooks, polls>>
    BY <1>17 DEF ExpireRun, view
  <2> QED BY <1>0, <1>1, <2>1
<1>18. CASE BenchNext
  BY <1>4, <1>5, <1>6, <1>7, <1>8, <1>9, <1>10, <1>11, <1>12, <1>13, <1>14, <1>15, <1>16, <1>17, <1>18
     DEF BenchNext, UseBench, ServeOrder, Poll, RunMachine, DisturbBench
<1> QED BY <1>3, <1>18


\* A hook none of whose orders, polls or results changed, while no id of its kind was given out.
LEMMA WaitKept ==
    ASSUME WorkbenchAssumption, BenchInv, WaitInv, [BenchNext]_benchVars, NEW h \in Hooks, mounted', h \notin upset',
           mounted, h \notin upset, hooks'[h] = hooks[h],
           \A i \in DOMAIN orders' : orders'[i].hook = h => \E n \in DOMAIN orders : orders'[i] = orders[n],
           \A i, j \in DOMAIN orders' : orders'[i].hook = h /\ orders'[j].hook = h => i = j,
           \A q \in polls' : q.hook = h => \E p \in polls : p.hook = h /\ p.id = q.id,
           \A p, q \in polls' : p.hook = h /\ q.hook = h => p = q,
           \A id \in Ids' : issued'[id] = h => id \in Ids
    PROVE  HookInv(h)'
<1>1. Ids \subseteq Ids' /\ \A id \in Ids : issued'[id] = issued[id]
  BY IdsStep
<1>2. /\ hooks[h].busy \/ ((\A i \in DOMAIN orders : orders[i].hook # h) /\ (\A p \in polls : p.hook # h) /\ AtRest(h))
      /\ \A i, j \in DOMAIN orders : orders[i].hook = h /\ orders[j].hook = h => i = j
      /\ \A i \in DOMAIN orders, p \in polls : ~(orders[i].hook = h /\ p.hook = h)
      /\ \A p \in polls : p.hook = h => \A id \in Ids : issued[id] = h => id <= p.id
      /\ \A i \in DOMAIN orders : orders[i].hook = h /\ orders[i].id # 0 =>
           \A id \in Ids : issued[id] = h => id <= orders[i].id
  BY DEF WaitInv, HookInv
<1>3. AtRest(h) => AtRest(h)'
  BY <1>1 DEF AtRest
<1>4. hooks'[h].busy \/ ((\A i \in DOMAIN orders' : orders'[i].hook # h) /\ (\A p \in polls' : p.hook # h) /\ AtRest(h)')
  BY <1>2, <1>3
<1>5. \A i, j \in DOMAIN orders' : orders'[i].hook = h /\ orders'[j].hook = h => i = j
  BY <1>2
<1>6. \A i \in DOMAIN orders', p \in polls' : ~(orders'[i].hook = h /\ p.hook = h)
  BY <1>2
<1>7. \A p \in polls' : p.hook = h => \A id \in Ids' : issued'[id] = h => id <= p.id
  BY <1>1, <1>2
<1>8. \A i \in DOMAIN orders' : orders'[i].hook = h /\ orders'[i].id # 0 =>
        \A id \in Ids' : issued'[id] = h => id <= orders'[i].id
  BY <1>1, <1>2
<1> QED BY <1>4, <1>5, <1>6, <1>7, <1>8 DEF HookInv


LEMMA WaitStep ==
    ASSUME WorkbenchAssumption, BenchInv, WaitInv, [BenchNext]_benchVars
    PROVE  WaitInv'
<1> SUFFICES ASSUME NEW h \in Hooks, mounted', h \notin upset'
             PROVE  HookInv(h)'
  BY DEF WaitInv
<1>0. /\ hooks \in [Hooks -> Hook] /\ \A p \in polls : p \in PollState /\ p.id \in Ids /\ p.hook \in Hooks
      /\ DOMAIN issued = Ids /\ Ids \subseteq Ids' /\ \A id \in Ids : issued'[id] = issued[id]
      /\ 0 \notin Ids /\ \A id \in Ids : id \in Int
      /\ orders \in Seq(Order) /\ DOMAIN orders = 1..Len(orders) /\ Len(orders) \in Nat
      /\ \A i \in DOMAIN orders : orders[i] \in Order /\ orders[i].hook \in Hooks /\ orders[i].id \in Ids \union {0}
  <2>1. hooks \in [Hooks -> Hook] /\ polls \subseteq PollState /\ orders \in Seq(Order)
    BY DEF BenchInv, PageTypeOK
  <2>2. \A i \in DOMAIN orders : orders[i] \in Order
    BY <2>1
  <2>3. DOMAIN orders = 1..Len(orders) /\ Len(orders) \in Nat
    BY <2>1, LenProperties
  <2>4. \A i \in DOMAIN orders : orders[i].hook \in Hooks /\ orders[i].id \in Ids \union {0}
    BY <2>2 DEF Order
  <2>5. \A p \in polls : p \in PollState /\ p.id \in Ids /\ p.hook \in Hooks
    BY <2>1 DEF PollState
  <2>6. Ids \subseteq Ids' /\ 0 \notin Ids /\ (\A id \in Ids : issued'[id] = issued[id]) /\ \A id \in Ids : id \in Int
    BY IdsStep
  <2> QED BY <2>1, <2>2, <2>3, <2>4, <2>5, <2>6 DEF Ids
<1>1. mounted /\ h \notin upset
  BY <1>0 DEF BenchNext, UseBench, ServeOrder, Poll, RunMachine, DisturbBench, benchVars, view,
         Press, AnswerOrder, RefuseOrder, LeavePage, AnswerStatus, AnswerPoll, PollAgain,
         TakeOrder, Report, LoseVerdict, RestartBench, JudgeCase, ExpireRun, AcceptOrder
<1>2. HookInv(h)
  BY <1>1 DEF WaitInv
<1>2a. /\ hooks[h].busy \/ ((\A i \in DOMAIN orders : orders[i].hook # h) /\ (\A p \in polls : p.hook # h) /\ AtRest(h))
       /\ \A i, j \in DOMAIN orders : orders[i].hook = h /\ orders[j].hook = h => i = j
       /\ \A p, q \in polls : p.hook = h /\ q.hook = h => p = q
       /\ \A i \in DOMAIN orders, p \in polls : ~(orders[i].hook = h /\ p.hook = h)
       /\ \A p \in polls : p.hook = h => \A id \in Ids : issued[id] = h => id <= p.id
       /\ \A i \in DOMAIN orders : orders[i].hook = h /\ orders[i].id # 0 =>
            \A id \in Ids : issued[id] = h => id <= orders[i].id
  BY <1>2 DEF HookInv
\* Where nothing of h changes.
<1>3. ASSUME hooks'[h] = hooks[h], orders' = orders, polls' = polls, issued' = issued
      PROVE  HookInv(h)'
  <2>1. \A id \in Ids' : issued'[id] = h => id \in Ids
    BY <1>3 DEF Ids
  <2> QED BY <1>1, <1>2a, <1>3, <2>1, WaitKept
<1>4. CASE \/ UNCHANGED benchVars \/ TakeOrder \/ Report \/ LoseVerdict
           \/ \E exit \in Exits, right \in BOOLEAN : JudgeCase(exit, right)
           \/ \E id \in DOMAIN issued : ExpireRun(id)
  BY <1>3, <1>4 DEF benchVars, view, server, TakeOrder, Report, LoseVerdict, JudgeCase, ExpireRun
<1>5. ASSUME NEW k \in Hooks, NEW byKey \in BOOLEAN, Press(k, byKey)
      PROVE  HookInv(h)'
  <2> DEFINE x == [busy |-> TRUE, shown |-> Nothing]
             o == [hook |-> k, id |-> 0]
  <2>1. /\ hooks' = [hooks EXCEPT ![k] = x] /\ orders' = Append(orders, o)
        /\ polls' = polls /\ issued' = issued /\ (k = h => ~hooks[h].busy)
    BY <1>0, <1>5 DEF Press, server
  <2>2. /\ DOMAIN orders' = 1..(Len(orders) + 1) /\ orders'[Len(orders) + 1] = o
        /\ \A i \in DOMAIN orders : orders'[i] = orders[i]
    <3>1. o \in Order
      BY DEF Order
    <3> HIDE DEF o
    <3>2. /\ orders' \in Seq(Order) /\ Len(orders') = Len(orders) + 1 /\ orders'[Len(orders) + 1] = o
          /\ \A i \in 1..Len(orders) : orders'[i] = orders[i]
      BY <1>0, <2>1, <3>1, AppendProperties
    <3> QED BY <1>0, <3>2, LenProperties
  <2>3. \A i \in DOMAIN orders' : i \in DOMAIN orders \/ i = Len(orders) + 1
    BY <1>0, <2>2
  <2>4. CASE k = h
    <3>1. (\A i \in DOMAIN orders : orders[i].hook # h) /\ (\A p \in polls : p.hook # h)
      BY <1>2a, <2>1, <2>4
    <3>2. hooks'[h].busy
      BY <1>0, <2>1, <2>4
    <3>3. \A i \in DOMAIN orders' : orders'[i].hook = h => i = Len(orders) + 1 /\ orders'[i].id = 0
      BY <2>2, <2>3, <3>1
    <3> QED BY <2>1, <3>1, <3>2, <3>3 DEF HookInv
  <2>5. CASE k # h
    <3>1. hooks'[h] = hooks[h]
      BY <1>0, <2>1, <2>5
    <3>2. \A i \in DOMAIN orders' : orders'[i].hook = h => i \in DOMAIN orders /\ orders'[i] = orders[i]
      BY <2>2, <2>3, <2>5
    <3>3. \A id \in Ids' : issued'[id] = h => id \in Ids
      BY <2>1 DEF Ids
    <3> QED BY <1>1, <1>2a, <2>1, <3>1, <3>2, <3>3, WaitKept
  <2> QED BY <2>4, <2>5
<1>6. ASSUME NEW i \in DOMAIN orders, AnswerOrder(i)
      PROVE  HookInv(h)'
  <2> DEFINE k == orders[i].hook
             x == [id |-> orders[i].id, status |-> "QUEUED"]
             q == [hook |-> k, id |-> orders[i].id, pc |-> "fetch", status |-> "none"]
  <2>1. /\ orders[i].id # 0
        /\ hooks' = [hooks EXCEPT ![k].shown = x] /\ polls' = polls \union {q}
        /\ orders' = RemoveAt(orders, i) /\ issued' = issued
    BY <1>6 DEF AnswerOrder, server
  <2>2. /\ \A n \in DOMAIN orders' : \E m \in DOMAIN orders : m # i /\ orders'[n] = orders[m]
        /\ \A m, n \in DOMAIN orders' : orders'[m].hook = h /\ orders'[n].hook = h => m = n
    <3>1. orders' = RemoveAt(orders, i) /\ PageTypeOK
      BY <2>1 DEF BenchInv
    <3> QED BY <1>2a, <3>1, OrderLeaves
  <2>3. Ids' = Ids
    BY <2>1 DEF Ids
  <2>4. q.hook = k /\ q.id = orders[i].id
    OBVIOUS
  <2> HIDE DEF q, x
  <2>5. CASE k = h
    <3>1. (\A n \in DOMAIN orders' : orders'[n].hook # h) /\ (\A p \in polls : p.hook # h)
      BY <1>2a, <2>2, <2>5
    <3>2. hooks'[h].busy
      <4>1. hooks[h].busy
        BY <1>2a, <2>5
      <4> QED BY <1>0, <2>1, <4>1 DEF Hook
    <3>3. \A p \in polls' : p.hook = h => p = q
      BY <2>1, <3>1
    <3>4. \A id \in Ids' : issued'[id] = h => id <= q.id
      BY <1>2a, <2>1, <2>3, <2>4, <2>5
    <3> QED BY <3>1, <3>2, <3>3, <3>4 DEF HookInv
  <2>6. CASE k # h
    <3>1. hooks'[h] = hooks[h]
      BY <1>0, <2>1, <2>6
    <3>2. \A p \in polls' : p.hook = h => p \in polls
      BY <2>1, <2>4, <2>6
    <3> QED BY <1>1, <1>2a, <2>1, <2>2, <2>3, <3>1, <3>2, WaitKept
  <2> QED BY <2>5, <2>6
<1>7. ASSUME NEW i \in DOMAIN orders, RefuseOrder(i)
      PROVE  HookInv(h)'
  <2>1. /\ hooks' = [hooks EXCEPT ![orders[i].hook].busy = FALSE] /\ orders[i].hook # h
        /\ orders' = RemoveAt(orders, i) /\ polls' = polls /\ issued' = issued
    BY <1>7 DEF RefuseOrder, server
  <2>2. /\ \A n \in DOMAIN orders' : \E m \in DOMAIN orders : m # i /\ orders'[n] = orders[m]
        /\ \A m, n \in DOMAIN orders' : orders'[m].hook = h /\ orders'[n].hook = h => m = n
    <3>1. orders' = RemoveAt(orders, i) /\ PageTypeOK
      BY <2>1 DEF BenchInv
    <3> QED BY <1>2a, <3>1, OrderLeaves
  <2>3. Ids' = Ids /\ hooks'[h] = hooks[h]
    BY <1>0, <2>1 DEF Ids
  <2> QED BY <1>1, <1>2a, <2>1, <2>2, <2>3, WaitKept
<1>8. CASE LeavePage
  BY <1>8 DEF LeavePage
<1>9. ASSUME NEW p \in polls, NEW r, polls' = (polls \ {p}) \union {r}, r.hook = p.hook, r.id = p.id,
             UNCHANGED <<hooks, orders, issued>>
      PROVE  HookInv(h)'
  <2>1. \A q \in polls' : q.hook = h => \E s \in polls : s.hook = h /\ s.id = q.id
    BY <1>9
  <2>2. \A s, q \in polls' : s.hook = h /\ q.hook = h => s = q
    BY <1>2a, <1>9
  <2>3. \A id \in Ids' : issued'[id] = h => id \in Ids
    BY <1>9 DEF Ids
  <2> QED BY <1>1, <1>2a, <1>9, <2>1, <2>2, <2>3, WaitKept
<1>10. ASSUME NEW p \in polls, AnswerStatus(p)
       PROVE  HookInv(h)'
  <2> DEFINE x == IF verdicts[p.id] = "none" THEN "error" ELSE verdicts[p.id]
             r == [p EXCEPT !.pc = "answered", !.status = x]
  <2>1. polls' = (polls \ {p}) \union {r} /\ UNCHANGED <<hooks, orders, issued>>
    BY <1>10, Zenon DEF AnswerStatus, server
  <2>2. r.hook = p.hook /\ r.id = p.id
    BY <1>0 DEF PollState
  <2> HIDE DEF r
  <2> QED BY <1>9, <2>1, <2>2
<1>11. ASSUME NEW p \in polls, PollAgain(p)
       PROVE  HookInv(h)'
  <2> DEFINE r == [p EXCEPT !.pc = "fetch"]
  <2>1. polls' = (polls \ {p}) \union {r} /\ UNCHANGED <<hooks, orders, issued>>
    BY <1>11 DEF PollAgain, server
  <2>2. r.hook = p.hook /\ r.id = p.id
    BY <1>0 DEF PollState
  <2> HIDE DEF r
  <2> QED BY <1>9, <2>1, <2>2
<1>12. ASSUME NEW p \in polls, AnswerPoll(p)
       PROVE  HookInv(h)'
  <2> DEFINE done == IsTerminal(p.status)
             x == [id |-> p.id, status |-> p.status]
             r == [p EXCEPT !.pc = "timer", !.status = "none"]
  <2>1. /\ hooks' = [hooks EXCEPT ![p.hook].shown = x, ![p.hook].busy = hooks[p.hook].busy /\ ~done]
        /\ polls' = (polls \ {p}) \union (IF done THEN {} ELSE {r}) /\ UNCHANGED <<orders, issued>>
    BY <1>12 DEF AnswerPoll, Merged, server
  <2>2. r.hook = p.hook /\ r.id = p.id
    BY <1>0 DEF PollState
  <2>3. done => x.status \in Terminal
    BY DEF IsTerminal
  <2>4. x.id = p.id /\ Ids' = Ids
    BY <2>1 DEF Ids
  <2> HIDE DEF r, done, x
  <2>5. CASE p.hook # h
    <3>1. hooks'[h] = hooks[h]
      BY <1>0, <2>1, <2>5
    <3>2. \A q \in polls' : q.hook = h => q \in polls
      BY <2>1, <2>2, <2>5
    <3> QED BY <1>1, <1>2a, <2>1, <2>4, <3>1, <3>2, WaitKept
  <2>6. CASE p.hook = h
    <3>1. (\A i \in DOMAIN orders : orders[i].hook # h) /\ (\A q \in polls : q.hook = h => q = p) /\ hooks[h].busy
      BY <1>2a, <2>6
    <3>2. hooks'[h].shown = x /\ (hooks'[h].busy <=> ~done)
      BY <1>0, <2>1, <2>6, <3>1 DEF Hook
    <3>3. \A id \in Ids' : issued'[id] = h => id <= p.id
      BY <1>2a, <2>1, <2>4, <2>6
    <3>4. CASE done
      <4>1. \A q \in polls' : q.hook # h
        BY <2>1, <3>1, <3>4
      <4>2. AtRest(h)'
        BY <2>3, <2>4, <3>2, <3>3, <3>4 DEF AtRest
      <4> QED BY <2>1, <3>1, <4>1, <4>2 DEF HookInv
    <3>5. CASE ~done
      <4>1. \A q \in polls' : q.hook = h => q = r
        BY <2>1, <3>1, <3>5
      <4> QED BY <2>1, <2>2, <3>1, <3>2, <3>3, <3>5, <4>1 DEF HookInv
    <3> QED BY <3>4, <3>5
  <2> QED BY <2>5, <2>6
<1>13. ASSUME NEW i \in DOMAIN orders, AcceptOrder(i)
       PROVE  HookInv(h)'
  <2> DEFINE new == Len(issued) + 1
             k == orders[i].hook
  <2>1. /\ Ids' = Ids \union {new} /\ new \notin Ids /\ issued'[new] = k
        /\ \A id \in Ids : issued'[id] = issued[id]
    BY <1>13, AcceptStepType
  <2>2. orders' = [orders EXCEPT ![i].id = new] /\ hooks' = hooks /\ polls' = polls
    BY <1>13 DEF AcceptOrder, view
  <2>3. \A id \in Ids : id <= new
    BY IdsAre DEF BenchInv
  <2>4. new \in Int
    BY IdsAre DEF BenchInv
  <2> HIDE DEF new
  <2>5. /\ DOMAIN orders' = DOMAIN orders /\ (\A n \in DOMAIN orders : n # i => orders'[n] = orders[n])
        /\ \A n \in DOMAIN orders : orders'[n].hook = orders[n].hook
        /\ orders'[i].id = new
    BY <1>0, <2>2 DEF Order
  <2>6. CASE k = h
    <3>1. hooks'[h].busy /\ (\A p \in polls' : p.hook # h) /\ (\A n \in DOMAIN orders : orders[n].hook = h => n = i)
      BY <1>2a, <2>2, <2>6
    <3>2. \A id \in Ids' : id <= new
      BY <2>1, <2>3, <2>4
    <3> QED BY <2>5, <3>1, <3>2 DEF HookInv
  <2>7. CASE k # h
    <3>1. \A n \in DOMAIN orders' : orders'[n].hook = h => n \in DOMAIN orders /\ orders'[n] = orders[n]
      BY <2>5, <2>7
    <3>2. \A id \in Ids' : issued'[id] = h => id \in Ids
      BY <2>1, <2>7
    <3>3. hooks'[h] = hooks[h]
      BY <2>2
    <3> QED BY <1>1, <1>2a, <2>2, <3>1, <3>2, <3>3, WaitKept
  <2> QED BY <2>6, <2>7
<1>14. CASE RestartBench
  <2> DEFINE cut == {orders[i].hook : i \in DOMAIN orders} \union {p.hook : p \in {q \in polls : q.pc = "fetch"}}
  <2>1. /\ hooks' = [k \in Hooks |-> [hooks[k] EXCEPT !.busy = hooks[k].busy /\ k \notin cut]]
        /\ h \notin cut /\ orders' = <<>> /\ polls' \subseteq polls /\ issued' = issued
    BY <1>14 DEF RestartBench
  <2> HIDE DEF cut
  <2>2. hooks'[h] = [hooks[h] EXCEPT !.busy = hooks[h].busy] /\ hooks[h] \in Hook
    <3>1. (hooks[h].busy /\ h \notin cut) = hooks[h].busy
      BY <1>0, <2>1 DEF Hook
    <3>2. hooks'[h] = [hooks[h] EXCEPT !.busy = hooks[h].busy /\ h \notin cut]
      BY <2>1, Zenon
    <3> QED BY <1>0, <3>1, <3>2
  <2>3. hooks'[h] = hooks[h]
    BY <2>2 DEF Hook
  <2>4. DOMAIN orders' = {} /\ Ids' = Ids
    BY <2>1 DEF Ids
  <2> QED BY <1>1, <1>2a, <2>1, <2>3, <2>4, WaitKept
<1>15. CASE BenchNext
  BY <1>4, <1>5, <1>6, <1>7, <1>8, <1>10, <1>11, <1>12, <1>13, <1>14, <1>15
     DEF BenchNext, UseBench, ServeOrder, Poll, RunMachine, DisturbBench
<1> QED BY <1>4, <1>15

\* The property ShownIsOwn: a verdict that a page shows is that of the id it shows, and a page that
\* nothing disturbed and that waits no more shows the verdict of the last order of its hook.
THEOREM PageShowsOwnVerdict == BenchSpec => []ShownIsOwn
<1> DEFINE Inv == BenchInv /\ QueueInv /\ AnswerInv /\ WaitInv
<1>1. BenchInit => Inv
  <2> SUFFICES ASSUME BenchInit
               PROVE  Inv
    OBVIOUS
  <2>1. BenchInv
    BY BenchTypeInit, WorkbenchAssumption
  <2>2. DOMAIN waiting = {} /\ DOMAIN orders = {} /\ polls = {} /\ Ids = {} /\ machine.id = 0
        /\ \A h \in Hooks : hooks[h] = [busy |-> FALSE, shown |-> Nothing]
    BY DEF BenchInit, NoJob, Ids
  <2>3. QueueInv
    BY <2>2 DEF QueueInv
  <2>4. AnswerInv
    BY <2>2 DEF AnswerInv, Nothing, Terminal
  <2>5. WaitInv
    BY <2>2 DEF WaitInv, HookInv, AtRest
  <2> QED BY <2>1, <2>3, <2>4, <2>5
<1>2. Inv /\ [BenchNext]_benchVars => Inv'
  BY BenchStep, QueueStep, AnswerStep, WaitStep, WorkbenchAssumption
<1>3. Inv => ShownIsOwn
  BY DEF AnswerInv, WaitInv, HookInv, AtRest, ShownIsOwn
<1> QED BY <1>1, <1>2, <1>3, PTL DEF BenchSpec

=============================================================================
