------------------------------ MODULE Warnings ------------------------------
(***************************************************************************)
(* Administrators review plagiarism reports: the page lists them, a click  *)
(* asks the backend to confirm one, the handler reads the report, then the *)
(* user, and stores both in one transaction.  A second warning bans.  On   *)
(* another page administrators change roles; every request is checked once *)
(* when it starts, and runs on while its sender is demoted or banned.      *)
(***************************************************************************)
EXTENDS Integers, FiniteSets

CONSTANTS
    People,         \* users, among them the first administrators
    FirstAdmins,
    Reports,        \* plagiarism reports
    Violator,       \* the author of the reported submission
    Reviews,        \* slots for running confirm handlers
    MaxRoleChanges  \* BOUND: role changes asked for

ASSUME WarningsAssumption ==
    /\ FirstAdmins \subseteq People
    /\ IsFiniteSet(Reports) /\ Violator \in [Reports -> People]
    /\ MaxRoleChanges \in Nat

VARIABLES
    role, warnings, banned, \* of each user
    reportStatus,           \* of each report
    reviewPage,             \* what the reports page of a user shows, and its confirmingId
    reviews,                \* running handleConfirmPlagiarism
    roleChanges,            \* role changes asked for so far
    roleRequests,           \* running handleUpdateUserRole, by administrator
    confirmations,          \* history: transactions stored against each user
    raced                   \* history: users whom two reviews dealt with at once

users == <<role, warnings, banned>>
roleVars == <<roleChanges, roleRequests>>
warningVars == <<users, reportStatus, reviewPage, reviews, roleVars, confirmations, raced>>

Roles == {"USER", "ADMIN"}
NoReport == "no report"
NoReview == [pc |-> "none"]
NoRequest == [pc |-> "none"]

-----------------------------------------------------------------------------
\* requireAdmin of a user with a valid session.
MayAdminister(u) == role[u] = "ADMIN" /\ ~banned[u]

Pending == {r \in Reports : reportStatus[r] = "PENDING"}

\* The reports a running review deals with the author of.
Reviewed == {reviews[v].report : v \in {w \in Reviews : reviews[w].pc \in {"report", "user", "store"}}}

\* The page loads or reloads its list.
LoadReports(a) ==
    /\ MayAdminister(a)
    /\ reviewPage' = [reviewPage EXCEPT ![a].shown = Pending]
    /\ UNCHANGED <<users, reportStatus, reviews, roleVars, confirmations, raced>>

\* The button of a report the page shows as pending; only the one last pressed is disabled.
ClickConfirm(a, r, v) ==
    /\ reviews[v].pc = "none"
    /\ r \in reviewPage[a].shown /\ reviewPage[a].confirming # r
    /\ reviewPage' = [reviewPage EXCEPT ![a].confirming = r]
    /\ reviews' = [reviews EXCEPT ![v] =
                      [pc |-> IF MayAdminister(a) THEN "report" ELSE "error", by |-> a, report |-> r]]
    /\ raced' = IF MayAdminister(a) /\ Violator[r] \in {Violator[q] : q \in Reviewed}
                THEN raced \union {Violator[r]} ELSE raced
    /\ UNCHANGED <<users, reportStatus, roleVars, confirmations>>

\* Mutant: a report that was reviewed is reviewed again.
OpenReportAny(r) == TRUE

\* The check of the report's status.
OpenReport(r) == reportStatus[r] = "PENDING"

\* The report is read.
ReadReport(v) ==
    /\ reviews[v].pc = "report"
    /\ reviews' = [reviews EXCEPT ![v].pc = IF OpenReport(reviews[v].report) THEN "user" ELSE "error"]
    /\ UNCHANGED <<users, reportStatus, reviewPage, roleVars, confirmations, raced>>

\* The user is read, and with it the count of warnings.
ReadViolator(v) ==
    /\ reviews[v].pc = "user"
    /\ LET found == warnings[Violator[reviews[v].report]] IN
       reviews' = [reviews EXCEPT ![v] = [pc |-> "store", by |-> @.by, report |-> @.report,
                                          warnings |-> found + 1]]
    /\ UNCHANGED <<users, reportStatus, reviewPage, roleVars, confirmations, raced>>

\* Mutant: the first warning bans.
ShouldBanAtOnce(w) == w >= 1

\* shouldBan
ShouldBan(w) == w >= 2

\* The transaction: the report and the user.
StoreReview(v) ==
    /\ reviews[v].pc = "store"
    /\ LET r == reviews[v].report
           u == Violator[r]
           w == reviews[v].warnings
       IN /\ reportStatus' = [reportStatus EXCEPT ![r] = "CONFIRMED"]
          /\ warnings' = [warnings EXCEPT ![u] = w]
          /\ banned' = [banned EXCEPT ![u] = @ \/ ShouldBan(w)]
          /\ confirmations' = [confirmations EXCEPT ![u] = @ + 1]
    /\ reviews' = [reviews EXCEPT ![v].pc = "ok"]
    /\ UNCHANGED <<role, reviewPage, roleVars, raced>>

\* setConfirmingId(null), whichever report it is for by now.
Released(a, v) == NoReport

\* The page gets its answer, and after a success reloads the list.
AnswerReview(v) ==
    /\ reviews[v].pc \in {"ok", "error"}
    /\ LET a == reviews[v].by IN
       reviewPage' = [reviewPage EXCEPT
            ![a] = [confirming |-> Released(a, v),
                    shown |-> IF reviews[v].pc = "ok" /\ MayAdminister(a) THEN Pending ELSE @.shown]]
    /\ reviews' = [reviews EXCEPT ![v] = NoReview]
    /\ UNCHANGED <<users, reportStatus, roleVars, confirmations, raced>>

\* Mutant: any role is taken.
ValidRoleAny(r) == TRUE

\* The roles handleUpdateUserRole takes.
ValidRole(r) == r \in Roles

\* handleUpdateUserRole passes its checks.
AskRole(a, u, r) ==
    /\ ValidRole(r)
    /\ roleChanges < MaxRoleChanges
    /\ roleRequests[a].pc = "none" /\ MayAdminister(a)
    /\ roleChanges' = roleChanges + 1
    /\ roleRequests' = [roleRequests EXCEPT ![a] = [pc |-> "update", user |-> u, role |-> r]]
    /\ UNCHANGED <<users, reportStatus, reviewPage, reviews, confirmations, raced>>

\* It writes the role it was asked for.
UpdateRole(a) ==
    /\ roleRequests[a].pc = "update"
    /\ role' = [role EXCEPT ![roleRequests[a].user] = roleRequests[a].role]
    /\ roleRequests' = [roleRequests EXCEPT ![a] = NoRequest]
    /\ UNCHANGED <<warnings, banned, reportStatus, reviewPage, reviews, roleChanges, confirmations, raced>>

WarningInit ==
    /\ role = [u \in People |-> IF u \in FirstAdmins THEN "ADMIN" ELSE "USER"]
    /\ warnings = [u \in People |-> 0]
    /\ banned = [u \in People |-> FALSE]
    /\ reportStatus = [r \in Reports |-> "PENDING"]
    /\ reviewPage = [a \in People |-> [shown |-> {}, confirming |-> NoReport]]
    /\ reviews = [v \in Reviews |-> NoReview]
    /\ roleChanges = 0
    /\ roleRequests = [a \in People |-> NoRequest]
    /\ confirmations = [u \in People |-> 0]
    /\ raced = {}

RunReview == \E v \in Reviews : ReadReport(v) \/ ReadViolator(v) \/ StoreReview(v) \/ AnswerReview(v)

UseReviewPage == \E a \in People : LoadReports(a) \/ \E r \in Reports, v \in Reviews : ClickConfirm(a, r, v)

ChangeRoles == \E a \in People : UpdateRole(a) \/ \E u \in People, r \in Roles \union {"OWNER"} : AskRole(a, u, r)

WarningNext == RunReview \/ UseReviewPage \/ ChangeRoles

WarningSpec == WarningInit /\ [][WarningNext]_warningVars

-----------------------------------------------------------------------------
(* Properties.                                                             *)

Review == {NoReview} \union
          [pc : {"report", "user", "ok", "error"}, by : People, report : Reports] \union
          [pc : {"store", "ok"}, by : People, report : Reports, warnings : Nat]

\* Every variable of the reviews has its type.
WarningTypeOK ==
    /\ role \in [People -> Roles]
    /\ warnings \in [People -> Nat] /\ banned \in [People -> BOOLEAN]
    /\ reportStatus \in [Reports -> {"PENDING", "CONFIRMED"}]
    /\ reviewPage \in [People -> [shown : SUBSET Reports, confirming : Reports \union {NoReport}]]
    /\ reviews \in [Reviews -> Review]
    /\ roleChanges \in 0..MaxRoleChanges
    /\ roleRequests \in [People -> {NoRequest} \union [pc : {"update"}, user : People, role : Roles]]
    /\ confirmations \in [People -> Nat] /\ raced \subseteq People

ConfirmedAgainst(u) == {r \in Reports : reportStatus[r] = "CONFIRMED" /\ Violator[r] = u}

\* A user's warnings are backed by confirmations, also when reviews overlap: never
\* more warnings than transactions stored, at least one once a report is confirmed,
\* no ban before the second transaction.
WarningsBacked ==
    \A u \in People :
        /\ warnings[u] <= confirmations[u]
        /\ ConfirmedAgainst(u) # {} => warnings[u] >= 1
        /\ banned[u] => confirmations[u] >= 2

\* The second confirmed report bans, and only that, for users whom no two reviews
\* dealt with at once; pages that still show a report somebody else has confirmed
\* do not make it count twice.
SecondReportBans ==
    \A u \in People \ raced :
        /\ warnings[u] = Cardinality(ConfirmedAgainst(u))
        /\ banned[u] <=> Cardinality(ConfirmedAgainst(u)) >= 2
=============================================================================
