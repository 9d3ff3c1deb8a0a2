------------------------- MODULE ContestantProofs --------------------------
(***************************************************************************)
(* Theorems about what reaches a contestant from the outside.              *)
(* Warnings: they are backed by confirmations whatever the interleaving,   *)
(* and for users whom no two reviews dealt with at once the second         *)
(* confirmed report bans, and only that.  VirtualContest: a session that a *)
(* browser counts down stays stored unless two starts ran at once, and     *)
(* submissions closer than the cooldown come from handlers that were past  *)
(* its check together.  Realtime: a page shows the latest board, for any   *)
(* number of contests, pages and updates.                                  *)
(***************************************************************************)
EXTENDS Warnings, VirtualContest, Realtime, SequenceTheorems, SumTheorems

-----------------------------------------------------------------------------
(* Warnings: types.                                                        *)

LEMMA WarningTypeInit == WarningInit => WarningTypeOK
<1> SUFFICES ASSUME WarningInit PROVE WarningTypeOK
  OBVIOUS
<1>1. role \in [People -> Roles] /\ banned \in [People -> BOOLEAN]
  BY DEF WarningInit, Roles
<1>2. warnings \in [People -> Nat] /\ confirmations \in [People -> Nat]
  BY DEF WarningInit
<1>3. reviews \in [Reviews -> Review] /\ reportStatus \in [Reports -> {"PENDING", "CONFIRMED"}]
  BY DEF WarningInit, Review
<1>4. reviewPage \in [People -> [shown : SUBSET Reports, confirming : Reports \union {NoReport}]]
  BY DEF WarningInit
<1>5. roleChanges \in 0..MaxRoleChanges /\ raced \subseteq People
  BY WarningsAssumption DEF WarningInit, WarningsAssumption
<1>6. roleRequests \in [People -> {NoRequest} \union [pc : {"update"}, user : People, role : Roles]]
  BY DEF WarningInit
<1> QED
  BY <1>1, <1>2, <1>3, <1>4, <1>5, <1>6 DEF WarningTypeOK

LEMMA WarningTypeStep == WarningTypeOK /\ [WarningNext]_warningVars => WarningTypeOK'
<1> SUFFICES ASSUME WarningTypeOK, [WarningNext]_warningVars PROVE WarningTypeOK'
  OBVIOUS
<1> USE WarningsAssumption DEF WarningsAssumption
<1>1. ASSUME NEW a \in People, LoadReports(a) PROVE WarningTypeOK'
  BY <1>1 DEF LoadReports, WarningTypeOK, users, roleVars, Pending
<1>2. ASSUME NEW a \in People, NEW r \in Reports, NEW v \in Reviews, ClickConfirm(a, r, v)
      PROVE  WarningTypeOK'
  <2>1. reviews' \in [Reviews -> Review]
    BY <1>2 DEF ClickConfirm, WarningTypeOK, Review, NoReview
  <2>2. reviewPage' \in [People -> [shown : SUBSET Reports, confirming : Reports \union {NoReport}]]
    BY <1>2 DEF ClickConfirm, WarningTypeOK
  <2>3. raced' \subseteq People
    BY <1>2 DEF ClickConfirm, WarningTypeOK
  <2> QED
    BY <1>2, <2>1, <2>2, <2>3 DEF ClickConfirm, WarningTypeOK, users, roleVars
<1>3. ASSUME NEW v \in Reviews, ReadReport(v) PROVE WarningTypeOK'
  BY <1>3 DEF ReadReport, WarningTypeOK, Review, NoReview, users, roleVars
<1>4. ASSUME NEW v \in Reviews, ReadViolator(v) PROVE WarningTypeOK'
  <2>1. reviews[v].by \in People /\ reviews[v].report \in Reports
    BY <1>4 DEF ReadViolator, WarningTypeOK, Review, NoReview
  <2>2. warnings[Violator[reviews[v].report]] + 1 \in Nat
    BY <2>1 DEF WarningTypeOK
  <2> QED
    BY <1>4, <2>1, <2>2 DEF ReadViolator, WarningTypeOK, Review, users, roleVars
<1>5. ASSUME NEW v \in Reviews, StoreReview(v) PROVE WarningTypeOK'
  <2>1. reviews[v] \in [pc : {"store", "ok"}, by : People, report : Reports, warnings : Nat]
    BY <1>5 DEF StoreReview, WarningTypeOK, Review, NoReview
  <2>2. reviews' \in [Reviews -> Review]
    BY <1>5, <2>1 DEF StoreReview, WarningTypeOK, Review
  <2>3. reportStatus' \in [Reports -> {"PENDING", "CONFIRMED"}]
    BY <1>5 DEF StoreReview, WarningTypeOK
  <2>4. warnings' \in [People -> Nat] /\ confirmations' \in [People -> Nat]
    BY <1>5, <2>1 DEF StoreReview, WarningTypeOK
  <2>5. banned' \in [People -> BOOLEAN]
    BY <1>5 DEF StoreReview, ShouldBan, WarningTypeOK
  <2> QED
    BY <1>5, <2>2, <2>3, <2>4, <2>5 DEF StoreReview, WarningTypeOK, roleVars
<1>6. ASSUME NEW v \in Reviews, AnswerReview(v) PROVE WarningTypeOK'
  <2>1. reviews[v].by \in People
    BY <1>6 DEF AnswerReview, WarningTypeOK, Review, NoReview
  <2>2. reviewPage' \in [People -> [shown : SUBSET Reports, confirming : Reports \union {NoReport}]]
    BY <1>6, <2>1 DEF AnswerReview, WarningTypeOK, Pending, Released
  <2>3. reviews' \in [Reviews -> Review]
    BY <1>6 DEF AnswerReview, WarningTypeOK, Review
  <2> QED
    BY <1>6, <2>2, <2>3 DEF AnswerReview, WarningTypeOK, users, roleVars
<1>7. ASSUME NEW a \in People, UpdateRole(a) PROVE WarningTypeOK'
  BY <1>7 DEF UpdateRole, WarningTypeOK, NoRequest
<1>8. ASSUME NEW a \in People, NEW u \in People, NEW r \in Roles \union {"OWNER"}, AskRole(a, u, r)
      PROVE  WarningTypeOK'
  BY <1>8 DEF AskRole, ValidRole, WarningTypeOK, users
<1>9. CASE UNCHANGED warningVars
  BY <1>9 DEF warningVars, users, roleVars, WarningTypeOK
<1> QED
  BY <1>1, <1>2, <1>3, <1>4, <1>5, <1>6, <1>7, <1>8, <1>9
     DEF WarningNext, RunReview, UseReviewPage, ChangeRoles

\* Every variable of the reviews keeps its type, for any users, reports and handlers.
THEOREM WarningTypeCorrect == WarningSpec => []WarningTypeOK
BY WarningTypeInit, WarningTypeStep, PTL DEF WarningSpec

-----------------------------------------------------------------------------
(* Warnings: they are backed.                                              *)

\* A count a review is about to store is that of the user at some earlier moment, and
\* one more; warnings of a user never fall to none again.
BackedInv ==
    /\ \A u \in People : /\ warnings[u] <= confirmations[u]
                         /\ banned[u] => confirmations[u] >= 2
    /\ \A v \in Reviews : reviews[v].pc = "store" =>
          reviews[v].warnings \in 1..(confirmations[Violator[reviews[v].report]] + 1)
    /\ \A r \in Reports : reportStatus[r] = "CONFIRMED" => warnings[Violator[r]] >= 1

\* The types of what a running review holds.
LEMMA ReviewFields ==
    ASSUME WarningTypeOK, NEW v \in Reviews
    PROVE  /\ reviews[v].pc # "none" => reviews[v].by \in People /\ reviews[v].report \in Reports
           /\ reviews[v].pc = "store" => reviews[v].warnings \in Nat
           /\ reviews[v].pc # "none" => Violator[reviews[v].report] \in People
BY WarningsAssumption DEF WarningsAssumption, WarningTypeOK, Review, NoReview

LEMMA BackedInit == WarningInit => BackedInv
BY WarningsAssumption DEF WarningsAssumption, WarningInit, BackedInv, NoReview

LEMMA BackedStep == WarningTypeOK /\ BackedInv /\ [WarningNext]_warningVars => BackedInv'
<1> SUFFICES ASSUME WarningTypeOK, BackedInv, [WarningNext]_warningVars PROVE BackedInv'
  OBVIOUS
<1> USE WarningsAssumption DEF WarningsAssumption
<1>1. ASSUME NEW a \in People, LoadReports(a) PROVE BackedInv'
  BY <1>1 DEF LoadReports, BackedInv, users
<1>2. ASSUME NEW a \in People, NEW r \in Reports, NEW v \in Reviews, ClickConfirm(a, r, v)
      PROVE  BackedInv'
  BY <1>2 DEF ClickConfirm, BackedInv, WarningTypeOK, users
<1>3. ASSUME NEW v \in Reviews, ReadReport(v) PROVE BackedInv'
  BY <1>3, ReviewFields DEF ReadReport, BackedInv, WarningTypeOK, users
<1>4. ASSUME NEW v \in Reviews, ReadViolator(v) PROVE BackedInv'
  <2> DEFINE u == Violator[reviews[v].report]
  <2>1. u \in People /\ warnings[u] \in Nat /\ confirmations[u] \in Nat
    BY <1>4, ReviewFields DEF ReadViolator, WarningTypeOK
  <2>2. warnings[u] + 1 \in 1..(confirmations[u] + 1)
    BY <2>1 DEF BackedInv
  <2>3. ASSUME NEW w \in Reviews, reviews'[w].pc = "store"
        PROVE  reviews'[w].warnings \in 1..(confirmations[Violator[reviews'[w].report]] + 1)
    BY <1>4, <2>2, <2>3 DEF ReadViolator, BackedInv, WarningTypeOK
  <2> QED
    BY <1>4, <2>3 DEF ReadViolator, BackedInv, users
<1>5. ASSUME NEW v \in Reviews, StoreReview(v) PROVE BackedInv'
  <2> DEFINE u == Violator[reviews[v].report]
             w == reviews[v].warnings
  <2>1. u \in People /\ w \in Nat /\ reviews[v].report \in Reports
    BY <1>5, ReviewFields DEF StoreReview
  <2>2. w >= 1 /\ w <= confirmations[u] + 1
    BY <1>5, <2>1 DEF StoreReview, BackedInv, WarningTypeOK
  <2>3. /\ warnings' = [warnings EXCEPT ![u] = w]
        /\ banned' = [banned EXCEPT ![u] = banned[u] \/ ShouldBan(w)]
        /\ confirmations' = [confirmations EXCEPT ![u] = confirmations[u] + 1]
        /\ reportStatus' = [reportStatus EXCEPT ![reviews[v].report] = "CONFIRMED"]
        /\ reviews' = [reviews EXCEPT ![v].pc = "ok"]
    BY <1>5 DEF StoreReview
  <2>4. ASSUME NEW x \in People
        PROVE  warnings'[x] <= confirmations'[x] /\ (banned'[x] => confirmations'[x] >= 2)
    <3>1. CASE x = u
      <4>1. /\ warnings'[x] = w /\ confirmations'[x] = confirmations[u] + 1
            /\ banned'[x] => banned[u] \/ w >= 2
        BY <2>1, <2>3, <3>1 DEF WarningTypeOK, ShouldBan
      <4>2. confirmations[u] \in Nat /\ (banned[u] => confirmations[u] >= 2)
        BY <2>1 DEF WarningTypeOK, BackedInv
      <4> QED
        BY <4>1, <4>2, <2>1, <2>2
    <3>2. CASE x # u
      BY <2>3, <3>2 DEF WarningTypeOK, BackedInv
    <3> QED
      BY <3>1, <3>2
  <2>5. ASSUME NEW x \in Reviews, reviews'[x].pc = "store"
        PROVE  reviews'[x].warnings \in 1..(confirmations'[Violator[reviews'[x].report]] + 1)
    <3>1. x # v /\ reviews'[x] = reviews[x]
      BY <2>3, <2>5 DEF WarningTypeOK
    <3> DEFINE y == Violator[reviews[x].report]
    <3>2. y \in People /\ reviews[x].warnings \in Nat
      BY <2>5, <3>1, ReviewFields
    <3>3. confirmations[y] \in Nat /\ confirmations'[y] \in Nat /\ confirmations[y] <= confirmations'[y]
      BY <2>1, <2>3, <3>2 DEF WarningTypeOK
    <3>4. reviews[x].warnings \in 1..(confirmations[y] + 1)
      BY <2>5, <3>1 DEF BackedInv
    <3> QED
      BY <3>1, <3>2, <3>3, <3>4
  <2>6. ASSUME NEW r \in Reports, reportStatus'[r] = "CONFIRMED"
        PROVE  warnings'[Violator[r]] >= 1
    <3>1. CASE Violator[r] = u
      BY <2>1, <2>2, <2>3, <3>1 DEF WarningTypeOK
    <3>2. CASE Violator[r] # u
      BY <2>1, <2>3, <2>6, <3>2 DEF WarningTypeOK, BackedInv
    <3> QED
      BY <3>1, <3>2
  <2> QED
    BY <2>4, <2>5, <2>6 DEF BackedInv
<1>6. ASSUME NEW v \in Reviews, AnswerReview(v) PROVE BackedInv'
  BY <1>6 DEF AnswerReview, BackedInv, WarningTypeOK, NoReview, users
<1>7. ASSUME NEW a \in People, UpdateRole(a) PROVE BackedInv'
  BY <1>7 DEF UpdateRole, BackedInv
<1>8. ASSUME NEW a \in People, NEW u \in People, NEW r \in Roles \union {"OWNER"}, AskRole(a, u, r)
      PROVE  BackedInv'
  BY <1>8 DEF AskRole, BackedInv, users
<1>9. CASE UNCHANGED warningVars
  BY <1>9 DEF warningVars, users, roleVars, BackedInv
<1> QED
  BY <1>1, <1>2, <1>3, <1>4, <1>5, <1>6, <1>7, <1>8, <1>9
     DEF WarningNext, RunReview, UseReviewPage, ChangeRoles

LEMMA BackedImplies == WarningTypeOK /\ BackedInv => WarningsBacked
BY DEF BackedInv, WarningsBacked, ConfirmedAgainst

\* A user's warnings are backed by stored confirmations in every interleaving of any
\* number of administrators, reports and handlers.
THEOREM WarningsBackedAlways == WarningSpec => []WarningsBacked
<1>1. WarningInit => BackedInv
  BY BackedInit
<1>2. WarningTypeOK /\ BackedInv /\ [WarningNext]_warningVars => BackedInv'
  BY BackedStep
<1>3. WarningTypeOK /\ BackedInv => WarningsBacked
  BY BackedImplies
<1> QED
  BY <1>1, <1>2, <1>3, WarningTypeCorrect, PTL DEF WarningSpec

-----------------------------------------------------------------------------
(* Warnings: the second report bans.                                       *)

Active(v) == reviews[v].pc \in {"report", "user", "store"}
Against(v) == Violator[reviews[v].report]

\* For a user whom no two reviews dealt with at once: there is one running review at
\* most, the report it is about is still pending once it has looked, and the count it
\* is about to store is the user's plus one; which is why the property is kept.
AloneInv ==
    /\ \A v, w \in Reviews : Active(v) /\ Active(w) /\ Against(v) = Against(w) /\ Against(v) \notin raced
                             => v = w
    /\ \A v \in Reviews : reviews[v].pc \in {"user", "store"} /\ Against(v) \notin raced
                             => reportStatus[reviews[v].report] = "PENDING"
    /\ \A v \in Reviews : reviews[v].pc = "store" /\ Against(v) \notin raced
                             => reviews[v].warnings = warnings[Against(v)] + 1
    /\ SecondReportBans

LEMMA ConfirmedFinite == \A u : IsFiniteSet(ConfirmedAgainst(u)) /\ Cardinality(ConfirmedAgainst(u)) \in Nat
<1> TAKE u
<1>1. IsFiniteSet(ConfirmedAgainst(u))
  BY WarningsAssumption, FS_Subset DEF WarningsAssumption, ConfirmedAgainst
<1> QED
  BY <1>1, FS_CardinalityType

LEMMA AloneInit == WarningInit => AloneInv
<1> SUFFICES ASSUME WarningInit PROVE AloneInv
  OBVIOUS
<1>1. \A v \in Reviews : reviews[v].pc = "none"
  BY DEF WarningInit, NoReview
<1>2. \A u \in People : ConfirmedAgainst(u) = {}
  BY DEF WarningInit, ConfirmedAgainst
<1>3. ASSUME NEW u \in People
      PROVE  /\ warnings[u] = Cardinality(ConfirmedAgainst(u))
             /\ banned[u] <=> Cardinality(ConfirmedAgainst(u)) >= 2
  <2>1. Cardinality(ConfirmedAgainst(u)) = 0 /\ ~(0 >= 2)
    BY <1>2, FS_EmptySet
  <2>2. warnings[u] = 0 /\ ~banned[u]
    BY DEF WarningInit
  <2> QED
    BY <2>1, <2>2
<1>4. SecondReportBans
  BY <1>3 DEF SecondReportBans
<1> QED
  BY <1>1, <1>4 DEF AloneInv, Active

\* Nothing changes for the property unless a confirmation is stored.
LEMMA SecondReportKept ==
    ASSUME SecondReportBans, UNCHANGED <<warnings, banned, reportStatus>>, raced \subseteq raced'
    PROVE  SecondReportBans'
BY DEF SecondReportBans, ConfirmedAgainst

LEMMA AloneStep == WarningTypeOK /\ AloneInv /\ [WarningNext]_warningVars => AloneInv'
<1> SUFFICES ASSUME WarningTypeOK, AloneInv, [WarningNext]_warningVars PROVE AloneInv'
  OBVIOUS
<1> USE WarningsAssumption DEF WarningsAssumption
<1>0. SecondReportBans
  BY DEF AloneInv
<1>1. ASSUME NEW a \in People, LoadReports(a) PROVE AloneInv'
  BY <1>0, <1>1, SecondReportKept DEF LoadReports, AloneInv, Active, Against, users
<1>2. ASSUME NEW a \in People, NEW r \in Reports, NEW v \in Reviews, ClickConfirm(a, r, v)
      PROVE  AloneInv'
  <2>1. SecondReportBans'
    BY <1>0, <1>2, SecondReportKept DEF ClickConfirm, users
  <2>2. \A w \in Reviews \ {v} : reviews'[w] = reviews[w]
    BY <1>2 DEF ClickConfirm, WarningTypeOK
  <2>3. reviews'[v].report = r /\ reviews'[v].pc \in {"report", "error"}
    BY <1>2 DEF ClickConfirm, WarningTypeOK
  <2>4. raced \subseteq raced'
    BY <1>2 DEF ClickConfirm
  <2>5. ASSUME NEW w \in Reviews \ {v}, Active(v)', Active(w), Against(w) = Violator[r]
        PROVE  Violator[r] \in raced'
    <3>1. MayAdminister(a)
      BY <1>2, <2>5 DEF ClickConfirm, WarningTypeOK, Active
    <3>2. reviews[w].report \in Reviewed
      BY <2>5 DEF Reviewed, Active
    <3> QED
      BY <1>2, <2>5, <3>1, <3>2 DEF ClickConfirm, Against
  <2>6. ASSUME NEW x \in Reviews, NEW y \in Reviews, Active(x)', Active(y)',
               (Against(x) = Against(y))', (Against(x) \notin raced)'
        PROVE  x = y
    <3>1. CASE x # v /\ y # v
      BY <2>2, <2>4, <2>6, <3>1 DEF AloneInv, Active, Against
    <3>2. CASE x = v /\ y # v
      BY <2>2, <2>3, <2>5, <2>6, <3>2 DEF Active, Against
    <3>3. CASE x # v /\ y = v
      BY <2>2, <2>3, <2>5, <2>6, <3>3 DEF Active, Against
    <3> QED
      BY <3>1, <3>2, <3>3
  <2>7. UNCHANGED <<warnings, reportStatus>>
    BY <1>2 DEF ClickConfirm, users
  <2>8. ASSUME NEW x \in Reviews, (reviews[x].pc \in {"user", "store"})', (Against(x) \notin raced)'
        PROVE  /\ reportStatus'[reviews'[x].report] = "PENDING"
               /\ reviews'[x].pc = "store" => reviews'[x].warnings = warnings'[Against(x)'] + 1
    <3>1. x # v /\ reviews'[x] = reviews[x]
      BY <2>2, <2>3, <2>8
    <3> QED
      BY <2>4, <2>7, <2>8, <3>1 DEF AloneInv, Against
  <2> QED
    BY <2>1, <2>6, <2>8 DEF AloneInv
<1>3. ASSUME NEW v \in Reviews, ReadReport(v) PROVE AloneInv'
  <2>1. SecondReportBans'
    BY <1>0, <1>3, SecondReportKept DEF ReadReport, users
  <2>2. /\ \A w \in Reviews \ {v} : reviews'[w] = reviews[w]
        /\ reviews'[v].report = reviews[v].report
        /\ reviews'[v].pc \in {"user", "error"}
        /\ reviews'[v].pc = "user" => reportStatus[reviews[v].report] = "PENDING"
        /\ reviews[v].pc = "report"
        /\ UNCHANGED <<warnings, reportStatus, raced>>
    BY <1>3, ReviewFields DEF ReadReport, OpenReport, WarningTypeOK, users
  <2> QED
    BY <2>1, <2>2 DEF AloneInv, Active, Against
<1>4. ASSUME NEW v \in Reviews, ReadViolator(v) PROVE AloneInv'
  <2>1. SecondReportBans'
    BY <1>0, <1>4, SecondReportKept DEF ReadViolator, users
  <2>2. /\ \A w \in Reviews \ {v} : reviews'[w] = reviews[w]
        /\ reviews'[v].report = reviews[v].report
        /\ reviews'[v].pc = "store" /\ reviews[v].pc = "user"
        /\ reviews'[v].warnings = warnings[Against(v)] + 1
        /\ UNCHANGED <<warnings, reportStatus, raced>>
    BY <1>4 DEF ReadViolator, WarningTypeOK, users, Against
  <2> QED
    BY <2>1, <2>2 DEF AloneInv, Active, Against
<1>5. ASSUME NEW v \in Reviews, StoreReview(v) PROVE AloneInv'
  <2> DEFINE u == Violator[reviews[v].report]
             q == reviews[v].report
             w == reviews[v].warnings
  <2>1. u \in People /\ w \in Nat /\ q \in Reports /\ Active(v) /\ u = Against(v)
    BY <1>5, ReviewFields DEF StoreReview, Active, Against
  <2>2. /\ warnings' = [warnings EXCEPT ![u] = w]
        /\ banned' = [banned EXCEPT ![u] = banned[u] \/ ShouldBan(w)]
        /\ reportStatus' = [reportStatus EXCEPT ![q] = "CONFIRMED"]
        /\ reviews' = [reviews EXCEPT ![v].pc = "ok"]
        /\ raced' = raced /\ reviews[v].pc = "store"
    BY <1>5 DEF StoreReview
  <2>3. /\ \A x \in Reviews \ {v} : reviews'[x] = reviews[x]
        /\ reviews'[v].pc = "ok"
    BY <2>2 DEF WarningTypeOK
  <2>4. ASSUME NEW x \in People \ raced
        PROVE  /\ warnings'[x] = Cardinality(ConfirmedAgainst(x)')
               /\ banned'[x] <=> Cardinality(ConfirmedAgainst(x)') >= 2
    <3>1. CASE x = u
      <4>1. reportStatus[q] = "PENDING" /\ w = warnings[u] + 1
        BY <2>1, <2>2, <2>4, <3>1 DEF AloneInv
      <4>2. ConfirmedAgainst(x)' = ConfirmedAgainst(x) \union {q} /\ q \notin ConfirmedAgainst(x)
        BY <2>1, <2>2, <3>1, <4>1 DEF ConfirmedAgainst, WarningTypeOK
      <4>3. Cardinality(ConfirmedAgainst(x)') = Cardinality(ConfirmedAgainst(x)) + 1
        BY <4>2, ConfirmedFinite, FS_AddElement
      <4>4. /\ warnings[x] = Cardinality(ConfirmedAgainst(x))
            /\ banned[x] <=> Cardinality(ConfirmedAgainst(x)) >= 2
        BY <1>0, <2>4 DEF SecondReportBans
      <4>5. /\ warnings'[x] = w
            /\ banned'[x] <=> (banned[x] \/ w >= 2)
        BY <2>1, <2>2, <3>1 DEF WarningTypeOK, ShouldBan
      <4>6. Cardinality(ConfirmedAgainst(x)) \in Nat
        BY ConfirmedFinite
      <4>7. warnings'[x] = Cardinality(ConfirmedAgainst(x)')
        BY <3>1, <4>1, <4>3, <4>4, <4>5
      <4>8. w = Cardinality(ConfirmedAgainst(x)) + 1
        BY <3>1, <4>1, <4>4
      <4>9. (banned[x] \/ w >= 2) <=> Cardinality(ConfirmedAgainst(x)') >= 2
        BY <4>3, <4>4, <4>6, <4>8
      <4> QED
        BY <4>5, <4>7, <4>9
    <3>2. CASE x # u
      <4>1. ConfirmedAgainst(x)' = ConfirmedAgainst(x)
        BY <2>1, <2>2, <3>2 DEF ConfirmedAgainst, WarningTypeOK
      <4>2. warnings'[x] = warnings[x] /\ banned'[x] = banned[x]
        BY <2>1, <2>2, <3>2 DEF WarningTypeOK
      <4> QED
        BY <1>0, <2>4, <4>1, <4>2 DEF SecondReportBans
    <3> QED
      BY <3>1, <3>2
  <2>5. SecondReportBans'
    BY <2>2, <2>4 DEF SecondReportBans
  <2>6. ASSUME NEW x \in Reviews, x # v, Active(x), Against(x) \notin raced
        PROVE  Against(x) # u /\ reviews[x].report # q
    BY <2>1, <2>6 DEF AloneInv, Against
  <2>7. ASSUME NEW x \in Reviews, (reviews[x].pc \in {"user", "store"})', (Against(x) \notin raced)'
        PROVE  /\ reportStatus'[reviews'[x].report] = "PENDING"
               /\ reviews'[x].pc = "store" => reviews'[x].warnings = warnings'[Against(x)'] + 1
    <3>1. x # v /\ reviews'[x] = reviews[x]
      BY <2>3, <2>7
    <3>2. Active(x) /\ Against(x) \notin raced /\ Against(x)' = Against(x)
      BY <2>2, <2>7, <3>1 DEF Active, Against
    <3>3. Against(x) # u /\ reviews[x].report # q
      BY <2>6, <3>1, <3>2
    <3>4. Against(x) \in People /\ reviews[x].report \in Reports
      BY <2>7, <3>1, ReviewFields DEF Against
    <3>5. /\ reportStatus'[reviews[x].report] = reportStatus[reviews[x].report]
          /\ warnings'[Against(x)] = warnings[Against(x)]
      BY <2>1, <2>2, <3>3, <3>4 DEF WarningTypeOK
    <3> QED
      BY <2>7, <3>1, <3>2, <3>5 DEF AloneInv
  <2>8. ASSUME NEW x \in Reviews, NEW y \in Reviews, Active(x)', Active(y)',
               (Against(x) = Against(y))', (Against(x) \notin raced)'
        PROVE  x = y
    BY <2>2, <2>3, <2>8 DEF AloneInv, Active, Against
  <2> QED
    BY <2>5, <2>7, <2>8 DEF AloneInv
<1>6. ASSUME NEW v \in Reviews, AnswerReview(v) PROVE AloneInv'
  <2>1. SecondReportBans'
    BY <1>0, <1>6, SecondReportKept DEF AnswerReview, users
  <2>2. /\ \A w \in Reviews \ {v} : reviews'[w] = reviews[w]
        /\ reviews'[v].pc = "none"
        /\ UNCHANGED <<warnings, reportStatus, raced>>
    BY <1>6 DEF AnswerReview, NoReview, WarningTypeOK, users
  <2> QED
    BY <2>1, <2>2 DEF AloneInv, Active, Against
<1>7. ASSUME NEW a \in People, UpdateRole(a) PROVE AloneInv'
  BY <1>0, <1>7, SecondReportKept DEF UpdateRole, AloneInv, Active, Against
<1>8. ASSUME NEW a \in People, NEW u \in People, NEW r \in Roles \union {"OWNER"}, AskRole(a, u, r)
      PROVE  AloneInv'
  BY <1>0, <1>8, SecondReportKept DEF AskRole, AloneInv, Active, Against, users
<1>9. CASE UNCHANGED warningVars
  BY <1>0, <1>9, SecondReportKept DEF warningVars, users, roleVars, AloneInv, Active, Against
<1> QED
  BY <1>1, <1>2, <1>3, <1>4, <1>5, <1>6, <1>7, <1>8, <1>9
     DEF WarningNext, RunReview, UseReviewPage, ChangeRoles

\* For a user whom no two reviews dealt with at once, the warnings are the confirmed
\* reports, and the second one bans, however stale the administrators' pages are.
THEOREM SecondReportBansAlways == WarningSpec => []SecondReportBans
<1>1. WarningInit => AloneInv
  BY AloneInit
<1>2. WarningTypeOK /\ AloneInv /\ [WarningNext]_warningVars => AloneInv'
  BY AloneStep
<1>3. AloneInv => SecondReportBans
  BY DEF AloneInv
<1> QED
  BY <1>1, <1>2, <1>3, WarningTypeCorrect, PTL DEF WarningSpec

-----------------------------------------------------------------------------
(* VirtualContest: types.                                                  *)

LEMMA AgedSession == ASSUME NEW s \in SessionRecord PROVE [s EXCEPT !.left = Aged(@)] \in SessionRecord
BY VirtualAssumption DEF VirtualAssumption, SessionRecord, Aged, Past

LEMMA FreshSessions ==
    NoSession \in SessionRecord /\ \A i \in Nat : [id |-> i, left |-> Duration] \in SessionRecord
BY VirtualAssumption DEF VirtualAssumption, NoSession, SessionRecord, Past

LEMMA StartFields ==
    ASSUME VirtualTypeOK, NEW s \in Starts
    PROVE  /\ starts[s].pc \in {"none", "find", "delete", "create", "error", "answer"}
           /\ starts[s].pc = "none" <=> starts[s] = Idle
           /\ starts[s].pc # "none" => starts[s].by \in ByWindow
           /\ starts[s].pc = "answer" => starts[s].session \in SessionRecord
BY DEF VirtualTypeOK, StartRecord, Idle

LEMMA PostFields ==
    ASSUME VirtualTypeOK, NEW p \in Posts
    PROVE  /\ posts[p].pc \in {"none", "deadline", "cooldown", "create"}
           /\ posts[p].pc # "none" => /\ posts[p] \in PostRecord \ {Idle}
                                      /\ posts[p].since \in 0..MaxHandling
                                      /\ posts[p].beside \in BOOLEAN
BY DEF VirtualTypeOK, PostRecord, Idle

LEMMA SinceField ==
    ASSUME NEW q \in PostRecord \ {Idle}, NEW n \in 0..MaxHandling
    PROVE  [q EXCEPT !.since = n] \in PostRecord
BY DEF PostRecord, Idle

LEMMA AgeField == ASSUME NEW q \in Solution, NEW n \in Nat PROVE [q EXCEPT !.age = n] \in Solution
BY DEF Solution

LEMMA SolutionFields ==
    ASSUME VirtualTypeOK, NEW i \in DOMAIN solutions
    PROVE  solutions[i] \in Solution /\ solutions[i].age \in Nat
<1>1. solutions[i] \in Solution
  BY DEF VirtualTypeOK
<1> QED
  BY <1>1 DEF Solution

LEMMA VirtualTypeInit == VirtualInit => VirtualTypeOK
<1> SUFFICES ASSUME VirtualInit PROVE VirtualTypeOK
  OBVIOUS
<1>1. virtualRow \in SessionRecord /\ nextId \in Nat /\ storage \in [Windows -> SessionRecord]
  BY FreshSessions DEF VirtualInit
<1>2. starts \in [Starts -> StartRecord] /\ posts \in [Posts -> PostRecord]
  BY DEF VirtualInit, StartRecord, PostRecord
<1>3. sent \in 0..MaxPosts
  BY VirtualAssumption DEF VirtualAssumption, VirtualInit
<1>4. window \in [Windows -> {"idle", "starting", "started", "error"}] /\ crossed \in BOOLEAN
  BY DEF VirtualInit
<1>5. solutions \in Seq(Solution)
  BY DEF VirtualInit
<1> QED
  BY <1>1, <1>2, <1>3, <1>4, <1>5 DEF VirtualTypeOK

LEMMA VirtualTypeStep == VirtualTypeOK /\ [VirtualNext]_virtualVars => VirtualTypeOK'
<1> SUFFICES ASSUME VirtualTypeOK, [VirtualNext]_virtualVars PROVE VirtualTypeOK'
  OBVIOUS
<1> USE VirtualAssumption DEF VirtualAssumption, virtualRows, pages, postVars
<1>1. ASSUME NEW w \in Windows, ReloadWindow(w) PROVE VirtualTypeOK'
  <2>1. ASSUME NEW s \in Starts
        PROVE  (IF starts[s].pc # "none" /\ starts[s].by = w
                THEN [starts[s] EXCEPT !.by = "nobody"] ELSE starts[s]) \in StartRecord
    BY DEF VirtualTypeOK, StartRecord, Idle, ByWindow
  <2>2. starts' \in [Starts -> StartRecord]
    BY <1>1, <2>1 DEF ReloadWindow
  <2> QED
    BY <1>1, <2>2 DEF ReloadWindow, VirtualTypeOK
<1>2. ASSUME NEW w \in Windows, NEW s \in Starts, ClickStart(w, s) PROVE VirtualTypeOK'
  BY <1>2 DEF ClickStart, VirtualTypeOK, StartRecord, ByWindow
<1>3. ASSUME NEW w \in Windows, NEW p \in Posts, SendSolution(p, storage[w].id) PROVE VirtualTypeOK'
  BY <1>3 DEF SendSolution, VirtualTypeOK, PostRecord, SessionRecord
<1>4. ASSUME NEW p \in Posts, SendSolution(p, 0) PROVE VirtualTypeOK'
  BY <1>4 DEF SendSolution, VirtualTypeOK, PostRecord
<1>5. ASSUME NEW s \in Starts, FindSession(s) PROVE VirtualTypeOK'
  <2>1. starts[s].by \in ByWindow /\ starts[s] \in [pc : {"find", "delete", "create", "error"}, by : ByWindow]
    BY <1>5 DEF FindSession, VirtualTypeOK, StartRecord, Idle
  <2> QED
    BY <1>5, <2>1 DEF FindSession, VirtualTypeOK, StartRecord
<1>6. ASSUME NEW s \in Starts, DropSession(s) PROVE VirtualTypeOK'
  <2>1. starts[s] \in [pc : {"find", "delete", "create", "error"}, by : ByWindow]
    BY <1>6 DEF DropSession, VirtualTypeOK, StartRecord, Idle
  <2> QED
    BY <1>6, <2>1, FreshSessions DEF DropSession, VirtualTypeOK, StartRecord
<1>7. ASSUME NEW s \in Starts, OpenSession(s) PROVE VirtualTypeOK'
  <2>1. starts[s].by \in ByWindow /\ starts[s] \in [pc : {"find", "delete", "create", "error"}, by : ByWindow]
    BY <1>7 DEF OpenSession, VirtualTypeOK, StartRecord, Idle
  <2>2. [id |-> nextId, left |-> Duration] \in SessionRecord
    BY FreshSessions DEF VirtualTypeOK
  <2> QED
    BY <1>7, <2>1, <2>2 DEF OpenSession, VirtualTypeOK, StartRecord
<1>8. ASSUME NEW s \in Starts, AnswerStart(s) PROVE VirtualTypeOK'
  <2>1. /\ storage' \in [Windows -> SessionRecord]
        /\ window' \in [Windows -> {"idle", "starting", "started", "error"}]
    BY <1>8, StartFields DEF AnswerStart, VirtualTypeOK, ByWindow
  <2> QED
    BY <1>8, <2>1 DEF AnswerStart, VirtualTypeOK, StartRecord
<1>9. ASSUME NEW p \in Posts, CheckDeadline(p) PROVE VirtualTypeOK'
  <2>1. posts[p] \in PostRecord \ {Idle}
    BY <1>9, PostFields DEF CheckDeadline
  <2> QED
    BY <1>9, <2>1 DEF CheckDeadline, VirtualTypeOK, PostRecord
<1>10. ASSUME NEW p \in Posts, CheckCooldown(p) PROVE VirtualTypeOK'
  <2>1. posts[p] \in PostRecord \ {Idle}
    BY <1>10, PostFields DEF CheckCooldown
  <2> QED
    BY <1>10, <2>1 DEF CheckCooldown, VirtualTypeOK, PostRecord
<1>11. ASSUME NEW p \in Posts, StoreSolution(p) PROVE VirtualTypeOK'
  <2>1. ASSUME NEW q \in Posts
        PROVE  (IF q = p THEN Idle
                ELSE IF posts[q].pc = "create" THEN [posts[q] EXCEPT !.beside = TRUE]
                ELSE posts[q]) \in PostRecord
    BY DEF VirtualTypeOK, PostRecord, Idle
  <2>2. posts' \in [Posts -> PostRecord]
    BY <1>11, <2>1 DEF StoreSolution
  <2>3. posts[p].beside \in BOOLEAN
    BY <1>11, PostFields DEF StoreSolution
  <2>4. [age |-> 0, beside |-> posts[p].beside,
         close |-> \E i \in DOMAIN solutions : solutions[i].age <= Cooldown] \in Solution
    <3> DEFINE near == \E i \in DOMAIN solutions : solutions[i].age <= Cooldown
    <3>1. near \in BOOLEAN
      OBVIOUS
    <3> HIDE DEF near
    <3> QED
      BY <2>3, <3>1 DEF Solution
  <2>5. solutions' \in Seq(Solution)
    BY <1>11, <2>4 DEF StoreSolution, VirtualTypeOK
  <2> QED
    BY <1>11, <2>2, <2>5 DEF StoreSolution, VirtualTypeOK
<1>12. ASSUME TickVirtual PROVE VirtualTypeOK'
  <2>1. virtualRow' \in SessionRecord /\ storage' \in [Windows -> SessionRecord]
    BY <1>12, AgedSession DEF TickVirtual, VirtualTypeOK
  <2>2. ASSUME NEW s \in Starts
        PROVE  (IF starts[s].pc = "answer" THEN [starts[s] EXCEPT !.session.left = Aged(@)]
                                           ELSE starts[s]) \in StartRecord
    <3>1. CASE starts[s].pc = "answer"
      <4>1. starts[s] \in [pc : {"answer"}, by : ByWindow, session : SessionRecord]
        BY <3>1 DEF VirtualTypeOK, StartRecord, Idle
      <4>2. [starts[s].session EXCEPT !.left = Aged(starts[s].session.left)] \in SessionRecord
        BY <4>1, AgedSession
      <4> QED
        BY <3>1, <4>1, <4>2 DEF StartRecord
    <3> QED
      BY <3>1 DEF VirtualTypeOK
  <2>3. starts' \in [Starts -> StartRecord]
    BY <1>12, <2>2 DEF TickVirtual
  <2>4. ASSUME NEW p \in Posts
        PROVE  (IF posts[p].pc = "none" THEN posts[p] ELSE [posts[p] EXCEPT !.since = @ + 1]) \in PostRecord
    <3>1. CASE posts[p].pc = "none"
      BY <3>1 DEF VirtualTypeOK
    <3>2. CASE posts[p].pc # "none"
      <4>1. posts[p] \in PostRecord \ {Idle} /\ posts[p].since \in 0..MaxHandling
        BY <3>2, PostFields
      <4>2. posts[p].since + 1 \in 0..MaxHandling
        BY <1>12, <3>2, <4>1 DEF TickVirtual
      <4> QED
        BY <3>2, <4>1, <4>2, SinceField
    <3> QED
      BY <3>1, <3>2
  <2>5. posts' \in [Posts -> PostRecord]
    BY <1>12, <2>4 DEF TickVirtual
  <2>6. \A i \in DOMAIN solutions :
           [solutions[i] EXCEPT !.age = IF @ > Cooldown + MaxHandling THEN @ ELSE @ + 1] \in Solution
    <3> SUFFICES ASSUME NEW i \in DOMAIN solutions
                 PROVE  [solutions[i] EXCEPT !.age = IF @ > Cooldown + MaxHandling THEN @ ELSE @ + 1]
                          \in Solution
      OBVIOUS
    <3>1. (IF solutions[i].age > Cooldown + MaxHandling THEN solutions[i].age
           ELSE solutions[i].age + 1) \in Nat
      BY SolutionFields
    <3> QED
      BY <3>1, SolutionFields, AgeField
  <2>7. solutions' \in Seq(Solution)
    BY <1>12, <2>6 DEF TickVirtual, VirtualTypeOK
  <2> QED
    BY <1>12, <2>1, <2>3, <2>5, <2>7 DEF TickVirtual, VirtualTypeOK
<1>13. CASE UNCHANGED virtualVars
  BY <1>13 DEF virtualVars, VirtualTypeOK
<1> QED
  BY <1>1, <1>2, <1>3, <1>4, <1>5, <1>6, <1>7, <1>8, <1>9, <1>10, <1>11, <1>12, <1>13
     DEF VirtualNext, UseVirtual, RunStart, RunPost

\* Every variable of the virtual contest keeps its type.
THEOREM VirtualTypeCorrect == VirtualSpec => []VirtualTypeOK
BY VirtualTypeInit, VirtualTypeStep, PTL DEF VirtualSpec

-----------------------------------------------------------------------------
(* VirtualContest: the cooldown.  A handler past its check has seen no     *)
(* submission that is still inside the cooldown, or one was stored beside  *)
(* it since.                                                               *)

CooldownInv ==
    /\ CooldownHolds
    /\ \A p \in Posts : posts[p].pc = "create" =>
         posts[p].beside \/ \A i \in DOMAIN solutions : solutions[i].age > Cooldown

LEMMA CooldownInit == VirtualInit => CooldownInv
BY DEF VirtualInit, CooldownInv, CooldownHolds, Idle

LEMMA CooldownStep == VirtualTypeOK /\ CooldownInv /\ [VirtualNext]_virtualVars => CooldownInv'
<1> SUFFICES ASSUME VirtualTypeOK, CooldownInv, [VirtualNext]_virtualVars PROVE CooldownInv'
  OBVIOUS
<1> USE VirtualAssumption DEF VirtualAssumption
<1>1. CASE UNCHANGED <<posts, solutions>>
  BY <1>1 DEF CooldownInv, CooldownHolds
<1>2. ASSUME NEW p \in Posts, NEW r, r.pc # "create",
             posts' = [posts EXCEPT ![p] = r], UNCHANGED solutions
      PROVE  CooldownInv'
  BY <1>2 DEF CooldownInv, CooldownHolds, VirtualTypeOK
<1>3. ASSUME NEW p \in Posts, CheckCooldown(p) PROVE CooldownInv'
  <2>1. CASE Recent(posts[p])
    BY <1>2, <1>3, <2>1 DEF CheckCooldown, Idle
  <2>2. CASE ~Recent(posts[p])
    <3>1. posts[p].since \in Nat
      BY <1>3, PostFields DEF CheckCooldown
    <3>2. \A i \in DOMAIN solutions : solutions[i].age > Cooldown
      BY <2>2, <3>1, SolutionFields DEF Recent
    <3>3. UNCHANGED solutions
      BY <1>3 DEF CheckCooldown
    <3> QED
      BY <3>2, <3>3 DEF CooldownInv, CooldownHolds
  <2> QED
    BY <2>1, <2>2
<1>4. ASSUME NEW p \in Posts, StoreSolution(p) PROVE CooldownInv'
  <2> DEFINE near == \E i \in DOMAIN solutions : solutions[i].age <= Cooldown
             new == [age |-> 0, beside |-> posts[p].beside, close |-> near]
  <2>1. near => posts[p].beside
    BY <1>4, SolutionFields DEF StoreSolution, CooldownInv
  <2>2. solutions' = Append(solutions, new)
    BY <1>4 DEF StoreSolution
  <2>3. CooldownHolds'
    <3>1. new.close => new.beside
      BY <2>1
    <3> HIDE DEF new, near
    <3> QED
      BY <2>2, <3>1 DEF CooldownInv, CooldownHolds, VirtualTypeOK
  <2>4. ASSUME NEW q \in Posts, posts'[q].pc = "create" PROVE posts'[q].beside
    BY <1>4, <2>4 DEF StoreSolution, VirtualTypeOK, PostRecord, Idle
  <2> QED
    BY <2>3, <2>4 DEF CooldownInv
<1>5. CASE TickVirtual
  <2>1. DOMAIN solutions' = DOMAIN solutions
    BY <1>5 DEF TickVirtual
  <2>2. ASSUME NEW i \in DOMAIN solutions
        PROVE  /\ solutions'[i].age >= solutions[i].age
               /\ solutions'[i].age \in Nat
               /\ solutions'[i].close = solutions[i].close
               /\ solutions'[i].beside = solutions[i].beside
    <3>1. solutions[i].age \in Nat /\ solutions[i] \in Solution
      BY SolutionFields
    <3>2. solutions'[i] = [solutions[i] EXCEPT !.age = IF @ > Cooldown + MaxHandling THEN @ ELSE @ + 1]
      BY <1>5 DEF TickVirtual
    <3> QED
      BY <3>1, <3>2 DEF Solution
  <2>3. ASSUME NEW p \in Posts
        PROVE  posts'[p].pc = posts[p].pc /\ (posts[p].pc = "create" => posts'[p].beside = posts[p].beside)
    BY <1>5, PostFields DEF TickVirtual, PostRecord, Idle
  <2>4. CooldownHolds'
    BY <2>1, <2>2 DEF CooldownInv, CooldownHolds
  <2>5. ASSUME NEW p \in Posts, posts'[p].pc = "create", ~posts'[p].beside, NEW i \in DOMAIN solutions'
        PROVE  solutions'[i].age > Cooldown
    BY <2>1, <2>2, <2>3, <2>5, SolutionFields DEF CooldownInv
  <2> QED
    BY <2>4, <2>5 DEF CooldownInv
<1>6. ASSUME NEW p \in Posts, NEW n, SendSolution(p, n) PROVE CooldownInv'
  BY <1>2, <1>6 DEF SendSolution
<1>7. ASSUME NEW p \in Posts, CheckDeadline(p) PROVE CooldownInv'
  <2> DEFINE r == IF posts[p].session = 0 \/ InTime(posts[p])
                  THEN [posts[p] EXCEPT !.pc = "cooldown"] ELSE Idle
  <2>1. r.pc # "create"
    BY <1>7, PostFields DEF CheckDeadline, PostRecord, Idle
  <2>2. posts' = [posts EXCEPT ![p] = r] /\ UNCHANGED solutions
    BY <1>7 DEF CheckDeadline
  <2> HIDE DEF r
  <2> QED
    BY <1>2, <2>1, <2>2
<1> QED
  BY <1>1, <1>3, <1>4, <1>5, <1>6, <1>7
     DEF VirtualNext, UseVirtual, RunStart, RunPost, virtualVars, postVars,
         ReloadWindow, ClickStart, FindSession, DropSession, OpenSession, AnswerStart

\* Two submissions inside the cooldown were both past its check (contest.ts:473) before
\* the earlier one was stored, however many are sent and whatever the delays.
THEOREM CooldownAlways == VirtualSpec => []CooldownHolds
<1>1. CooldownInv => CooldownHolds
  BY DEF CooldownInv
<1> QED
  BY <1>1, CooldownInit, CooldownStep, VirtualTypeCorrect, PTL DEF VirtualSpec

-----------------------------------------------------------------------------
(* VirtualContest: the session.  While no two starts have run at once,     *)
(* what a browser or an answer still counts down is the row, and a start   *)
(* that deletes or creates has seen a row that has expired.                *)

OneStart == \A s, t \in Starts : starts[s].pc # "none" /\ starts[t].pc # "none" => s = t
RowCounted ==
    /\ virtualRow.id = 0 => virtualRow.left <= 0
    /\ \A w \in Windows : storage[w].left > 0 => storage[w] = virtualRow
    /\ \A s \in Starts :
         /\ starts[s].pc \in {"delete", "create"} => virtualRow.left <= 0
         /\ starts[s].pc = "answer" /\ starts[s].session.left > 0 => starts[s].session = virtualRow

KeptInv == nextId # 0 /\ (crossed \/ (OneStart /\ RowCounted))

LEMMA KeptInit == VirtualInit => KeptInv
BY VirtualAssumption
   DEF VirtualAssumption, VirtualInit, KeptInv, OneStart, RowCounted, NoSession, Past, Idle

LEMMA KeptImplies == KeptInv => SessionKept
BY DEF KeptInv, RowCounted, SessionKept

LEMMA KeptStep == VirtualTypeOK /\ KeptInv /\ [VirtualNext]_virtualVars => KeptInv'
<1> SUFFICES ASSUME VirtualTypeOK, KeptInv, [VirtualNext]_virtualVars PROVE KeptInv'
  OBVIOUS
<1> USE VirtualAssumption DEF VirtualAssumption
<1>0. ASSUME crossed PROVE crossed'
  BY <1>0 DEF VirtualNext, UseVirtual, RunStart, RunPost, virtualVars,
         ReloadWindow, ClickStart, FindSession, DropSession, OpenSession, AnswerStart,
         SendSolution, CheckDeadline, CheckCooldown, StoreSolution, TickVirtual
<1>a. nextId' # 0
  <2>1. CASE nextId' = nextId
    BY <2>1 DEF KeptInv
  <2>2. CASE nextId' # nextId
    <3>1. \E s \in Starts : OpenSession(s)
      BY <2>2 DEF VirtualNext, UseVirtual, RunStart, RunPost, virtualVars, virtualRows,
         ReloadWindow, ClickStart, FindSession, DropSession, AnswerStart,
         SendSolution, CheckDeadline, CheckCooldown, StoreSolution, TickVirtual
    <3> QED
      BY <2>2, <3>1 DEF OpenSession, VirtualTypeOK, virtualRows
  <2> QED
    BY <2>1, <2>2
<1> SUFFICES ASSUME ~crossed, ~crossed' PROVE OneStart' /\ RowCounted'
  BY <1>0, <1>a DEF KeptInv, VirtualTypeOK
<1>1. OneStart /\ RowCounted
  BY DEF KeptInv
<1>2. ASSUME NEW w \in Windows, ReloadWindow(w) PROVE OneStart' /\ RowCounted'
  <2>1. ASSUME NEW s \in Starts
        PROVE  /\ starts'[s].pc = starts[s].pc
               /\ starts[s].pc = "answer" => starts'[s].session = starts[s].session
    BY <1>2, StartFields DEF ReloadWindow, VirtualTypeOK, StartRecord, Idle
  <2> QED
    BY <1>1, <1>2, <2>1 DEF ReloadWindow, OneStart, RowCounted, virtualRows
<1>3. ASSUME NEW w \in Windows, NEW s \in Starts, ClickStart(w, s) PROVE OneStart' /\ RowCounted'
  <2>1. \A t \in Starts : starts[t].pc = "none"
    BY <1>3 DEF ClickStart
  <2>2. /\ starts'[s].pc = "find"
        /\ \A t \in Starts \ {s} : starts'[t].pc = "none"
    BY <1>3, <2>1 DEF ClickStart, VirtualTypeOK
  <2> QED
    BY <1>1, <1>3, <2>2 DEF ClickStart, OneStart, RowCounted, virtualRows
<1>4. ASSUME NEW s \in Starts, FindSession(s) PROVE OneStart' /\ RowCounted'
  <2>1. \A t \in Starts \ {s} : starts'[t] = starts[t] /\ starts[t].pc = "none"
    BY <1>1, <1>4 DEF FindSession, VirtualTypeOK, OneStart
  <2>2. CASE Resumes
    <3>1. starts'[s].pc = "answer" /\ starts'[s].session = virtualRow
      BY <1>4, <2>2 DEF FindSession, VirtualTypeOK
    <3> QED
      BY <1>1, <1>4, <2>1, <3>1 DEF FindSession, OneStart, RowCounted, virtualRows, pages
  <2>3. CASE ~Resumes
    <3>1. starts'[s].pc \in {"create", "delete"}
      BY <1>4, <2>3, StartFields DEF FindSession, VirtualTypeOK, StartRecord, Idle
    <3>2. virtualRow.left <= 0
      BY <1>1, <2>3 DEF Resumes, RowCounted, VirtualTypeOK, SessionRecord, Past
    <3> QED
      BY <1>1, <1>4, <2>1, <3>1, <3>2 DEF FindSession, OneStart, RowCounted, virtualRows, pages
  <2> QED
    BY <2>2, <2>3
<1>5. ASSUME NEW s \in Starts, DropSession(s) PROVE OneStart' /\ RowCounted'
  <2>1. \A t \in Starts \ {s} : starts'[t] = starts[t] /\ starts[t].pc = "none"
    BY <1>1, <1>5 DEF DropSession, VirtualTypeOK, OneStart
  <2>2. starts'[s].pc \in {"create", "error"}
    BY <1>5, StartFields DEF DropSession, VirtualTypeOK, StartRecord, Idle
  <2>3. virtualRow.left <= 0 /\ virtualRow' = NoSession /\ storage' = storage
    BY <1>1, <1>5 DEF DropSession, RowCounted, pages
  <2>4. \A w \in Windows : ~(storage[w].left > 0)
    BY <1>1, <2>3 DEF RowCounted, VirtualTypeOK, SessionRecord, Past
  <2>5. NoSession.left <= 0
    BY DEF NoSession, Past
  <2> QED
    BY <1>1, <2>1, <2>2, <2>3, <2>4, <2>5 DEF OneStart, RowCounted
<1>6. ASSUME NEW s \in Starts, OpenSession(s) PROVE OneStart' /\ RowCounted'
  <2>1. \A t \in Starts \ {s} : starts'[t] = starts[t] /\ starts[t].pc = "none"
    BY <1>1, <1>6 DEF OpenSession, VirtualTypeOK, OneStart
  <2>2. CASE virtualRow.id # 0
    <3>1. starts'[s].pc = "error"
      BY <1>6, <2>2, StartFields DEF OpenSession, VirtualTypeOK, StartRecord, Idle
    <3> QED
      BY <1>1, <1>6, <2>1, <2>2, <3>1 DEF OpenSession, OneStart, RowCounted, virtualRows, pages
  <2>3. CASE virtualRow.id = 0
    <3>1. /\ virtualRow' = [id |-> nextId, left |-> Duration] /\ storage' = storage
          /\ starts'[s].pc = "answer" /\ starts'[s].session = virtualRow'
      BY <1>6, <2>3 DEF OpenSession, VirtualTypeOK, pages
    <3>2. \A w \in Windows : ~(storage[w].left > 0)
      BY <1>1, <2>3 DEF RowCounted, VirtualTypeOK, SessionRecord, Past
    <3>3. virtualRow'.id # 0
      BY <3>1 DEF KeptInv
    <3> QED
      BY <1>1, <2>1, <3>1, <3>2, <3>3 DEF OneStart, RowCounted
  <2> QED
    BY <2>2, <2>3
<1>7. ASSUME NEW s \in Starts, AnswerStart(s) PROVE OneStart' /\ RowCounted'
  <2>1. \A t \in Starts : starts'[t].pc = "none" /\ (t # s => starts'[t] = starts[t])
    BY <1>1, <1>7 DEF AnswerStart, VirtualTypeOK, OneStart, Idle
  <2>2. virtualRow' = virtualRow
    BY <1>7 DEF AnswerStart, virtualRows
  <2>3. ASSUME NEW w \in Windows, storage'[w].left > 0 PROVE storage'[w] = virtualRow
    <3>1. CASE storage'[w] = storage[w]
      BY <1>1, <2>3, <3>1 DEF RowCounted
    <3>2. CASE storage'[w] # storage[w]
      <4>1. starts[s].pc = "answer" /\ storage'[w] = starts[s].session
        BY <1>7, <3>2 DEF AnswerStart, VirtualTypeOK, pages
      <4> QED
        BY <1>1, <2>3, <4>1 DEF RowCounted
    <3> QED
      BY <3>1, <3>2
  <2> QED
    BY <1>1, <2>1, <2>2, <2>3 DEF OneStart, RowCounted
<1>8. CASE TickVirtual
  <2>1. ASSUME NEW r \in SessionRecord
        PROVE  [r EXCEPT !.left = Aged(@)].left > 0 => r.left > 0
    BY DEF SessionRecord, Aged, Past
  <2>2. ASSUME NEW s \in Starts
        PROVE  /\ starts'[s].pc = starts[s].pc
               /\ starts[s].pc = "answer" =>
                    starts'[s].session = [starts[s].session EXCEPT !.left = Aged(@)]
    BY <1>8 DEF TickVirtual, VirtualTypeOK, StartRecord, Idle
  <2>3. /\ virtualRow' = [virtualRow EXCEPT !.left = Aged(@)]
        /\ virtualRow \in SessionRecord /\ virtualRow' \in SessionRecord
    BY <1>8, AgedSession DEF TickVirtual, VirtualTypeOK
  <2>4. virtualRow.left <= 0 => virtualRow'.left <= 0
    BY <2>3 DEF SessionRecord, Aged, Past
  <2>5. virtualRow'.id = virtualRow.id
    BY <2>3 DEF SessionRecord
  <2>6. ASSUME NEW w \in Windows, storage'[w].left > 0 PROVE storage'[w] = virtualRow'
    <3>1. storage[w] \in SessionRecord /\ storage'[w] = [storage[w] EXCEPT !.left = Aged(@)]
      BY <1>8 DEF TickVirtual, VirtualTypeOK
    <3>2. storage[w].left > 0
      BY <2>1, <2>6, <3>1
    <3> QED
      BY <1>1, <2>3, <3>1, <3>2 DEF RowCounted
  <2>7. ASSUME NEW s \in Starts, starts'[s].pc = "answer", starts'[s].session.left > 0
        PROVE  starts'[s].session = virtualRow'
    <3>1. starts[s].pc = "answer" /\ starts[s].session \in SessionRecord
      BY <2>2, <2>7, StartFields
    <3>2. starts[s].session.left > 0
      BY <2>1, <2>2, <2>7, <3>1
    <3> QED
      BY <1>1, <2>2, <2>3, <3>1, <3>2 DEF RowCounted
  <2> QED
    BY <1>1, <2>2, <2>4, <2>5, <2>6, <2>7 DEF OneStart, RowCounted
<1>9. CASE UNCHANGED <<virtualRow, storage, starts>>
  BY <1>1, <1>9 DEF OneStart, RowCounted
<1> QED
  BY <1>2, <1>3, <1>4, <1>5, <1>6, <1>7, <1>8, <1>9
     DEF VirtualNext, UseVirtual, RunStart, RunPost, virtualVars, virtualRows, pages,
         SendSolution, CheckDeadline, CheckCooldown, StoreSolution

\* Whatever the user's browsers do, the session one of them counts down is the stored
\* one until its time is up, unless two starts (contest.ts:207-257) ran at once.
THEOREM SessionKeptAlways == VirtualSpec => []SessionKept
BY KeptInit, KeptStep, KeptImplies, VirtualTypeCorrect, PTL DEF VirtualSpec

-----------------------------------------------------------------------------
(* Realtime: types.                                                        *)

LiveEvent == [type : {"CONNECTED"}, data : {NoUpdate}] \union [type : {"LEADERBOARD_UPDATE"}, data : Message]
RunningUpdate == [pc : {"checked", "read", "publish"}, contest : LiveContests, value : 0..MaxChanges]
BootRow == [pc : {"connect", "leaderboard", "announcements", "done", "exhausted"}, attempt : 1..BootAttempts + 1]
FetchStates == {NoFetch} \union [pc : {"sent"}] \union [pc : {"answer"}, data : Message]

RealtimeTypes ==
    /\ phase \in [LiveContests -> {"before", "running", "frozen", "over"}]
    /\ standing \in [LiveContests -> 0..MaxChanges] /\ openRows \in [LiveContests -> 0..MaxChanges]
    /\ snapshot \in [LiveContests -> 0..MaxChanges] /\ credited \in [LiveContests -> 0..MaxChanges]
    /\ publishing \in [Publishers -> {NoUpdate} \union RunningUpdate]
    /\ redisUp \in BOOLEAN /\ redisMain \in {"new", "reconnecting", "ready"}
    /\ boot \in BootRow /\ subscriptions \in Nat /\ channel \in Seq(Message)
    /\ streams \in Seq(Seq(LiveEvent)) /\ Len(streams) <= MaxStreams
    /\ sseClients \subseteq [id : 1..Len(streams), contest : LiveContests, told : BOOLEAN]
    /\ livePages \in [Pages -> Page]
    /\ liveFaults \in 0..MaxLiveFaults /\ disordered \subseteq LiveContests \union Pages

\* Each row and each credit of a contest was a change of its standings.
BoardInv == \A c \in LiveContests : openRows[c] <= standing[c] /\ credited[c] <= standing[c]

\* The server subscribes at most once in each of its attempts.
BootInv ==
    /\ boot.pc \in {"connect", "leaderboard"} => boot.attempt <= BootAttempts /\ subscriptions < boot.attempt
    /\ boot.pc \in {"announcements", "done"} => boot.attempt <= BootAttempts /\ subscriptions <= boot.attempt
    /\ boot.pc = "exhausted" => subscriptions <= BootAttempts

\* The server's two tables list the same clients, each once.
TablesInv ==
    /\ contestClients \in [LiveContests -> SUBSET Nat]
    /\ \A s, t \in sseClients : s.id = t.id => s = t
    /\ \A c \in LiveContests : contestClients[c] = {s.id : s \in {t \in sseClients : t.contest = c}}

UpdatesIn(s) == {i \in DOMAIN s : s[i].type = "LEADERBOARD_UPDATE"}

\* A page with a stream is a client of its contest, no page shares its stream, and all it
\* shows, awaits or holds is of its contest.
StreamOf(p) ==
    LET g == livePages[p] IN
    g.stream # 0 =>
      /\ \E t \in sseClients : t.id = g.stream /\ t.contest = PageContest[p]
      /\ \A q \in Pages : q # p => livePages[q].stream # g.stream
      /\ \A i \in UpdatesIn(streams[g.stream]) : streams[g.stream][i].data.contest = PageContest[p]

PageOf(p) ==
    LET g == livePages[p] IN
    /\ g.status = "connected" <=> g.stream # 0
    /\ g.status = "disconnected" => g.attempts < ReconnectLimit
    /\ g.shown.contest = PageContest[p]
    /\ g.fetch.pc = "answer" => g.fetch.data.contest = PageContest[p]

LivePagesInv == \A p \in Pages : StreamOf(p) /\ PageOf(p)

-----------------------------------------------------------------------------
(* Realtime: what is on its way.                                           *)

SentFor(c) == {i \in DOMAIN channel : channel[i].contest = c}
FreezeValues(p) == IF Frozen(p) THEN {0, snapshot[PageContest[p]]} ELSE {}

\* Of a contest one update at a time is past its upsert, what it publishes has every result
\* credited, and when there is none, so has the last message sent.
OrderOf(c) ==
    /\ \A a, b \in Updating(c) : a = b
    /\ \A b \in Updating(c) : publishing[b].pc = "publish" => credited[c] <= publishing[b].value
    /\ Updating(c) = {} => \A i \in SentFor(c) : (\A j \in SentFor(c) : j <= i) => credited[c] <= channel[i].value

Untold(p) == \E t \in sseClients : t.id = livePages[p].stream /\ ~t.told

\* The last update of stream s holds the standings of at least n changes.
EndsWith(s, n) == \A i \in UpdatesIn(s) : (\A j \in UpdatesIn(s) : j <= i) => n <= s[i].data.value

\* Page g shows n changes or what the freeze left, or is about to ask for them, or has just
\* been answered.
Fresh(g, s, n, left) ==
    \/ n <= g.shown.value
    \/ g.fetch.pc = "none" /\ g.shown.value \in left
    \/ g.fetch.pc = "sent"
    \/ g.fetch.pc = "answer" /\ (n <= g.fetch.data.value \/ g.fetch.data.value \in left)
    \/ \E i \in DOMAIN s : s[i].type = "CONNECTED"

\* Once no message is on its way to the server, the last update in a page's stream has every
\* result credited, and with none in it the page is fresh.
Follows(p) ==
    LET c == PageContest[p]  g == livePages[p]  s == streams[g.stream] IN
    g.stream # 0 /\ Updating(c) = {} /\ SentFor(c) = {} =>
       EndsWith(s, credited[c]) /\ (UpdatesIn(s) = {} => Untold(p) \/ Fresh(g, s, credited[c], FreezeValues(p)))

OrderInv == \A c \in LiveContests \ disordered : OrderOf(c)
FollowInv == \A p \in Pages : p \notin disordered /\ PageContest[p] \notin disordered => Follows(p)

LiveInv == RealtimeTypes /\ BoardInv /\ BootInv /\ TablesInv /\ LivePagesInv /\ OrderInv /\ FollowInv

-----------------------------------------------------------------------------
(* Realtime: lemmas.                                                       *)

LEMMA LiveTyped ==
    ASSUME LiveInv
    PROVE  /\ RealtimeTypes /\ MaxChanges \in Nat /\ MaxStreams \in Nat /\ MaxLiveFaults \in Nat
           /\ BootAttempts \in Nat \ {0} /\ ReconnectLimit \in Nat
           /\ PageContest \in [Pages -> LiveContests] /\ NoUpdate.pc = "none" /\ NoFetch.pc = "none"
           /\ Len(streams) \in Nat /\ DOMAIN streams = 1..Len(streams) /\ StreamIds = 1..Len(streams)
           /\ \A i \in StreamIds : streams[i] \in Seq(LiveEvent)
           /\ \A p \in Pages : livePages[p].stream # 0 => livePages[p].stream \in StreamIds
<1>1. RealtimeTypes /\ streams \in Seq(Seq(LiveEvent))
  BY DEF LiveInv, RealtimeTypes
<1>2. /\ MaxChanges \in Nat /\ MaxStreams \in Nat /\ MaxLiveFaults \in Nat
      /\ BootAttempts \in Nat \ {0} /\ ReconnectLimit \in Nat /\ PageContest \in [Pages -> LiveContests]
  BY RealtimeAssumption DEF RealtimeAssumption
<1>3. Len(streams) \in Nat /\ DOMAIN streams = 1..Len(streams) /\ StreamIds = 1..Len(streams)
  BY <1>1, LenProperties DEF StreamIds
<1>4. \A i \in StreamIds : streams[i] \in Seq(LiveEvent)
  BY <1>1, <1>3, ElementOfSeq
<1>5. NoUpdate.pc = "none" /\ NoFetch.pc = "none"
  BY DEF NoUpdate, NoFetch
<1>6. \A p \in Pages : livePages[p].stream # 0 => livePages[p].stream \in StreamIds
  BY <1>1, <1>3 DEF LiveInv, LivePagesInv, StreamOf, RealtimeTypes
<1> QED BY <1>1, <1>2, <1>3, <1>4, <1>5, <1>6

LEMMA PageFields ==
    ASSUME NEW g \in Page
    PROVE  /\ g.status \in {"connecting", "connected", "disconnected", "fallback"} /\ g.stream \in 0..MaxStreams
           /\ g.attempts \in 0..ReconnectLimit /\ g.shown \in Message /\ g.fetch \in FetchStates
           /\ g = [status |-> g.status, stream |-> g.stream, attempts |-> g.attempts, shown |-> g.shown, fetch |-> g.fetch]
  BY DEF Page, FetchStates

LEMMA PageMade ==
    ASSUME NEW st \in {"connecting", "connected", "disconnected", "fallback"}, NEW stream \in 0..MaxStreams,
           NEW attempts \in 0..ReconnectLimit, NEW shown \in Message, NEW fetch \in FetchStates
    PROVE  [status |-> st, stream |-> stream, attempts |-> attempts, shown |-> shown, fetch |-> fetch] \in Page
  BY DEF Page, FetchStates

LEMMA PageAsking ==
    ASSUME NEW g \in Page, NEW q, NEW fetch, q = [g EXCEPT !.fetch = fetch]
    PROVE  q = [status |-> g.status, stream |-> g.stream, attempts |-> g.attempts, shown |-> g.shown, fetch |-> fetch]
  BY DEF Page

\* Nothing of a contest's updates and messages changes.
LEMMA OrderKept ==
    ASSUME OrderInv, UNCHANGED <<phase, standing, openRows, snapshot, credited, publishing, channel>>, disordered \subseteq disordered'
    PROVE  OrderInv'
<1>1. \A c : Updating(c)' = Updating(c) /\ SentFor(c)' = SentFor(c)
  BY DEF Updating, SentFor
<1> QED BY <1>1 DEF OrderInv, OrderOf

\* Nothing of a page, its stream or its client changes.
LEMMA FollowsKept ==
    ASSUME NEW p \in Pages, Follows(p), livePages[p].stream # 0 => livePages'[p] = livePages[p],
           livePages'[p].stream # 0 => livePages[p].stream # 0 /\ streams'[livePages[p].stream] = streams[livePages[p].stream],
           UNCHANGED <<phase, standing, openRows, snapshot, credited, publishing, channel>>, livePages[p].stream # 0 => (Untold(p) => Untold(p)')
    PROVE  Follows(p)'
<1>1. /\ \A c : Updating(c)' = Updating(c) /\ SentFor(c)' = SentFor(c)
      /\ FreezeValues(p)' = FreezeValues(p)
  BY DEF Updating, SentFor, FreezeValues, Frozen
<1> QED BY <1>1 DEF Follows

\* A step of the backend or of Redis: the server's tables, the streams and the pages stay.
LEMMA PagesKept ==
    ASSUME LiveInv, UNCHANGED <<sseClients, contestClients, streams, livePages>>
    PROVE  TablesInv' /\ LivePagesInv'
  BY DEF LiveInv, TablesInv, LivePagesInv, StreamOf, PageOf

\* What the freeze left for a page it still leaves.
LEMMA FreezeKept ==
    ASSUME NEW p \in Pages, PageContest[p] \in LiveContests, LiveInv,
           phase'[PageContest[p]] = phase[PageContest[p]] \/ (phase[PageContest[p]] # "over"
                /\ phase'[PageContest[p]] = NextPhase(PageContest[p])),
           snapshot'[PageContest[p]] = snapshot[PageContest[p]] \/ snapshot[PageContest[p]] = 0
    PROVE  FreezeValues(p) \subseteq FreezeValues(p)'
<1>1. Frozen(p) => Frozen(p)'
  BY DEF Frozen, NextPhase
<1>2. FreezeValues(p)' = IF Frozen(p)' THEN {0, snapshot'[PageContest[p]]} ELSE {}
  BY DEF FreezeValues
<1> QED BY <1>1, <1>2 DEF FreezeValues

\* The more the freeze leaves for a page, the fresher it is.
LEMMA FresherThen ==
    ASSUME NEW g, NEW s, NEW n, NEW left, NEW more, left \subseteq more, Fresh(g, s, n, left)
    PROVE  Fresh(g, s, n, more)
  BY DEF Fresh

\* A step of the backend that is neither an upsert nor a message: updates past their upserts
\* are those of before, and what one of them will publish has every result credited.
LEMMA BackendKept ==
    ASSUME LiveInv, RealtimeTypes', BoardInv', \A c : Updating(c)' = Updating(c),
           \A c \in LiveContests : \A b \in Updating(c) : publishing'[b] = publishing[b]
                \/ (publishing'[b].pc = "publish" => credited[c] <= publishing'[b].value),
           \A p \in Pages : FreezeValues(p) \subseteq FreezeValues(p)',
           UNCHANGED <<credited, boot, subscriptions, channel, sseClients, contestClients, streams, livePages, disordered>>
    PROVE  LiveInv'
<1>1. BootInv' /\ TablesInv' /\ LivePagesInv'
  BY PagesKept DEF LiveInv, BootInv
<1>2. \A c : SentFor(c)' = SentFor(c)
  BY DEF SentFor
<1>3. ASSUME NEW c \in LiveContests \ disordered' PROVE OrderOf(c)'
  <2>1. OrderOf(c)
    BY <1>3 DEF LiveInv, OrderInv
  <2>2. \A b \in Updating(c) : publishing'[b].pc = "publish" => credited[c] <= publishing'[b].value
    BY <1>3, <2>1 DEF OrderOf
  <2> QED BY <1>2, <2>1, <2>2 DEF OrderOf
<1>4. ASSUME NEW p \in Pages, p \notin disordered', PageContest[p] \notin disordered' PROVE Follows(p)'
  <2>1. Follows(p) /\ (Untold(p)' <=> Untold(p))
    BY <1>4 DEF LiveInv, FollowInv, Untold
  <2>2. ASSUME NEW s, NEW n, Fresh(livePages[p], s, n, FreezeValues(p)) PROVE Fresh(livePages[p], s, n, FreezeValues(p)')
    BY <2>2, FresherThen
  <2> HIDE DEF FreezeValues, Fresh, EndsWith, Updating, Untold
  <2> QED BY <1>2, <2>1, <2>2 DEF Follows
<1> QED BY <1>1, <1>3, <1>4 DEF LiveInv, OrderInv, FollowInv

LEMMA RunningFields ==
    ASSUME LiveInv, NEW b \in Publishers, publishing[b].pc # "none"
    PROVE  /\ publishing[b] \in RunningUpdate /\ publishing[b].contest \in LiveContests
           /\ publishing[b].value \in 0..MaxChanges
<1>1. publishing[b] \in {NoUpdate} \union RunningUpdate
  BY DEF LiveInv, RealtimeTypes
<1> QED BY <1>1, LiveTyped DEF RunningUpdate

LEMMA RunContestsStep ==
    ASSUME LiveInv, RunContests
    PROVE  LiveInv'
<1>1. PICK c \in LiveContests : PassTime(c) \/ Register(c) \/ Unregister(c) \/ FreezeBoard(c)
  BY DEF RunContests
<1>2. /\ RealtimeTypes /\ BoardInv /\ MaxChanges \in Nat
      /\ standing[c] \in 0..MaxChanges /\ openRows[c] \in 0..MaxChanges /\ openRows[c] <= standing[c]
  BY LiveTyped DEF LiveInv, BoardInv, RealtimeTypes
<1>3. /\ UNCHANGED <<credited, publishing, redisUp, redisMain, boot, subscriptions, channel, sseClients, contestClients,
                     streams, livePages, liveFaults, disordered>>
      /\ \A e : Updating(e)' = Updating(e)
  BY <1>1 DEF PassTime, Register, Unregister, FreezeBoard, redisVars, tables, Updating
<1>4. /\ phase' = phase \/ (phase[c] # "over" /\ phase' = [phase EXCEPT ![c] = NextPhase(c)])
      /\ snapshot' = snapshot \/ (snapshot[c] = 0 /\ snapshot' = [snapshot EXCEPT ![c] = standing[c]])
      /\ \/ standing' = standing /\ openRows' = openRows
         \/ standing' = standing /\ openRows' = [openRows EXCEPT ![c] = 0]
         \/ /\ standing[c] < MaxChanges /\ standing' = [standing EXCEPT ![c] = @ + 1]
            /\ \/ openRows' = [openRows EXCEPT ![c] = @ + 1]
               \/ openRows[c] > 0 /\ openRows' = [openRows EXCEPT ![c] = @ - 1]
  BY <1>1 DEF PassTime, Register, Unregister, FreezeBoard
<1>5. NextPhase(c) \in {"before", "running", "frozen", "over"}
  BY DEF NextPhase
<1>6. RealtimeTypes' /\ BoardInv'
  <2>1. phase' \in [LiveContests -> {"before", "running", "frozen", "over"}] /\ snapshot' \in [LiveContests -> 0..MaxChanges]
    BY <1>2, <1>4, <1>5 DEF RealtimeTypes
  <2>2. /\ standing' \in [LiveContests -> 0..MaxChanges] /\ openRows' \in [LiveContests -> 0..MaxChanges]
        /\ \A e \in LiveContests : standing[e] <= standing'[e] /\ openRows'[e] <= standing'[e]
    <3>1. standing \in [LiveContests -> 0..MaxChanges] /\ openRows \in [LiveContests -> 0..MaxChanges]
          /\ \A e \in LiveContests : openRows[e] <= standing[e]
      BY <1>2 DEF RealtimeTypes, BoardInv
    <3> QED BY <1>2, <1>4, <3>1
  <2>3. RealtimeTypes'
    BY <1>2, <1>3, <2>1, <2>2 DEF RealtimeTypes
  <2>4. ASSUME NEW e \in LiveContests PROVE credited'[e] <= standing'[e]
    <3>1. credited[e] \in Nat /\ standing[e] \in Nat /\ standing'[e] \in Nat /\ credited[e] <= standing[e]
      BY <1>2, <2>2 DEF RealtimeTypes, BoardInv
    <3> QED BY <1>3, <2>2, <3>1
  <2> QED BY <2>2, <2>3, <2>4 DEF BoardInv
<1>7. ASSUME NEW p \in Pages PROVE FreezeValues(p) \subseteq FreezeValues(p)'
  <2>1. PageContest[p] \in LiveContests /\ phase \in [LiveContests -> {"before", "running", "frozen", "over"}]
        /\ snapshot \in [LiveContests -> 0..MaxChanges]
    BY <1>2, LiveTyped DEF RealtimeTypes
  <2> QED BY <1>4, <2>1, FreezeKept
<1> QED BY <1>3, <1>6, <1>7, BackendKept

LEMMA BeginUpdateStep ==
    ASSUME LiveInv, NEW b \in Publishers, NEW c \in LiveContests, BeginUpdate(b, c)
    PROVE  LiveInv'
<1> DEFINE running == [pc |-> "checked", contest |-> c, value |-> 0]
<1>1. /\ publishing[b].pc = "none" /\ publishing' = [publishing EXCEPT ![b] = running]
      /\ UNCHANGED <<phase, standing, openRows, snapshot, credited, redisUp, redisMain, boot, subscriptions, channel,
                     sseClients, contestClients, streams, livePages, liveFaults, disordered>>
  BY DEF BeginUpdate, board, redisVars, tables
<1>2. /\ RealtimeTypes /\ BoardInv /\ running \in RunningUpdate
      /\ publishing \in [Publishers -> {NoUpdate} \union RunningUpdate]
  <2>1. RealtimeTypes /\ BoardInv /\ MaxChanges \in Nat
    BY LiveTyped DEF LiveInv
  <2>2. running \in RunningUpdate
    BY <2>1 DEF RunningUpdate
  <2> QED BY <2>1, <2>2 DEF RealtimeTypes
<1>3. /\ \A e : Updating(e)' = Updating(e)
      /\ \A e : \A a \in Updating(e) : publishing'[a] = publishing[a]
  <2>1. (\A a \in Publishers : a # b => publishing'[a] = publishing[a]) /\ publishing'[b].pc = "checked"
    BY <1>1, <1>2
  <2>2. ASSUME NEW e, NEW a \in Publishers
        PROVE  /\ a \in Updating(e)' <=> a \in Updating(e)
               /\ a \in Updating(e) => publishing'[a] = publishing[a]
    <3>1. CASE a = b
      BY <1>1, <2>1, <3>1 DEF Updating
    <3>2. CASE a # b
      BY <2>1, <3>2 DEF Updating
    <3> QED BY <3>1, <3>2
  <2> QED BY <2>2 DEF Updating
<1>4. RealtimeTypes' /\ BoardInv'
  BY <1>1, <1>2 DEF RealtimeTypes, BoardInv
<1>5. \A p \in Pages : FreezeValues(p)' = FreezeValues(p)
  BY <1>1 DEF FreezeValues, Frozen
<1> QED BY <1>1, <1>3, <1>4, <1>5, BackendKept

LEMMA ChangeStandingsStep ==
    ASSUME LiveInv, NEW b \in Publishers, ChangeStandings(b)
    PROVE  LiveInv'
<1>0. PICK c \in LiveContests, v \in 0..MaxChanges :
         c = publishing[b].contest /\ v = publishing[b].value /\ publishing[b] \in RunningUpdate /\ publishing[b].pc = "checked"
  BY RunningFields DEF ChangeStandings
<1> DEFINE running == [pc |-> "read", contest |-> c, value |-> v]
<1>1. /\ standing[c] < MaxChanges
      /\ standing' = [standing EXCEPT ![c] = @ + 1] /\ credited' = [credited EXCEPT ![c] = standing[c] + 1]
      /\ publishing' = [publishing EXCEPT ![b].pc = "read"]
      /\ UNCHANGED <<phase, openRows, snapshot, redisUp, redisMain, boot, subscriptions, channel, sseClients, contestClients,
                     streams, livePages, liveFaults>>
      /\ disordered' = IF Updating(c) # {} THEN disordered \union {c} ELSE disordered
  BY <1>0 DEF ChangeStandings, redisVars, tables
<1>2. /\ standing \in [LiveContests -> 0..MaxChanges] /\ credited \in [LiveContests -> 0..MaxChanges] /\ MaxChanges \in Nat
      /\ openRows \in [LiveContests -> 0..MaxChanges] /\ BoardInv
      /\ publishing \in [Publishers -> {NoUpdate} \union RunningUpdate] /\ RealtimeTypes
  BY LiveTyped DEF RealtimeTypes, LiveInv
<1>3. running \in RunningUpdate /\ standing[c] + 1 \in 0..MaxChanges /\ standing[c] \in Nat
  BY <1>1, <1>2 DEF RunningUpdate
<1>4. publishing' = [publishing EXCEPT ![b] = running]
  <2>1. ASSUME NEW q, q = [publishing[b] EXCEPT !.pc = "read"] PROVE q = running
    BY <1>0, <2>1 DEF RunningUpdate
  <2> QED BY <1>1, <1>2, <2>1
<1>5. RealtimeTypes' /\ BoardInv'
  <2>1. RealtimeTypes'
    BY <1>1, <1>2, <1>3, <1>4 DEF RealtimeTypes
  <2>2. ASSUME NEW e \in LiveContests PROVE openRows'[e] <= standing'[e] /\ credited'[e] <= standing'[e]
    <3>1. openRows[e] \in Nat /\ credited[e] \in Nat /\ standing[e] \in Nat /\ openRows[e] <= standing[e] /\ credited[e] <= standing[e]
      BY <1>2 DEF BoardInv
    <3> QED BY <1>1, <1>2, <3>1
  <2> QED BY <2>1, <2>2 DEF BoardInv
<1>6. BootInv' /\ TablesInv' /\ LivePagesInv'
  BY <1>1, PagesKept DEF LiveInv, BootInv
<1>7. /\ b \notin Updating(c) /\ b \in Updating(c)' /\ \A d : SentFor(d)' = SentFor(d)
      /\ \A d \in LiveContests : d # c => Updating(d)' = Updating(d) /\ credited'[d] = credited[d]
      /\ (\A a \in Updating(c)' : a = b \/ a \in Updating(c)) /\ publishing'[b].pc = "read"
      /\ \A a \in Publishers : a # b => publishing'[a] = publishing[a]
  <2>1. publishing'[b] = running /\ \A a \in Publishers : a # b => publishing'[a] = publishing[a]
    BY <1>2, <1>4
  <2> QED BY <1>0, <1>1, <1>2, <2>1 DEF Updating, SentFor
<1>8. ASSUME NEW d \in LiveContests \ disordered' PROVE OrderOf(d)'
  <2>1. d \notin disordered /\ OrderOf(d)
    BY <1>1, <1>8 DEF LiveInv, OrderInv
  <2>2. CASE d = c
    <3>1. Updating(c) = {}
      BY <1>1, <1>8, <2>2
    <3>2. \A a \in Updating(c)' : a = b
      BY <1>7, <3>1
    <3> QED BY <1>7, <2>2, <3>2 DEF OrderOf
  <2>3. CASE d # c
    <3>1. Updating(d)' = Updating(d) /\ SentFor(d)' = SentFor(d) /\ credited'[d] = credited[d] /\ channel' = channel
      BY <1>1, <1>7, <2>3
    <3>2. \A a \in Updating(d) : publishing'[a] = publishing[a]
      <4>1. \A a \in Updating(d) : a \in Publishers /\ a # b
        BY <1>0, <2>3 DEF Updating
      <4> QED BY <1>7, <4>1
    <3> QED BY <2>1, <3>1, <3>2 DEF OrderOf
  <2> QED BY <2>2, <2>3
<1>9. ASSUME NEW p \in Pages, p \notin disordered', PageContest[p] \notin disordered' PROVE Follows(p)'
  <2>1. p \notin disordered /\ PageContest[p] \notin disordered /\ Follows(p) /\ PageContest[p] \in LiveContests
    BY <1>1, <1>9, LiveTyped DEF LiveInv, FollowInv
  <2>2. CASE PageContest[p] = c
    BY <1>7, <2>2 DEF Follows
  <2>3. CASE PageContest[p] # c
    <3>1. Updating(PageContest[p])' = Updating(PageContest[p]) /\ SentFor(PageContest[p])' = SentFor(PageContest[p])
          /\ credited'[PageContest[p]] = credited[PageContest[p]] /\ (Untold(p)' <=> Untold(p))
          /\ FreezeValues(p)' = FreezeValues(p)
      BY <1>1, <1>7, <2>1, <2>3 DEF Untold, FreezeValues, Frozen
    <3> QED BY <1>1, <2>1, <3>1 DEF Follows
  <2> QED BY <2>2, <2>3
<1> QED BY <1>5, <1>6, <1>8, <1>9 DEF LiveInv, OrderInv, FollowInv

LEMMA ReadStandingsStep ==
    ASSUME LiveInv, NEW b \in Publishers, ReadStandings(b)
    PROVE  LiveInv'
<1>0. PICK c \in LiveContests : c = publishing[b].contest
  BY RunningFields DEF ReadStandings
<1> DEFINE running == [pc |-> "publish", contest |-> c, value |-> standing[c]]
<1>1. /\ publishing[b].pc = "read"
      /\ publishing' = [publishing EXCEPT ![b].pc = "publish", ![b].value = standing[c]]
      /\ UNCHANGED <<phase, standing, openRows, snapshot, credited, redisUp, redisMain, boot, subscriptions, channel,
                     sseClients, contestClients, streams, livePages, liveFaults, disordered>>
  BY <1>0 DEF ReadStandings, board, redisVars, tables
<1>2. /\ standing \in [LiveContests -> 0..MaxChanges] /\ MaxChanges \in Nat /\ BoardInv /\ RealtimeTypes
      /\ publishing \in [Publishers -> {NoUpdate} \union RunningUpdate] /\ publishing[b] \in RunningUpdate
  BY <1>1, LiveTyped, RunningFields DEF RealtimeTypes, LiveInv
<1>3. ASSUME NEW v, NEW q, q = [publishing[b] EXCEPT !.pc = "publish", !.value = v]
      PROVE  q = [pc |-> "publish", contest |-> c, value |-> v]
  BY <1>0, <1>2, <1>3 DEF RunningUpdate
<1>4. publishing' = [publishing EXCEPT ![b] = running]
  BY <1>1, <1>2, <1>3
<1>5. running \in RunningUpdate
  BY <1>2 DEF RunningUpdate
<1>6. RealtimeTypes' /\ BoardInv'
  BY <1>1, <1>2, <1>4, <1>5 DEF RealtimeTypes, BoardInv
<1>7. /\ \A d : Updating(d)' = Updating(d)
      /\ \A a \in Publishers : a # b => publishing'[a] = publishing[a]
      /\ publishing'[b] = running
  <2>1. (\A a \in Publishers : a # b => publishing'[a] = publishing[a]) /\ publishing'[b] = running
    BY <1>2, <1>4
  <2>2. ASSUME NEW d, NEW a \in Publishers PROVE a \in Updating(d)' <=> a \in Updating(d)
    <3>1. CASE a = b
      BY <1>0, <1>1, <2>1, <3>1 DEF Updating
    <3>2. CASE a # b
      BY <2>1, <3>2 DEF Updating
    <3> QED BY <3>1, <3>2
  <2>3. \A d : Updating(d)' = Updating(d)
    BY <2>2 DEF Updating
  <2> QED BY <2>1, <2>3
<1>8. ASSUME NEW d \in LiveContests, NEW a \in Updating(d)
      PROVE  publishing'[a] = publishing[a] \/ (publishing'[a].pc = "publish" => credited[d] <= publishing'[a].value)
  <2>1. a \in Publishers /\ (a = b => d = c)
    BY <1>0 DEF Updating
  <2>2. credited[c] <= standing[c]
    BY <1>2 DEF BoardInv
  <2> QED BY <1>7, <2>1, <2>2
<1>9. \A p \in Pages : FreezeValues(p)' = FreezeValues(p)
  BY <1>1 DEF FreezeValues, Frozen
<1> QED BY <1>1, <1>6, <1>7, <1>8, <1>9, BackendKept

\* A step that is neither of the backend, nor of a message, a client, a stream or a page.
LEMMA ServerKept ==
    ASSUME LiveInv, RealtimeTypes', BootInv',
           UNCHANGED <<phase, standing, openRows, snapshot, credited, publishing, channel, sseClients, contestClients, streams, livePages, disordered>>
    PROVE  LiveInv'
<1>1. TablesInv' /\ LivePagesInv' /\ BoardInv'
  BY PagesKept DEF LiveInv, BoardInv
<1>2. OrderInv'
  BY OrderKept DEF LiveInv
<1>3. FollowInv'
  BY FollowsKept DEF LiveInv, FollowInv, Untold
<1> QED BY <1>1, <1>2, <1>3 DEF LiveInv

\* A failed attempt of the server to subscribe.
LEMMA RetryFacts ==
    ASSUME LiveInv, boot.pc \in {"connect", "leaderboard", "announcements"}, boot' = Retry, subscriptions' = subscriptions
    PROVE  boot' \in BootRow /\ BootInv'
<1>1. boot \in BootRow /\ BootInv /\ BootAttempts \in Nat \ {0} /\ subscriptions \in Nat
  BY LiveTyped DEF LiveInv, RealtimeTypes
<1>2. PICK n \in 1..BootAttempts + 1 : n = boot.attempt
  BY <1>1 DEF BootRow
<1>3. n <= BootAttempts /\ subscriptions <= n /\ n \in Nat
  <2>1. n \in Nat /\ (boot.pc \in {"connect", "leaderboard"} \/ boot.pc \in {"announcements", "done"})
    BY <1>1, <1>2
  <2> QED BY <1>1, <1>2, <2>1 DEF BootInv
<1>4. CASE n < BootAttempts
  <2>1. boot' = [pc |-> "connect", attempt |-> n + 1] /\ n + 1 \in 1..BootAttempts + 1
    BY <1>1, <1>2, <1>4 DEF Retry
  <2>2. boot' \in BootRow /\ boot'.pc = "connect" /\ boot'.attempt = n + 1
    BY <2>1 DEF BootRow
  <2>3. n + 1 <= BootAttempts /\ subscriptions' < n + 1
    BY <1>1, <1>3, <1>4
  <2> QED BY <2>2, <2>3 DEF BootInv
<1>5. CASE ~(n < BootAttempts)
  <2>1. boot' = [pc |-> "exhausted", attempt |-> n + 1] /\ n + 1 \in 1..(BootAttempts + 1)
    BY <1>1, <1>2, <1>3, <1>5 DEF Retry
  <2>2. boot' \in BootRow /\ boot'.pc = "exhausted"
    BY <2>1 DEF BootRow
  <2>3. subscriptions' <= BootAttempts
    BY <1>1, <1>3
  <2> QED BY <2>2, <2>3 DEF BootInv
<1> QED BY <1>4, <1>5

LEMMA ConnectRedisStep ==
    ASSUME LiveInv, ConnectRedis
    PROVE  LiveInv'
<1>1. boot \in BootRow /\ BootInv /\ RealtimeTypes /\ BootAttempts \in Nat \ {0} /\ boot.pc = "connect"
      /\ boot.attempt \in 1..BootAttempts + 1 /\ subscriptions \in Nat
  BY LiveTyped DEF LiveInv, RealtimeTypes, BootRow, ConnectRedis
<1>2. CASE redisMain # "ready" /\ redisUp
  <2>1. boot' = [boot EXCEPT !.pc = "leaderboard"] /\ redisMain' = "ready"
    BY <1>2 DEF ConnectRedis
  <2>2. boot' = [pc |-> "leaderboard", attempt |-> boot.attempt]
    BY <1>1, <2>1 DEF BootRow
  <2>3. boot' \in BootRow /\ boot'.pc = "leaderboard" /\ boot'.attempt = boot.attempt /\ subscriptions' = subscriptions
    BY <1>1, <2>2 DEF BootRow, ConnectRedis
  <2>4. RealtimeTypes' /\ BootInv'
    BY <1>1, <2>1, <2>3 DEF ConnectRedis, RealtimeTypes, board, tables, BootInv
  <2> QED BY <2>4, ServerKept DEF ConnectRedis, board, tables
<1>3. CASE ~(redisMain # "ready" /\ redisUp)
  <2>1. boot' = Retry /\ redisMain' \in {"new", "reconnecting", "ready"} /\ subscriptions' = subscriptions
    BY <1>1, <1>3 DEF ConnectRedis, RealtimeTypes
  <2>2. boot' \in BootRow /\ BootInv'
    BY <1>1, <2>1, RetryFacts
  <2>3. RealtimeTypes'
    BY <1>1, <2>1, <2>2 DEF ConnectRedis, RealtimeTypes, board, tables
  <2> QED BY <2>2, <2>3, ServerKept DEF ConnectRedis, board, tables
<1> QED BY <1>2, <1>3

LEMMA SubscribeStep ==
    ASSUME LiveInv, NEW pc, NEW next, Subscribe(pc, next),
           <<pc, next>> \in {<<"leaderboard", "announcements">>, <<"announcements", "done">>}
    PROVE  LiveInv'
<1>1. boot \in BootRow /\ BootInv /\ RealtimeTypes /\ BootAttempts \in Nat \ {0} /\ boot.pc = pc
      /\ boot.attempt \in 1..BootAttempts + 1 /\ subscriptions \in Nat /\ boot.attempt <= BootAttempts
  BY LiveTyped DEF LiveInv, RealtimeTypes, BootRow, Subscribe, BootInv
<1>2. CASE redisUp
  <2>1. boot' = [boot EXCEPT !.pc = next]
    BY <1>2 DEF Subscribe
  <2>2. boot' = [pc |-> next, attempt |-> boot.attempt]
    BY <1>1, <2>1 DEF BootRow
  <2>3. subscriptions' = IF pc = "leaderboard" THEN subscriptions + 1 ELSE subscriptions
    BY <1>1, <1>2 DEF Subscribe
  <2>4. boot' \in BootRow /\ boot'.pc = next /\ boot'.attempt = boot.attempt
    BY <1>1, <2>2 DEF BootRow
  <2>5. RealtimeTypes'
    BY <1>1, <2>3, <2>4 DEF Subscribe, RealtimeTypes, board, tables
  <2>6. BootInv'
    <3>1. CASE pc = "leaderboard" /\ next = "announcements"
      BY <1>1, <2>3, <2>4, <3>1 DEF BootInv
    <3>2. CASE pc = "announcements" /\ next = "done"
      BY <1>1, <2>3, <2>4, <3>2 DEF BootInv
    <3> QED BY <3>1, <3>2
  <2> QED BY <2>5, <2>6, ServerKept DEF Subscribe, board, tables
<1>3. CASE ~redisUp
  <2>1. boot' = Retry /\ subscriptions' = subscriptions + 0
    BY <1>3 DEF Subscribe
  <2>2. subscriptions' = subscriptions /\ boot.pc \in {"connect", "leaderboard", "announcements"}
    BY <1>1, <2>1
  <2>3. boot' \in BootRow /\ BootInv'
    BY <2>1, <2>2, RetryFacts
  <2>4. RealtimeTypes'
    BY <1>1, <2>2, <2>3 DEF Subscribe, RealtimeTypes, board, tables
  <2> QED BY <2>3, <2>4, ServerKept DEF Subscribe, board, tables
<1> QED BY <1>2, <1>3

LEMMA ReconnectOrStartStep ==
    ASSUME LiveInv, ReconnectRedis \/ StartRedis
    PROVE  LiveInv'
<1>1. RealtimeTypes' /\ BootInv'
  BY DEF LiveInv, RealtimeTypes, BootInv, ReconnectRedis, StartRedis, board, tables
<1> QED BY <1>1, ServerKept DEF ReconnectRedis, StartRedis, board, tables

LEMMA CopiesAfter ==
    ASSUME NEW S, NEW s \in Seq(S), NEW n \in Nat, NEW m \in S
    PROVE  LET u == s \o [i \in 1..n |-> m] IN
           /\ u \in Seq(S) /\ Len(u) = Len(s) + n
           /\ DOMAIN u = 1..(Len(s) + n) /\ Len(s) \in Nat /\ DOMAIN s = 1..Len(s)
           /\ \A i \in DOMAIN s : i \in DOMAIN u /\ u[i] = s[i]
           /\ \A i \in DOMAIN u : i \notin DOMAIN s => u[i] = m
<1> DEFINE t == [i \in 1..n |-> m]
           u == s \o t
<1>1. t \in Seq(S) /\ Len(t) = n /\ Len(s) \in Nat /\ DOMAIN s = 1..Len(s)
  BY LenProperties
<1>2. u \in Seq(S) /\ Len(u) = Len(s) + Len(t)
  BY <1>1, ConcatProperties
<1>3. \A i \in 1..(Len(s) + Len(t)) : u[i] = IF i <= Len(s) THEN s[i] ELSE t[i - Len(s)]
  BY <1>1, ConcatProperties
<1>4. Len(u) = Len(s) + n /\ DOMAIN u = 1..(Len(s) + n)
  BY <1>1, <1>2, LenProperties
<1>5. \A i \in 1..n : t[i] = m
  OBVIOUS
<1> HIDE DEF t, u
<1>6. \A i \in DOMAIN s : i \in DOMAIN u /\ u[i] = s[i]
  BY <1>1, <1>3, <1>4
<1>7. ASSUME NEW i \in DOMAIN u, i \notin DOMAIN s PROVE u[i] = m
  <2>1. i - Len(s) \in 1..n /\ u[i] = t[i - Len(s)]
    BY <1>1, <1>3, <1>4, <1>7
  <2> QED BY <1>5, <2>1
<1> QED BY <1>1, <1>2, <1>4, <1>6, <1>7 DEF u, t


LEMMA PublishStandingsStep ==
    ASSUME LiveInv, NEW b \in Publishers, PublishStandings(b)
    PROVE  LiveInv'
<1>0. publishing[b].pc = "publish" /\ publishing[b] \in RunningUpdate
  BY RunningFields DEF PublishStandings
<1>1. PICK c \in LiveContests, v \in 0..MaxChanges : c = publishing[b].contest /\ v = publishing[b].value
  BY <1>0, RunningFields
<1> DEFINE m == [contest |-> c, value |-> v]
           copies == channel \o [i \in 1..subscriptions |-> m]
<1>2. /\ channel' = IF redisUp THEN copies ELSE channel
      /\ disordered' = IF redisUp /\ subscriptions > 0 THEN disordered ELSE disordered \union {c}
      /\ publishing' = [publishing EXCEPT ![b] = NoUpdate]
      /\ UNCHANGED <<phase, standing, openRows, snapshot, credited, redisUp, redisMain, boot, subscriptions, sseClients, contestClients, streams, livePages, liveFaults>>
  BY <1>1 DEF PublishStandings, board, tables
<1>3. /\ standing \in [LiveContests -> 0..MaxChanges] /\ MaxChanges \in Nat /\ channel \in Seq(Message) /\ subscriptions \in Nat
      /\ publishing \in [Publishers -> {NoUpdate} \union RunningUpdate] /\ NoUpdate.pc = "none" /\ m \in Message
      /\ RealtimeTypes
  <2>1. RealtimeTypes /\ MaxChanges \in Nat /\ NoUpdate.pc = "none"
    BY LiveTyped
  <2>2. m \in Message
    BY <1>1, <2>1 DEF Message
  <2> QED BY <2>1, <2>2 DEF RealtimeTypes
<1>c. m.contest = c /\ m.value = v
  OBVIOUS
<1> HIDE DEF m
<1>4. /\ copies \in Seq(Message) /\ Len(copies) = Len(channel) + subscriptions
      /\ DOMAIN copies = 1..(Len(channel) + subscriptions) /\ Len(channel) \in Nat /\ DOMAIN channel = 1..Len(channel)
      /\ \A i \in DOMAIN channel : i \in DOMAIN copies /\ copies[i] = channel[i]
      /\ \A i \in DOMAIN copies : i \notin DOMAIN channel => copies[i] = m
  BY <1>3, CopiesAfter
<1> HIDE DEF copies
<1>5. RealtimeTypes'
  BY <1>2, <1>3, <1>4 DEF RealtimeTypes
<1>6. BootInv' /\ TablesInv' /\ LivePagesInv' /\ BoardInv'
  BY <1>2, PagesKept DEF LiveInv, BootInv, BoardInv
<1>7. /\ \A a \in Publishers : a # b => publishing'[a] = publishing[a]
      /\ publishing'[b].pc = "none"
  BY <1>2, <1>3
<1>8. /\ b \in Updating(c) /\ b \notin Updating(c)' /\ (\A a \in Updating(c)' : a \in Updating(c))
      /\ \A d \in LiveContests : d # c => Updating(d)' = Updating(d)
  BY <1>0, <1>1, <1>7 DEF Updating
<1>9. \A i \in DOMAIN channel : i \in DOMAIN channel' /\ channel'[i] = channel[i]
  BY <1>2, <1>4
<1>10. \A i \in DOMAIN channel' : i \notin DOMAIN channel => channel'[i] = m
  BY <1>2, <1>4
<1>11. \A d \in LiveContests : d # c => SentFor(d)' = SentFor(d)
  BY <1>9, <1>10, <1>c DEF SentFor
<1>12. c \notin disordered' =>
           /\ Len(channel) + subscriptions \in SentFor(c)'
           /\ \A i \in SentFor(c)' : (\A j \in SentFor(c)' : j <= i) => channel'[i] = m
  <2> SUFFICES ASSUME c \notin disordered'
               PROVE  /\ Len(channel) + subscriptions \in SentFor(c)'
                      /\ \A i \in SentFor(c)' : (\A j \in SentFor(c)' : j <= i) => channel'[i] = m
    OBVIOUS
  <2>1. redisUp /\ subscriptions > 0 /\ channel' = copies
    BY <1>2
  <2> DEFINE last == Len(channel) + subscriptions
  <2>2. last \in DOMAIN channel' /\ last \notin DOMAIN channel /\ DOMAIN channel' = 1..last /\ last \in Nat
    BY <1>3, <1>4, <2>1
  <2>3. last \in SentFor(c)'
    BY <1>10, <1>c, <2>2 DEF SentFor
  <2>4. ASSUME NEW i \in SentFor(c)', \A j \in SentFor(c)' : j <= i PROVE channel'[i] = m
    <3>1. i \in 1..last /\ last <= i
      BY <2>2, <2>3, <2>4 DEF SentFor
    <3>2. i = last
      BY <2>2, <3>1
    <3> QED BY <1>10, <2>2, <3>2
  <2> QED BY <2>3, <2>4
<1>13. ASSUME NEW d \in LiveContests \ disordered' PROVE OrderOf(d)'
  <2>1. d \notin disordered /\ OrderOf(d)
    BY <1>2 DEF LiveInv, OrderInv
  <2>2. CASE d = c
    <3>1. credited[c] <= v
      BY <1>0, <1>1, <1>8, <2>1, <2>2 DEF OrderOf
    <3>2. \A a : a \notin Updating(c)'
      BY <1>8, <2>1, <2>2 DEF OrderOf
    <3>3. \A i \in SentFor(c)' : (\A j \in SentFor(c)' : j <= i) => credited'[c] <= channel'[i].value
      BY <1>2, <1>12, <1>13, <1>c, <2>2, <3>1
    <3> QED BY <2>2, <3>2, <3>3 DEF OrderOf
  <2>3. CASE d # c
    <3>1. Updating(d)' = Updating(d) /\ SentFor(d)' = SentFor(d) /\ credited'[d] = credited[d]
          /\ Updating(d) \subseteq Publishers /\ b \notin Updating(d) /\ SentFor(d) \subseteq DOMAIN channel
      BY <1>1, <1>2, <1>8, <1>11, <2>3 DEF Updating, SentFor
    <3>2. (\A a \in Updating(d) : publishing'[a] = publishing[a]) /\ \A i \in SentFor(d) : channel'[i] = channel[i]
      BY <1>7, <1>9, <3>1
    <3> QED BY <2>1, <3>1, <3>2 DEF OrderOf
  <2> QED BY <2>2, <2>3
<1>14. ASSUME NEW p \in Pages, p \notin disordered', PageContest[p] \notin disordered' PROVE Follows(p)'
  <2>1. p \notin disordered /\ PageContest[p] \notin disordered /\ Follows(p) /\ PageContest[p] \in LiveContests
    BY <1>2, <1>14, LiveTyped DEF LiveInv, FollowInv
  <2>2. CASE PageContest[p] = c
    BY <1>12, <1>14, <2>2 DEF Follows
  <2>3. CASE PageContest[p] # c
    <3>1. Updating(PageContest[p])' = Updating(PageContest[p]) /\ SentFor(PageContest[p])' = SentFor(PageContest[p])
          /\ credited' = credited /\ (Untold(p)' <=> Untold(p)) /\ FreezeValues(p)' = FreezeValues(p)
      BY <1>2, <1>8, <1>11, <2>1, <2>3 DEF Untold, FreezeValues, Frozen
    <3> QED BY <1>2, <2>1, <3>1 DEF Follows
  <2> QED BY <2>2, <2>3
<1> QED BY <1>5, <1>6, <1>13, <1>14 DEF LiveInv, OrderInv, FollowInv


LEMMA AppendFacts ==
    ASSUME NEW S, NEW s \in Seq(S), NEW e \in S
    PROVE  LET u == Append(s, e) IN
           /\ u \in Seq(S) /\ Len(u) = Len(s) + 1 /\ Len(s) \in Nat /\ DOMAIN s = 1..Len(s)
           /\ DOMAIN u = 1..(Len(s) + 1)
           /\ \A i \in DOMAIN s : i \in DOMAIN u /\ u[i] = s[i]
           /\ Len(s) + 1 \in DOMAIN u /\ Len(s) + 1 \notin DOMAIN s /\ u[Len(s) + 1] = e
           /\ \A i \in DOMAIN u : i \in DOMAIN s \/ i = Len(s) + 1
<1> DEFINE u == Append(s, e)
<1>1. u \in Seq(S) /\ Len(u) = Len(s) + 1 /\ (\A i \in 1..Len(s) : u[i] = s[i]) /\ u[Len(s) + 1] = e
  BY AppendProperties
<1>2. Len(s) \in Nat /\ DOMAIN s = 1..Len(s)
  BY LenProperties
<1>3. DOMAIN u = 1..Len(u)
  BY <1>1, LenProperties
<1> HIDE DEF u
<1>4. DOMAIN u = 1..(Len(s) + 1)
  BY <1>1, <1>3
<1>5. \A i \in DOMAIN s : i \in DOMAIN u /\ u[i] = s[i]
  BY <1>1, <1>2, <1>4
<1>6. Len(s) + 1 \in DOMAIN u /\ Len(s) + 1 \notin DOMAIN s
  BY <1>2, <1>4
<1>7. \A i \in DOMAIN u : i \in DOMAIN s \/ i = Len(s) + 1
  BY <1>2, <1>4
<1> QED BY <1>1, <1>2, <1>4, <1>5, <1>6, <1>7 DEF u

LEMMA TailFacts ==
    ASSUME NEW S, NEW s \in Seq(S), s # <<>>
    PROVE  LET u == Tail(s) IN
           /\ u \in Seq(S) /\ Head(s) \in S /\ Head(s) = s[1] /\ 1 \in DOMAIN s
           /\ \A i \in DOMAIN u : i \in Nat \ {0} /\ i + 1 \in DOMAIN s /\ u[i] = s[i + 1]
           /\ \A j \in DOMAIN s : j \in Nat \ {0} /\ (j # 1 => j - 1 \in DOMAIN u /\ u[j - 1] = s[j])
<1> DEFINE u == Tail(s)
<1>1. u \in Seq(S) /\ Head(s) \in S /\ Len(u) = Len(s) - 1 /\ \A i \in 1..Len(u) : u[i] = s[i + 1]
  BY HeadTailProperties
<1>2. Len(s) \in Nat /\ DOMAIN s = 1..Len(s) /\ Len(u) \in Nat /\ DOMAIN u = 1..Len(u)
  BY <1>1, LenProperties
<1>3. Head(s) = s[1]
  OBVIOUS
<1> HIDE DEF u
<1>4. 1 \in DOMAIN s
  BY <1>1, <1>2
<1>5. ASSUME NEW i \in DOMAIN u PROVE i \in Nat \ {0} /\ i + 1 \in DOMAIN s /\ u[i] = s[i + 1]
  BY <1>1, <1>2
<1>6. ASSUME NEW j \in DOMAIN s PROVE j \in Nat \ {0} /\ (j # 1 => j - 1 \in DOMAIN u /\ u[j - 1] = s[j])
  <2>1. j \in Nat \ {0} /\ (j # 1 => j - 1 \in DOMAIN u)
    BY <1>1, <1>2
  <2>2. ASSUME j # 1 PROVE u[j - 1] = s[j]
    <3>1. j - 1 \in 1..Len(u) /\ (j - 1) + 1 = j
      BY <1>2, <2>1, <2>2
    <3>2. u[j - 1] = s[(j - 1) + 1]
      BY <1>1, <3>1
    <3> QED BY <3>1, <3>2
  <2> QED BY <2>1, <2>2
<1> QED BY <1>1, <1>3, <1>4, <1>5, <1>6 DEF u

\* The stream's last update is the one just written to it.
LEMMA UpdateWritten ==
    ASSUME NEW s \in Seq(LiveEvent), NEW m \in Message
    PROVE  LET e == [type |-> "LEADERBOARD_UPDATE", data |-> m]  u == Append(s, e) IN
           /\ u \in Seq(LiveEvent) /\ UpdatesIn(u) # {} /\ (\A n : n <= m.value => EndsWith(u, n))
           /\ \A i \in UpdatesIn(u) : (i \in UpdatesIn(s) /\ u[i] = s[i]) \/ u[i].data = m
<1> DEFINE e == [type |-> "LEADERBOARD_UPDATE", data |-> m]
           u == Append(s, e)
           n == Len(s) + 1
<1>1. e \in LiveEvent /\ e.type = "LEADERBOARD_UPDATE" /\ e.data = m
  BY DEF LiveEvent
<1> HIDE DEF e
<1>2. /\ u \in Seq(LiveEvent) /\ Len(s) \in Nat /\ DOMAIN u = 1..(Len(s) + 1) /\ n \in DOMAIN u /\ u[n] = e
      /\ \A i \in DOMAIN s : i \in DOMAIN u /\ u[i] = s[i]
      /\ \A i \in DOMAIN u : i \in DOMAIN s \/ i = n
  BY <1>1, AppendFacts
<1> HIDE DEF u
<1>3. n \in UpdatesIn(u)
  BY <1>1, <1>2 DEF UpdatesIn
<1>4. ASSUME NEW i \in UpdatesIn(u), \A j \in UpdatesIn(u) : j <= i PROVE u[i].data = m
  <2>1. n <= i /\ i \in 1..n
    BY <1>2, <1>3, <1>4 DEF UpdatesIn
  <2> QED BY <1>1, <1>2, <2>1
<1>5. ASSUME NEW i \in UpdatesIn(u) PROVE (i \in UpdatesIn(s) /\ u[i] = s[i]) \/ u[i].data = m
  BY <1>1, <1>2 DEF UpdatesIn
<1> QED BY <1>2, <1>3, <1>4, <1>5 DEF u, e, EndsWith

\* Any other event leaves a stream's updates alone.
LEMMA ConnectedWritten ==
    ASSUME NEW s \in Seq(LiveEvent)
    PROVE  LET e == [type |-> "CONNECTED", data |-> NoUpdate]  u == Append(s, e) IN
           /\ u \in Seq(LiveEvent) /\ UpdatesIn(u) = UpdatesIn(s) /\ \A i \in UpdatesIn(u) : u[i] = s[i]
           /\ \E i \in DOMAIN u : u[i].type = "CONNECTED"
<1> DEFINE e == [type |-> "CONNECTED", data |-> NoUpdate]
           u == Append(s, e)
<1>1. e \in LiveEvent /\ e.type = "CONNECTED"
  BY DEF LiveEvent
<1> HIDE DEF e
<1>2. /\ u \in Seq(LiveEvent) /\ Len(s) + 1 \in DOMAIN u /\ u[Len(s) + 1] = e /\ Len(s) + 1 \notin DOMAIN s
      /\ \A i \in DOMAIN s : i \in DOMAIN u /\ u[i] = s[i]
      /\ \A i \in DOMAIN u : i \in DOMAIN s \/ i = Len(s) + 1
  BY <1>1, AppendFacts
<1> HIDE DEF u
<1>3. UpdatesIn(u) = UpdatesIn(s) /\ \A i \in UpdatesIn(u) : u[i] = s[i]
  BY <1>1, <1>2 DEF UpdatesIn
<1> QED BY <1>1, <1>2, <1>3 DEF u, e

\* A page takes the first event of its stream.
LEMMA EventTaken ==
    ASSUME NEW s \in Seq(LiveEvent), s # <<>>, NEW n
    PROVE  /\ Tail(s) \in Seq(LiveEvent) /\ Head(s) \in LiveEvent
           /\ EndsWith(s, n) => EndsWith(Tail(s), n)
           /\ EndsWith(s, n) /\ Head(s).type = "LEADERBOARD_UPDATE" /\ UpdatesIn(Tail(s)) = {} => n <= Head(s).data.value
           /\ Head(s).type = "CONNECTED" => (UpdatesIn(Tail(s)) = {} => UpdatesIn(s) = {})
           /\ \A i \in UpdatesIn(Tail(s)) : i + 1 \in UpdatesIn(s) /\ Tail(s)[i] = s[i + 1]
           /\ Head(s).type = "LEADERBOARD_UPDATE" => 1 \in UpdatesIn(s) /\ s[1] = Head(s)
<1> DEFINE u == Tail(s)
<1>1. /\ u \in Seq(LiveEvent) /\ Head(s) \in LiveEvent /\ Head(s) = s[1] /\ 1 \in DOMAIN s
      /\ \A i \in DOMAIN u : i \in Nat \ {0} /\ i + 1 \in DOMAIN s /\ u[i] = s[i + 1]
      /\ \A j \in DOMAIN s : j \in Nat \ {0} /\ (j # 1 => j - 1 \in DOMAIN u /\ u[j - 1] = s[j])
  BY TailFacts
<1> HIDE DEF u
<1>2. \A i \in UpdatesIn(u) : i \in Nat \ {0} /\ i + 1 \in UpdatesIn(s) /\ u[i] = s[i + 1]
  BY <1>1 DEF UpdatesIn
<1>3. \A j \in UpdatesIn(s) : j \in Nat \ {0} /\ (j # 1 => j - 1 \in UpdatesIn(u))
  BY <1>1 DEF UpdatesIn
<1>4. ASSUME EndsWith(s, n) PROVE EndsWith(u, n)
  <2> SUFFICES ASSUME NEW i \in UpdatesIn(u), \A j \in UpdatesIn(u) : j <= i PROVE n <= u[i].data.value
    BY DEF EndsWith
  <2>1. ASSUME NEW j \in UpdatesIn(s) PROVE j <= i + 1
    <3>1. j \in Nat \ {0} /\ i \in Nat \ {0} /\ (j # 1 => j - 1 \in UpdatesIn(u))
      BY <1>2, <1>3
    <3>2. CASE j = 1
      BY <3>1, <3>2
    <3>3. CASE j # 1
      BY <3>1, <3>3
    <3> QED BY <3>2, <3>3
  <2> QED BY <1>2, <1>4, <2>1 DEF EndsWith
<1>5. ASSUME EndsWith(s, n), Head(s).type = "LEADERBOARD_UPDATE", UpdatesIn(u) = {} PROVE n <= Head(s).data.value
  <2>1. 1 \in UpdatesIn(s) /\ \A j \in UpdatesIn(s) : j = 1
    BY <1>1, <1>3, <1>5 DEF UpdatesIn
  <2> QED BY <1>1, <1>5, <2>1 DEF EndsWith
<1>6. ASSUME Head(s).type = "CONNECTED", UpdatesIn(u) = {} PROVE UpdatesIn(s) = {}
  <2>1. ASSUME NEW j \in UpdatesIn(s) PROVE FALSE
    BY <1>1, <1>3, <1>6 DEF UpdatesIn
  <2> QED BY <2>1
<1>7. ASSUME Head(s).type = "LEADERBOARD_UPDATE" PROVE 1 \in UpdatesIn(s) /\ s[1] = Head(s)
  BY <1>1, <1>7 DEF UpdatesIn
<1> QED BY <1>1, <1>2, <1>4, <1>5, <1>6, <1>7 DEF u


-----------------------------------------------------------------------------
(* Realtime: the page.                                                     *)

\* A step of one page: what the invariant says of it is all that has to be shown.
LEMMA OnePage ==
    ASSUME LiveInv, NEW p \in Pages, NEW g \in Page, livePages' = [livePages EXCEPT ![p] = g],
           g.stream \in {0, livePages[p].stream},
           UNCHANGED <<phase, standing, openRows, snapshot, credited, publishing, redisUp, redisMain, boot, subscriptions, channel, sseClients, contestClients>>,
           streams' \in Seq(Seq(LiveEvent)), Len(streams') = Len(streams),
           \A i \in StreamIds : i # livePages[p].stream => streams'[i] = streams[i],
           g.stream # 0 => \A i \in UpdatesIn(streams'[g.stream]) : streams'[g.stream][i].data.contest = PageContest[p],
           liveFaults' \in 0..MaxLiveFaults, disordered \subseteq disordered', disordered' \subseteq LiveContests \union Pages,
           PageOf(p)', p \notin disordered' /\ PageContest[p] \notin disordered' /\ Follows(p) => Follows(p)'
    PROVE  LiveInv'
<1>1. livePages \in [Pages -> Page] /\ RealtimeTypes
  BY LiveTyped DEF RealtimeTypes
<1>2. livePages'[p] = g /\ \A q \in Pages : q # p => livePages'[q] = livePages[q]
  BY <1>1
<1>3. RealtimeTypes'
  BY <1>1 DEF RealtimeTypes
<1>4. BootInv' /\ TablesInv' /\ OrderInv' /\ BoardInv'
  BY OrderKept DEF LiveInv, BootInv, TablesInv, BoardInv
<1>5. ASSUME NEW q \in Pages PROVE StreamOf(q)' /\ PageOf(q)'
  <2>1. StreamOf(q) /\ PageOf(q) /\ StreamOf(p)
    BY DEF LiveInv, LivePagesInv
  <2>2. CASE q = p
    <3>1. CASE g.stream = 0
      BY <1>2, <2>1, <2>2, <3>1 DEF StreamOf
    <3>2. CASE g.stream # 0
      <4>1. g.stream = livePages[p].stream /\ livePages'[p].stream = g.stream
        BY <1>2, <3>2
      <4>2. /\ \E t \in sseClients : t.id = g.stream /\ t.contest = PageContest[p]
            /\ \A o \in Pages : o # p => livePages'[o].stream # g.stream
        BY <1>2, <2>1, <3>2, <4>1 DEF StreamOf
      <4>3. StreamOf(p)'
        BY <3>2, <4>1, <4>2 DEF StreamOf
      <4> QED BY <2>2, <4>3
    <3> QED BY <3>1, <3>2
  <2>3. CASE q # p
    <3>1. livePages[q].stream # 0 => livePages[q].stream \in StreamIds /\ livePages[q].stream # livePages[p].stream
      BY <2>1, <2>3, LiveTyped DEF StreamOf
    <3>2. livePages[q].stream # 0 => streams'[livePages[q].stream] = streams[livePages[q].stream] /\ livePages[q].stream # g.stream
      BY <3>1
    <3> QED BY <1>2, <2>1, <2>3, <3>2 DEF StreamOf, PageOf
  <2> QED BY <2>2, <2>3
<1>6. ASSUME NEW q \in Pages, q \notin disordered', PageContest[q] \notin disordered' PROVE Follows(q)'
  <2>1. Follows(q)
    BY <1>6 DEF LiveInv, FollowInv
  <2>2. CASE q = p
    BY <1>6, <2>1, <2>2
  <2>3. CASE q # p
    <3>1. livePages[q].stream # 0 => livePages[q].stream \in StreamIds /\ livePages[q].stream # livePages[p].stream
      BY <2>3, LiveTyped DEF LiveInv, LivePagesInv, StreamOf
    <3>2. livePages[q].stream # 0 => streams'[livePages[q].stream] = streams[livePages[q].stream]
      BY <3>1
    <3> QED BY <1>2, <2>1, <2>3, <3>2, FollowsKept DEF Untold
  <2> QED BY <2>2, <2>3
<1> QED BY <1>3, <1>4, <1>5, <1>6 DEF LiveInv, LivePagesInv, FollowInv

\* What the invariant says of one page, and what a step of it leaves alone.
LEMMA PageFacts ==
    ASSUME LiveInv, NEW p \in Pages
    PROVE  /\ livePages[p] \in Page /\ StreamOf(p) /\ PageOf(p) /\ PageContest[p] \in LiveContests
           /\ standing[PageContest[p]] \in 0..MaxChanges /\ snapshot[PageContest[p]] \in 0..MaxChanges /\ MaxChanges \in Nat
           /\ credited[PageContest[p]] \in Nat /\ credited[PageContest[p]] <= standing[PageContest[p]]
           /\ livePages \in [Pages -> Page] /\ streams \in Seq(Seq(LiveEvent))
           /\ liveFaults \in 0..MaxLiveFaults /\ disordered \subseteq LiveContests \union Pages
<1>1. RealtimeTypes /\ PageContest[p] \in LiveContests /\ MaxChanges \in Nat /\ StreamOf(p) /\ PageOf(p)
  BY LiveTyped DEF LiveInv, LivePagesInv
<1>2. BoardInv
  BY DEF LiveInv
<1> QED BY <1>1, <1>2 DEF RealtimeTypes, BoardInv

\* The premises of Follows are those of before when nothing of the backend changes.
LEMMA FollowsOfPage ==
    ASSUME NEW p \in Pages, UNCHANGED <<phase, standing, openRows, snapshot, credited, publishing, channel, sseClients>>, Follows(p),
           livePages'[p].stream \in {0, livePages[p].stream},
           livePages'[p].stream # 0 /\ Updating(PageContest[p]) = {} /\ SentFor(PageContest[p]) = {}
             /\ EndsWith(streams[livePages[p].stream], credited[PageContest[p]])
             /\ (UpdatesIn(streams[livePages[p].stream]) = {} =>
                   Untold(p) \/ Fresh(livePages[p], streams[livePages[p].stream], credited[PageContest[p]], FreezeValues(p)))
           => EndsWith(streams'[livePages[p].stream], credited[PageContest[p]])
             /\ (UpdatesIn(streams'[livePages[p].stream]) = {} =>
                   Untold(p) \/ Fresh(livePages'[p], streams'[livePages[p].stream], credited[PageContest[p]], FreezeValues(p)))
    PROVE  Follows(p)'
<1>1. /\ \A c : Updating(c)' = Updating(c) /\ SentFor(c)' = SentFor(c)
      /\ FreezeValues(p)' = FreezeValues(p)
  BY DEF Updating, SentFor, FreezeValues, Frozen
<1>2. livePages'[p].stream # 0 => (Untold(p)' <=> Untold(p)) /\ livePages'[p].stream = livePages[p].stream
  BY DEF Untold
<1> QED BY <1>1, <1>2 DEF Follows

LEMMA FetchStep ==
    ASSUME LiveInv, NEW p \in Pages, Fetch(p)
    PROVE  LiveInv'
<1> DEFINE asked == [pc |-> "sent"]
           old == livePages[p]
           g == [status |-> old.status, stream |-> old.stream, attempts |-> old.attempts, shown |-> old.shown, fetch |-> asked]
<1>1. /\ livePages' = [livePages EXCEPT ![p].fetch = asked]
      /\ UNCHANGED <<phase, standing, openRows, snapshot, credited, publishing, redisUp, redisMain, boot, subscriptions, channel, sseClients, contestClients,
                     streams, liveFaults, disordered>>
  BY DEF Fetch, board, redisVars, tables
<1>2. /\ old \in Page /\ StreamOf(p) /\ PageOf(p) /\ livePages \in [Pages -> Page] /\ streams \in Seq(Seq(LiveEvent))
      /\ liveFaults \in 0..MaxLiveFaults /\ disordered \subseteq LiveContests \union Pages
  BY PageFacts
<1>3. asked \in FetchStates /\ asked.pc = "sent" /\ g \in Page
  <2>1. asked \in FetchStates /\ asked.pc = "sent"
    BY DEF FetchStates
  <2> QED BY <1>2, <2>1, PageFields, PageMade
<1>4. livePages' = [livePages EXCEPT ![p] = g]
  <2>1. ASSUME NEW q, q = [old EXCEPT !.fetch = asked] PROVE q = g
    BY <1>2, <2>1, PageAsking
  <2> QED BY <1>1, <1>2, <2>1
<1>5. livePages'[p] = g /\ g.stream = old.stream /\ g.fetch.pc = "sent"
  BY <1>2, <1>3, <1>4
<1>6. PageOf(p)'
  BY <1>1, <1>2, <1>3, <1>5 DEF PageOf
<1>7. ASSUME Follows(p) PROVE Follows(p)'
  BY <1>1, <1>5, <1>7, FollowsOfPage DEF Fresh
<1> HIDE DEF g
<1>8. g.stream # 0 => \A i \in UpdatesIn(streams'[g.stream]) : streams'[g.stream][i].data.contest = PageContest[p]
  BY <1>1, <1>2, <1>5 DEF StreamOf
<1>9. streams' \in Seq(Seq(LiveEvent)) /\ Len(streams') = Len(streams) /\ \A i \in StreamIds : streams'[i] = streams[i]
  BY <1>1, <1>2
<1>10. liveFaults' \in 0..MaxLiveFaults /\ disordered \subseteq disordered' /\ disordered' \subseteq LiveContests \union Pages
  BY <1>1, <1>2
<1>11. g \in Page /\ g.stream \in {0, livePages[p].stream}
  BY <1>3, <1>5
<1> QED BY <1>1, <1>4, <1>6, <1>7, <1>8, <1>9, <1>10, <1>11, OnePage

LEMMA ServeFetchStep ==
    ASSUME LiveInv, NEW p \in Pages, ServeFetch(p)
    PROVE  LiveInv'
<1>0. PICK v : v = IF Frozen(p) THEN snapshot[PageContest[p]] ELSE standing[PageContest[p]]
  OBVIOUS
<1> DEFINE data == [contest |-> PageContest[p], value |-> v]
           answer == [pc |-> "answer", data |-> data]
           old == livePages[p]
           g == [status |-> old.status, stream |-> old.stream, attempts |-> old.attempts, shown |-> old.shown, fetch |-> answer]
<1>1. /\ livePages' = [livePages EXCEPT ![p].fetch = answer]
      /\ UNCHANGED <<phase, standing, openRows, snapshot, credited, publishing, redisUp, redisMain, boot, subscriptions, channel, sseClients, contestClients,
                     streams, liveFaults, disordered>>
  BY <1>0 DEF ServeFetch, board, redisVars, tables
<1>2. /\ old \in Page /\ StreamOf(p) /\ PageOf(p) /\ livePages \in [Pages -> Page] /\ streams \in Seq(Seq(LiveEvent))
      /\ liveFaults \in 0..MaxLiveFaults /\ disordered \subseteq LiveContests \union Pages
      /\ v \in 0..MaxChanges /\ data \in Message /\ data.contest = PageContest[p] /\ data.value = v
      /\ credited[PageContest[p]] <= v \/ v \in FreezeValues(p)
  <2>1. v \in 0..MaxChanges /\ (credited[PageContest[p]] <= v \/ v \in FreezeValues(p))
    BY <1>0, PageFacts DEF FreezeValues
  <2>2. data \in Message /\ data.contest = PageContest[p] /\ data.value = v
    BY <2>1, PageFacts DEF Message
  <2> QED BY <2>1, <2>2, PageFacts
<1>3. answer \in FetchStates /\ answer.pc = "answer" /\ answer.data = data /\ g \in Page
  <2>1. answer \in FetchStates /\ answer.pc = "answer" /\ answer.data = data
    BY <1>2 DEF FetchStates
  <2> HIDE DEF answer
  <2> QED BY <1>2, <2>1, PageFields, PageMade
<1> HIDE DEF answer
<1>4. livePages' = [livePages EXCEPT ![p] = g]
  <2>1. ASSUME NEW q, q = [old EXCEPT !.fetch = answer] PROVE q = g
    BY <1>2, <2>1, PageAsking
  <2> QED BY <1>1, <1>2, <2>1
<1>5. livePages'[p] = g /\ g.stream = old.stream /\ g.fetch.pc = "answer" /\ g.fetch.data = data
      /\ g.status = old.status /\ g.attempts = old.attempts /\ g.shown = old.shown
  BY <1>2, <1>3, <1>4
<1> HIDE DEF g
<1>6. PageOf(p)'
  BY <1>1, <1>2, <1>5 DEF PageOf
<1>7. ASSUME Follows(p) PROVE Follows(p)'
  BY <1>1, <1>2, <1>5, <1>7, FollowsOfPage DEF Fresh
<1>8. g.stream # 0 => \A i \in UpdatesIn(streams'[g.stream]) : streams'[g.stream][i].data.contest = PageContest[p]
  BY <1>1, <1>2, <1>5 DEF StreamOf
<1>9. streams' \in Seq(Seq(LiveEvent)) /\ Len(streams') = Len(streams) /\ \A i \in StreamIds : streams'[i] = streams[i]
  BY <1>1, <1>2
<1>10. liveFaults' \in 0..MaxLiveFaults /\ disordered \subseteq disordered' /\ disordered' \subseteq LiveContests \union Pages
  BY <1>1, <1>2
<1>11. g \in Page /\ g.stream \in {0, livePages[p].stream}
  BY <1>3, <1>5
<1> QED BY <1>1, <1>4, <1>6, <1>7, <1>8, <1>9, <1>10, <1>11, OnePage


LEMMA AnswerFetchStep ==
    ASSUME LiveInv, NEW p \in Pages, AnswerFetch(p)
    PROVE  LiveInv'
<1>0. livePages[p].fetch.pc = "answer"
  BY DEF AnswerFetch
<1>1. /\ livePages[p] \in Page /\ StreamOf(p) /\ PageOf(p) /\ livePages \in [Pages -> Page] /\ streams \in Seq(Seq(LiveEvent))
      /\ liveFaults \in 0..MaxLiveFaults /\ disordered \subseteq LiveContests \union Pages
      /\ MaxChanges \in Nat /\ credited[PageContest[p]] \in Nat /\ PageContest[p] \in LiveContests
  BY PageFacts
<1>2. livePages[p].fetch \in [pc : {"answer"}, data : Message]
  BY <1>0, <1>1, PageFields DEF FetchStates, NoFetch
<1>3. PICK data \in Message : data = livePages[p].fetch.data
  BY <1>2
<1> DEFINE old == livePages[p]
           g == [status |-> old.status, stream |-> old.stream, attempts |-> old.attempts, shown |-> data, fetch |-> NoFetch]
<1>4. /\ livePages' = [livePages EXCEPT ![p].shown = data, ![p].fetch = NoFetch]
      /\ disordered' = IF data.value < old.shown.value /\ ~FromFreeze(p, data.value) THEN disordered \union {p} ELSE disordered
      /\ UNCHANGED <<phase, standing, openRows, snapshot, credited, publishing, redisUp, redisMain, boot, subscriptions, channel, sseClients, contestClients,
                     streams, liveFaults>>
  BY <1>3 DEF AnswerFetch, board, redisVars, tables
<1>5. NoFetch \in FetchStates /\ NoFetch.pc = "none" /\ g \in Page
  <2>1. NoFetch \in FetchStates /\ NoFetch.pc = "none"
    BY DEF FetchStates, NoFetch
  <2> QED BY <1>1, <2>1, PageFields, PageMade
<1>6. livePages' = [livePages EXCEPT ![p] = g]
  <2>1. ASSUME NEW v, NEW w, NEW q, q = [old EXCEPT !.shown = v, !.fetch = w]
        PROVE  q = [status |-> old.status, stream |-> old.stream, attempts |-> old.attempts, shown |-> v, fetch |-> w]
    BY <1>1, <2>1 DEF Page
  <2> QED BY <1>1, <1>4, <2>1
<1>7. livePages'[p] = g /\ g.stream = old.stream /\ g.fetch.pc = "none"
      /\ g.status = old.status /\ g.attempts = old.attempts /\ g.shown = data
  BY <1>1, <1>5, <1>6
<1> HIDE DEF g
<1>8. data.contest = PageContest[p] /\ data.value \in Nat
      /\ old.shown \in Message /\ old.shown.value \in Nat /\ data = [contest |-> PageContest[p], value |-> data.value]
  <2>1. data.contest = PageContest[p]
    BY <1>0, <1>1, <1>3 DEF PageOf
  <2>2. old.shown \in Message
    BY <1>1, PageFields
  <2> QED BY <1>1, <2>1, <2>2 DEF Message
<1>9. PageOf(p)'
  BY <1>1, <1>7, <1>8 DEF PageOf
<1>10. ASSUME Follows(p), p \notin disordered' PROVE Follows(p)'
  <2>1. old.shown.value <= data.value \/ data.value \in FreezeValues(p)
    <3>1. ~(data.value < old.shown.value) \/ FromFreeze(p, data.value)
      BY <1>4, <1>10
    <3> QED BY <1>8, <3>1 DEF FromFreeze, FreezeValues
  <2>2. ASSUME NEW s, Fresh(old, s, credited[PageContest[p]], FreezeValues(p))
        PROVE  Fresh(g, s, credited[PageContest[p]], FreezeValues(p))
    <3>1. CASE credited[PageContest[p]] <= old.shown.value
      <4>1. credited[PageContest[p]] <= data.value \/ data.value \in FreezeValues(p)
        BY <1>1, <1>8, <2>1, <3>1
      <4> QED BY <1>7, <4>1 DEF Fresh
    <3>2. CASE credited[PageContest[p]] <= old.fetch.data.value \/ old.fetch.data.value \in FreezeValues(p)
      BY <1>3, <1>7, <3>2 DEF Fresh
    <3>3. CASE \E i \in DOMAIN s : s[i].type = "CONNECTED"
      BY <3>3 DEF Fresh
    <3> QED BY <1>0, <2>2, <3>1, <3>2, <3>3 DEF Fresh
  <2> QED BY <1>4, <1>7, <1>10, <2>2, FollowsOfPage
<1>11. g.stream # 0 => \A i \in UpdatesIn(streams'[g.stream]) : streams'[g.stream][i].data.contest = PageContest[p]
  BY <1>1, <1>4, <1>7 DEF StreamOf
<1>12. streams' \in Seq(Seq(LiveEvent)) /\ Len(streams') = Len(streams) /\ \A i \in StreamIds : streams'[i] = streams[i]
  BY <1>1, <1>4
<1>13. liveFaults' \in 0..MaxLiveFaults /\ disordered \subseteq disordered' /\ disordered' \subseteq LiveContests \union Pages
  BY <1>1, <1>4
<1>14. g \in Page /\ g.stream \in {0, livePages[p].stream}
  BY <1>5, <1>7
<1> QED BY <1>4, <1>6, <1>9, <1>10, <1>11, <1>12, <1>13, <1>14, OnePage

LEMMA ReceiveEventStep ==
    ASSUME LiveInv, NEW p \in Pages, ReceiveEvent(p)
    PROVE  LiveInv'
<1>1. /\ livePages[p] \in Page /\ StreamOf(p) /\ PageOf(p) /\ livePages \in [Pages -> Page] /\ streams \in Seq(Seq(LiveEvent))
      /\ liveFaults \in 0..MaxLiveFaults /\ disordered \subseteq LiveContests \union Pages /\ PageContest[p] \in LiveContests
  BY PageFacts
<1>2. PICK n \in StreamIds : n = livePages[p].stream /\ n # 0
  BY LiveTyped DEF ReceiveEvent
<1>3. PICK s \in Seq(LiveEvent) : s = streams[n] /\ s # <<>>
  BY <1>2, LiveTyped DEF ReceiveEvent
<1>4. PICK event \in LiveEvent : event = Head(s)
  BY <1>3, EventTaken
<1> DEFINE now == credited[PageContest[p]]
           old == livePages[p]
           asked == [pc |-> "sent"]
           asking == [status |-> old.status, stream |-> old.stream, attempts |-> old.attempts, shown |-> old.shown, fetch |-> asked]
           showing == [status |-> old.status, stream |-> old.stream, attempts |-> old.attempts, shown |-> event.data, fetch |-> old.fetch]
           g == IF event.type = "CONNECTED" THEN asking ELSE showing
<1>5. /\ streams' = [streams EXCEPT ![n] = Tail(s)]
      /\ livePages' = IF event.type = "CONNECTED" THEN [livePages EXCEPT ![p].fetch = asked]
                      ELSE [livePages EXCEPT ![p].shown = event.data]
      /\ UNCHANGED <<phase, standing, openRows, snapshot, credited, publishing, redisUp, redisMain, boot, subscriptions, channel, sseClients, contestClients,
                     liveFaults, disordered>>
  BY <1>2, <1>3, <1>4 DEF ReceiveEvent, FetchOnConnected, board, redisVars
<1>6. Tail(s) \in Seq(LiveEvent) /\ streams' \in Seq(Seq(LiveEvent)) /\ Len(streams') = Len(streams)
      /\ streams'[n] = Tail(s) /\ \A i \in StreamIds : i # n => streams'[i] = streams[i]
  <2>1. Tail(s) \in Seq(LiveEvent)
    BY <1>3, EventTaken
  <2>2. n \in 1..Len(streams)
    BY <1>2, LiveTyped
  <2> QED BY <1>1, <1>5, <2>1, <2>2, ExceptSeq, LiveTyped
<1>7. event.type = "CONNECTED" \/ (event.type = "LEADERBOARD_UPDATE" /\ event.data \in Message)
  BY DEF LiveEvent
<1>8. asked \in FetchStates /\ asked.pc = "sent"
  BY DEF FetchStates
<1> HIDE DEF asked
<1>9. g \in Page
  BY <1>1, <1>7, <1>8, PageFields, PageMade
<1>10. livePages' = [livePages EXCEPT ![p] = g]
  <2>1. ASSUME NEW q, q = [old EXCEPT !.fetch = asked] PROVE q = asking
    BY <1>1, <2>1, PageAsking
  <2>2. ASSUME NEW v, NEW q, q = [old EXCEPT !.shown = v]
        PROVE  q = [status |-> old.status, stream |-> old.stream, attempts |-> old.attempts, shown |-> v, fetch |-> old.fetch]
    BY <1>1, <2>2 DEF Page
  <2>3. CASE event.type = "CONNECTED"
    BY <1>1, <1>5, <2>1, <2>3
  <2>4. CASE event.type # "CONNECTED"
    BY <1>1, <1>5, <2>2, <2>4
  <2> QED BY <2>3, <2>4
<1>11. livePages'[p] = g /\ g.stream = old.stream /\ g.status = old.status /\ g.attempts = old.attempts
       /\ (event.type = "CONNECTED" => g.fetch.pc = "sent" /\ g.shown = old.shown)
       /\ (event.type # "CONNECTED" => g.fetch = old.fetch /\ g.shown = event.data)
  BY <1>1, <1>8, <1>9, <1>10
<1> HIDE DEF g
<1>12. \A i \in UpdatesIn(s) : s[i].data.contest = PageContest[p]
  BY <1>1, <1>2, <1>3 DEF StreamOf
<1>13. event.type # "CONNECTED" => event.data.contest = PageContest[p]
  BY <1>3, <1>4, <1>7, <1>12, EventTaken
<1>14. PageOf(p)'
  BY <1>1, <1>5, <1>11, <1>13 DEF PageOf
<1>15. ASSUME Follows(p) PROVE Follows(p)'
  <2> HIDE DEF now
  <2>1. ASSUME EndsWith(s, now), UpdatesIn(s) = {} => Untold(p) \/ Fresh(old, s, now, FreezeValues(p))
        PROVE  EndsWith(Tail(s), now) /\ (UpdatesIn(Tail(s)) = {} => Untold(p) \/ Fresh(g, Tail(s), now, FreezeValues(p)))
    <3>1. EndsWith(Tail(s), now)
      BY <1>3, <2>1, EventTaken
    <3>2. CASE event.type = "CONNECTED"
      BY <1>11, <3>1, <3>2 DEF Fresh
    <3>3. CASE event.type # "CONNECTED"
      <4>1. UpdatesIn(Tail(s)) = {} => now <= event.data.value
        BY <1>3, <1>4, <1>7, <2>1, <3>3, EventTaken
      <4> QED BY <1>11, <3>1, <3>3, <4>1 DEF Fresh
    <3> QED BY <3>2, <3>3
  <2>2. streams[old.stream] = s /\ streams'[old.stream] = Tail(s)
    BY <1>2, <1>3, <1>6
  <2> QED BY <1>5, <1>11, <1>15, <2>1, <2>2, FollowsOfPage DEF now
<1>16. g.stream # 0 => \A i \in UpdatesIn(streams'[g.stream]) : streams'[g.stream][i].data.contest = PageContest[p]
  <2>1. \A i \in UpdatesIn(Tail(s)) : Tail(s)[i].data.contest = PageContest[p]
    <3>1. \A i \in UpdatesIn(Tail(s)) : i + 1 \in UpdatesIn(s) /\ Tail(s)[i] = s[i + 1]
      BY <1>3, EventTaken
    <3> QED BY <1>12, <3>1
  <2> QED BY <1>2, <1>6, <1>11, <2>1
<1>17. liveFaults' \in 0..MaxLiveFaults /\ disordered \subseteq disordered' /\ disordered' \subseteq LiveContests \union Pages
  BY <1>1, <1>5
<1>18. g \in Page /\ g.stream \in {0, livePages[p].stream}
  BY <1>9, <1>11
<1> QED BY <1>2, <1>5, <1>6, <1>10, <1>14, <1>15, <1>16, <1>17, <1>18, OnePage

LEMMA ReconnectPageStep ==
    ASSUME LiveInv, NEW p \in Pages, ReconnectPage(p)
    PROVE  LiveInv'
<1>1. /\ livePages[p] \in Page /\ StreamOf(p) /\ PageOf(p) /\ livePages \in [Pages -> Page] /\ streams \in Seq(Seq(LiveEvent))
      /\ liveFaults \in 0..MaxLiveFaults /\ disordered \subseteq LiveContests \union Pages
  BY PageFacts
<1>2. PICK n \in 0..ReconnectLimit : n = livePages[p].attempts
  BY <1>1, PageFields
<1> DEFINE old == livePages[p]
           g == [status |-> "connecting", stream |-> old.stream, attempts |-> n + 1, shown |-> old.shown, fetch |-> old.fetch]
<1>3. /\ old.status = "disconnected"
      /\ livePages' = [livePages EXCEPT ![p].status = "connecting", ![p].attempts = n + 1]
      /\ UNCHANGED <<phase, standing, openRows, snapshot, credited, publishing, redisUp, redisMain, boot, subscriptions, channel, sseClients, contestClients,
                     streams, liveFaults, disordered>>
  BY <1>2 DEF ReconnectPage, board, redisVars, tables
<1>4. n + 1 \in 0..ReconnectLimit
  <2>1. n < ReconnectLimit /\ ReconnectLimit \in Nat
    BY <1>1, <1>2, <1>3, LiveTyped DEF PageOf
  <2> QED BY <2>1
<1>5. g \in Page
  BY <1>1, <1>4, PageFields, PageMade
<1>6. livePages' = [livePages EXCEPT ![p] = g]
  <2>1. ASSUME NEW v, NEW w, NEW q, q = [old EXCEPT !.status = v, !.attempts = w]
        PROVE  q = [status |-> v, stream |-> old.stream, attempts |-> w, shown |-> old.shown, fetch |-> old.fetch]
    BY <1>1, <2>1 DEF Page
  <2> QED BY <1>1, <1>3, <2>1
<1>7. livePages'[p] = g /\ g.stream = old.stream /\ g.status = "connecting" /\ g.shown = old.shown /\ g.fetch = old.fetch
  BY <1>1, <1>5, <1>6
<1> HIDE DEF g
<1>8. old.stream = 0
  BY <1>1, <1>3 DEF PageOf
<1>9. PageOf(p)'
  BY <1>1, <1>3, <1>7, <1>8 DEF PageOf
<1>10. Follows(p)'
  BY <1>7, <1>8 DEF Follows
<1>11. streams' \in Seq(Seq(LiveEvent)) /\ Len(streams') = Len(streams) /\ \A i \in StreamIds : streams'[i] = streams[i]
  BY <1>1, <1>3
<1>12. liveFaults' \in 0..MaxLiveFaults /\ disordered \subseteq disordered' /\ disordered' \subseteq LiveContests \union Pages
  BY <1>1, <1>3
<1>13. g.stream = 0 /\ g.stream \in {0, livePages[p].stream}
  BY <1>7, <1>8
<1> QED BY <1>3, <1>5, <1>6, <1>9, <1>10, <1>11, <1>12, <1>13, OnePage


\* What an error of its stream makes of page g.
ErrorOf(g, h) ==
    /\ h.stream = 0 /\ h.attempts = g.attempts /\ h.shown = g.shown
    /\ (h.status = "disconnected" /\ g.attempts < ReconnectLimit) \/ h.status = "fallback"
    /\ h.fetch.pc = "sent" \/ h.fetch = g.fetch

LEMMA StreamErrorFacts ==
    ASSUME LiveInv, NEW p \in Pages
    PROVE  StreamError(p) \in Page /\ ErrorOf(livePages[p], StreamError(p))
<1> DEFINE old == livePages[p]
<1>1. old \in Page
  BY PageFacts
<1>2. PICK st : st = IF old.attempts < ReconnectLimit THEN "disconnected" ELSE "fallback"
  OBVIOUS
<1>3. PICK fetch : fetch = IF old.attempts < ReconnectLimit \/ old.fetch.pc # "none" THEN old.fetch ELSE [pc |-> "sent"]
  OBVIOUS
<1>4. StreamError(p) = [old EXCEPT !.stream = 0, !.status = st, !.fetch = fetch]
  BY <1>2, <1>3 DEF StreamError
<1> DEFINE h == [status |-> st, stream |-> 0, attempts |-> old.attempts, shown |-> old.shown, fetch |-> fetch]
<1>5. ASSUME NEW q, q = [old EXCEPT !.stream = 0, !.status = st, !.fetch = fetch] PROVE q = h
  BY <1>1, <1>5 DEF Page
<1>6. StreamError(p) = h
  BY <1>4, <1>5
<1>7. fetch \in FetchStates /\ (fetch.pc = "sent" \/ fetch = old.fetch)
  <2>1. old.fetch \in FetchStates /\ [pc |-> "sent"] \in FetchStates /\ [pc |-> "sent"].pc = "sent"
    BY <1>1, PageFields DEF FetchStates
  <2> QED BY <1>3, <2>1
<1>8. h \in Page
  BY <1>1, <1>2, <1>7, PageFields, PageMade, LiveTyped
<1>9. ErrorOf(old, h)
  BY <1>2, <1>7 DEF ErrorOf
<1> QED BY <1>6, <1>8, <1>9

LEMMA BreakStreamStep ==
    ASSUME LiveInv, NEW p \in Pages, BreakStream(p)
    PROVE  LiveInv'
<1>1. /\ livePages[p] \in Page /\ StreamOf(p) /\ PageOf(p) /\ livePages \in [Pages -> Page] /\ streams \in Seq(Seq(LiveEvent))
      /\ liveFaults \in 0..MaxLiveFaults /\ disordered \subseteq LiveContests \union Pages
  BY PageFacts
<1>2. PICK g : g = StreamError(p)
  OBVIOUS
<1>3. /\ livePages' = [livePages EXCEPT ![p] = g]
      /\ UNCHANGED <<phase, standing, openRows, snapshot, credited, publishing, redisUp, redisMain, boot, subscriptions, channel, sseClients, contestClients,
                     streams, disordered>>
      /\ liveFaults' = liveFaults + 1 /\ liveFaults < MaxLiveFaults
  BY <1>2 DEF BreakStream, Fault, board, redisVars, tables
<1>4. g \in Page /\ g.stream = 0 /\ ErrorOf(livePages[p], g)
  BY <1>1, <1>2, StreamErrorFacts DEF ErrorOf
<1>5. livePages'[p] = g
  BY <1>1, <1>3, <1>4
<1>6. PageOf(p)'
  BY <1>1, <1>3, <1>4, <1>5 DEF PageOf, ErrorOf
<1>7. Follows(p)'
  BY <1>4, <1>5 DEF Follows
<1>8. streams' \in Seq(Seq(LiveEvent)) /\ Len(streams') = Len(streams) /\ \A i \in StreamIds : streams'[i] = streams[i]
  BY <1>1, <1>3
<1>9. liveFaults' \in 0..MaxLiveFaults /\ disordered \subseteq disordered' /\ disordered' \subseteq LiveContests \union Pages
  BY <1>1, <1>3, LiveTyped
<1> QED BY <1>3, <1>4, <1>6, <1>7, <1>8, <1>9, OnePage


-----------------------------------------------------------------------------
(* Realtime: the server's clients.                                         *)

LEMMA TellConnectedStep ==
    ASSUME LiveInv, NEW c \in sseClients, TellConnected(c)
    PROVE  LiveInv'
<1>1. RealtimeTypes /\ TablesInv /\ LivePagesInv /\ streams \in Seq(Seq(LiveEvent))
  BY DEF LiveInv, RealtimeTypes
<1>2. PICK n \in StreamIds : n = c.id /\ n \in 1..Len(streams)
  BY <1>1, LiveTyped DEF RealtimeTypes
<1>3. PICK s \in Seq(LiveEvent) : s = streams[n]
  BY <1>2, LiveTyped
<1>4. PICK d : d = [c EXCEPT !.told = TRUE]
  OBVIOUS
<1>5. PICK u \in Seq(LiveEvent) : u = Append(s, [type |-> "CONNECTED", data |-> NoUpdate])
  BY <1>3, ConnectedWritten
<1>6. /\ sseClients' = (sseClients \ {c}) \union {d} /\ streams' = [streams EXCEPT ![n] = u]
      /\ UNCHANGED <<phase, standing, openRows, snapshot, credited, publishing, redisUp, redisMain, boot, subscriptions, channel, contestClients, livePages,
                     liveFaults, disordered>>
  BY <1>2, <1>3, <1>4, <1>5 DEF TellConnected, board, redisVars
<1>7. /\ UpdatesIn(u) = UpdatesIn(s) /\ (\A i \in UpdatesIn(u) : u[i] = s[i])
      /\ \E i \in DOMAIN u : u[i].type = "CONNECTED"
  BY <1>3, <1>5, ConnectedWritten
<1>8. d \in [id : 1..Len(streams), contest : LiveContests, told : BOOLEAN] /\ d.id = n /\ d.contest = c.contest
  BY <1>1, <1>2, <1>4 DEF RealtimeTypes
<1>9. /\ streams' \in Seq(Seq(LiveEvent)) /\ Len(streams') = Len(streams) /\ streams'[n] = u
      /\ \A i \in StreamIds : i # n => streams'[i] = streams[i]
  BY <1>1, <1>2, <1>6, ExceptSeq, LiveTyped
<1>10. RealtimeTypes'
  BY <1>1, <1>6, <1>8, <1>9 DEF RealtimeTypes
<1>11. TablesInv'
  <2>1. \A t \in sseClients' : t \in sseClients \/ t = d
    BY <1>6
  <2>2. \A t \in sseClients : t = c \/ t \in sseClients'
    BY <1>6
  <2>3. \A t \in sseClients : t.id = n => t = c
    BY <1>1, <1>2 DEF TablesInv
  <2>4. \A t, r \in sseClients' : t.id = r.id => t = r
    BY <1>1, <1>2, <1>6, <1>8, <2>1, <2>3 DEF TablesInv
  <2>5. ASSUME NEW e \in LiveContests PROVE contestClients'[e] = {r.id : r \in {t \in sseClients' : t.contest = e}}
    <3>1. contestClients'[e] = {r.id : r \in {t \in sseClients : t.contest = e}}
      BY <1>1, <1>6 DEF TablesInv
    <3>2. \A t \in sseClients : \E r \in sseClients' : r.id = t.id /\ r.contest = t.contest
      BY <1>2, <1>6, <1>8
    <3>3. \A r \in sseClients' : \E t \in sseClients : r.id = t.id /\ r.contest = t.contest
      BY <1>2, <1>6, <1>8
    <3> QED BY <3>1, <3>2, <3>3
  <2>6. contestClients' \in [LiveContests -> SUBSET Nat]
    BY <1>1, <1>6 DEF TablesInv
  <2> QED BY <2>4, <2>5, <2>6 DEF TablesInv
<1>12. LivePagesInv'
  <2> SUFFICES ASSUME NEW p \in Pages PROVE StreamOf(p)' /\ PageOf(p)'
    BY DEF LivePagesInv
  <2>1. StreamOf(p) /\ PageOf(p)
    BY <1>1 DEF LivePagesInv
  <2>2. PageOf(p)'
    BY <1>6, <2>1 DEF PageOf
  <2>3. CASE livePages[p].stream = 0
    BY <1>6, <2>2, <2>3 DEF StreamOf
  <2>4. CASE livePages[p].stream # 0
    <3>1. \E r \in sseClients' : r.id = livePages[p].stream /\ r.contest = PageContest[p]
      BY <1>2, <1>6, <1>8, <2>1, <2>4 DEF StreamOf
    <3>2. \A i \in UpdatesIn(streams'[livePages[p].stream]) : streams'[livePages[p].stream][i].data.contest = PageContest[p]
      <4>1. \A i \in UpdatesIn(streams[livePages[p].stream]) : streams[livePages[p].stream][i].data.contest = PageContest[p]
        BY <2>1, <2>4 DEF StreamOf
      <4>2. CASE livePages[p].stream = n
        BY <1>3, <1>7, <1>9, <4>1, <4>2
      <4>3. CASE livePages[p].stream # n
        BY <1>9, <2>4, <4>1, <4>3, LiveTyped
      <4> QED BY <4>2, <4>3
    <3> QED BY <1>6, <2>1, <2>2, <3>1, <3>2 DEF StreamOf
  <2> QED BY <2>3, <2>4
<1>13. BootInv' /\ OrderInv' /\ BoardInv'
  BY <1>6, OrderKept DEF LiveInv, BootInv, BoardInv
<1>14. ASSUME NEW p \in Pages, p \notin disordered', PageContest[p] \notin disordered' PROVE Follows(p)'
  <2>1. Follows(p)
    BY <1>6, <1>14 DEF LiveInv, FollowInv
  <2>2. \A e : Updating(e)' = Updating(e) /\ SentFor(e)' = SentFor(e)
    BY <1>6 DEF Updating, SentFor
  <2>3. CASE livePages[p].stream = n
    <3>1. livePages'[p] = livePages[p] /\ streams'[livePages[p].stream] = u /\ streams[livePages[p].stream] = s
      BY <1>3, <1>6, <1>9, <2>3
    <3>2. \A now : EndsWith(s, now) => EndsWith(u, now)
      BY <1>7 DEF EndsWith
    <3>3. \A now, left : Fresh(livePages[p], u, now, left)
      BY <1>7 DEF Fresh
    <3>4. FreezeValues(p)' = FreezeValues(p) /\ credited' = credited
      BY <1>6 DEF FreezeValues, Frozen
    <3> QED BY <2>1, <2>2, <3>1, <3>2, <3>3, <3>4 DEF Follows
  <2>4. CASE livePages[p].stream # n
    <3>1. livePages[p].stream # 0 => streams'[livePages[p].stream] = streams[livePages[p].stream]
      BY <1>9, <2>4, LiveTyped
    <3>2. Untold(p) => Untold(p)'
      BY <1>2, <1>6, <2>4 DEF Untold
    <3> QED BY <1>6, <2>1, <3>1, <3>2, FollowsKept
  <2> QED BY <2>3, <2>4
<1> QED BY <1>10, <1>11, <1>12, <1>13, <1>14 DEF LiveInv, FollowInv

LEMMA AbortStreamStep ==
    ASSUME LiveInv, NEW c \in sseClients, AbortStream(c)
    PROVE  LiveInv'
<1>1. RealtimeTypes /\ TablesInv /\ LivePagesInv /\ c.contest \in LiveContests
  BY DEF LiveInv, RealtimeTypes
<1>2. /\ sseClients' = sseClients \ {c} /\ contestClients' = [contestClients EXCEPT ![c.contest] = @ \ {c.id}]
      /\ \A p \in Pages : livePages[p].stream # c.id
      /\ UNCHANGED <<phase, standing, openRows, snapshot, credited, publishing, redisUp, redisMain, boot, subscriptions, channel, streams, livePages,
                     liveFaults, disordered>>
  BY DEF AbortStream, WithoutClient, board, redisVars
<1>3. RealtimeTypes'
  BY <1>1, <1>2 DEF RealtimeTypes
<1>4. TablesInv'
  <2>1. \A t, r \in sseClients' : t.id = r.id => t = r
    BY <1>1, <1>2 DEF TablesInv
  <2>2. ASSUME NEW e \in LiveContests PROVE contestClients'[e] = {r.id : r \in {t \in sseClients' : t.contest = e}}
    <3>1. contestClients[e] = {r.id : r \in {t \in sseClients : t.contest = e}}
      BY <1>1 DEF TablesInv
    <3>2. \A t \in sseClients : t.id = c.id => t = c
      BY <1>1 DEF TablesInv
    <3>3. contestClients'[e] = IF e = c.contest THEN contestClients[e] \ {c.id} ELSE contestClients[e]
      BY <1>1, <1>2 DEF TablesInv
    <3>4. CASE e = c.contest
      <4>1. contestClients'[e] = contestClients[e] \ {c.id}
        BY <3>3, <3>4
      <4> QED BY <1>2, <3>1, <3>2, <4>1
    <3>5. CASE e # c.contest
      <4>1. contestClients'[e] = contestClients[e]
        BY <3>3, <3>5
      <4> QED BY <1>2, <3>1, <3>5, <4>1
    <3> QED BY <3>4, <3>5
  <2>3. contestClients' \in [LiveContests -> SUBSET Nat]
    BY <1>1, <1>2 DEF TablesInv
  <2> QED BY <2>1, <2>2, <2>3 DEF TablesInv
<1>5. LivePagesInv'
  BY <1>1, <1>2 DEF LivePagesInv, StreamOf, PageOf
<1>6. BootInv' /\ OrderInv' /\ BoardInv'
  BY <1>2, OrderKept DEF LiveInv, BootInv, BoardInv
<1>7. ASSUME NEW p \in Pages, p \notin disordered', PageContest[p] \notin disordered' PROVE Follows(p)'
  <2>1. Follows(p) /\ (Untold(p) => Untold(p)')
    BY <1>2, <1>7 DEF LiveInv, FollowInv, Untold
  <2> QED BY <1>2, <2>1, FollowsKept
<1> QED BY <1>3, <1>4, <1>5, <1>6, <1>7 DEF LiveInv, FollowInv


LEMMA AcceptStreamStep ==
    ASSUME LiveInv, NEW p \in Pages, AcceptStream(p)
    PROVE  LiveInv'
<1>1. /\ livePages[p] \in Page /\ StreamOf(p) /\ PageOf(p) /\ livePages \in [Pages -> Page] /\ streams \in Seq(Seq(LiveEvent))
      /\ PageContest[p] \in LiveContests /\ RealtimeTypes /\ TablesInv /\ LivePagesInv
  BY PageFacts, LiveTyped DEF LiveInv
<1>2. PICK n \in Nat : n = Len(streams) + 1
  BY LiveTyped
<1> DEFINE old == livePages[p]
           c == PageContest[p]
           new == [id |-> n, contest |-> c, told |-> FALSE]
           g == [status |-> "connected", stream |-> n, attempts |-> 0, shown |-> old.shown, fetch |-> old.fetch]
<1>3. /\ old.status = "connecting" /\ old.stream = 0 /\ Len(streams) < MaxStreams
      /\ sseClients' = sseClients \union {new}
      /\ contestClients' = [contestClients EXCEPT ![c] = @ \union {n}]
      /\ streams' = Append(streams, <<>>)
      /\ livePages' = [livePages EXCEPT ![p].stream = n, ![p].attempts = 0, ![p].status = "connected"]
      /\ UNCHANGED <<phase, standing, openRows, snapshot, credited, publishing, redisUp, redisMain, boot, subscriptions, channel, liveFaults, disordered>>
  BY <1>2 DEF AcceptStream, board, redisVars
<1>4. /\ streams' \in Seq(Seq(LiveEvent)) /\ Len(streams') = n /\ streams'[n] = <<>> /\ StreamIds = 1..Len(streams)
      /\ n \notin StreamIds /\ n # 0 /\ n <= MaxStreams /\ \A i \in StreamIds : streams'[i] = streams[i] /\ i \in 1..n
  <2>1. <<>> \in Seq(LiveEvent) /\ Len(streams) \in Nat /\ StreamIds = 1..Len(streams) /\ MaxStreams \in Nat
    BY LiveTyped
  <2>2. /\ Append(streams, <<>>) \in Seq(Seq(LiveEvent)) /\ Len(Append(streams, <<>>)) = Len(streams) + 1
        /\ \A i \in 1..Len(streams) : Append(streams, <<>>)[i] = streams[i]
        /\ Append(streams, <<>>)[Len(streams) + 1] = <<>>
    BY <1>1, <2>1, AppendProperties
  <2>3. n \notin StreamIds /\ n # 0 /\ n <= MaxStreams /\ \A i \in StreamIds : i \in 1..n
    BY <1>2, <1>3, <2>1
  <2> QED BY <1>2, <1>3, <2>1, <2>2, <2>3
<1>5. g \in Page
  <2>1. n \in 0..MaxStreams /\ 0 \in 0..ReconnectLimit
    BY <1>4, LiveTyped
  <2> QED BY <1>1, <2>1, PageFields, PageMade
<1>6. livePages' = [livePages EXCEPT ![p] = g]
  <2>1. ASSUME NEW u, NEW v, NEW w, NEW q, q = [old EXCEPT !.stream = u, !.attempts = v, !.status = w]
        PROVE  q = [status |-> w, stream |-> u, attempts |-> v, shown |-> old.shown, fetch |-> old.fetch]
    BY <1>1, <2>1 DEF Page
  <2> QED BY <1>1, <1>3, <2>1
<1>7. /\ livePages'[p] = g /\ g.stream = n /\ g.status = "connected" /\ g.shown = old.shown /\ g.fetch = old.fetch
      /\ \A q \in Pages : q # p => livePages'[q] = livePages[q]
  BY <1>1, <1>5, <1>6
<1>8. new \in [id : 1..n, contest : LiveContests, told : BOOLEAN] /\ new.id = n /\ new.contest = c /\ ~new.told
  BY <1>1, <1>2, <1>4
<1> HIDE DEF g, new
<1>9. RealtimeTypes'
  <2>1. sseClients' \subseteq [id : 1..n, contest : LiveContests, told : BOOLEAN]
    BY <1>1, <1>3, <1>4, <1>8 DEF RealtimeTypes
  <2>2. livePages' \in [Pages -> Page]
    BY <1>1, <1>5, <1>6
  <2> QED BY <1>1, <1>3, <1>4, <2>1, <2>2 DEF RealtimeTypes
<1>10. \A t \in sseClients : t.id \in StreamIds /\ t.id # n
  BY <1>1, <1>4 DEF RealtimeTypes
<1>11. TablesInv'
  <2>1. \A t, r \in sseClients' : t.id = r.id => t = r
    BY <1>1, <1>3, <1>8, <1>10 DEF TablesInv
  <2>2. contestClients' \in [LiveContests -> SUBSET Nat]
    BY <1>1, <1>3 DEF TablesInv
  <2>3. ASSUME NEW e \in LiveContests PROVE contestClients'[e] = {r.id : r \in {t \in sseClients' : t.contest = e}}
    <3>1. contestClients[e] = {r.id : r \in {t \in sseClients : t.contest = e}}
      BY <1>1 DEF TablesInv
    <3>2. contestClients'[e] = IF e = c THEN contestClients[e] \union {n} ELSE contestClients[e]
      BY <1>1, <1>3 DEF TablesInv
    <3>3. CASE e = c
      <4>1. contestClients'[e] = contestClients[e] \union {n}
        BY <3>2, <3>3
      <4> QED BY <1>3, <1>8, <3>1, <3>3, <4>1
    <3>4. CASE e # c
      <4>1. contestClients'[e] = contestClients[e]
        BY <3>2, <3>4
      <4> QED BY <1>3, <1>8, <3>1, <3>4, <4>1
    <3> QED BY <3>3, <3>4
  <2> QED BY <2>1, <2>2, <2>3 DEF TablesInv
<1>12. UpdatesIn(streams'[n]) = {}
  <2>1. DOMAIN streams'[n] = {}
    BY <1>4
  <2> QED BY <2>1 DEF UpdatesIn
<1>13. ASSUME NEW q \in Pages, q # p
       PROVE  livePages[q].stream # 0 => livePages[q].stream \in StreamIds /\ livePages[q].stream # n
                                         /\ streams'[livePages[q].stream] = streams[livePages[q].stream]
  BY <1>4, LiveTyped
<1>14. ASSUME NEW q \in Pages PROVE StreamOf(q)' /\ PageOf(q)'
  <2>1. StreamOf(q) /\ PageOf(q)
    BY <1>1 DEF LivePagesInv
  <2>2. CASE q = p
    <3>1. new \in sseClients' /\ new.id = n /\ new.contest = c
      BY <1>3, <1>8
    <3>2. \A o \in Pages : o # p => livePages'[o].stream # n
      BY <1>4, <1>7, <1>13
    <3>3. StreamOf(p)'
      BY <1>7, <1>12, <3>1, <3>2 DEF StreamOf
    <3>4. PageOf(p)'
      BY <1>1, <1>3, <1>4, <1>7 DEF PageOf
    <3> QED BY <2>2, <3>3, <3>4
  <2>3. CASE q # p
    <3>1. livePages'[q] = livePages[q]
      BY <1>7, <2>3
    <3>2. PageOf(q)'
      BY <1>3, <2>1, <3>1 DEF PageOf
    <3>3. StreamOf(q)'
      <4> SUFFICES ASSUME livePages[q].stream # 0 PROVE StreamOf(q)'
        BY <3>1 DEF StreamOf
      <4>1. \E t \in sseClients' : t.id = livePages[q].stream /\ t.contest = PageContest[q]
        BY <1>3, <2>1 DEF StreamOf
      <4>2. \A o \in Pages : o # q => livePages'[o].stream # livePages[q].stream
        BY <1>7, <1>13, <2>1, <2>3 DEF StreamOf
      <4> QED BY <1>13, <2>1, <2>3, <3>1, <4>1, <4>2 DEF StreamOf
    <3> QED BY <3>2, <3>3
  <2> QED BY <2>2, <2>3
<1>15. BootInv' /\ OrderInv' /\ BoardInv'
  BY <1>3, OrderKept DEF LiveInv, BootInv, BoardInv
<1>16. ASSUME NEW q \in Pages, q \notin disordered', PageContest[q] \notin disordered' PROVE Follows(q)'
  <2>1. Follows(q)
    BY <1>3, <1>16 DEF LiveInv, FollowInv
  <2>2. CASE q = p
    <3>1. Untold(p)'
      BY <1>3, <1>7, <1>8 DEF Untold
    <3>2. \A now : EndsWith(streams'[n], now)
      BY <1>12 DEF EndsWith
    <3> QED BY <1>7, <2>2, <3>1, <3>2 DEF Follows
  <2>3. CASE q # p
    <3>1. livePages'[q] = livePages[q] /\ (Untold(q) => Untold(q)')
      BY <1>3, <1>7, <2>3 DEF Untold
    <3> QED BY <1>3, <1>13, <2>1, <2>3, <3>1, FollowsKept
  <2> QED BY <2>2, <2>3
<1> QED BY <1>9, <1>11, <1>14, <1>15, <1>16 DEF LiveInv, LivePagesInv, FollowInv


LEMMA SeqOfFunction ==
    ASSUME NEW S, NEW n \in Nat, NEW f \in [1..n -> S]
    PROVE  f \in Seq(S) /\ Len(f) = n
<1>1. f \in Seq(S)
  BY SeqDef
<1>2. Len(f) \in Nat /\ DOMAIN f = 1..Len(f) /\ DOMAIN f = 1..n
  BY <1>1, LenProperties
<1> QED BY <1>1, <1>2

LEMMA BroadcastStep ==
    ASSUME LiveInv, Broadcast
    PROVE  LiveInv'
<1>1. /\ RealtimeTypes /\ TablesInv /\ LivePagesInv /\ channel \in Seq(Message) /\ channel # <<>> /\ streams \in Seq(Seq(LiveEvent))
      /\ Len(streams) \in Nat /\ DOMAIN streams = 1..Len(streams) /\ StreamIds = 1..Len(streams)
      /\ \A i \in StreamIds : streams[i] \in Seq(LiveEvent)
  BY LiveTyped DEF LiveInv, RealtimeTypes, Broadcast
<1>2. PICK m \in Message : m = Head(channel)
  BY <1>1, TailFacts
<1>3. PICK c \in LiveContests : c = m.contest
  BY DEF Message
<1> DEFINE event == [type |-> "LEADERBOARD_UPDATE", data |-> m]
           Told(i) == i \in contestClients[c] /\ i \in ClientIds
<1>4. /\ streams' = [i \in StreamIds |-> IF Told(i) THEN Append(streams[i], event) ELSE streams[i]]
      /\ channel' = Tail(channel)
      /\ UNCHANGED <<phase, standing, openRows, snapshot, credited, publishing, redisUp, redisMain, boot, subscriptions, sseClients, contestClients,
                     livePages, liveFaults, disordered>>
  BY <1>2, <1>3 DEF Broadcast, board
<1>5. /\ channel' \in Seq(Message) /\ 1 \in DOMAIN channel /\ channel[1] = m
      /\ \A i \in DOMAIN channel' : i \in Nat \ {0} /\ i + 1 \in DOMAIN channel /\ channel'[i] = channel[i + 1]
      /\ \A j \in DOMAIN channel : j \in Nat \ {0} /\ (j # 1 => j - 1 \in DOMAIN channel' /\ channel'[j - 1] = channel[j])
  BY <1>1, <1>2, <1>4, TailFacts
<1>6. ASSUME NEW i \in StreamIds, Told(i)
      PROVE  /\ streams'[i] \in Seq(LiveEvent) /\ UpdatesIn(streams'[i]) # {}
             /\ \A n : n <= m.value => EndsWith(streams'[i], n)
             /\ \A j \in UpdatesIn(streams'[i]) :
                   (j \in UpdatesIn(streams[i]) /\ streams'[i][j] = streams[i][j]) \/ streams'[i][j].data = m
  <2>1. PICK s \in Seq(LiveEvent) : s = streams[i]
    BY <1>1, <1>6
  <2>2. streams'[i] = Append(s, event)
    BY <1>4, <1>6, <2>1
  <2>3. PICK u : u = Append(s, event)
    OBVIOUS
  <2>4. /\ u \in Seq(LiveEvent) /\ UpdatesIn(u) # {} /\ \A n : n <= m.value => EndsWith(u, n)
        /\ \A j \in UpdatesIn(u) : (j \in UpdatesIn(s) /\ u[j] = s[j]) \/ u[j].data = m
    BY <2>1, <2>3, UpdateWritten
  <2> HIDE DEF Told
  <2> QED BY <2>1, <2>2, <2>3, <2>4
<1>7. \A i \in StreamIds : ~Told(i) => streams'[i] = streams[i]
  BY <1>4
<1>8. streams' \in Seq(Seq(LiveEvent)) /\ Len(streams') = Len(streams)
  <2>1. \A i \in 1..Len(streams) : streams'[i] \in Seq(LiveEvent)
    BY <1>1, <1>6, <1>7
  <2>2. streams' = [i \in 1..Len(streams) |-> streams'[i]]
    BY <1>1, <1>4
  <2>3. streams' \in [1..Len(streams) -> Seq(LiveEvent)]
    BY <2>1, <2>2
  <2> QED BY <1>1, <2>3, SeqOfFunction
<1> HIDE DEF event
<1>9. RealtimeTypes'
  BY <1>1, <1>4, <1>5, <1>8 DEF RealtimeTypes
<1>10. TablesInv' /\ BootInv' /\ BoardInv'
  BY <1>4 DEF LiveInv, TablesInv, BootInv, BoardInv
<1>11. ASSUME NEW p \in Pages, livePages[p].stream # 0
       PROVE  livePages[p].stream \in StreamIds /\ (Told(livePages[p].stream) <=> PageContest[p] = c)
  <2>1. PICK t \in sseClients : t.id = livePages[p].stream /\ t.contest = PageContest[p]
    BY <1>1, <1>11 DEF LivePagesInv, StreamOf
  <2>2. livePages[p].stream \in ClientIds /\ livePages[p].stream \in StreamIds
    BY <1>11, <2>1, LiveTyped DEF ClientIds
  <2>3. contestClients[c] = {r.id : r \in {s \in sseClients : s.contest = c}}
    BY <1>1 DEF TablesInv
  <2>4. ASSUME livePages[p].stream \in contestClients[c] PROVE PageContest[p] = c
    <3>1. PICK r \in sseClients : r.id = livePages[p].stream /\ r.contest = c
      BY <2>3, <2>4
    <3>2. r = t
      BY <1>1, <2>1, <3>1 DEF TablesInv
    <3> QED BY <2>1, <3>1, <3>2
  <2>5. ASSUME PageContest[p] = c PROVE livePages[p].stream \in contestClients[c]
    BY <2>1, <2>3, <2>5
  <2> QED BY <2>2, <2>4, <2>5
<1> HIDE DEF Told
<1>12. ASSUME NEW p \in Pages PROVE StreamOf(p)' /\ PageOf(p)'
  <2>1. StreamOf(p) /\ PageOf(p)
    BY <1>1 DEF LivePagesInv
  <2>2. PageOf(p)'
    BY <1>4, <2>1 DEF PageOf
  <2>3. CASE livePages[p].stream = 0
    BY <1>4, <2>2, <2>3 DEF StreamOf
  <2>4. CASE livePages[p].stream # 0
    <3>1. PICK n \in StreamIds : n = livePages[p].stream /\ (Told(n) <=> PageContest[p] = c)
      BY <1>11, <2>4
    <3>2. \A i \in UpdatesIn(streams[n]) : streams[n][i].data.contest = PageContest[p]
      BY <2>1, <2>4, <3>1 DEF StreamOf
    <3>3. \A i \in UpdatesIn(streams'[n]) : streams'[n][i].data.contest = PageContest[p]
      <4>1. CASE Told(n)
        BY <1>3, <1>6, <3>1, <3>2, <4>1
      <4>2. CASE ~Told(n)
        BY <1>7, <3>2, <4>2
      <4> QED BY <4>1, <4>2
    <3>4. StreamOf(p)'
      BY <1>4, <2>1, <2>4, <3>1, <3>3 DEF StreamOf
    <3> QED BY <2>2, <3>4
  <2> QED BY <2>3, <2>4
<1>13. \A d : Updating(d)' = Updating(d)
  BY <1>4 DEF Updating
<1>14. \A d : \A i \in SentFor(d)' : i \in Nat \ {0} /\ i + 1 \in SentFor(d) /\ channel'[i] = channel[i + 1]
  BY <1>5 DEF SentFor
<1>15. \A d : \A j \in SentFor(d) : j \in Nat \ {0} /\ (j # 1 => j - 1 \in SentFor(d)')
  BY <1>5 DEF SentFor
<1>16. ASSUME NEW d \in LiveContests \ disordered' PROVE OrderOf(d)'
  <2>1. OrderOf(d)
    BY <1>4 DEF LiveInv, OrderInv
  <2>2. ASSUME Updating(d) = {}, NEW i \in SentFor(d)', \A j \in SentFor(d)' : j <= i PROVE credited[d] <= channel'[i].value
    <3>1. ASSUME NEW j \in SentFor(d) PROVE j <= i + 1
      <4>1. j \in Nat \ {0} /\ i \in Nat \ {0} /\ (j # 1 => j - 1 \in SentFor(d)')
        BY <1>14, <1>15, <2>2
      <4>2. CASE j = 1
        BY <4>1, <4>2
      <4>3. CASE j # 1
        BY <2>2, <4>1, <4>3
      <4> QED BY <4>2, <4>3
    <3>2. i + 1 \in SentFor(d) /\ channel'[i] = channel[i + 1]
      BY <1>14, <2>2
    <3> QED BY <2>1, <2>2, <3>1, <3>2 DEF OrderOf
  <2> QED BY <1>4, <1>13, <2>1, <2>2 DEF OrderOf
<1>17. ASSUME NEW p \in Pages, p \notin disordered', PageContest[p] \notin disordered' PROVE Follows(p)'
  <2>1. Follows(p) /\ PageContest[p] \in LiveContests /\ OrderOf(PageContest[p]) /\ livePages' = livePages
    BY <1>4, <1>17, LiveTyped DEF LiveInv, FollowInv, OrderInv
  <2> SUFFICES ASSUME livePages[p].stream # 0, Updating(PageContest[p]) = {}, SentFor(PageContest[p])' = {} PROVE Follows(p)'
    BY <1>13, <2>1 DEF Follows
  <2>2. PICK n \in StreamIds : n = livePages[p].stream /\ (Told(n) <=> PageContest[p] = c)
    BY <1>11
  <2>3. CASE PageContest[p] = c
    <3>1. 1 \in SentFor(c) /\ \A j \in SentFor(c) : j = 1
      BY <1>3, <1>5, <1>15, <2>3 DEF SentFor
    <3>2. credited[c] <= m.value
      BY <1>5, <2>1, <2>3, <3>1 DEF OrderOf
    <3>3. EndsWith(streams'[n], credited[c]) /\ UpdatesIn(streams'[n]) # {}
      BY <1>6, <2>2, <2>3, <3>2
    <3> QED BY <1>4, <1>13, <2>1, <2>2, <2>3, <3>3 DEF Follows
  <2>4. CASE PageContest[p] # c
    <3>1. SentFor(PageContest[p]) = {}
      <4>1. ASSUME NEW j \in SentFor(PageContest[p]) PROVE FALSE
        <5>1. j # 1
          BY <1>3, <1>5, <2>4 DEF SentFor
        <5> QED BY <1>15, <4>1, <5>1
      <4> QED BY <4>1
    <3>2. streams'[n] = streams[n] /\ (Untold(p)' <=> Untold(p)) /\ FreezeValues(p)' = FreezeValues(p)
      BY <1>4, <1>7, <2>2, <2>4 DEF Untold, FreezeValues, Frozen
    <3> QED BY <1>4, <1>13, <2>1, <2>2, <3>1, <3>2 DEF Follows
  <2> QED BY <2>3, <2>4
<1> QED BY <1>9, <1>10, <1>12, <1>16, <1>17 DEF LiveInv, LivePagesInv, OrderInv, FollowInv

-----------------------------------------------------------------------------
(* Realtime: faults.                                                       *)

LEMMA StopRedisStep ==
    ASSUME LiveInv, StopRedis
    PROVE  LiveInv'
<1>1. RealtimeTypes /\ channel \in Seq(Message) /\ MaxLiveFaults \in Nat
  BY LiveTyped DEF RealtimeTypes
<1>2. /\ redisUp' = FALSE /\ redisMain' = (IF redisMain = "ready" THEN "reconnecting" ELSE redisMain)
      /\ channel' = <<>> /\ disordered' = disordered \union {channel[i].contest : i \in DOMAIN channel}
      /\ liveFaults' = liveFaults + 1 /\ liveFaults < MaxLiveFaults
      /\ UNCHANGED <<phase, standing, openRows, snapshot, credited, publishing, boot, subscriptions, sseClients, contestClients, streams, livePages>>
  BY DEF StopRedis, Fault, board, tables
<1>3. \A i \in DOMAIN channel : channel[i].contest \in LiveContests
  <2>1. Len(channel) \in Nat /\ DOMAIN channel = 1..Len(channel)
    BY <1>1, LenProperties
  <2>2. \A i \in DOMAIN channel : channel[i] \in Message
    BY <1>1, <2>1, ElementOfSeq
  <2> QED BY <2>2 DEF Message
<1>4. RealtimeTypes'
  <2>1. disordered' \subseteq LiveContests \union Pages
    BY <1>1, <1>2, <1>3 DEF RealtimeTypes
  <2>2. channel' \in Seq(Message) /\ liveFaults' \in 0..MaxLiveFaults
    BY <1>1, <1>2 DEF RealtimeTypes
  <2> QED BY <1>1, <1>2, <2>1, <2>2 DEF RealtimeTypes
<1>5. TablesInv' /\ LivePagesInv' /\ BoardInv'
  BY <1>2, PagesKept DEF LiveInv, BoardInv
<1>6. /\ \A d : SentFor(d)' = {} /\ Updating(d)' = Updating(d)
      /\ \A d : d \notin disordered' => SentFor(d) = {}
  <2>1. DOMAIN channel' = {}
    BY <1>2
  <2> QED BY <1>2, <2>1 DEF SentFor, Updating
<1>7. ASSUME NEW d \in LiveContests \ disordered' PROVE OrderOf(d)'
  BY <1>2, <1>6 DEF LiveInv, OrderInv, OrderOf
<1>8. ASSUME NEW p \in Pages, p \notin disordered', PageContest[p] \notin disordered' PROVE Follows(p)'
  <2>1. /\ Follows(p) /\ SentFor(PageContest[p]) = {} /\ (Untold(p)' <=> Untold(p))
        /\ FreezeValues(p)' = FreezeValues(p)
    BY <1>2, <1>6, <1>8 DEF LiveInv, FollowInv, Untold, FreezeValues, Frozen
  <2> QED BY <1>2, <1>6, <2>1 DEF Follows
<1>9. BootInv'
  BY <1>2 DEF LiveInv, BootInv
<1> QED BY <1>4, <1>5, <1>7, <1>8, <1>9 DEF LiveInv, OrderInv, FollowInv

LEMMA RestartServerStep ==
    ASSUME LiveInv, RestartServer
    PROVE  LiveInv'
<1>1. RealtimeTypes /\ channel \in Seq(Message) /\ MaxLiveFaults \in Nat /\ Len(streams) \in Nat
      /\ StreamIds = 1..Len(streams) /\ livePages \in [Pages -> Page] /\ BootAttempts \in Nat \ {0}
      /\ streams \in Seq(Seq(LiveEvent))
  BY LiveTyped DEF RealtimeTypes
<1>2. /\ sseClients' = {} /\ contestClients' = [c \in LiveContests |-> {}] /\ streams' = [i \in StreamIds |-> <<>>]
      /\ channel' = <<>> /\ subscriptions' = 0
      /\ disordered' = disordered \union {channel[i].contest : i \in DOMAIN channel}
      /\ boot' = [pc |-> "connect", attempt |-> 1] /\ redisMain' = "new"
      /\ livePages' = [p \in Pages |-> IF livePages[p].stream # 0 THEN StreamError(p) ELSE livePages[p]]
      /\ liveFaults' = liveFaults + 1 /\ liveFaults < MaxLiveFaults
      /\ UNCHANGED <<phase, standing, openRows, snapshot, credited, publishing, redisUp>>
  BY DEF RestartServer, Fault, board
<1>3. \A i \in DOMAIN channel : channel[i].contest \in LiveContests
  <2>1. Len(channel) \in Nat /\ DOMAIN channel = 1..Len(channel)
    BY <1>1, LenProperties
  <2>2. \A i \in DOMAIN channel : channel[i] \in Message
    BY <1>1, <2>1, ElementOfSeq
  <2> QED BY <2>2 DEF Message
<1>4. ASSUME NEW p \in Pages
      PROVE  livePages'[p] \in Page /\ livePages'[p].stream = 0 /\ PageOf(p)'
  <2>1. PageOf(p) /\ livePages[p] \in Page
    BY <1>1 DEF LiveInv, LivePagesInv
  <2>2. CASE livePages[p].stream # 0
    <3>1. livePages'[p] = StreamError(p)
      BY <1>2, <2>2
    <3>2. livePages'[p] \in Page /\ ErrorOf(livePages[p], livePages'[p])
      BY <3>1, StreamErrorFacts
    <3>3. PageOf(p)'
      BY <1>2, <2>1, <3>2 DEF PageOf, ErrorOf
    <3> QED BY <3>2, <3>3 DEF ErrorOf
  <2>3. CASE livePages[p].stream = 0
    <3>1. livePages'[p] = livePages[p]
      BY <1>2, <2>3
    <3> QED BY <1>2, <2>1, <2>3, <3>1 DEF PageOf
  <2> QED BY <2>2, <2>3
<1>5. streams' \in Seq(Seq(LiveEvent)) /\ Len(streams') = Len(streams)
  <2>1. <<>> \in Seq(LiveEvent)
    BY EmptySeq
  <2>2. streams' \in [1..Len(streams) -> Seq(LiveEvent)]
    BY <1>1, <1>2, <2>1
  <2> QED BY <1>1, <2>2, SeqOfFunction
<1>6. livePages' \in [Pages -> Page]
  BY <1>2, <1>4
<1>7. boot' \in BootRow /\ BootInv'
  <2>1. 1 \in 1..BootAttempts + 1 /\ 1 <= BootAttempts
    BY <1>1
  <2>2. boot' \in BootRow /\ boot'.pc = "connect" /\ boot'.attempt = 1
    BY <1>2, <2>1 DEF BootRow
  <2> QED BY <1>2, <2>1, <2>2 DEF BootInv
<1>8. RealtimeTypes'
  <2>1. disordered' \subseteq LiveContests \union Pages
    BY <1>1, <1>2, <1>3 DEF RealtimeTypes
  <2>2. channel' \in Seq(Message) /\ liveFaults' \in 0..MaxLiveFaults
    BY <1>1, <1>2 DEF RealtimeTypes
  <2> QED BY <1>1, <1>2, <1>5, <1>6, <1>7, <2>1, <2>2 DEF RealtimeTypes
<1>9. TablesInv' /\ LivePagesInv' /\ BoardInv'
  <2>1. TablesInv' /\ BoardInv'
    BY <1>2 DEF LiveInv, TablesInv, BoardInv
  <2>2. LivePagesInv'
    BY <1>4 DEF LivePagesInv, StreamOf
  <2> QED BY <2>1, <2>2
<1>10. /\ \A d : SentFor(d)' = {} /\ Updating(d)' = Updating(d)
       /\ \A d : d \notin disordered' => SentFor(d) = {}
  <2>1. DOMAIN channel' = {}
    BY <1>2
  <2> QED BY <1>2, <2>1 DEF SentFor, Updating
<1>11. ASSUME NEW d \in LiveContests \ disordered' PROVE OrderOf(d)'
  BY <1>2, <1>10 DEF LiveInv, OrderInv, OrderOf
<1>12. ASSUME NEW p \in Pages PROVE Follows(p)'
  BY <1>4 DEF Follows
<1> QED BY <1>7, <1>8, <1>9, <1>11, <1>12 DEF LiveInv, OrderInv, FollowInv


-----------------------------------------------------------------------------
(* Realtime: theorems.                                                     *)

LEMMA LiveStart == RealtimeInit => LiveInv
<1> SUFFICES ASSUME RealtimeInit PROVE LiveInv
  OBVIOUS
<1>1. /\ MaxChanges \in Nat /\ MaxStreams \in Nat /\ MaxLiveFaults \in Nat
      /\ BootAttempts \in Nat \ {0} /\ ReconnectLimit \in Nat /\ PageContest \in [Pages -> LiveContests]
  BY RealtimeAssumption DEF RealtimeAssumption
<1>2. /\ phase = [c \in LiveContests |-> "before"] /\ standing = [c \in LiveContests |-> 0]
      /\ openRows = [c \in LiveContests |-> 0] /\ snapshot = [c \in LiveContests |-> 0]
      /\ credited = [c \in LiveContests |-> 0] /\ publishing = [b \in Publishers |-> NoUpdate]
      /\ redisUp \in BOOLEAN /\ redisMain = "new" /\ boot = [pc |-> "connect", attempt |-> 1]
      /\ subscriptions = 0 /\ channel = <<>> /\ streams = <<>>
      /\ sseClients = {} /\ contestClients = [c \in LiveContests |-> {}] /\ liveFaults = 0 /\ disordered = {}
  BY DEF RealtimeInit
<1>3. ASSUME NEW p \in Pages
      PROVE  /\ livePages[p] \in Page /\ livePages[p].stream = 0 /\ livePages[p].status = "connecting"
             /\ livePages[p].shown.contest = PageContest[p] /\ livePages[p].fetch.pc = "none"
  <2> DEFINE shown == [contest |-> PageContest[p], value |-> 0]
             g == [status |-> "connecting", stream |-> 0, attempts |-> 0, shown |-> shown, fetch |-> NoFetch]
  <2>1. livePages[p] = g
    BY DEF RealtimeInit
  <2>2. shown \in Message /\ shown.contest = PageContest[p] /\ NoFetch \in FetchStates /\ NoFetch.pc = "none"
        /\ 0 \in 0..MaxStreams /\ 0 \in 0..ReconnectLimit
    BY <1>1 DEF Message, FetchStates, NoFetch
  <2>3. g \in Page
    BY <2>2, PageMade
  <2> QED BY <2>1, <2>2, <2>3
<1>4. livePages \in [Pages -> Page]
  BY <1>3 DEF RealtimeInit
<1>5. boot \in BootRow /\ BootInv
  <2>1. 1 \in 1..BootAttempts + 1 /\ 1 <= BootAttempts
    BY <1>1
  <2>2. boot \in BootRow /\ boot.pc = "connect" /\ boot.attempt = 1
    BY <1>2, <2>1 DEF BootRow
  <2> QED BY <1>2, <2>1, <2>2 DEF BootInv
<1>6. RealtimeTypes
  <2>1. /\ phase \in [LiveContests -> {"before", "running", "frozen", "over"}]
        /\ standing \in [LiveContests -> 0..MaxChanges] /\ openRows \in [LiveContests -> 0..MaxChanges]
        /\ snapshot \in [LiveContests -> 0..MaxChanges] /\ credited \in [LiveContests -> 0..MaxChanges]
        /\ publishing \in [Publishers -> {NoUpdate} \union RunningUpdate]
    BY <1>1, <1>2
  <2>2. channel \in Seq(Message) /\ streams \in Seq(Seq(LiveEvent)) /\ Len(streams) <= MaxStreams
    BY <1>1, <1>2, EmptySeq
  <2>3. liveFaults \in 0..MaxLiveFaults /\ sseClients \subseteq [id : 1..Len(streams), contest : LiveContests, told : BOOLEAN]
    BY <1>1, <1>2
  <2> QED BY <1>2, <1>4, <1>5, <2>1, <2>2, <2>3 DEF RealtimeTypes
<1>7. TablesInv /\ LivePagesInv /\ BoardInv
  <2>1. TablesInv /\ BoardInv
    BY <1>2 DEF TablesInv, BoardInv
  <2>2. LivePagesInv
    BY <1>3 DEF LivePagesInv, StreamOf, PageOf
  <2> QED BY <2>1, <2>2
<1>8. OrderInv
  <2>1. \A c : Updating(c) = {} /\ SentFor(c) = {}
    BY <1>2 DEF Updating, SentFor, NoUpdate
  <2> QED BY <2>1 DEF OrderInv, OrderOf
<1>9. FollowInv
  BY <1>3 DEF FollowInv, Follows
<1> QED BY <1>5, <1>6, <1>7, <1>8, <1>9 DEF LiveInv

LEMMA LiveStutters ==
    ASSUME LiveInv, UNCHANGED realtimeVars
    PROVE  LiveInv'
<1>1. RealtimeTypes' /\ BootInv'
  BY DEF LiveInv, RealtimeTypes, BootInv, realtimeVars, board, redisVars, tables
<1> QED BY <1>1, ServerKept DEF realtimeVars, board, redisVars, tables

LEMMA LiveStep == LiveInv /\ [RealtimeNext]_realtimeVars => LiveInv'
<1> SUFFICES ASSUME LiveInv, [RealtimeNext]_realtimeVars PROVE LiveInv'
  OBVIOUS
<1>1. CASE UpdateStandings
  BY <1>1, BeginUpdateStep, ReadStandingsStep, PublishStandingsStep, ChangeStandingsStep DEF UpdateStandings
<1>2. CASE BootServer
  BY <1>2, ConnectRedisStep, SubscribeStep, ReconnectOrStartStep DEF BootServer
<1>3. CASE ServeStreams
  BY <1>3, BroadcastStep, AcceptStreamStep, TellConnectedStep, AbortStreamStep DEF ServeStreams
<1>4. CASE ShowStandings
  BY <1>4, ReceiveEventStep, FetchStep, ServeFetchStep, AnswerFetchStep, ReconnectPageStep DEF ShowStandings
<1>5. CASE DisturbRealtime
  BY <1>5, StopRedisStep, ReconnectOrStartStep, RestartServerStep, BreakStreamStep DEF DisturbRealtime
<1>6. CASE RunContests
  BY <1>6, RunContestsStep
<1>7. CASE UNCHANGED realtimeVars
  BY <1>7, LiveStutters
<1> QED BY <1>1, <1>2, <1>3, <1>4, <1>5, <1>6, <1>7 DEF RealtimeNext

\* Every variable of the live updates has its type; the SSE server's two tables list the same
\* clients, it subscribes at most once for each attempt it has, and no page's stream holds
\* the standings of another contest.
THEOREM RealtimeTypeCorrect == RealtimeSpec => []RealtimeTypeOK
<1>1. LiveInv => RealtimeTypeOK
  <2> SUFFICES ASSUME LiveInv PROVE RealtimeTypeOK
    OBVIOUS
  <2>1. /\ RealtimeTypes /\ TablesInv /\ BootInv /\ subscriptions \in Nat /\ BootAttempts \in Nat \ {0} /\ boot \in BootRow
    BY LiveTyped DEF LiveInv, RealtimeTypes
  <2>2. subscriptions \in 0..BootAttempts
    <3>1. PICK n \in 1..BootAttempts + 1 : n = boot.attempt
      BY <2>1 DEF BootRow
    <3>2. boot.pc \in {"connect", "leaderboard", "announcements", "done", "exhausted"}
      BY <2>1 DEF BootRow
    <3>3. subscriptions <= BootAttempts
      BY <2>1, <3>1, <3>2 DEF BootInv
    <3> QED BY <2>1, <3>3
  <2>3. ASSUME NEW p \in Pages, livePages[p].stream # 0, NEW i \in DOMAIN streams[livePages[p].stream],
               streams[livePages[p].stream][i].type = "LEADERBOARD_UPDATE"
        PROVE  streams[livePages[p].stream][i].data.contest = PageContest[p]
    <3>1. StreamOf(p)
      BY DEF LiveInv, LivePagesInv
    <3> QED BY <2>3, <3>1 DEF StreamOf, UpdatesIn
  <2> QED BY <2>1, <2>2, <2>3 DEF RealtimeTypes, RealtimeTypeOK, TablesInv, RunningUpdate, BootRow
<1> QED BY <1>1, LiveStart, LiveStep, PTL DEF RealtimeSpec

\* Once nothing is on its way any more, a connected page shows its contest's standings with
\* every result credited so far - from the freeze on a contestant's page the snapshot or
\* the empty list, if it was they that its last request brought - however often its
\* connection broke and the server or Redis went, unless the order of two updates, a message
\* nobody received, or a late answer is to blame.
THEOREM LatestShownAlways == RealtimeSpec => []LatestShown
<1>1. LiveInv => LatestShown
  <2> SUFFICES ASSUME LiveInv, NEW p \in Pages, Settled(p), {p, PageContest[p]} \intersect disordered = {}
               PROVE  /\ livePages[p].shown.contest = PageContest[p]
                      /\ \/ credited[PageContest[p]] <= livePages[p].shown.value
                         \/ FromFreeze(p, livePages[p].shown.value)
    BY DEF LatestShown
  <2> DEFINE n == livePages[p].stream
             c == PageContest[p]
  <2>1. Follows(p) /\ PageOf(p) /\ StreamOf(p) /\ TablesInv
    BY DEF LiveInv, FollowInv, LivePagesInv
  <2>2. n # 0 /\ streams[n] = <<>> /\ channel = <<>> /\ livePages[p].fetch.pc = "none" /\ Updating(c) = {}
    BY <2>1 DEF Settled, PageOf
  <2>3. SentFor(c) = {} /\ UpdatesIn(streams[n]) = {} /\ ~\E i \in DOMAIN streams[n] : streams[n][i].type = "CONNECTED"
    <3>1. DOMAIN channel = {} /\ DOMAIN streams[n] = {}
      BY <2>2
    <3> QED BY <3>1 DEF SentFor, UpdatesIn
  <2>4. ~Untold(p)
    BY <2>1 DEF Untold, Settled, TablesInv
  <2>5. Fresh(livePages[p], streams[n], credited[c], FreezeValues(p))
    BY <2>1, <2>2, <2>3, <2>4 DEF Follows
  <2>6. credited[c] <= livePages[p].shown.value \/ livePages[p].shown.value \in FreezeValues(p)
    BY <2>2, <2>3, <2>5 DEF Fresh
  <2>7. livePages[p].shown.value \in FreezeValues(p) => FromFreeze(p, livePages[p].shown.value)
    BY DEF FreezeValues, FromFreeze
  <2> QED BY <2>1, <2>6, <2>7 DEF PageOf
<1> QED BY <1>1, LiveStart, LiveStep, PTL DEF RealtimeSpec

=============================================================================
