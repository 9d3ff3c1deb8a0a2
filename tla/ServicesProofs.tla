-------------------------- MODULE ServicesProofs ---------------------------
(***************************************************************************)
(* Theorems about what administrators do to a problem, for any number of   *)
(* administrators, test cases, submissions, jobs, faults and restarts.     *)
(* ProblemEditor: the test cases are those of one form, and no save drops  *)
(* one by itself.  RejudgeJobs: the rows of rejudge jobs say what was done. *)
(* Last, what MCServices composes keeps its types.                         *)
(***************************************************************************)
EXTENDS MCServices, ContestantProofs

-----------------------------------------------------------------------------
(* ProblemEditor: types.                                                   *)

EditorPages == {Closed} \union Form

\* A save that was sent from the edit page waits for one of its statements.
EditSaves == {"update", "delete", "create"}

\* The requests know what their pages hold: only the edit page updates, only a problem that was
\* there is updated, and a deleted problem has no test cases.
PagesInv ==
    /\ editor \in [Editors -> EditorPages]
    /\ \A e \in Editors : /\ editor[e].pc \in EditSaves => editor[e].page = "edit" /\ problem # "none"
                          /\ editor[e].pc \in {"check", "insert"} => editor[e].page = "new"
                          /\ editor[e].pc # "closed" /\ editor[e].page = "edit" => problem # "none"
    /\ problem # "present" => rows = {} /\ saved = {}

LEMMA FormsAre ==
    ASSUME NEW f \in EditorPages, f.pc # "closed"
    PROVE  f \in Form /\ f.cases \subseteq Cases /\ f.removed \subseteq Cases /\ f.blind \in BOOLEAN
BY DEF EditorPages, Form, Closed

\* Replacing one field of a page that is not closed.
LEMMA FormPc ==
    ASSUME NEW f \in EditorPages, f.pc # "closed", NEW pc \in {"open"} \union Busy
    PROVE  LET n == [f EXCEPT !.pc = pc] IN
           /\ n \in EditorPages /\ n.pc = pc /\ n.page = f.page /\ n.cases = f.cases /\ n.removed = f.removed
           /\ n.blind = f.blind
<1>1. f \in Form
  BY FormsAre
<1> QED BY <1>1 DEF EditorPages, Form, Closed, Busy

LEMMA FormBlind ==
    ASSUME NEW f \in EditorPages, f.pc # "closed"
    PROVE  LET n == [f EXCEPT !.blind = TRUE] IN
           /\ n \in EditorPages /\ n.pc = f.pc /\ n.page = f.page /\ n.cases = f.cases /\ n.removed = f.removed
           /\ n.blind
<1>1. f \in Form
  BY FormsAre
<1> QED BY <1>1 DEF EditorPages, Form, Closed, Busy

LEMMA FormCases ==
    ASSUME NEW f \in EditorPages, f.pc # "closed", NEW cs \in SUBSET Cases
    PROVE  LET n == [f EXCEPT !.cases = cs] IN
           /\ n \in EditorPages /\ n.pc = f.pc /\ n.page = f.page /\ n.cases = cs /\ n.removed = f.removed
           /\ (n.blind <=> f.blind)
<1>1. f \in Form
  BY FormsAre
<1> QED BY <1>1 DEF EditorPages, Form, Closed, Busy

LEMMA FormRemoved ==
    ASSUME NEW f \in EditorPages, f.pc # "closed", NEW cs \in SUBSET Cases
    PROVE  LET n == [f EXCEPT !.removed = cs] IN
           /\ n \in EditorPages /\ n.pc = f.pc /\ n.page = f.page /\ n.cases = f.cases /\ n.removed = cs
           /\ (n.blind <=> f.blind)
<1>1. f \in Form
  BY FormsAre
<1> QED BY <1>1 DEF EditorPages, Form, Closed, Busy

LEMMA PcsDiffer ==
    /\ Closed.pc = "closed" /\ "closed" \notin Busy \union {"open"}
    /\ \A f \in Form : f.pc # "closed"
BY DEF Closed, Form, Busy

-----------------------------------------------------------------------------
(* ProblemEditor: the test cases.                                          *)

\* Unless saves crossed or one was cut short, one save at most is between its delete and its
\* create, with no test cases meanwhile; otherwise they are those of the last form written.
RowsInv ==
    ~torn => /\ \A e, d \in Writing : e = d
             /\ Writing # {} => rows = {}
             /\ Writing = {} => Stored = saved /\ \A r, s \in rows : r.by = s.by

\* An edit page that shows the test cases as they are still holds all of them, but for those removed.
BlindInv ==
    \A e \in Editors :
        editor[e].pc # "closed" /\ editor[e].page = "edit" /\ ~editor[e].blind
            => saved \subseteq editor[e].cases \union editor[e].removed

EditInv == EditorTypeOK /\ PagesInv /\ RowsInv /\ BlindInv /\ misread = {} /\ lost = {}

\* Steps of one page that leave the test cases alone and write none.
LEMMA EditQuiet ==
    ASSUME EditInv, NEW e \in Editors, NEW n \in EditorPages, editor' = [editor EXCEPT ![e] = n],
           UNCHANGED <<testVars, misread, lost>>,
           signedIn' \in [Editors -> BOOLEAN], saves' \in 0..MaxSaves, editFaults' \in 0..MaxEditFaults,
           n.pc = "create" <=> editor[e].pc = "create",
           n.pc \in EditSaves => n.page = "edit" /\ problem # "none",
           n.pc \in {"check", "insert"} => n.page = "new",
           n.pc # "closed" /\ n.page = "edit" => problem # "none",
           n.pc # "closed" /\ n.page = "edit" /\ ~n.blind => saved \subseteq n.cases \union n.removed
    PROVE  EditInv'
<1>0. UNCHANGED <<problem, rows, saved, torn>> /\ editor \in [Editors -> EditorPages]
  BY DEF testVars, EditInv, PagesInv
<1>1. editor'[e] = n /\ (\A d \in Editors : d # e => editor'[d] = editor[d]) /\ editor' \in [Editors -> EditorPages]
  BY <1>0
<1>2. Writing' = Writing /\ Stored' = Stored
  BY <1>0, <1>1 DEF Writing, Stored
<1>3. EditorTypeOK'
  BY <1>0, <1>1 DEF EditInv, EditorTypeOK, EditorPages
<1>4. PagesInv'
  BY <1>0, <1>1 DEF EditInv, PagesInv
<1>5. RowsInv'
  BY <1>0, <1>2 DEF EditInv, RowsInv
<1>6. BlindInv'
  BY <1>0, <1>1 DEF EditInv, BlindInv
<1> QED BY <1>3, <1>4, <1>5, <1>6 DEF EditInv

\* What the pages hold once e's form is stored.
LEMMA OutdatedPages ==
    ASSUME editor \in [Editors -> EditorPages], NEW e \in Editors, editor[e].pc # "closed"
    PROVE  /\ Outdated(e) \in [Editors -> EditorPages]
           /\ Outdated(e)[e].pc = "answer" /\ Outdated(e)[e].page = editor[e].page
           /\ Outdated(e)[e].cases = editor[e].cases /\ Outdated(e)[e].removed = editor[e].removed
           /\ \A d \in Editors : d # e => /\ Outdated(e)[d].pc = editor[d].pc
                                          /\ editor[d].pc # "closed" => /\ Outdated(e)[d].page = editor[d].page
                                                                        /\ Outdated(e)[d].blind
<1>1. "answer" \in {"open"} \union Busy
  BY DEF Busy
<1>2. [editor[e] EXCEPT !.pc = "answer"] \in EditorPages
  BY <1>1, FormPc
<1>3. \A d \in Editors : editor[d].pc # "closed" => [editor[d] EXCEPT !.blind = TRUE] \in EditorPages
  BY FormBlind
<1>4. Outdated(e) \in [Editors -> EditorPages]
  BY <1>2, <1>3 DEF Outdated
<1>5. /\ Outdated(e)[e] = [editor[e] EXCEPT !.pc = "answer"]
      /\ \A d \in Editors : d # e => Outdated(e)[d] = IF editor[d].pc = "closed" THEN editor[d]
                                                      ELSE [editor[d] EXCEPT !.blind = TRUE]
  BY DEF Outdated
<1>6. /\ Outdated(e)[e].pc = "answer" /\ Outdated(e)[e].page = editor[e].page
      /\ Outdated(e)[e].cases = editor[e].cases /\ Outdated(e)[e].removed = editor[e].removed
  BY <1>1, <1>5, FormPc
<1>7. ASSUME NEW d \in Editors, d # e
      PROVE  /\ Outdated(e)[d].pc = editor[d].pc
             /\ editor[d].pc # "closed" => Outdated(e)[d].page = editor[d].page /\ Outdated(e)[d].blind
  <2>1. CASE editor[d].pc = "closed"
    BY <1>5, <1>7, <2>1
  <2>2. CASE editor[d].pc # "closed"
    <3>1. editor[d] \in EditorPages /\ Outdated(e)[d] = [editor[d] EXCEPT !.blind = TRUE]
      BY <1>5, <1>7, <2>2
    <3>2. /\ [editor[d] EXCEPT !.blind = TRUE].pc = editor[d].pc
          /\ [editor[d] EXCEPT !.blind = TRUE].page = editor[d].page
          /\ [editor[d] EXCEPT !.blind = TRUE].blind
      BY <2>2, <3>1, FormBlind
    <3> QED BY <3>1, <3>2
  <2> QED BY <2>1, <2>2
<1> QED BY <1>4, <1>6, <1>7

\* A form's rows are its test cases, by one administrator.
LEMMA RowsOfForm ==
    ASSUME NEW e \in Editors, editor[e].cases \subseteq Cases
    PROVE  /\ Row(e) \subseteq [case : Cases, by : Editors]
           /\ {r.case : r \in Row(e)} = editor[e].cases
           /\ \A r, s \in Row(e) : r.by = s.by
<1>1. \A r \in Row(e) : r.case \in editor[e].cases /\ r.by = e /\ r \in [case : Cases, by : Editors]
  BY DEF Row
<1>2. \A c \in editor[e].cases : [case |-> c, by |-> e] \in Row(e) /\ [case |-> c, by |-> e].case = c
  BY DEF Row
<1> QED BY <1>1, <1>2


\* The steps of an administrator's page and session.
LEMMA EditUse ==
    ASSUME EditorAssumption, EditInv, UseEditor
    PROVE  EditInv'
<1>0. /\ editor \in [Editors -> EditorPages] /\ signedIn \in [Editors -> BOOLEAN] /\ saves \in 0..MaxSaves
      /\ editFaults \in 0..MaxEditFaults /\ rows \subseteq [case : Cases, by : Editors] /\ saved \subseteq Cases
      /\ MaxSaves \in Nat
  BY DEF EditInv, PagesInv, EditorTypeOK, EditorAssumption
<1>0a. {"open", "check", "update", "answer", "error"} \subseteq {"open"} \union Busy
  BY DEF Busy
<1>0b. Closed \in EditorPages /\ Closed.pc = "closed"
  BY DEF EditorPages, Closed
<1>1. PICK e \in Editors :
        \/ \E cases \in SUBSET Cases : OpenNew(e, cases)
        \/ OpenEditor(e) \/ LeaveEditor(e) \/ Save(e) \/ AnswerSave(e) \/ DeleteProblem(e)
        \/ \E c \in Cases : AddCase(e, c) \/ RemoveCase(e, c)
        \/ ToggleSession(e)
  BY DEF UseEditor
<1> DEFINE f == editor[e]
<1>2. f \in EditorPages
  BY <1>0
<1>2a. ASSUME f.pc # "closed", f.page = "edit"
       PROVE  problem # "none" /\ (~f.blind => saved \subseteq f.cases \union f.removed)
  BY <1>2a DEF EditInv, PagesInv, BlindInv
<1>3. ASSUME NEW cases \in SUBSET Cases, OpenNew(e, cases)
      PROVE  EditInv'
  <2> DEFINE n == [pc |-> "open", page |-> "new", cases |-> cases, removed |-> {}, blind |-> FALSE]
  <2>1. n \in EditorPages /\ n.pc = "open" /\ n.page = "new"
    BY DEF EditorPages, Form
  <2>2. editor' = [editor EXCEPT ![e] = n] /\ UNCHANGED <<testVars, signedIn, saves, editFaults, misread, lost>>
        /\ f.pc = "closed"
    BY <1>3 DEF OpenNew
  <2> HIDE DEF n
  <2> QED BY <1>0, <2>1, <2>2, EditQuiet DEF EditSaves
<1>4. CASE OpenEditor(e)
  <2> DEFINE b == ~signedIn[e] \/ torn \/ Writing # {}
             n == [pc |-> "open", page |-> "edit", cases |-> View(e), removed |-> {}, blind |-> b]
  <2>1. Stored \subseteq Cases /\ View(e) \subseteq Cases /\ torn \in BOOLEAN
    BY <1>0 DEF Stored, View, EditInv, EditorTypeOK
  <2>2. n \in EditorPages /\ n.pc = "open" /\ n.page = "edit" /\ n.cases = View(e) /\ (n.blind <=> b)
    BY <1>0, <2>1 DEF EditorPages, Form
  <2>3. editor' = [editor EXCEPT ![e] = n] /\ UNCHANGED <<testVars, signedIn, saves, editFaults, misread, lost>>
        /\ f.pc = "closed" /\ problem = "present"
    BY <1>4 DEF OpenEditor
  <2>4. ~b => saved \subseteq View(e)
    BY DEF EditInv, RowsInv, View
  <2> HIDE DEF n, b
  <2>5. ~n.blind => saved \subseteq n.cases \union n.removed
    BY <2>2, <2>4
  <2> QED BY <1>0, <2>2, <2>3, <2>5, EditQuiet DEF EditSaves
<1>5. CASE LeaveEditor(e)
  <2>1. editor' = [editor EXCEPT ![e] = Closed] /\ UNCHANGED <<testVars, signedIn, saves, editFaults, misread, lost>>
        /\ f.pc = "open"
    BY <1>5 DEF LeaveEditor
  <2> QED BY <1>0, <1>0b, <2>1, EditQuiet DEF EditSaves
<1>6. CASE Save(e)
  <2> DEFINE pc == IF ~signedIn[e] THEN f.pc
                   ELSE IF f.page = "new" THEN "check"
                   ELSE IF problem = "present" THEN "update" ELSE f.pc
             n == [f EXCEPT !.pc = pc]
  <2>1. /\ f.pc = "open" /\ saves' = saves + 1 /\ saves < MaxSaves /\ editor' = [editor EXCEPT ![e] = n]
        /\ UNCHANGED <<testVars, signedIn, editFaults, misread, lost>>
    BY <1>6 DEF Save
  <2>2. f.page \in {"new", "edit"}
    BY <1>2, <2>1, FormsAre DEF Form
  <2>3. /\ pc \in {"open", "check", "update"}
        /\ pc = "check" => f.page = "new"
        /\ pc = "update" => f.page = "edit" /\ problem # "none"
    BY <2>1, <2>2
  <2> HIDE DEF pc
  <2>4. /\ n \in EditorPages /\ n.pc = pc /\ n.page = f.page /\ n.cases = f.cases /\ n.removed = f.removed
        /\ n.blind = f.blind
    <3>1. pc \in {"open"} \union Busy /\ f.pc # "closed"
      BY <1>0a, <2>1, <2>3
    <3> QED BY <1>2, <3>1, FormPc
  <2> HIDE DEF n
  <2>5. saves' \in 0..MaxSaves
    BY <1>0, <2>1
  <2> QED BY <1>0, <1>2a, <2>1, <2>3, <2>4, <2>5, EditQuiet DEF EditSaves
<1>7. CASE AnswerSave(e)
  <2>1. /\ f.pc \in {"answer", "error"} /\ UNCHANGED <<testVars, signedIn, saves, editFaults, misread, lost>>
        /\ editor' = [editor EXCEPT ![e] = IF f.pc = "answer" THEN Closed ELSE [f EXCEPT !.pc = "open"]]
    BY <1>7 DEF AnswerSave
  <2>2. CASE f.pc = "answer"
    BY <1>0, <1>0b, <2>1, <2>2, EditQuiet DEF EditSaves
  <2>3. CASE f.pc = "error"
    <3> DEFINE n == [f EXCEPT !.pc = "open"]
    <3>1. /\ n \in EditorPages /\ n.pc = "open" /\ n.page = f.page /\ n.cases = f.cases /\ n.removed = f.removed
          /\ n.blind = f.blind
      BY <1>0a, <1>2, <2>3, FormPc
    <3>2. editor' = [editor EXCEPT ![e] = n]
      BY <2>1, <2>3
    <3> HIDE DEF n
    <3> QED BY <1>0, <1>2a, <2>1, <2>3, <3>1, <3>2, EditQuiet DEF EditSaves
  <2> QED BY <2>1, <2>2, <2>3
<1>8. CASE DeleteProblem(e)
  <2>1. /\ problem' = "deleted" /\ rows' = {} /\ saved' = {} /\ problem = "present"
        /\ UNCHANGED <<torn, editor, signedIn, saves, editFaults, misread, lost>>
    BY <1>8 DEF DeleteProblem
  <2>2. Stored' = {} /\ Writing' = Writing
    BY <2>1 DEF Stored, Writing
  <2>3. EditorTypeOK'
    BY <1>0, <2>1 DEF EditInv, EditorTypeOK
  <2>4. PagesInv'
    BY <2>1 DEF EditInv, PagesInv
  <2>5. RowsInv' /\ BlindInv'
    BY <2>1, <2>2 DEF EditInv, RowsInv, BlindInv
  <2> QED BY <2>1, <2>3, <2>4, <2>5 DEF EditInv
<1>9. ASSUME NEW c \in Cases, AddCase(e, c)
      PROVE  EditInv'
  <2> DEFINE n == [f EXCEPT !.cases = f.cases \union {c}]
  <2>1. /\ f.pc = "open" /\ UNCHANGED <<testVars, signedIn, saves, editFaults, misread, lost>> /\ f.page = "edit"
        /\ editor' = [editor EXCEPT ![e] = n]
    BY <1>9 DEF AddCase
  <2>2. f.cases \subseteq Cases
    BY <1>2, <2>1, FormsAre
  <2>3. f.cases \union {c} \in SUBSET Cases
    BY <2>2
  <2>4. /\ n \in EditorPages /\ n.pc = f.pc /\ n.page = f.page /\ n.cases = f.cases \union {c} /\ n.removed = f.removed
        /\ (n.blind <=> f.blind)
    BY <1>2, <2>1, <2>3, FormCases
  <2> HIDE DEF n
  <2> QED BY <1>0, <1>2a, <2>1, <2>4, EditQuiet DEF EditSaves
<1>10. ASSUME NEW c \in Cases, RemoveCase(e, c)
       PROVE  EditInv'
  <2> DEFINE m == [f EXCEPT !.cases = f.cases \ {c}]
             n == [m EXCEPT !.removed = m.removed \union {c}]
  <2>1. /\ f.pc = "open" /\ UNCHANGED <<testVars, signedIn, saves, editFaults, misread, lost>> /\ f.page = "edit"
        /\ editor' = [editor EXCEPT ![e].cases = f.cases \ {c}, ![e].removed = f.removed \union {c}]
    BY <1>10 DEF RemoveCase
  <2>2. f \in Form /\ f.cases \subseteq Cases /\ f.removed \subseteq Cases
    BY <1>2, <2>1, FormsAre
  <2>3. f.cases \ {c} \in SUBSET Cases /\ f.removed \union {c} \in SUBSET Cases
    BY <2>2
  <2>4. /\ m \in EditorPages /\ m.pc = f.pc /\ m.page = f.page /\ m.cases = f.cases \ {c} /\ m.removed = f.removed
        /\ (m.blind <=> f.blind)
    BY <1>2, <2>1, <2>3, FormCases
  <2>5. editor' = [editor EXCEPT ![e] = n]
    BY <2>1, <2>4
  <2> HIDE DEF m
  <2>6. /\ n \in EditorPages /\ n.pc = m.pc /\ n.page = m.page /\ n.cases = m.cases
        /\ n.removed = m.removed \union {c} /\ (n.blind <=> m.blind)
    <3>1. m.pc # "closed" /\ m.removed \union {c} \in SUBSET Cases
      BY <2>1, <2>3, <2>4
    <3> QED BY <2>4, <3>1, FormRemoved
  <2> HIDE DEF n
  <2>7. saved \subseteq f.cases \union f.removed => saved \subseteq n.cases \union n.removed
    BY <2>4, <2>6
  <2>8. n.pc = "open" /\ n.page = "edit" /\ (n.blind <=> f.blind)
    BY <2>1, <2>4, <2>6
  <2>9. problem # "none" /\ (~n.blind => saved \subseteq n.cases \union n.removed)
    BY <1>2a, <2>1, <2>7, <2>8
  <2>10. n.pc = "create" <=> editor[e].pc = "create"
    BY <2>1, <2>8
  <2> QED BY <1>0, <2>1, <2>5, <2>6, <2>8, <2>9, <2>10, EditQuiet DEF EditSaves
<1>11. CASE ToggleSession(e)
  <2>1. signedIn' = [signedIn EXCEPT ![e] = ~signedIn[e]] /\ UNCHANGED <<testVars, editor, saves, editFaults, misread, lost>>
    BY <1>11 DEF ToggleSession
  <2>2. signedIn' \in [Editors -> BOOLEAN]
    BY <1>0, <2>1
  <2>3. Writing' = Writing /\ Stored' = Stored /\ UNCHANGED <<problem, rows, saved, torn>>
    BY <2>1 DEF Writing, Stored, testVars
  <2> QED BY <2>1, <2>2, <2>3 DEF EditInv, EditorTypeOK, PagesInv, RowsInv, BlindInv
<1> HIDE DEF f
<1> QED BY <1>1, <1>3, <1>4, <1>5, <1>6, <1>7, <1>8, <1>9, <1>10, <1>11


\* The steps of the handlers.
LEMMA EditRun ==
    ASSUME EditorAssumption, EditInv, RunSave
    PROVE  EditInv'
<1>0. /\ editor \in [Editors -> EditorPages] /\ signedIn \in [Editors -> BOOLEAN] /\ saves \in 0..MaxSaves
      /\ editFaults \in 0..MaxEditFaults /\ rows \subseteq [case : Cases, by : Editors] /\ saved \subseteq Cases
      /\ torn \in BOOLEAN /\ problem \in {"none", "present", "deleted"}
  BY DEF EditInv, PagesInv, EditorTypeOK
<1>0a. {"insert", "error", "delete", "create"} \subseteq {"open"} \union Busy
  BY DEF Busy
<1>1. PICK e \in Editors :
        CheckSlug(e) \/ InsertProblem(e) \/ UpdateProblem(e) \/ DeleteTests(e) \/ CreateTests(e)
  BY DEF RunSave
<1> DEFINE f == editor[e]
<1>2. f \in EditorPages /\ f.pc # "closed"
  BY <1>0, <1>1 DEF CheckSlug, InsertProblem, UpdateProblem, DeleteTests, CreateTests
<1>2a. f \in Form /\ f.cases \subseteq Cases /\ f.removed \subseteq Cases
  BY <1>2, FormsAre
<1>3. /\ f.page = "edit" => problem # "none" /\ (~f.blind => saved \subseteq f.cases \union f.removed)
      /\ f.pc \in EditSaves => f.page = "edit"
      /\ f.pc \in {"check", "insert"} => f.page = "new"
  BY <1>2 DEF EditInv, PagesInv, BlindInv
\* A request that goes on, or ends in an error, without writing.
<1>4. ASSUME NEW pc \in {"insert", "error", "delete"}, f.pc # "create",
             pc = "insert" => f.page = "new", pc = "delete" => f.page = "edit",
             editor' = [editor EXCEPT ![e] = [f EXCEPT !.pc = pc]],
             UNCHANGED <<testVars, signedIn, saves, editFaults, misread, lost>>
      PROVE  EditInv'
  <2> DEFINE n == [f EXCEPT !.pc = pc]
  <2>1. /\ n \in EditorPages /\ n.pc = pc /\ n.page = f.page /\ n.cases = f.cases /\ n.removed = f.removed
        /\ n.blind = f.blind
    <3>1. pc \in {"open"} \union Busy
      BY <1>0a
    <3> QED BY <1>2, <3>1, FormPc
  <2>2. editor' = [editor EXCEPT ![e] = n]
    BY <1>4
  <2> HIDE DEF n
  <2>3. /\ (n.pc = "create" <=> editor[e].pc = "create")
        /\ (n.pc \in EditSaves => n.page = "edit" /\ problem # "none")
        /\ (n.pc \in {"check", "insert"} => n.page = "new")
        /\ (n.page = "edit" => problem # "none")
        /\ (n.page = "edit" /\ ~n.blind => saved \subseteq n.cases \union n.removed)
    BY <1>3, <1>4, <2>1 DEF EditSaves
  <2> QED BY <1>0, <1>4, <2>1, <2>2, <2>3, EditQuiet
<1>5. CASE CheckSlug(e)
  BY <1>3, <1>4, <1>5 DEF CheckSlug
<1>6. CASE UpdateProblem(e)
  BY <1>3, <1>4, <1>6 DEF UpdateProblem, EditSaves
\* A form is stored: the other pages are out of date, and e's own holds what is stored.
<1>7. ASSUME editor' = Outdated(e), saved' = f.cases, UNCHANGED <<signedIn, saves, editFaults>>,
             problem' = "present", rows' \subseteq [case : Cases, by : Editors], UNCHANGED <<torn, misread>>, lost' = {}
      PROVE  EditorTypeOK' /\ PagesInv' /\ BlindInv'
  <2>1. /\ editor' \in [Editors -> EditorPages]
        /\ editor'[e].pc = "answer" /\ editor'[e].page = f.page
        /\ editor'[e].cases = f.cases /\ editor'[e].removed = f.removed
        /\ \A d \in Editors : d # e => /\ editor'[d].pc = editor[d].pc
                                       /\ editor[d].pc # "closed" => editor'[d].page = editor[d].page /\ editor'[d].blind
    BY <1>0, <1>2, <1>7, OutdatedPages
  <2>2. EditorTypeOK'
    BY <1>0, <1>2a, <1>7, <2>1 DEF EditInv, EditorTypeOK, EditorPages
  <2>3. PagesInv'
    <3>1. EditSaves \intersect {"answer", "check", "insert", "closed"} = {}
      BY DEF EditSaves
    <3>2. ASSUME NEW d \in Editors
          PROVE  /\ editor'[d].pc \in EditSaves => editor'[d].page = "edit"
                 /\ editor'[d].pc \in {"check", "insert"} => editor'[d].page = "new"
      <4>1. CASE d = e
        BY <2>1, <3>1, <4>1
      <4>2. CASE d # e
        <5>1. /\ editor[d].pc \in EditSaves => editor[d].page = "edit"
              /\ editor[d].pc \in {"check", "insert"} => editor[d].page = "new"
          BY DEF EditInv, PagesInv
        <5>2. editor'[d].pc = editor[d].pc /\ (editor[d].pc # "closed" => editor'[d].page = editor[d].page)
          BY <2>1, <4>2
        <5> QED BY <3>1, <5>1, <5>2
      <4> QED BY <4>1, <4>2
    <3> QED BY <1>7, <2>1, <3>2 DEF PagesInv
  <2>4. BlindInv'
    BY <1>7, <2>1 DEF BlindInv
  <2> QED BY <2>2, <2>3, <2>4
<1>8. CASE InsertProblem(e)
  <2>1. CASE problem = "none"
    <3>1. /\ problem' = "present" /\ rows' = Row(e) /\ saved' = f.cases /\ editor' = Outdated(e)
          /\ UNCHANGED <<torn, signedIn, saves, editFaults, misread, lost>> /\ f.pc = "insert"
      BY <1>8, <2>1 DEF InsertProblem
    <3>2. Row(e) \subseteq [case : Cases, by : Editors] /\ Stored' = f.cases /\ \A r, s \in rows' : r.by = s.by
      BY <1>2a, <3>1, RowsOfForm DEF Stored
    <3>3. EditorTypeOK' /\ PagesInv' /\ BlindInv'
      BY <1>7, <3>1, <3>2 DEF EditInv
    <3>4. Writing' = {}
      <4>1. \A d \in Editors : editor[d].pc # "create"
        BY <2>1 DEF EditInv, PagesInv, EditSaves
      <4>2. editor'[e].pc = "answer" /\ \A d \in Editors : d # e => editor'[d].pc = editor[d].pc
        BY <1>0, <1>2, <3>1, OutdatedPages
      <4> QED BY <4>1, <4>2 DEF Writing
    <3>5. RowsInv'
      BY <3>1, <3>2, <3>4 DEF RowsInv
    <3> QED BY <3>1, <3>3, <3>5 DEF EditInv
  <2>2. CASE problem # "none"
    BY <1>3, <1>4, <1>8, <2>2 DEF InsertProblem
  <2> QED BY <2>1, <2>2
<1>9. CASE DeleteTests(e)
  <2> DEFINE n == [f EXCEPT !.pc = "create"]
  <2>1. /\ rows' = {} /\ torn' = (Writing # {}) /\ editor' = [editor EXCEPT ![e] = n] /\ f.pc = "delete"
        /\ UNCHANGED <<problem, saved, signedIn, saves, editFaults, misread, lost>>
    BY <1>9 DEF DeleteTests, Kept
  <2>2. /\ n \in EditorPages /\ n.pc = "create" /\ n.page = f.page /\ n.cases = f.cases /\ n.removed = f.removed
        /\ n.blind = f.blind
    <3>1. "create" \in {"open"} \union Busy
      BY <1>0a
    <3> QED BY <1>2, <3>1, FormPc
  <2> HIDE DEF n
  <2>3. editor'[e] = n /\ (\A d \in Editors : d # e => editor'[d] = editor[d]) /\ editor' \in [Editors -> EditorPages]
    BY <1>0, <2>1, <2>2
  <2>4. Writing' = Writing \union {e}
    BY <2>2, <2>3 DEF Writing
  <2>5. EditorTypeOK'
    <3>1. torn' \in BOOLEAN
      BY <2>1
    <3> QED BY <1>0, <2>1, <2>3, <3>1 DEF EditInv, EditorTypeOK, EditorPages
  <2>6. f.page = "edit" /\ problem # "none" /\ (~f.blind => saved \subseteq f.cases \union f.removed)
    BY <1>3, <2>1 DEF EditSaves
  <2>7. PagesInv'
    BY <2>1, <2>2, <2>3, <2>6 DEF EditInv, PagesInv
  <2>8. RowsInv'
    BY <2>1, <2>4 DEF RowsInv
  <2>9. BlindInv'
    BY <2>1, <2>2, <2>3, <2>6 DEF EditInv, BlindInv
  <2> QED BY <2>1, <2>5, <2>7, <2>8, <2>9 DEF EditInv
<1>10. CASE CreateTests(e)
  <2>0. f.pc = "create" /\ f.page = "edit" /\ e \in Writing
    BY <1>3, <1>10 DEF CreateTests, EditSaves, Writing
  <2>0a. ~torn => Writing = {e} /\ rows = {}
    BY <2>0 DEF EditInv, RowsInv
  <2>1. CASE problem = "present"
    <3>1. /\ rows' = rows \union Row(e) /\ saved' = f.cases /\ editor' = Outdated(e)
          /\ lost' = IF f.blind THEN lost ELSE lost \union (saved \ (f.cases \union f.removed))
          /\ UNCHANGED <<problem, torn, signedIn, saves, editFaults, misread>>
      BY <1>10, <2>1 DEF CreateTests
    <3>2. lost' = {}
      BY <1>3, <2>0, <3>1 DEF EditInv
    <3>3. Row(e) \subseteq [case : Cases, by : Editors] /\ {r.case : r \in Row(e)} = f.cases /\ \A r, s \in Row(e) : r.by = s.by
      BY <1>2a, RowsOfForm
    <3>4. EditorTypeOK' /\ PagesInv' /\ BlindInv'
      BY <1>0, <1>7, <2>1, <3>1, <3>2, <3>3
    <3>5. editor'[e].pc = "answer" /\ \A d \in Editors : d # e => editor'[d].pc = editor[d].pc
      BY <1>0, <1>2, <3>1, OutdatedPages
    <3>6. Writing' = Writing \ {e}
      BY <3>5 DEF Writing
    <3>7. RowsInv'
      <4> SUFFICES ASSUME ~torn
                   PROVE  Writing' = {} /\ Stored' = saved' /\ \A r, s \in rows' : r.by = s.by
        BY <3>1 DEF RowsInv
      <4>1. Writing' = {} /\ rows' = Row(e)
        BY <2>0a, <3>1, <3>6
      <4> QED BY <3>1, <3>3, <4>1 DEF Stored
    <3> QED BY <3>1, <3>2, <3>4, <3>7 DEF EditInv
  <2>2. CASE problem # "present"
    <3> DEFINE n == [f EXCEPT !.pc = "error"]
    <3>1. /\ editor' = [editor EXCEPT ![e] = n]
          /\ UNCHANGED <<problem, rows, saved, lost, torn, signedIn, saves, editFaults, misread>>
      BY <1>10, <2>2 DEF CreateTests
    <3>2. /\ n \in EditorPages /\ n.pc = "error" /\ n.page = f.page /\ n.cases = f.cases /\ n.removed = f.removed
          /\ n.blind = f.blind
      <4>1. "error" \in {"open"} \union Busy
        BY <1>0a
      <4> QED BY <1>2, <4>1, FormPc
    <3> HIDE DEF n
    <3>3. editor'[e] = n /\ (\A d \in Editors : d # e => editor'[d] = editor[d]) /\ editor' \in [Editors -> EditorPages]
      BY <1>0, <3>1, <3>2
    <3>4. Writing' = Writing \ {e} /\ Stored' = Stored
      BY <3>1, <3>2, <3>3 DEF Writing, Stored
    <3>5. rows = {} /\ saved = {} /\ Stored = {}
      BY <2>2 DEF EditInv, PagesInv, Stored
    <3>6. EditorTypeOK'
      BY <1>0, <3>1, <3>3 DEF EditInv, EditorTypeOK, EditorPages
    <3>7. PagesInv'
      BY <1>3, <2>0, <3>1, <3>2, <3>3 DEF EditInv, PagesInv, EditSaves
    <3>8. RowsInv'
      BY <3>1, <3>4, <3>5 DEF EditInv, RowsInv
    <3>9. BlindInv'
      BY <3>1, <3>5 DEF BlindInv
    <3> QED BY <3>1, <3>6, <3>7, <3>8, <3>9 DEF EditInv
  <2> QED BY <2>1, <2>2
<1> QED BY <1>1, <1>5, <1>6, <1>8, <1>9, <1>10

\* What readers of each kind take.
LEMMA TakenIs ==
    ASSUME NEW got
    PROVE  /\ Taken("practice", got) => got = Stored
           /\ Taken("contest", got) => got = Stored \intersect Samples
           /\ Taken("run", got) => got \subseteq Stored \intersect Samples
<1>1. "practice" # "contest" /\ "practice" # "run" /\ "contest" # "run"
  OBVIOUS
<1> QED BY <1>1, Zenon DEF Taken

LEMMA EditStep ==
    ASSUME EditorAssumption, EditInv, [EditorNext]_editorVars
    PROVE  EditInv'
<1>1. CASE UseEditor
  BY <1>1, EditUse
<1>2. CASE RunSave
  BY <1>2, EditRun
<1>3. ASSUME UNCHANGED <<testVars, editor, signedIn, saves, editFaults, lost>>, misread' = {}
      PROVE  EditInv'
  <2>1. UNCHANGED <<problem, rows, saved, torn>> /\ Writing' = Writing /\ Stored' = Stored
    BY <1>3 DEF testVars, Writing, Stored
  <2> QED BY <1>3, <2>1 DEF EditInv, EditorTypeOK, PagesInv, RowsInv, BlindInv
<1>4. ASSUME NEW kind \in {"practice", "contest", "run"}, NEW got \in SUBSET Cases, ReadTests(kind, got)
      PROVE  EditInv'
  <2>1. misread = {} /\ (torn \/ Writing # {} \/ Stored = saved)
    BY DEF EditInv, RowsInv
  <2>2. \/ torn \/ Writing # {}
        \/ kind = "practice" /\ got = saved
        \/ kind # "practice" /\ got \subseteq saved \intersect Samples
    BY <1>4, <2>1, TakenIs DEF ReadTests
  <2>3. misread' = {}
    BY <1>4, <2>1, <2>2 DEF ReadTests
  <2> QED BY <1>3, <1>4, <2>3 DEF ReadTests
<1>5. CASE UNCHANGED editorVars
  BY <1>3, <1>5 DEF editorVars, EditInv
<1>6. CASE RestartEditing
  <2>1. /\ editFaults < MaxEditFaults /\ editFaults' = editFaults + 1 /\ torn' = (torn \/ Writing # {})
        /\ editor' = [e \in Editors |-> IF editor[e].pc \in Busy THEN [editor[e] EXCEPT !.pc = "error"] ELSE editor[e]]
        /\ UNCHANGED <<problem, rows, saved, signedIn, saves, misread, lost>>
    BY <1>6 DEF RestartEditing
  <2>2. editor \in [Editors -> EditorPages] /\ editFaults \in 0..MaxEditFaults /\ MaxEditFaults \in Nat
    BY DEF EditInv, PagesInv, EditorTypeOK, EditorAssumption
  <2>3. {"error", "check", "insert"} \union EditSaves \subseteq Busy /\ "closed" \notin Busy
    BY DEF Busy, EditSaves
  <2>4. ASSUME NEW e \in Editors
        PROVE  /\ editor'[e] \in EditorPages
               /\ \/ editor'[e] = editor[e] /\ editor[e].pc \notin Busy
                  \/ /\ editor[e].pc \in Busy /\ editor'[e].pc = "error" /\ editor'[e].page = editor[e].page
                     /\ editor'[e].cases = editor[e].cases /\ editor'[e].removed = editor[e].removed
                     /\ editor'[e].blind = editor[e].blind
    <3>1. CASE editor[e].pc \in Busy
      <4>1. editor[e] \in EditorPages /\ editor[e].pc # "closed" /\ "error" \in {"open"} \union Busy
        BY <2>2, <2>3, <3>1
      <4>2. editor'[e] = [editor[e] EXCEPT !.pc = "error"]
        BY <2>1, <3>1
      <4> QED BY <3>1, <4>1, <4>2, FormPc
    <3>2. CASE editor[e].pc \notin Busy
      BY <2>1, <2>2, <3>2
    <3> QED BY <3>1, <3>2
  <2>5. editor' \in [Editors -> EditorPages]
    BY <2>1, <2>4
  <2>6. Writing' = {} /\ Stored' = Stored
    <3>1. \A e \in Editors : editor'[e].pc # "create"
      BY <2>3, <2>4 DEF EditSaves
    <3> QED BY <2>1, <3>1 DEF Writing, Stored
  <2>7. EditorTypeOK'
    <3>1. torn' \in BOOLEAN /\ editFaults' \in 0..MaxEditFaults
      BY <2>1, <2>2
    <3> QED BY <2>1, <2>5, <3>1 DEF EditInv, EditorTypeOK, EditorPages
  <2>8. PagesInv'
    <3>1. ASSUME NEW e \in Editors
          PROVE  /\ editor'[e].pc \in EditSaves => editor'[e].page = "edit" /\ problem # "none"
                 /\ editor'[e].pc \in {"check", "insert"} => editor'[e].page = "new"
                 /\ editor'[e].pc # "closed" /\ editor'[e].page = "edit" => problem # "none"
      <4>1. "error" \notin EditSaves
        BY DEF EditSaves
      <4>2. editor[e].pc # "closed" /\ editor[e].page = "edit" => problem # "none"
        BY DEF EditInv, PagesInv
      <4> QED BY <2>3, <2>4, <4>1, <4>2
    <3> QED BY <2>1, <2>5, <3>1 DEF EditInv, PagesInv
  <2>9. RowsInv'
    BY <2>1, <2>6 DEF EditInv, RowsInv
  <2>10. BlindInv'
    BY <2>1, <2>3, <2>4 DEF EditInv, BlindInv
  <2> QED BY <2>1, <2>7, <2>8, <2>9, <2>10 DEF EditInv
<1> QED BY <1>1, <1>2, <1>4, <1>5, <1>6 DEF EditorNext, ReadSome

LEMMA EditStart ==
    ASSUME EditorAssumption, EditorInit
    PROVE  EditInv
<1>1. /\ editor = [e \in Editors |-> Closed] /\ signedIn = [e \in Editors |-> TRUE]
      /\ saves = 0 /\ editFaults = 0 /\ torn = FALSE /\ misread = {} /\ lost = {}
  BY DEF EditorInit
<1>2. /\ Closed \in EditorPages /\ Closed.pc = "closed" /\ "closed" \notin EditSaves
      /\ "closed" \notin {"create", "check", "insert"}
  BY DEF EditorPages, Closed, EditSaves
<1>3. Writing = {}
  BY <1>1, <1>2 DEF Writing
<1>4. /\ rows \subseteq [case : Cases, by : Editors] /\ Stored = saved /\ saved \subseteq Cases
      /\ \A r, s \in rows : r.by = s.by
      /\ problem \in {"none", "present"} /\ (problem # "present" => rows = {} /\ saved = {})
  <2>1. CASE problem = "none" /\ saved = {} /\ rows = {}
    BY <2>1 DEF Stored
  <2>2. CASE /\ problem = "present" /\ saved = Cases
             /\ rows \in {[case : Cases, by : {e}] : e \in Editors}
    <3>1. PICK e \in Editors : rows = [case : Cases, by : {e}]
      BY <2>2
    <3>2. \A r \in rows : r.case \in Cases /\ r.by = e /\ r \in [case : Cases, by : Editors]
      BY <3>1
    <3>3. \A c \in Cases : [case |-> c, by |-> e] \in rows /\ [case |-> c, by |-> e].case = c
      BY <3>1
    <3> QED BY <2>2, <3>2, <3>3 DEF Stored
  <2> QED BY <2>1, <2>2 DEF EditorInit
<1>5. EditorTypeOK
  <2>1. signedIn \in [Editors -> BOOLEAN] /\ torn \in BOOLEAN /\ problem \in {"none", "present", "deleted"}
    BY <1>1, <1>4
  <2>2. saves \in 0..MaxSaves /\ editFaults \in 0..MaxEditFaults
    BY <1>1 DEF EditorAssumption
  <2>3. \A e \in Editors : editor[e] \in {Closed} \union Form
    BY <1>1
  <2> QED BY <1>1, <1>4, <2>1, <2>2, <2>3 DEF EditorTypeOK
<1>6. PagesInv
  BY <1>1, <1>2, <1>4 DEF PagesInv
<1>7. RowsInv /\ BlindInv
  BY <1>1, <1>2, <1>3, <1>4 DEF RowsInv, BlindInv
<1> QED BY <1>1, <1>5, <1>6, <1>7 DEF EditInv

\* Every variable of the editor has its type: a page that is open or waits for an answer holds
\* a form of the problem's test cases, and their rows belong to administrators.
THEOREM EditorTypeCorrect == EditorSpec => []EditorTypeOK
<1>1. EditInv => EditorTypeOK
  BY DEF EditInv
<1> QED BY <1>1, EditStart, EditStep, EditorAssumption, PTL DEF EditorSpec

\* The invariant TestsOfOneForm: the test cases stored, and read by submissions, are those of the
\* last form written, except while a save is between its statements, or after two saves crossed or
\* one was cut short; the next save that meets no other mends it.
THEOREM TestsAreOfOneForm == EditorSpec => []TestsOfOneForm
<1>1. EditInv => TestsOfOneForm
  BY DEF EditInv, RowsInv, TestsOfOneForm
<1> QED BY <1>1, EditStart, EditStep, EditorAssumption, PTL DEF EditorSpec

\* The invariant NoCaseLost: a save whose page showed the test cases as they were when it is stored
\* drops only those its administrator removed by hand.
THEOREM NoCaseIsLost == EditorSpec => []NoCaseLost
<1>1. EditInv => NoCaseLost
  BY DEF EditInv, NoCaseLost
<1> QED BY <1>1, EditStart, EditStep, EditorAssumption, PTL DEF EditorSpec


-----------------------------------------------------------------------------
(* RejudgeJobs: types.                                                     *)

AllSubmissions == FirstRows \union LaterRows
Targets == FirstRows \union {AllRows}
Asks == {NotAsked} \union [pc : {"find"}, only : Targets] \union [pc : {"create"}, only : Targets, total : Nat]
InLoop == {"reset", "send", "count", "recount", "finish"}
ProcessorRow == [pc : {"mark", "load", "problem", "returned", "thrown"} \union InLoop,
                 rows : SUBSET AllSubmissions, left : SUBSET AllSubmissions,
                 done : Nat, errors : Nat, sent : Nat, twice : Nat]
PageRow == [pc : {"closed", "loading", "answered", "shown"}, read : Seq(JobRow), jobs : Seq(JobRow)]

RejudgeTypes ==
    /\ problemRow \in BOOLEAN /\ rowsThere \subseteq AllSubmissions
    /\ asked \in [Buttons -> Asks]
    /\ rejudgeJobs \in Seq(JobRow) /\ processors \in Seq(ProcessorRow) /\ Len(processors) = Len(rejudgeJobs)
    /\ jobsPage \in PageRow
    /\ rejudgeFaults \in Nat

\* What a job's row says when its processor has returned.
Told(job, p) ==
    /\ job.status \in {"DONE", "FAILED"}
    /\ \/ job.done = Cardinality(p.rows) + p.twice
       \/ job.status = "FAILED" /\ job.done = 0 /\ p.left = p.rows
    /\ p.twice = 0 /\ p.rows # {} => (job.status = "FAILED" <=> p.sent = 0)

\* A job and its processor: each submission handled is counted as sent or as an error, once
\* unless the write of the count failed, and the row is never ahead of the processor.
Matches(job, p) ==
    /\ p.left \subseteq p.rows /\ job.done <= p.done
    /\ p.pc \in {"mark", "thrown"} => job.status \in {"PENDING", "RUNNING"}
    /\ p.pc \in {"load", "problem"} \union InLoop => job.status = "RUNNING"
    /\ p.pc \in {"mark", "load", "problem"} => p.done = 0 /\ p.errors = 0 /\ p.sent = 0 /\ p.twice = 0
    /\ p.pc = "problem" => p.left = p.rows /\ p.rows # {}
    /\ p.pc \in InLoop =>
         /\ p.rows # {} /\ p.errors + p.sent = p.done
         /\ p.done + Cardinality(p.left) + (IF p.pc = "send" THEN 1 ELSE 0) = Cardinality(p.rows) + p.twice
    /\ p.pc = "finish" => p.left = {} /\ job.done = p.done
    /\ p.pc = "returned" => Told(job, p)

\* Rows read earlier are not ahead of the rows there are.
Behind(rs) ==
    \A j \in DOMAIN rs : /\ j \in Jobs /\ rs[j].done <= rejudgeJobs[j].done /\ rs[j].total = rejudgeJobs[j].total
                         /\ rs[j].status \in {"DONE", "FAILED"} => rs[j] = rejudgeJobs[j]

JobsInv ==
    /\ RejudgeTypes
    /\ \A j \in Jobs : /\ Matches(rejudgeJobs[j], processors[j])
                       /\ processors[j].pc = "thrown" => rejudgeFaults > 0
    /\ Behind(jobsPage.read) /\ Behind(jobsPage.jobs)

LEMMA RejudgeRows ==
    ASSUME RejudgeTypes
    PROVE  /\ Jobs = 1..Len(rejudgeJobs) /\ DOMAIN processors = Jobs /\ Len(rejudgeJobs) \in Nat
           /\ \A j \in Jobs : rejudgeJobs[j] \in JobRow /\ processors[j] \in ProcessorRow
           /\ jobsPage.read \in Seq(JobRow) /\ jobsPage.jobs \in Seq(JobRow)
<1>1. /\ rejudgeJobs \in Seq(JobRow) /\ processors \in Seq(ProcessorRow) /\ Len(processors) = Len(rejudgeJobs)
      /\ jobsPage.read \in Seq(JobRow) /\ jobsPage.jobs \in Seq(JobRow)
  BY DEF RejudgeTypes, PageRow
<1>2. /\ Jobs = 1..Len(rejudgeJobs) /\ DOMAIN processors = 1..Len(processors) /\ Len(rejudgeJobs) \in Nat
  BY <1>1, LenProperties DEF Jobs
<1>3. \A j \in Jobs : rejudgeJobs[j] \in JobRow /\ processors[j] \in ProcessorRow
  BY <1>1, <1>2, ElementOfSeq
<1> QED BY <1>1, <1>2, <1>3

\* The submissions of a processor can be counted.
LEMMA Countable ==
    ASSUME RejudgeAssumption, NEW S \in SUBSET AllSubmissions
    PROVE  /\ Cardinality(S) \in Nat /\ (Cardinality(S) = 0 <=> S = {})
           /\ \A s \in S : Cardinality(S \ {s}) = Cardinality(S) - 1
<1>1. IsFiniteSet(AllSubmissions)
  BY FS_Union DEF RejudgeAssumption, AllSubmissions
<1>2. IsFiniteSet(S)
  BY <1>1, FS_Subset
<1>3. Cardinality(S) \in Nat /\ (Cardinality(S) = 0 <=> S = {})
  BY <1>2, FS_CardinalityType, FS_EmptySet
<1>4. \A s \in S : Cardinality(S \ {s}) = Cardinality(S) - 1
  BY <1>2, FS_RemoveElement
<1> QED BY <1>3, <1>4

\* Rows read earlier stay behind when the rows only go on.
LEMMA StaysBehind ==
    ASSUME RejudgeTypes, NEW rs \in Seq(JobRow), Behind(rs), Jobs \subseteq Jobs',
           \A j \in Jobs : /\ rejudgeJobs'[j].done \in Nat
                           /\ rejudgeJobs[j].done <= rejudgeJobs'[j].done /\ rejudgeJobs'[j].total = rejudgeJobs[j].total
                           /\ rejudgeJobs[j].status \in {"DONE", "FAILED"} => rejudgeJobs'[j] = rejudgeJobs[j]
    PROVE  \A j \in DOMAIN rs : /\ j \in Jobs' /\ rs[j].done <= rejudgeJobs'[j].done /\ rs[j].total = rejudgeJobs'[j].total
                                /\ rs[j].status \in {"DONE", "FAILED"} => rs[j] = rejudgeJobs'[j]
<1> SUFFICES ASSUME NEW j \in DOMAIN rs
             PROVE  /\ j \in Jobs' /\ rs[j].done <= rejudgeJobs'[j].done /\ rs[j].total = rejudgeJobs'[j].total
                    /\ rs[j].status \in {"DONE", "FAILED"} => rs[j] = rejudgeJobs'[j]
  OBVIOUS
<1>1. rs[j] \in JobRow
  BY LenProperties, ElementOfSeq
<1>2. /\ j \in Jobs /\ rs[j].done <= rejudgeJobs[j].done /\ rs[j].total = rejudgeJobs[j].total
      /\ rs[j].status \in {"DONE", "FAILED"} => rs[j] = rejudgeJobs[j]
  BY DEF Behind
<1>3. rs[j].done \in Nat /\ rejudgeJobs[j].done \in Nat /\ rejudgeJobs'[j].done \in Nat
  BY <1>1, <1>2, RejudgeRows DEF JobRow
<1>4. rs[j].done <= rejudgeJobs'[j].done
  BY <1>2, <1>3
<1> QED BY <1>2, <1>4

\* A step of a processor: the row goes on and matches the processor again.
LEMMA ProcessKept ==
    ASSUME JobsInv, NEW j \in Jobs, NEW from, NEW job \in JobRow, NEW p \in ProcessorRow,
           Processing(j, from, job, p), Matches(job, p), from \notin {"returned", "thrown"},
           rejudgeJobs[j].done <= job.done, job.total = rejudgeJobs[j].total,
           rejudgeFaults' \in Nat, rejudgeFaults <= rejudgeFaults',
           p.pc = "thrown" => rejudgeFaults' > 0
    PROVE  JobsInv'
<1>0. /\ RejudgeTypes /\ rejudgeJobs \in Seq(JobRow) /\ processors \in Seq(ProcessorRow)
      /\ Len(processors) = Len(rejudgeJobs) /\ rejudgeFaults \in Nat
  BY DEF JobsInv, RejudgeTypes
<1>1. /\ processors[j].pc = from /\ rejudgeJobs' = [rejudgeJobs EXCEPT ![j] = job]
      /\ processors' = [processors EXCEPT ![j] = p] /\ UNCHANGED <<problemRow, rowsThere, asked, jobsPage>>
  BY DEF Processing, asking
<1>2. /\ Jobs = 1..Len(rejudgeJobs) /\ DOMAIN processors = Jobs /\ DOMAIN rejudgeJobs = Jobs
  BY <1>0, RejudgeRows DEF Jobs
<1>3. /\ rejudgeJobs' \in Seq(JobRow) /\ processors' \in Seq(ProcessorRow) /\ Len(processors') = Len(rejudgeJobs')
      /\ DOMAIN rejudgeJobs' = Jobs
  BY <1>0, <1>1, <1>2, ExceptSeq
<1>4. Jobs' = Jobs
  BY <1>3 DEF Jobs
<1>5. /\ rejudgeJobs'[j] = job /\ processors'[j] = p
      /\ \A k \in Jobs : k # j => rejudgeJobs'[k] = rejudgeJobs[k] /\ processors'[k] = processors[k]
  BY <1>1, <1>2
<1>6. RejudgeTypes'
  BY <1>0, <1>1, <1>3 DEF RejudgeTypes
<1>7. ASSUME NEW k \in Jobs
      PROVE  /\ Matches(rejudgeJobs'[k], processors'[k])
             /\ processors'[k].pc = "thrown" => rejudgeFaults' > 0
  BY <1>0, <1>5 DEF JobsInv
<1>8. ASSUME NEW k \in Jobs
      PROVE  /\ rejudgeJobs'[k].done \in Nat
             /\ rejudgeJobs[k].done <= rejudgeJobs'[k].done /\ rejudgeJobs'[k].total = rejudgeJobs[k].total
             /\ rejudgeJobs[k].status \in {"DONE", "FAILED"} => rejudgeJobs'[k] = rejudgeJobs[k]
  <2>1. CASE k = j
    <3>1. processors[j].pc \notin {"returned", "thrown"} /\ processors[j] \in ProcessorRow
      BY <1>0, <1>1, RejudgeRows
    <3>2. processors[j].pc \in {"mark", "load", "problem"} \union InLoop
      BY <3>1 DEF ProcessorRow
    <3>3. rejudgeJobs[j].status \in {"PENDING", "RUNNING"}
      BY <3>2 DEF JobsInv, Matches
    <3> QED BY <1>5, <2>1, <3>3 DEF JobRow
  <2>2. CASE k # j
    <3>1. rejudgeJobs'[k] = rejudgeJobs[k] /\ rejudgeJobs[k].done \in Nat
      BY <1>0, <1>5, <2>2, RejudgeRows DEF JobRow
    <3> QED BY <3>1
  <2> QED BY <2>1, <2>2
<1>9. Behind(jobsPage.read)' /\ Behind(jobsPage.jobs)'
  <2>1. Jobs \subseteq Jobs' /\ jobsPage' = jobsPage /\ Behind(jobsPage.read) /\ Behind(jobsPage.jobs)
    BY <1>1, <1>4 DEF JobsInv
  <2>2. jobsPage.read \in Seq(JobRow) /\ jobsPage.jobs \in Seq(JobRow)
    BY <1>0, RejudgeRows
  <2> QED BY <1>0, <1>8, <2>1, <2>2, StaysBehind DEF Behind
<1> QED BY <1>4, <1>6, <1>7, <1>9 DEF JobsInv


-----------------------------------------------------------------------------
(* RejudgeJobs: the steps of a processor.                                  *)

LEMMA JobAt ==
    ASSUME JobsInv, NEW j \in Jobs
    PROVE  /\ rejudgeJobs[j] \in JobRow /\ processors[j] \in ProcessorRow
           /\ Matches(rejudgeJobs[j], processors[j]) /\ rejudgeFaults \in Nat
  BY RejudgeRows DEF JobsInv, RejudgeTypes

LEMMA MarkRunningStep ==
    ASSUME JobsInv, NEW j \in Jobs, MarkRunning(j)
    PROVE  JobsInv'
<1> DEFINE job == [rejudgeJobs[j] EXCEPT !.status = "RUNNING"]
           p == [processors[j] EXCEPT !.pc = "load"]
<1>1. /\ rejudgeJobs[j] \in JobRow /\ processors[j] \in ProcessorRow
      /\ Matches(rejudgeJobs[j], processors[j]) /\ rejudgeFaults \in Nat
  BY JobAt
<1>2. Processing(j, "mark", job, p) /\ rejudgeFaults' = rejudgeFaults
  BY DEF MarkRunning
<1>3. /\ job \in JobRow /\ job.status = "RUNNING" /\ job.done = rejudgeJobs[j].done
      /\ job.total = rejudgeJobs[j].total
  BY <1>1 DEF JobRow
<1>4. p = [pc |-> "load", rows |-> processors[j].rows, left |-> processors[j].left, done |-> processors[j].done,
           errors |-> processors[j].errors, sent |-> processors[j].sent, twice |-> processors[j].twice]
  BY <1>1 DEF ProcessorRow
<1>5. p \in ProcessorRow
  BY <1>1, <1>4 DEF ProcessorRow
<1>6. processors[j].pc = "mark"
  BY <1>2 DEF Processing
<1>7. Matches(job, p)
  BY <1>1, <1>3, <1>4, <1>6 DEF Matches, InLoop
<1>8. rejudgeJobs[j].done <= job.done
  BY <1>1, <1>3 DEF JobRow
<1> HIDE DEF job, p
<1> QED BY <1>1, <1>2, <1>3, <1>4, <1>5, <1>7, <1>8, ProcessKept

LEMMA LoadRowsStep ==
    ASSUME JobsInv, RejudgeAssumption, NEW j \in Jobs, LoadRows(j)
    PROVE  JobsInv'
<1> DEFINE found == Chosen(rejudgeJobs[j].only)
           job == IF found = {} THEN [rejudgeJobs[j] EXCEPT !.status = "DONE", !.errors = 1] ELSE rejudgeJobs[j]
           p == [processors[j] EXCEPT !.rows = found, !.left = found, !.pc = IF found = {} THEN "returned" ELSE "problem"]
<1>1. /\ rejudgeJobs[j] \in JobRow /\ processors[j] \in ProcessorRow
      /\ Matches(rejudgeJobs[j], processors[j]) /\ rejudgeFaults \in Nat
  BY JobAt
<1>2. Processing(j, "load", job, p) /\ rejudgeFaults' = rejudgeFaults
  BY DEF LoadRows
<1>3. found \in SUBSET AllSubmissions
  BY DEF Chosen, JobsInv, RejudgeTypes
<1> HIDE DEF found
<1>4. /\ job \in JobRow /\ job.done = rejudgeJobs[j].done /\ job.total = rejudgeJobs[j].total
      /\ job.status = IF found = {} THEN "DONE" ELSE rejudgeJobs[j].status
  BY <1>1 DEF JobRow
<1>5. p = [pc |-> IF found = {} THEN "returned" ELSE "problem", rows |-> found, left |-> found, done |-> processors[j].done,
           errors |-> processors[j].errors, sent |-> processors[j].sent, twice |-> processors[j].twice]
  <2>1. ASSUME NEW pc, NEW q, q = [processors[j] EXCEPT !.rows = found, !.left = found, !.pc = pc]
        PROVE  q = [pc |-> pc, rows |-> found, left |-> found, done |-> processors[j].done,
                    errors |-> processors[j].errors, sent |-> processors[j].sent, twice |-> processors[j].twice]
    BY <1>1, <2>1 DEF ProcessorRow
  <2> QED BY <2>1
<1>6. p \in ProcessorRow
  BY <1>1, <1>3, <1>5 DEF ProcessorRow
<1>7. processors[j].pc = "load"
  BY <1>2 DEF Processing
<1>8. /\ rejudgeJobs[j].status = "RUNNING" /\ processors[j].done = 0 /\ rejudgeJobs[j].done <= processors[j].done
      /\ processors[j].errors = 0 /\ processors[j].sent = 0 /\ processors[j].twice = 0
  BY <1>1, <1>7 DEF Matches
<1>9. job.done = 0
  BY <1>1, <1>4, <1>8 DEF JobRow
<1>10. Cardinality({}) = 0
  BY FS_EmptySet
<1>11. Matches(job, p)
  <2>1. CASE found = {}
    <3>1. p.pc = "returned" /\ p.rows = {} /\ p.left = {} /\ p.done = 0 /\ p.twice = 0 /\ p.sent = 0 /\ job.status = "DONE"
      BY <1>4, <1>5, <1>8, <2>1
    <3>2. Told(job, p)
      BY <1>9, <1>10, <3>1 DEF Told
    <3> QED BY <1>9, <3>1, <3>2 DEF Matches, InLoop
  <2>2. CASE found # {}
    <3>1. /\ p.pc = "problem" /\ p.rows = found /\ p.left = found /\ p.done = 0 /\ p.twice = 0 /\ p.sent = 0 /\ p.errors = 0
          /\ job.status = "RUNNING"
      BY <1>4, <1>5, <1>8, <2>2
    <3> QED BY <1>9, <2>2, <3>1 DEF Matches, InLoop
  <2> QED BY <2>1, <2>2
<1>12. rejudgeJobs[j].done <= job.done
  BY <1>1, <1>4 DEF JobRow
<1>13. p.pc # "thrown"
  BY <1>5
<1> HIDE DEF job, p
<1> QED BY <1>1, <1>2, <1>4, <1>6, <1>11, <1>12, <1>13, ProcessKept

LEMMA LoadProblemStep ==
    ASSUME JobsInv, NEW j \in Jobs, LoadProblem(j), RejudgeAssumption
    PROVE  JobsInv'
<1> DEFINE job == IF problemRow THEN rejudgeJobs[j] ELSE [rejudgeJobs[j] EXCEPT !.status = "FAILED", !.errors = 1]
           p == [processors[j] EXCEPT !.pc = IF problemRow THEN "reset" ELSE "returned"]
<1>1. /\ rejudgeJobs[j] \in JobRow /\ processors[j] \in ProcessorRow
      /\ Matches(rejudgeJobs[j], processors[j]) /\ rejudgeFaults \in Nat
  BY JobAt
<1>2. Processing(j, "problem", job, p) /\ rejudgeFaults' = rejudgeFaults
  BY DEF LoadProblem
<1>3. processors[j].pc = "problem"
  BY <1>2 DEF Processing
<1>4. /\ rejudgeJobs[j].status = "RUNNING" /\ processors[j].done = 0 /\ rejudgeJobs[j].done <= processors[j].done
      /\ processors[j].errors = 0 /\ processors[j].sent = 0 /\ processors[j].twice = 0
      /\ processors[j].left = processors[j].rows /\ processors[j].rows # {}
  BY <1>1, <1>3 DEF Matches
<1>5. rejudgeJobs[j].done = 0
  BY <1>1, <1>4 DEF JobRow
<1>6. Cardinality(processors[j].rows) \in Nat
  BY <1>1, Countable DEF ProcessorRow
<1>7. /\ job \in JobRow /\ job.done = 0 /\ job.total = rejudgeJobs[j].total
      /\ job.status = IF problemRow THEN "RUNNING" ELSE "FAILED"
  BY <1>1, <1>4, <1>5 DEF JobRow
<1>8. p = [pc |-> IF problemRow THEN "reset" ELSE "returned", rows |-> processors[j].rows, left |-> processors[j].rows,
           done |-> 0, errors |-> 0, sent |-> 0, twice |-> 0]
  BY <1>1, <1>4 DEF ProcessorRow
<1>9. p \in ProcessorRow
  BY <1>1, <1>8 DEF ProcessorRow, InLoop
<1>10. Matches(job, p)
  <2>1. CASE problemRow
    <3>1. /\ p.pc = "reset" /\ p.left = p.rows /\ p.rows # {} /\ p.done = 0 /\ p.errors = 0 /\ p.sent = 0 /\ p.twice = 0
          /\ Cardinality(p.rows) \in Nat /\ job.status = "RUNNING"
      BY <1>4, <1>6, <1>7, <1>8, <2>1
    <3> QED BY <1>7, <3>1 DEF Matches, InLoop
  <2>2. CASE ~problemRow
    <3>1. /\ p.pc = "returned" /\ p.left = p.rows /\ p.done = 0 /\ p.sent = 0 /\ p.twice = 0 /\ job.status = "FAILED"
      BY <1>4, <1>7, <1>8, <2>2
    <3>2. Told(job, p)
      BY <1>7, <3>1 DEF Told
    <3> QED BY <1>7, <3>1, <3>2 DEF Matches, InLoop
  <2> QED BY <2>1, <2>2
<1>11. p.pc # "thrown" /\ rejudgeJobs[j].done <= job.done
  BY <1>5, <1>7, <1>8
<1> HIDE DEF job, p
<1> QED BY <1>1, <1>2, <1>7, <1>9, <1>10, <1>11, ProcessKept

\* In the loop the row is RUNNING and each submission handled is counted.
LEMMA LoopAt ==
    ASSUME JobsInv, RejudgeAssumption, NEW j \in Jobs, processors[j].pc \in InLoop
    PROVE  LET row == rejudgeJobs[j]  at == processors[j] IN
           /\ row \in JobRow /\ row.status = "RUNNING" /\ row.done \in Nat /\ row.done <= at.done
           /\ at.left \subseteq at.rows /\ at.rows # {} /\ at.rows \in SUBSET AllSubmissions
           /\ at.done \in Nat /\ at.errors \in Nat /\ at.sent \in Nat /\ at.twice \in Nat
           /\ at.errors + at.sent = at.done
           /\ Cardinality(at.left) \in Nat /\ Cardinality(at.rows) \in Nat /\ Cardinality(at.rows) # 0
           /\ at.done + Cardinality(at.left) + (IF at.pc = "send" THEN 1 ELSE 0) = Cardinality(at.rows) + at.twice
           /\ at.pc = "finish" => at.left = {} /\ row.done = at.done
<1> DEFINE row == rejudgeJobs[j]
           at == processors[j]
<1>1. row \in JobRow /\ at \in ProcessorRow /\ Matches(row, at)
  BY JobAt
<1>2. /\ at.left \in SUBSET AllSubmissions /\ at.rows \in SUBSET AllSubmissions
      /\ at.done \in Nat /\ at.errors \in Nat /\ at.sent \in Nat /\ at.twice \in Nat /\ row.done \in Nat
  BY <1>1 DEF ProcessorRow, JobRow
<1>3. /\ row.status = "RUNNING" /\ row.done <= at.done /\ at.left \subseteq at.rows /\ at.rows # {}
      /\ at.errors + at.sent = at.done
      /\ at.done + Cardinality(at.left) + (IF at.pc = "send" THEN 1 ELSE 0) = Cardinality(at.rows) + at.twice
      /\ at.pc = "finish" => at.left = {} /\ row.done = at.done
  BY <1>1 DEF Matches
<1>4. Cardinality(at.left) \in Nat /\ Cardinality(at.rows) \in Nat /\ Cardinality(at.rows) # 0
  BY <1>2, <1>3, Countable
<1> QED BY <1>1, <1>2, <1>3, <1>4

\* A processor in the loop with counts that add up matches the row it is written beside.
LEMMA LoopMatches ==
    ASSUME NEW job \in JobRow, job.status = "RUNNING",
           NEW pc \in InLoop, NEW all \in SUBSET AllSubmissions, NEW left \in SUBSET all, all # {},
           NEW done \in Nat, NEW errors \in Nat, NEW handed \in Nat, NEW twice \in Nat,
           job.done <= done, errors + handed = done,
           done + Cardinality(left) + (IF pc = "send" THEN 1 ELSE 0) = Cardinality(all) + twice,
           pc = "finish" => left = {} /\ job.done = done,
           NEW p, p = [pc |-> pc, rows |-> all, left |-> left, done |-> done, errors |-> errors, sent |-> handed, twice |-> twice]
    PROVE  p \in ProcessorRow /\ Matches(job, p) /\ p.pc # "thrown"
<1>1. p \in ProcessorRow
  BY DEF ProcessorRow
<1>2. /\ p.pc = pc /\ p.rows = all /\ p.left = left /\ p.done = done /\ p.errors = errors /\ p.sent = handed /\ p.twice = twice
  OBVIOUS
<1>3. pc \in {"reset", "send", "count", "recount", "finish"}
  BY DEF InLoop
<1>4. Matches(job, p)
  BY <1>2, <1>3 DEF Matches, InLoop
<1> QED BY <1>1, <1>2, <1>3, <1>4

\* What the steps of the loop make of a processor.
LEMMA RowTaken ==
    ASSUME NEW at \in ProcessorRow, NEW s, NEW p, p = [at EXCEPT !.pc = "send", !.left = @ \ {s}]
    PROVE  p = [pc |-> "send", rows |-> at.rows, left |-> at.left \ {s}, done |-> at.done,
                errors |-> at.errors, sent |-> at.sent, twice |-> at.twice]
  BY DEF ProcessorRow

LEMMA RowRefused ==
    ASSUME NEW at \in ProcessorRow, NEW s, NEW p,
           p = [at EXCEPT !.pc = "recount", !.left = @ \ {s}, !.done = @ + 1, !.errors = @ + 1]
    PROVE  p = [pc |-> "recount", rows |-> at.rows, left |-> at.left \ {s}, done |-> at.done + 1,
                errors |-> at.errors + 1, sent |-> at.sent, twice |-> at.twice]
  BY DEF ProcessorRow

LEMMA RowAnswered ==
    ASSUME NEW at \in ProcessorRow, NEW p,
           p = [[at EXCEPT !.pc = "count", !.done = @ + 1] EXCEPT !.sent = @ + 1]
    PROVE  p = [pc |-> "count", rows |-> at.rows, left |-> at.left, done |-> at.done + 1,
                errors |-> at.errors, sent |-> at.sent + 1, twice |-> at.twice]
  BY DEF ProcessorRow

LEMMA RowFailed ==
    ASSUME NEW at \in ProcessorRow, NEW p,
           p = [[at EXCEPT !.pc = "count", !.done = @ + 1] EXCEPT !.errors = @ + 1]
    PROVE  p = [pc |-> "count", rows |-> at.rows, left |-> at.left, done |-> at.done + 1,
                errors |-> at.errors + 1, sent |-> at.sent, twice |-> at.twice]
  BY DEF ProcessorRow

LEMMA CountLost ==
    ASSUME NEW at \in ProcessorRow, NEW p,
           p = [at EXCEPT !.pc = "recount", !.done = @ + 1, !.errors = @ + 1, !.twice = @ + 1]
    PROVE  p = [pc |-> "recount", rows |-> at.rows, left |-> at.left, done |-> at.done + 1,
                errors |-> at.errors + 1, sent |-> at.sent, twice |-> at.twice + 1]
  BY DEF ProcessorRow

LEMMA PcMoved ==
    ASSUME NEW at \in ProcessorRow, NEW pc, NEW p, p = [at EXCEPT !.pc = pc]
    PROVE  p = [pc |-> pc, rows |-> at.rows, left |-> at.left, done |-> at.done,
                errors |-> at.errors, sent |-> at.sent, twice |-> at.twice]
  BY DEF ProcessorRow

LEMMA ResetRowStep ==
    ASSUME JobsInv, RejudgeAssumption, NEW j \in Jobs, NEW s, ResetRow(j, s)
    PROVE  JobsInv'
<1> DEFINE row == rejudgeJobs[j]
           at == processors[j]
           thrown == [at EXCEPT !.pc = "recount", !.left = @ \ {s}, !.done = @ + 1, !.errors = @ + 1]
           reset == [at EXCEPT !.pc = "send", !.left = @ \ {s}]
<1>1. /\ s \in at.left
      /\ \/ Processing(j, "reset", row, reset) /\ rejudgeFaults' = rejudgeFaults
         \/ Processing(j, "reset", row, thrown) /\ rejudgeFaults' = rejudgeFaults
         \/ Processing(j, "reset", row, thrown) /\ rejudgeFaults' = rejudgeFaults + 1
  BY DEF ResetRow, Disturbed
<1>2. at.pc = "reset" /\ at.pc \in InLoop
  BY <1>1 DEF Processing, InLoop
<1>3. at \in ProcessorRow /\ rejudgeFaults \in Nat
  BY JobAt
<1>4. /\ row \in JobRow /\ row.status = "RUNNING" /\ row.done \in Nat /\ row.done <= at.done
      /\ at.left \subseteq at.rows /\ at.rows # {} /\ at.rows \in SUBSET AllSubmissions
      /\ at.done \in Nat /\ at.errors \in Nat /\ at.sent \in Nat /\ at.twice \in Nat
      /\ at.errors + at.sent = at.done
      /\ Cardinality(at.left) \in Nat /\ Cardinality(at.rows) \in Nat
      /\ at.done + Cardinality(at.left) = Cardinality(at.rows) + at.twice
  BY <1>2, LoopAt
<1>5. Cardinality(at.left \ {s}) = Cardinality(at.left) - 1
  BY <1>1, <1>4, Countable
<1>6. reset = [pc |-> "send", rows |-> at.rows, left |-> at.left \ {s}, done |-> at.done,
               errors |-> at.errors, sent |-> at.sent, twice |-> at.twice]
  BY <1>3, RowTaken
<1>7. thrown = [pc |-> "recount", rows |-> at.rows, left |-> at.left \ {s}, done |-> at.done + 1,
                errors |-> at.errors + 1, sent |-> at.sent, twice |-> at.twice]
  BY <1>3, RowRefused
<1> HIDE DEF reset, thrown
<1>8. /\ at.done + 1 \in Nat /\ at.errors + 1 \in Nat /\ row.done <= at.done + 1
      /\ at.errors + 1 + at.sent = at.done + 1
      /\ at.left \ {s} \in SUBSET at.rows /\ "send" \in InLoop /\ "recount" \in InLoop
      /\ at.done + Cardinality(at.left \ {s}) + 1 = Cardinality(at.rows) + at.twice
      /\ at.done + 1 + Cardinality(at.left \ {s}) = Cardinality(at.rows) + at.twice
  BY <1>4, <1>5 DEF InLoop
<1>9. reset \in ProcessorRow /\ Matches(row, reset) /\ reset.pc # "thrown"
  BY <1>4, <1>6, <1>8, LoopMatches
<1>10. thrown \in ProcessorRow /\ Matches(row, thrown) /\ thrown.pc # "thrown"
  <2>1. at.done + 1 + Cardinality(at.left \ {s}) + (IF "recount" = "send" THEN 1 ELSE 0) = Cardinality(at.rows) + at.twice
    BY <1>4, <1>5
  <2> QED BY <1>4, <1>7, <1>8, <2>1, LoopMatches
<1>11. CASE Processing(j, "reset", row, reset) /\ rejudgeFaults' = rejudgeFaults
  BY <1>3, <1>4, <1>9, <1>11, ProcessKept
<1>12. CASE Processing(j, "reset", row, thrown) /\ rejudgeFaults' = rejudgeFaults
  BY <1>3, <1>4, <1>10, <1>12, ProcessKept
<1>13. CASE Processing(j, "reset", row, thrown) /\ rejudgeFaults' = rejudgeFaults + 1
  BY <1>3, <1>4, <1>10, <1>13, ProcessKept
<1> QED BY <1>1, <1>11, <1>12, <1>13

LEMMA SendRowStep ==
    ASSUME JobsInv, RejudgeAssumption, NEW j \in Jobs, SendRow(j)
    PROVE  JobsInv'
<1> DEFINE row == rejudgeJobs[j]
           at == processors[j]
           answered == [[at EXCEPT !.pc = "count", !.done = @ + 1] EXCEPT !.sent = @ + 1]
           failed == [[at EXCEPT !.pc = "count", !.done = @ + 1] EXCEPT !.errors = @ + 1]
<1>1. \/ Processing(j, "send", row, answered) /\ rejudgeFaults' = rejudgeFaults
      \/ Processing(j, "send", row, failed) /\ rejudgeFaults' = rejudgeFaults + 1
  BY DEF SendRow, Disturbed
<1>2. at.pc = "send" /\ at.pc \in InLoop
  BY <1>1 DEF Processing, InLoop
<1>3. at \in ProcessorRow /\ rejudgeFaults \in Nat
  BY JobAt
<1>4. /\ row \in JobRow /\ row.status = "RUNNING" /\ row.done \in Nat /\ row.done <= at.done
      /\ at.left \subseteq at.rows /\ at.rows # {} /\ at.rows \in SUBSET AllSubmissions
      /\ at.done \in Nat /\ at.errors \in Nat /\ at.sent \in Nat /\ at.twice \in Nat
      /\ at.errors + at.sent = at.done
      /\ Cardinality(at.left) \in Nat /\ Cardinality(at.rows) \in Nat
      /\ at.done + Cardinality(at.left) + 1 = Cardinality(at.rows) + at.twice
  BY <1>2, LoopAt
<1>5. answered = [pc |-> "count", rows |-> at.rows, left |-> at.left, done |-> at.done + 1,
                  errors |-> at.errors, sent |-> at.sent + 1, twice |-> at.twice]
  BY <1>3, RowAnswered
<1>6. failed = [pc |-> "count", rows |-> at.rows, left |-> at.left, done |-> at.done + 1,
                errors |-> at.errors + 1, sent |-> at.sent, twice |-> at.twice]
  BY <1>3, RowFailed
<1> HIDE DEF answered, failed
<1>7. /\ at.done + 1 \in Nat /\ at.errors + 1 \in Nat /\ at.sent + 1 \in Nat /\ row.done <= at.done + 1
      /\ at.errors + 1 + at.sent = at.done + 1 /\ at.errors + (at.sent + 1) = at.done + 1 /\ "count" \in InLoop
      /\ at.done + 1 + Cardinality(at.left) + (IF "count" = "send" THEN 1 ELSE 0) = Cardinality(at.rows) + at.twice
  BY <1>4 DEF InLoop
<1>8. answered \in ProcessorRow /\ Matches(row, answered) /\ answered.pc # "thrown"
  BY <1>4, <1>5, <1>7, LoopMatches
<1>9. failed \in ProcessorRow /\ Matches(row, failed) /\ failed.pc # "thrown"
  BY <1>4, <1>6, <1>7, LoopMatches
<1>10. CASE Processing(j, "send", row, answered) /\ rejudgeFaults' = rejudgeFaults
  BY <1>3, <1>4, <1>8, <1>10, ProcessKept
<1>11. CASE Processing(j, "send", row, failed) /\ rejudgeFaults' = rejudgeFaults + 1
  BY <1>3, <1>4, <1>9, <1>11, ProcessKept
<1> QED BY <1>1, <1>10, <1>11

\* The row with another count, and the processor after it.
LEMMA CountWritten ==
    ASSUME JobsInv, RejudgeAssumption, NEW j \in Jobs, NEW from \in {"count", "recount"}, rejudgeFaults' = rejudgeFaults,
           Processing(j, from, [rejudgeJobs[j] EXCEPT !.done = processors[j].done],
                               [processors[j] EXCEPT !.pc = NextRow(processors[j])])
    PROVE  JobsInv'
<1> DEFINE row == rejudgeJobs[j]
           at == processors[j]
           job == [row EXCEPT !.done = at.done]
           p == [at EXCEPT !.pc = NextRow(at)]
<1>1. at.pc = from /\ at.pc \in InLoop /\ at.pc # "send"
  BY DEF Processing, InLoop
<1>2. at \in ProcessorRow /\ rejudgeFaults \in Nat
  BY JobAt
<1>3. /\ row \in JobRow /\ row.status = "RUNNING" /\ row.done \in Nat /\ row.done <= at.done
      /\ at.left \subseteq at.rows /\ at.rows # {} /\ at.rows \in SUBSET AllSubmissions
      /\ at.done \in Nat /\ at.errors \in Nat /\ at.sent \in Nat /\ at.twice \in Nat
      /\ at.errors + at.sent = at.done
      /\ Cardinality(at.left) \in Nat /\ Cardinality(at.rows) \in Nat
      /\ at.done + Cardinality(at.left) = Cardinality(at.rows) + at.twice
  BY <1>1, LoopAt
<1>4. job \in JobRow /\ job.status = "RUNNING" /\ job.done = at.done /\ job.total = row.total
  BY <1>3 DEF JobRow
<1>5. p = [pc |-> NextRow(at), rows |-> at.rows, left |-> at.left, done |-> at.done,
           errors |-> at.errors, sent |-> at.sent, twice |-> at.twice]
  BY <1>2, PcMoved
<1>6. NextRow(at) \in InLoop /\ NextRow(at) # "send" /\ (NextRow(at) = "finish" => at.left = {})
  BY DEF NextRow, InLoop
<1>7. at.done + Cardinality(at.left) + (IF NextRow(at) = "send" THEN 1 ELSE 0) = Cardinality(at.rows) + at.twice
  BY <1>3, <1>6
<1>8. job.done <= at.done /\ at.left \in SUBSET at.rows /\ (NextRow(at) = "finish" => at.left = {} /\ job.done = at.done)
  BY <1>3, <1>4, <1>6
<1> DEFINE next == NextRow(at)
<1> HIDE DEF job, p, next, at, row
<1>9. p \in ProcessorRow /\ Matches(job, p) /\ p.pc # "thrown"
  <2>1. /\ next \in InLoop /\ (next = "finish" => at.left = {} /\ job.done = at.done)
        /\ at.done + Cardinality(at.left) + (IF next = "send" THEN 1 ELSE 0) = Cardinality(at.rows) + at.twice
        /\ p = [pc |-> next, rows |-> at.rows, left |-> at.left, done |-> at.done,
                errors |-> at.errors, sent |-> at.sent, twice |-> at.twice]
    BY <1>5, <1>6, <1>7, <1>8 DEF next
  <2>2. /\ job \in JobRow /\ job.status = "RUNNING" /\ job.done <= at.done
        /\ at.rows \in SUBSET AllSubmissions /\ at.left \in SUBSET at.rows /\ at.rows # {}
        /\ at.done \in Nat /\ at.errors \in Nat /\ at.sent \in Nat /\ at.twice \in Nat /\ at.errors + at.sent = at.done
    BY <1>3, <1>4, <1>8
  <2> QED BY <2>1, <2>2, LoopMatches
<1>10. Processing(j, from, job, p)
  BY DEF job, p, row, at
<1>11. row.done <= job.done
  BY <1>3, <1>4
<1> QED BY <1>2, <1>4, <1>9, <1>10, <1>11, ProcessKept DEF row

LEMMA CountDoneStep ==
    ASSUME JobsInv, RejudgeAssumption, NEW j \in Jobs, CountDone(j)
    PROVE  JobsInv'
<1> DEFINE row == rejudgeJobs[j]
           at == processors[j]
           uncounted == [at EXCEPT !.pc = "recount", !.done = @ + 1, !.errors = @ + 1, !.twice = @ + 1]
<1>1. \/ /\ Processing(j, "count", [row EXCEPT !.done = at.done], [at EXCEPT !.pc = NextRow(at)])
         /\ rejudgeFaults' = rejudgeFaults
      \/ Processing(j, "count", row, uncounted) /\ rejudgeFaults' = rejudgeFaults + 1
  BY DEF CountDone, Disturbed
<1>2. CASE Processing(j, "count", row, uncounted) /\ rejudgeFaults' = rejudgeFaults + 1
  <2>1. at.pc = "count" /\ at.pc \in InLoop
    BY <1>2 DEF Processing, InLoop
  <2>2. at \in ProcessorRow /\ rejudgeFaults \in Nat
    BY JobAt
  <2>3. /\ row \in JobRow /\ row.status = "RUNNING" /\ row.done \in Nat /\ row.done <= at.done
        /\ at.left \subseteq at.rows /\ at.rows # {} /\ at.rows \in SUBSET AllSubmissions
        /\ at.done \in Nat /\ at.errors \in Nat /\ at.sent \in Nat /\ at.twice \in Nat
        /\ at.errors + at.sent = at.done
        /\ Cardinality(at.left) \in Nat /\ Cardinality(at.rows) \in Nat
        /\ at.done + Cardinality(at.left) = Cardinality(at.rows) + at.twice
    BY <2>1, LoopAt
  <2>4. uncounted = [pc |-> "recount", rows |-> at.rows, left |-> at.left, done |-> at.done + 1,
                errors |-> at.errors + 1, sent |-> at.sent, twice |-> at.twice + 1]
    BY <2>2, CountLost
  <2> HIDE DEF uncounted
  <2>5. /\ at.done + 1 \in Nat /\ at.errors + 1 \in Nat /\ at.twice + 1 \in Nat /\ row.done <= at.done + 1
        /\ at.errors + 1 + at.sent = at.done + 1 /\ "recount" \in InLoop
        /\ at.done + 1 + Cardinality(at.left) + (IF "recount" = "send" THEN 1 ELSE 0) = Cardinality(at.rows) + (at.twice + 1)
    BY <2>3 DEF InLoop
  <2>6. uncounted \in ProcessorRow /\ Matches(row, uncounted) /\ uncounted.pc # "thrown"
    BY <2>3, <2>4, <2>5, LoopMatches
  <2> QED BY <1>2, <2>2, <2>3, <2>6, ProcessKept
<1>3. CASE /\ Processing(j, "count", [row EXCEPT !.done = at.done], [at EXCEPT !.pc = NextRow(at)])
           /\ rejudgeFaults' = rejudgeFaults
  BY <1>3, CountWritten
<1> QED BY <1>1, <1>2, <1>3

LEMMA RecountDoneStep ==
    ASSUME JobsInv, RejudgeAssumption, NEW j \in Jobs, RecountDone(j)
    PROVE  JobsInv'
  BY CountWritten DEF RecountDone

LEMMA FinishJobStep ==
    ASSUME JobsInv, RejudgeAssumption, NEW j \in Jobs, FinishJob(j)
    PROVE  JobsInv'
<1> DEFINE row == rejudgeJobs[j]
           at == processors[j]
           job == [row EXCEPT !.status = FinalStatusOf(at), !.errors = at.errors]
           p == [at EXCEPT !.pc = "returned"]
<1>1. Processing(j, "finish", job, p) /\ rejudgeFaults' = rejudgeFaults
  BY DEF FinishJob
<1>2. at.pc = "finish" /\ at.pc \in InLoop
  BY <1>1 DEF Processing, InLoop
<1>3. at \in ProcessorRow /\ rejudgeFaults \in Nat
  BY JobAt
<1>4. /\ row \in JobRow /\ row.done \in Nat /\ row.done = at.done /\ at.left = {}
      /\ at.rows # {} /\ at.rows \in SUBSET AllSubmissions
      /\ at.done \in Nat /\ at.errors \in Nat /\ at.sent \in Nat /\ at.twice \in Nat
      /\ at.errors + at.sent = at.done
      /\ Cardinality(at.rows) \in Nat /\ Cardinality(at.left) \in Nat
      /\ at.done + Cardinality(at.left) = Cardinality(at.rows) + at.twice
  BY <1>2, LoopAt
<1>5. Cardinality(at.left) = 0
  BY <1>4, FS_EmptySet
<1>6. at.done = Cardinality(at.rows) + at.twice
  BY <1>4, <1>5
<1>7. FinalStatusOf(at) \in {"DONE", "FAILED"}
  BY DEF FinalStatusOf
<1>8. at.twice = 0 => (FinalStatusOf(at) = "FAILED" <=> at.sent = 0)
  BY <1>4, <1>6 DEF FinalStatusOf
<1>9. job \in JobRow /\ job.status = FinalStatusOf(at) /\ job.done = at.done /\ job.total = row.total
  BY <1>4, <1>7 DEF JobRow
<1>10. p = [pc |-> "returned", rows |-> at.rows, left |-> at.left, done |-> at.done,
            errors |-> at.errors, sent |-> at.sent, twice |-> at.twice]
  BY <1>3, PcMoved
<1>11. p \in ProcessorRow
  BY <1>4, <1>10 DEF ProcessorRow
<1> HIDE DEF job, p
<1>12. Told(job, p)
  BY <1>6, <1>7, <1>8, <1>9, <1>10 DEF Told
<1>13. Matches(job, p)
  BY <1>4, <1>9, <1>10, <1>12 DEF Matches, InLoop
<1>14. p.pc # "thrown" /\ row.done <= job.done
  BY <1>4, <1>9, <1>10
<1> QED BY <1>1, <1>3, <1>9, <1>11, <1>13, <1>14, ProcessKept

\* A processor that throws leaves a row that does not say it is over.
LEMMA ThrownMatches ==
    ASSUME JobsInv, NEW j \in Jobs, processors[j].pc \notin {"returned", "thrown"},
           NEW p, p = [processors[j] EXCEPT !.pc = "thrown"]
    PROVE  p \in ProcessorRow /\ Matches(rejudgeJobs[j], p)
<1> DEFINE at == processors[j]
<1>1. at \in ProcessorRow /\ Matches(rejudgeJobs[j], at)
  BY JobAt
<1>2. p = [pc |-> "thrown", rows |-> at.rows, left |-> at.left, done |-> at.done,
           errors |-> at.errors, sent |-> at.sent, twice |-> at.twice]
  BY <1>1, PcMoved
<1>3. p \in ProcessorRow
  BY <1>1, <1>2 DEF ProcessorRow
<1>4. at.pc \in {"mark", "load", "problem"} \union InLoop
  BY <1>1 DEF ProcessorRow
<1>5. rejudgeJobs[j].status \in {"PENDING", "RUNNING"} /\ at.left \subseteq at.rows /\ rejudgeJobs[j].done <= at.done
  BY <1>1, <1>4 DEF Matches
<1>6. Matches(rejudgeJobs[j], p)
  BY <1>2, <1>5 DEF Matches, InLoop
<1> QED BY <1>3, <1>6

LEMMA FailStatementStep ==
    ASSUME JobsInv, NEW j \in Jobs, FailStatement(j)
    PROVE  JobsInv'
<1>1. /\ rejudgeJobs[j] \in JobRow /\ rejudgeFaults \in Nat
  BY JobAt
<1>2. PICK at \in {"mark", "load", "problem", "recount", "finish"} :
         Processing(j, at, rejudgeJobs[j], [processors[j] EXCEPT !.pc = "thrown"])
  BY DEF FailStatement
<1>3. processors[j].pc = at /\ rejudgeFaults' = rejudgeFaults + 1
  BY <1>2 DEF FailStatement, Disturbed, Processing
<1> DEFINE p == [processors[j] EXCEPT !.pc = "thrown"]
<1>4. p \in ProcessorRow /\ Matches(rejudgeJobs[j], p)
  BY <1>3, ThrownMatches
<1> HIDE DEF p
<1>5. rejudgeJobs[j].done <= rejudgeJobs[j].done
  BY <1>1 DEF JobRow
<1>6. Processing(j, at, rejudgeJobs[j], p)
  BY <1>2 DEF p
<1> QED BY <1>1, <1>3, <1>4, <1>5, <1>6, ProcessKept

-----------------------------------------------------------------------------
(* RejudgeJobs: the other steps.                                           *)

\* A step that changes neither the jobs nor what was read of them.
LEMMA JobsUntouched ==
    ASSUME JobsInv, UNCHANGED <<rejudgeJobs, processors, jobsPage, rejudgeFaults>>,
           problemRow' \in BOOLEAN, rowsThere' \subseteq AllSubmissions, asked' \in [Buttons -> Asks]
    PROVE  JobsInv'
<1>1. RejudgeTypes'
  BY DEF JobsInv, RejudgeTypes
<1>2. Jobs' = Jobs
  BY DEF Jobs
<1> QED BY <1>1, <1>2 DEF JobsInv, Behind

LEMMA PressRejudgeStep ==
    ASSUME JobsInv, NEW b \in Buttons, NEW only \in FirstRows \union {AllRows}, PressRejudge(b, only)
    PROVE  JobsInv'
<1>1. [pc |-> "find", only |-> only] \in Asks
  BY DEF Asks, Targets
<1>2. asked' \in [Buttons -> Asks]
  BY <1>1 DEF PressRejudge, JobsInv, RejudgeTypes
<1> QED BY <1>2, JobsUntouched DEF PressRejudge, JobsInv, RejudgeTypes

LEMMA CountRowsStep ==
    ASSUME JobsInv, RejudgeAssumption, NEW b \in Buttons, CountRows(b)
    PROVE  JobsInv'
<1> DEFINE counted == Chosen(asked[b].only)
           create == [pc |-> "create", only |-> asked[b].only, total |-> Cardinality(counted)]
<1>1. /\ asked \in [Buttons -> Asks] /\ rowsThere \subseteq AllSubmissions /\ problemRow \in BOOLEAN
      /\ asked[b].pc = "find"
      /\ asked' = [asked EXCEPT ![b] = IF counted = {} THEN NotAsked ELSE create]
  BY DEF CountRows, JobsInv, RejudgeTypes
<1>2. asked[b] \in Asks
  BY <1>1
<1>3. asked[b].only \in Targets
  BY <1>1, <1>2 DEF Asks, NotAsked
<1>4. Cardinality(counted) \in Nat
  BY <1>1, Countable DEF Chosen
<1>5. create \in Asks /\ NotAsked \in Asks
  BY <1>3, <1>4 DEF Asks
<1>6. asked' \in [Buttons -> Asks]
  BY <1>1, <1>5
<1> QED BY <1>1, <1>6, JobsUntouched DEF CountRows

LEMMA PostRowStep ==
    ASSUME JobsInv, NEW s \in LaterRows, PostRow(s)
    PROVE  JobsInv'
<1>1. rowsThere' \subseteq AllSubmissions /\ problemRow' \in BOOLEAN /\ asked' \in [Buttons -> Asks]
  BY DEF PostRow, JobsInv, RejudgeTypes, AllSubmissions, asking
<1> QED BY <1>1, JobsUntouched DEF PostRow, asking

LEMMA RemoveProblemStep ==
    ASSUME JobsInv, RemoveProblem
    PROVE  JobsInv'
<1>1. rowsThere' \subseteq AllSubmissions /\ problemRow' \in BOOLEAN /\ asked' \in [Buttons -> Asks]
  BY DEF RemoveProblem, JobsInv, RejudgeTypes, asking
<1> QED BY <1>1, JobsUntouched DEF RemoveProblem, asking

\* A new job starts at nothing, and no page knows it.
LEMMA CreateJobStep ==
    ASSUME JobsInv, NEW b \in Buttons, CreateJob(b)
    PROVE  JobsInv'
<1> DEFINE job == [status |-> "PENDING", only |-> asked[b].only, total |-> asked[b].total, done |-> 0, errors |-> 0]
           p == [pc |-> "mark", rows |-> {}, left |-> {}, done |-> 0, errors |-> 0, sent |-> 0, twice |-> 0]
           n == Len(rejudgeJobs)
<1>1. /\ RejudgeTypes /\ asked \in [Buttons -> Asks] /\ asked[b].pc = "create"
      /\ rejudgeJobs' = Append(rejudgeJobs, job) /\ processors' = Append(processors, p)
      /\ asked' = [asked EXCEPT ![b] = NotAsked] /\ UNCHANGED <<problemRow, rowsThere, jobsPage, rejudgeFaults>>
      /\ rejudgeJobs \in Seq(JobRow) /\ processors \in Seq(ProcessorRow) /\ Len(processors) = n
  BY DEF CreateJob, JobsInv, RejudgeTypes
<1>2. asked[b] \in Asks
  BY <1>1
<1>3. asked[b].only \in Targets /\ asked[b].total \in Nat
  BY <1>1, <1>2 DEF Asks, NotAsked
<1>4. job \in JobRow /\ p \in ProcessorRow
  BY <1>3 DEF JobRow, ProcessorRow, Targets
<1>5. Matches(job, p) /\ p.pc # "thrown"
  BY DEF Matches, InLoop
<1> HIDE DEF job, p
<1>6. /\ rejudgeJobs' \in Seq(JobRow) /\ Len(rejudgeJobs') = n + 1
      /\ \A j \in 1..n : rejudgeJobs'[j] = rejudgeJobs[j]
      /\ rejudgeJobs'[n + 1] = job
  BY <1>1, <1>4, AppendProperties
<1>7. /\ processors' \in Seq(ProcessorRow) /\ Len(processors') = n + 1
      /\ \A j \in 1..n : processors'[j] = processors[j]
      /\ processors'[n + 1] = p
  BY <1>1, <1>4, AppendProperties
<1>8. Jobs = 1..n /\ n \in Nat /\ Jobs' = 1..(n + 1)
  BY <1>1, <1>6, RejudgeRows, LenProperties DEF Jobs
<1>9. NotAsked \in Asks
  BY DEF Asks
<1>10. RejudgeTypes'
  BY <1>1, <1>6, <1>7, <1>9 DEF RejudgeTypes
<1>11. ASSUME NEW j \in Jobs'
       PROVE  /\ Matches(rejudgeJobs'[j], processors'[j])
              /\ processors'[j].pc = "thrown" => rejudgeFaults' > 0
  <2>1. CASE j \in 1..n
    BY <1>1, <1>6, <1>7, <1>8, <2>1 DEF JobsInv
  <2>2. CASE j = n + 1
    BY <1>5, <1>6, <1>7, <2>2
  <2> QED BY <1>8, <2>1, <2>2
<1>12. ASSUME NEW j \in Jobs
       PROVE  /\ rejudgeJobs'[j].done \in Nat
              /\ rejudgeJobs[j].done <= rejudgeJobs'[j].done /\ rejudgeJobs'[j].total = rejudgeJobs[j].total
              /\ rejudgeJobs[j].status \in {"DONE", "FAILED"} => rejudgeJobs'[j] = rejudgeJobs[j]
  BY <1>1, <1>6, <1>8, RejudgeRows DEF JobRow
<1>13. Behind(jobsPage.read)' /\ Behind(jobsPage.jobs)'
  <2>1. Jobs \subseteq Jobs' /\ jobsPage' = jobsPage /\ Behind(jobsPage.read) /\ Behind(jobsPage.jobs)
    BY <1>1, <1>8 DEF JobsInv
  <2>2. jobsPage.read \in Seq(JobRow) /\ jobsPage.jobs \in Seq(JobRow)
    BY <1>1, RejudgeRows
  <2>3. ASSUME NEW rs \in Seq(JobRow), Behind(rs)
        PROVE  \A j \in DOMAIN rs : /\ j \in Jobs' /\ rs[j].done <= rejudgeJobs'[j].done /\ rs[j].total = rejudgeJobs'[j].total
                                    /\ rs[j].status \in {"DONE", "FAILED"} => rs[j] = rejudgeJobs'[j]
    BY <1>1, <1>12, <2>1, <2>3, StaysBehind
  <2> QED BY <2>1, <2>2, <2>3 DEF Behind
<1> QED BY <1>10, <1>11, <1>13 DEF JobsInv

\* A step that changes the page alone: what it holds was read before, or is the rows themselves.
LEMMA PageTurned ==
    ASSUME JobsInv, UNCHANGED <<problemRow, rowsThere, asked, rejudgeJobs, processors, rejudgeFaults>>,
           jobsPage' \in PageRow, Behind(jobsPage'.read), Behind(jobsPage'.jobs)
    PROVE  JobsInv'
<1>1. RejudgeTypes'
  BY DEF JobsInv, RejudgeTypes
<1>2. Jobs' = Jobs
  BY DEF Jobs
<1> QED BY <1>1, <1>2 DEF JobsInv, Behind

LEMMA NowBehind ==
    ASSUME RejudgeTypes
    PROVE  Behind(rejudgeJobs) /\ Behind(<<>>) /\ <<>> \in Seq(JobRow)
<1>1. Behind(rejudgeJobs)
  BY RejudgeRows DEF Behind, JobRow, Jobs
<1>2. DOMAIN <<>> = {} /\ <<>> \in Seq(JobRow)
  BY EmptySeq, LenProperties
<1> QED BY <1>1, <1>2 DEF Behind

LEMMA ListJobsStep ==
    ASSUME JobsInv, ListJobs
    PROVE  JobsInv'
<1>1. /\ jobsPage \in PageRow /\ rejudgeJobs \in Seq(JobRow) /\ Behind(rejudgeJobs) /\ Behind(jobsPage.jobs)
  BY NowBehind DEF JobsInv, RejudgeTypes
<1>2. /\ jobsPage' = [jobsPage EXCEPT !.pc = "answered", !.read = rejudgeJobs]
      /\ UNCHANGED <<problemRow, rowsThere, asked, rejudgeJobs, processors, rejudgeFaults>>
  BY DEF ListJobs
<1>3. jobsPage' \in PageRow /\ jobsPage'.read = rejudgeJobs /\ jobsPage'.jobs = jobsPage.jobs
  BY <1>1, <1>2 DEF PageRow
<1> QED BY <1>1, <1>2, <1>3, PageTurned

LEMMA TurnJobsPageStep ==
    ASSUME JobsInv, TurnJobsPage
    PROVE  JobsInv'
<1>1. /\ jobsPage \in PageRow /\ Behind(jobsPage.read) /\ Behind(jobsPage.jobs)
      /\ Behind(<<>>) /\ <<>> \in Seq(JobRow)
  BY NowBehind DEF JobsInv, RejudgeTypes
<1>2. /\ jobsPage' = CASE jobsPage.pc = "closed" -> [jobsPage EXCEPT !.pc = "loading"]
                       [] jobsPage.pc = "answered" -> [pc |-> "shown", read |-> <<>>, jobs |-> jobsPage.read]
                       [] jobsPage.pc = "shown" -> [jobsPage EXCEPT !.pc = "closed", !.jobs = <<>>]
                       [] OTHER -> jobsPage
      /\ UNCHANGED <<problemRow, rowsThere, asked, rejudgeJobs, processors, rejudgeFaults>>
  BY DEF TurnJobsPage
<1>3. CASE jobsPage.pc = "closed"
  <2>1. jobsPage' = [jobsPage EXCEPT !.pc = "loading"]
    BY <1>2, <1>3
  <2>2. jobsPage' \in PageRow /\ jobsPage'.read = jobsPage.read /\ jobsPage'.jobs = jobsPage.jobs
    BY <1>1, <2>1 DEF PageRow
  <2> QED BY <1>1, <1>2, <2>2, PageTurned
<1>4. CASE jobsPage.pc = "answered"
  <2>1. jobsPage' = [pc |-> "shown", read |-> <<>>, jobs |-> jobsPage.read]
    BY <1>2, <1>4
  <2>2. jobsPage' \in PageRow /\ jobsPage'.read = <<>> /\ jobsPage'.jobs = jobsPage.read
    BY <1>1, <2>1 DEF PageRow
  <2> QED BY <1>1, <1>2, <2>2, PageTurned
<1>5. CASE jobsPage.pc = "shown"
  <2>1. jobsPage' = [jobsPage EXCEPT !.pc = "closed", !.jobs = <<>>]
    BY <1>2, <1>5
  <2>2. jobsPage' \in PageRow /\ jobsPage'.read = jobsPage.read /\ jobsPage'.jobs = <<>>
    BY <1>1, <2>1 DEF PageRow
  <2> QED BY <1>1, <1>2, <2>2, PageTurned
<1>6. CASE jobsPage.pc \notin {"closed", "answered", "shown"}
  <2>1. jobsPage' = jobsPage
    BY <1>2, <1>6
  <2> QED BY <1>1, <1>2, <2>1, PageTurned
<1> QED BY <1>3, <1>4, <1>5, <1>6

\* A restart throws in every processor that runs: the fault is on record.
LEMMA RestartRejudgingStep ==
    ASSUME JobsInv, RestartRejudging
    PROVE  JobsInv'
<1>1. /\ RejudgeTypes /\ rejudgeJobs \in Seq(JobRow) /\ processors \in Seq(ProcessorRow)
      /\ Len(processors) = Len(rejudgeJobs) /\ jobsPage \in PageRow /\ rejudgeFaults \in Nat
      /\ rejudgeFaults' = rejudgeFaults + 1 /\ UNCHANGED <<problemRow, rowsThere, rejudgeJobs>>
      /\ processors' = [j \in Jobs |-> IF j \in Running THEN [processors[j] EXCEPT !.pc = "thrown"] ELSE processors[j]]
      /\ asked' = [b \in Buttons |-> NotAsked]
      /\ jobsPage' = IF jobsPage.pc = "loading" THEN [jobsPage EXCEPT !.pc = "shown"] ELSE jobsPage
  BY DEF JobsInv, RejudgeTypes, RestartRejudging, Disturbed
<1>2. /\ Jobs = 1..Len(rejudgeJobs) /\ Len(rejudgeJobs) \in Nat
      /\ \A j \in Jobs : rejudgeJobs[j] \in JobRow /\ processors[j] \in ProcessorRow
  BY <1>1, RejudgeRows
<1>3. Jobs' = Jobs
  BY <1>1 DEF Jobs
<1>4. ASSUME NEW j \in Jobs
      PROVE  processors'[j] \in ProcessorRow /\ Matches(rejudgeJobs[j], processors'[j])
  <2>1. CASE j \in Running
    <3>1. processors'[j] = [processors[j] EXCEPT !.pc = "thrown"] /\ processors[j].pc \notin {"returned", "thrown"}
      BY <1>1, <2>1 DEF Running
    <3> QED BY <3>1, ThrownMatches
  <2>2. CASE j \notin Running
    <3>1. processors'[j] = processors[j]
      BY <1>1, <2>2
    <3> QED BY <1>2, <3>1 DEF JobsInv
  <2> QED BY <2>1, <2>2
<1>5. processors' \in [1..Len(rejudgeJobs) -> ProcessorRow]
  BY <1>1, <1>2, <1>4
<1>6. processors' \in Seq(ProcessorRow) /\ Len(processors') = Len(rejudgeJobs)
  BY <1>2, <1>5, IsASeq, LenProperties
<1>7. asked' \in [Buttons -> Asks]
  BY <1>1 DEF Asks
<1>8. jobsPage' \in PageRow /\ jobsPage'.read = jobsPage.read /\ jobsPage'.jobs = jobsPage.jobs
  BY <1>1 DEF PageRow
<1>9. RejudgeTypes'
  BY <1>1, <1>6, <1>7, <1>8 DEF RejudgeTypes
<1>10. rejudgeFaults' > 0
  BY <1>1
<1>11. Behind(jobsPage.read)' /\ Behind(jobsPage.jobs)'
  BY <1>1, <1>3, <1>8 DEF JobsInv, Behind
<1> QED BY <1>1, <1>3, <1>4, <1>9, <1>10, <1>11 DEF JobsInv

-----------------------------------------------------------------------------
(* RejudgeJobs: the theorems.                                              *)

LEMMA JobsStart == RejudgeInit => JobsInv
<1> SUFFICES ASSUME RejudgeInit PROVE JobsInv
  OBVIOUS
<1>1. /\ <<>> \in Seq(JobRow) /\ <<>> \in Seq(ProcessorRow) /\ DOMAIN <<>> = {} /\ Len(<<>>) = 0
  BY EmptySeq, LenProperties
<1>2. [pc |-> "closed", read |-> <<>>, jobs |-> <<>>] \in PageRow
  BY <1>1 DEF PageRow
<1>3. NotAsked \in Asks
  BY DEF Asks
<1>4. RejudgeTypes
  BY <1>1, <1>2, <1>3 DEF RejudgeInit, RejudgeTypes, AllSubmissions
<1> QED BY <1>1, <1>4 DEF RejudgeInit, JobsInv, Behind, Jobs

LEMMA ProcessStep ==
    ASSUME JobsInv, RejudgeAssumption, NEW j \in Jobs, Process(j)
    PROVE  JobsInv'
  BY MarkRunningStep, LoadRowsStep, LoadProblemStep, ResetRowStep, SendRowStep, CountDoneStep,
     RecountDoneStep, FinishJobStep, FailStatementStep DEF Process

LEMMA JobsStep == JobsInv /\ RejudgeAssumption /\ [RejudgeNext]_rejudgeVars => JobsInv'
<1> SUFFICES ASSUME JobsInv, RejudgeAssumption, [RejudgeNext]_rejudgeVars PROVE JobsInv'
  OBVIOUS
<1>1. CASE \E b \in Buttons : \/ \E only \in FirstRows \union {AllRows} : PressRejudge(b, only)
                              \/ CountRows(b) \/ CreateJob(b)
  BY <1>1, PressRejudgeStep, CountRowsStep, CreateJobStep
<1>2. CASE \E j \in Jobs : Process(j)
  BY <1>2, ProcessStep
<1>3. CASE ListJobs \/ TurnJobsPage
  BY <1>3, ListJobsStep, TurnJobsPageStep
<1>4. CASE (\E s \in LaterRows : PostRow(s)) \/ RemoveProblem \/ RestartRejudging
  BY <1>4, PostRowStep, RemoveProblemStep, RestartRejudgingStep
<1>5. CASE UNCHANGED rejudgeVars
  <2>1. UNCHANGED <<problemRow, rowsThere, asked, jobsPage, rejudgeJobs, processors, rejudgeFaults>>
    BY <1>5 DEF rejudgeVars, asking
  <2> QED BY <2>1, JobsUntouched DEF JobsInv, RejudgeTypes
<1> QED BY <1>1, <1>2, <1>3, <1>4, <1>5 DEF RejudgeNext

\* Type correctness of the rejudge jobs: each row has its processor.
THEOREM RejudgeTypeCorrect == RejudgeSpec => []RejudgeTypeOK
<1>1. JobsInv => RejudgeTypeOK
  <2> SUFFICES ASSUME JobsInv PROVE RejudgeTypeOK
    OBVIOUS
  <2>1. RejudgeTypes
    BY DEF JobsInv
  <2>2. \A b \in Buttons : asked[b].pc \in {"none", "find", "create"}
    BY <2>1 DEF RejudgeTypes, Asks, NotAsked
  <2>3. \A j \in Jobs : processors[j].left \subseteq processors[j].rows
    BY DEF JobsInv, Matches
  <2> QED BY <2>1, <2>2, <2>3, RejudgeRows DEF RejudgeTypeOK, RejudgeTypes, AllSubmissions
<1> QED BY <1>1, JobsStart, JobsStep, RejudgeAssumption, PTL DEF RejudgeSpec

\* The rows of rejudge jobs are true, in the database and on the page, for any number of
\* submissions, buttons, jobs and faults: a job that is over says what its processor did
\* (processRejudgeJob's doneCount, errorLog and finalStatus), one that is not is still
\* running or met a fault, and what the rejudge-jobs page shows has happened.
THEOREM RejudgeJobsTrue == RejudgeSpec => []JobsAccounted
<1>1. JobsInv => JobsAccounted
  <2> SUFFICES ASSUME JobsInv PROVE JobsAccounted
    OBVIOUS
  <2>1. ASSUME NEW j \in Jobs PROVE Accounted(j)
    <3> DEFINE row == rejudgeJobs[j]
               at == processors[j]
    <3>1. row \in JobRow /\ at \in ProcessorRow /\ Matches(row, at) /\ (at.pc = "thrown" => rejudgeFaults > 0)
      BY JobAt DEF JobsInv
    <3>2. CASE row.status \in {"DONE", "FAILED"}
      <4>1. at.pc = "returned"
        BY <3>1, <3>2 DEF Matches, ProcessorRow
      <4>2. Told(row, at)
        BY <3>1, <4>1 DEF Matches
      <4> QED BY <3>2, <4>1, <4>2 DEF Accounted, Told
    <3>3. CASE row.status \notin {"DONE", "FAILED"}
      <4>1. at.pc # "returned"
        BY <3>1, <3>3 DEF Matches, Told
      <4>2. j \in Running \/ rejudgeFaults > 0
        BY <3>1, <4>1 DEF Running
      <4> QED BY <3>3, <4>2 DEF Accounted
    <3> QED BY <3>2, <3>3
  <2>2. \A j \in DOMAIN jobsPage.jobs : j \in Jobs /\ NeverAhead(j)
    BY DEF JobsInv, Behind, NeverAhead
  <2> QED BY <2>1, <2>2 DEF JobsAccounted
<1> QED BY <1>1, JobsStart, JobsStep, RejudgeAssumption, PTL DEF RejudgeSpec



-----------------------------------------------------------------------------
(* The five services together.                                             *)

\* A behaviour of the five is one of each.
LEMMA ServicesBehave == MCSpec => WarningSpec /\ VirtualSpec /\ EditorSpec /\ RealtimeSpec /\ RejudgeSpec
<1>1. MCInit => WarningInit /\ VirtualInit /\ EditorInit /\ RealtimeInit /\ RejudgeInit
  BY DEF MCInit
<1>2. [MCNext]_<<explored, warningVars, virtualVars, editorVars, realtimeVars, rejudgeVars>>
        => /\ [WarningNext]_warningVars /\ [VirtualNext]_virtualVars /\ [EditorNext]_editorVars
           /\ [RealtimeNext]_realtimeVars /\ [RejudgeNext]_rejudgeVars
  BY DEF MCNext
<1> QED BY <1>1, <1>2, PTL DEF MCSpec, WarningSpec, VirtualSpec, EditorSpec, RealtimeSpec, RejudgeSpec

\* Every variable of the services has its type, whichever of them steps: only users with
\* a warning are banned, a counted job had its submissions, and the SSE server's two tables
\* list the same clients.
THEOREM ServicesTypeCorrect == MCSpec => []ServicesTypeOK
<1>1. WarningTypeOK /\ VirtualTypeOK /\ EditorTypeOK /\ RealtimeTypeOK /\ RejudgeTypeOK => ServicesTypeOK
  BY DEF ServicesTypeOK
<1> QED BY <1>1, ServicesBehave, WarningTypeCorrect, VirtualTypeCorrect, EditorTypeCorrect, RealtimeTypeCorrect,
           RejudgeTypeCorrect, PTL
=============================================================================
