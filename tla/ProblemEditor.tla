----------------------------- MODULE ProblemEditor -----------------------------
(***************************************************************************)
(* One problem and its test cases: administrators create it, edit it in a  *)
(* page that holds all test cases in a form, save the form and delete the  *)
(* problem; submissions and sample runs read the test cases meanwhile.  A  *)
(* save updates the problem, deletes all test cases and creates those of   *)
(* the form, in statements of their own outside any transaction.           *)
(*                                                                         *)
(* A test case is a model value; equal rows of one save count once.        *)
(***************************************************************************)
EXTENDS Integers, FiniteSets, FiniteSetsExt

CONSTANTS
    Editors,        \* administrators, each with one page
    Cases,          \* test cases that may be written
    Samples,        \* those of them with isSample
    MaxSaves,       \* BOUND: forms that may be saved
    MaxEditFaults   \* BOUND: restarts of the backend

ASSUME EditorAssumption ==
    Samples \subseteq Cases /\ MaxSaves \in Nat /\ MaxEditFaults \in Nat

VARIABLES
    problem,        \* "none", "present" or "deleted"
    rows,           \* rows of TestCase: the test case and the administrator who wrote it
    editor,         \* the page of each administrator with its running request
    signedIn,       \* whether an administrator's session is valid
    saves,          \* forms saved so far
    editFaults,
    saved,          \* history: the last form written
    torn,           \* history: whether rows may be other than one form's
    misread,        \* history: kinds of readers that got other test cases outside any save
    lost            \* history: test cases a save dropped that nobody removed by hand

testVars == <<problem, rows, saved, torn>>
editorVars == <<testVars, editor, signedIn, saves, editFaults, misread, lost>>

Closed == [pc |-> "closed"]
Stored == {r.case : r \in rows}
Writing == {e \in Editors : editor[e].pc = "create"}
Busy == {"check", "insert", "update", "delete", "create", "answer", "error"}

-----------------------------------------------------------------------------
(* The pages.                                                              *)

\* The new page, whose form must be filled in.
OpenNew(e, cases) ==
    /\ editor[e].pc = "closed" /\ problem = "none"
    /\ cases # {}
    /\ editor' = [editor EXCEPT ![e] = [pc |-> "open", page |-> "new", cases |-> cases, removed |-> {}, blind |-> FALSE]]
    /\ UNCHANGED <<testVars, signedIn, saves, editFaults, misread, lost>>

\* Mutant: administrators are sent the sample test cases too.
ViewPublic(e) == Stored \intersect Samples

\* handleProblemDetail: all test cases for an administrator, the samples for anybody else.
View(e) == IF signedIn[e] THEN Stored ELSE Stored \intersect Samples

\* The edit page loads whatever it is sent into its form; without any test case the
\* form keeps its blank one, which must be filled in before the form can be sent.
\* blind (history) says that it does not show the test cases as they are.
OpenEditor(e) ==
    /\ editor[e].pc = "closed" /\ problem = "present"
    /\ editor' = [editor EXCEPT ![e] =
                    [pc |-> "open", page |-> "edit", cases |-> View(e), removed |-> {},
                     blind |-> ~signedIn[e] \/ torn \/ Writing # {}]]
    /\ UNCHANGED <<testVars, signedIn, saves, editFaults, misread, lost>>

\* addTestCase and updateTestCase
AddCase(e, c) ==
    /\ editor[e].pc = "open" /\ editor[e].page = "edit" /\ c \notin editor[e].cases
    /\ editor' = [editor EXCEPT ![e].cases = @ \union {c}]
    /\ UNCHANGED <<testVars, signedIn, saves, editFaults, misread, lost>>

\* removeTestCase keeps the last one.
RemoveCase(e, c) ==
    /\ editor[e].pc = "open" /\ editor[e].page = "edit"
    /\ c \in editor[e].cases /\ Cardinality(editor[e].cases) > 1
    /\ editor' = [editor EXCEPT ![e].cases = @ \ {c}, ![e].removed = @ \union {c}]
    /\ UNCHANGED <<testVars, signedIn, saves, editFaults, misread, lost>>

\* The page is left.
LeaveEditor(e) ==
    /\ editor[e].pc = "open"
    /\ editor' = [editor EXCEPT ![e] = Closed]
    /\ UNCHANGED <<testVars, signedIn, saves, editFaults, misread, lost>>

\* The form is sent: requireAdmin, and the problem is looked up; the button is disabled meanwhile.
Save(e) ==
    /\ editor[e].pc = "open"
    /\ editor[e].cases # {} /\ saves < MaxSaves
    /\ saves' = saves + 1
    /\ editor' = [editor EXCEPT ![e].pc =
                    IF ~signedIn[e] THEN @
                    ELSE IF editor[e].page = "new" THEN "check"
                    ELSE IF problem = "present" THEN "update" ELSE @]
    /\ UNCHANGED <<testVars, signedIn, editFaults, misread, lost>>

\* The page gets its answer: a success leaves it, an error keeps the form.
AnswerSave(e) ==
    /\ editor[e].pc \in {"answer", "error"}
    /\ editor' = [editor EXCEPT ![e] = IF @.pc = "answer" THEN Closed
                                       ELSE [@ EXCEPT !.pc = "open"]]
    /\ UNCHANGED <<testVars, signedIn, saves, editFaults, misread, lost>>

-----------------------------------------------------------------------------
(* The handlers.                                                           *)

Row(e) == [case : editor[e].cases, by : {e}]

\* The other pages once e's form is stored: what they show is out of date.
Outdated(e) == [d \in Editors |-> IF d = e THEN [editor[e] EXCEPT !.pc = "answer"]
                                  ELSE IF editor[d].pc = "closed" THEN editor[d]
                                  ELSE [editor[d] EXCEPT !.blind = TRUE]]

\* handleProblemCreate looks for the slug.
CheckSlug(e) ==
    /\ editor[e].pc = "check"
    /\ editor' = [editor EXCEPT ![e].pc = IF problem = "none" THEN "insert" ELSE "error"]
    /\ UNCHANGED <<testVars, signedIn, saves, editFaults, misread, lost>>

\* problem.create with its test cases, unless the slug was taken meanwhile.
InsertProblem(e) ==
    /\ editor[e].pc = "insert"
    /\ IF problem = "none"
       THEN /\ problem' = "present" /\ rows' = Row(e) /\ saved' = editor[e].cases
            /\ editor' = Outdated(e)
            /\ UNCHANGED torn
       ELSE /\ editor' = [editor EXCEPT ![e].pc = "error"]
            /\ UNCHANGED testVars
    /\ UNCHANGED <<signedIn, saves, editFaults, misread, lost>>

\* problem.update, which fails for a problem deleted meanwhile.
UpdateProblem(e) ==
    /\ editor[e].pc = "update"
    /\ editor' = [editor EXCEPT ![e].pc = IF problem = "present" THEN "delete" ELSE "error"]
    /\ UNCHANGED <<testVars, signedIn, saves, editFaults, misread, lost>>

\* Mutant: the test cases there are stay.
KeptAll == rows

\* What deleteMany keeps.
Kept == {}

\* testCase.deleteMany; the rows are one form's again unless another save is about to write.
DeleteTests(e) ==
    /\ editor[e].pc = "delete"
    /\ rows' = Kept
    /\ torn' = (Writing # {})
    /\ editor' = [editor EXCEPT ![e].pc = "create"]
    /\ UNCHANGED <<problem, saved, signedIn, saves, editFaults, misread, lost>>

\* testCase.createMany, which fails for a problem deleted meanwhile.
CreateTests(e) ==
    /\ editor[e].pc = "create"
    /\ LET f == editor[e]
           dropped == saved \ (f.cases \union f.removed)
       IN IF problem = "present"
          THEN /\ rows' = rows \union Row(e)
               /\ saved' = f.cases
               /\ lost' = IF f.blind THEN lost ELSE lost \union dropped
               /\ editor' = Outdated(e)
          ELSE /\ editor' = [editor EXCEPT ![e].pc = "error"]
               /\ UNCHANGED <<rows, saved, lost>>
    /\ UNCHANGED <<problem, torn, signedIn, saves, editFaults, misread>>

\* handleProblemDelete, from the list: the test cases go with the problem.
DeleteProblem(e) ==
    /\ signedIn[e] /\ editor[e].pc = "closed" /\ problem = "present"
    /\ problem' = "deleted" /\ rows' = {} /\ saved' = {}
    /\ UNCHANGED <<torn, editor, signedIn, saves, editFaults, misread, lost>>

\* What a reader of some kind takes: submissions all, the first judge phase and sample
\* runs the samples, and a run at most three.
Taken(kind, got) ==
    CASE kind = "practice" -> got = Stored
      [] kind = "contest" -> got = Stored \intersect Samples
      [] kind = "run" -> /\ got \subseteq Stored \intersect Samples /\ got # {}
                         /\ Cardinality(got) = Min({3, Cardinality(Stored \intersect Samples)})

\* A submission or a run is created from the test cases of the moment.
ReadTests(kind, got) ==
    /\ problem = "present"
    /\ Taken(kind, got)
    /\ misread' = IF \/ torn \/ Writing # {}
                     \/ kind = "practice" /\ got = saved
                     \/ kind # "practice" /\ got \subseteq saved \intersect Samples
                  THEN misread ELSE misread \union {kind}
    /\ UNCHANGED <<testVars, editor, signedIn, saves, editFaults, lost>>

-----------------------------------------------------------------------------
(* Sessions and faults.                                                    *)

\* The session of an administrator expires, or the administrator signs in again.
ToggleSession(e) ==
    /\ signedIn' = [signedIn EXCEPT ![e] = ~@]
    /\ UNCHANGED <<testVars, editor, saves, editFaults, misread, lost>>

\* The backend restarts: running requests end where they are, their pages show an error.
RestartEditing ==
    /\ editFaults < MaxEditFaults
    /\ editFaults' = editFaults + 1
    /\ torn' = (torn \/ Writing # {})
    /\ editor' = [e \in Editors |-> IF editor[e].pc \in Busy THEN [editor[e] EXCEPT !.pc = "error"]
                                    ELSE editor[e]]
    /\ UNCHANGED <<problem, rows, saved, signedIn, saves, misread, lost>>

EditorInit ==
    /\ \/ problem = "none" /\ saved = {} /\ rows = {}
       \/ /\ problem = "present" /\ saved = Cases
          /\ rows \in {[case : Cases, by : {e}] : e \in Editors}
    /\ editor = [e \in Editors |-> Closed]
    /\ signedIn = [e \in Editors |-> TRUE]
    /\ saves = 0 /\ editFaults = 0
    /\ torn = FALSE /\ misread = {} /\ lost = {}

UseEditor ==
    \E e \in Editors :
        \/ \E cases \in SUBSET Cases : OpenNew(e, cases)
        \/ OpenEditor(e) \/ LeaveEditor(e) \/ Save(e) \/ AnswerSave(e) \/ DeleteProblem(e)
        \/ \E c \in Cases : AddCase(e, c) \/ RemoveCase(e, c)
        \/ ToggleSession(e)

RunSave ==
    \E e \in Editors :
        CheckSlug(e) \/ InsertProblem(e) \/ UpdateProblem(e) \/ DeleteTests(e) \/ CreateTests(e)

ReadSome ==
    \E kind \in {"practice", "contest", "run"}, got \in SUBSET Cases : ReadTests(kind, got)

EditorNext == UseEditor \/ RunSave \/ ReadSome \/ RestartEditing

EditorSpec == EditorInit /\ [][EditorNext]_editorVars

-----------------------------------------------------------------------------
(* Properties.                                                             *)

Form == [pc : {"open"} \union Busy, page : {"new", "edit"}, cases : SUBSET Cases, removed : SUBSET Cases, blind : BOOLEAN]

\* Every variable of the editor has its type.
EditorTypeOK ==
    /\ problem \in {"none", "present", "deleted"}
    /\ rows \subseteq [case : Cases, by : Editors]
    /\ \A e \in Editors : editor[e] \in {Closed} \union Form
    /\ signedIn \in [Editors -> BOOLEAN]
    /\ saves \in 0..MaxSaves /\ editFaults \in 0..MaxEditFaults
    /\ saved \subseteq Cases /\ torn \in BOOLEAN /\ lost \subseteq Cases
    /\ misread \subseteq {"practice", "contest", "run"}

\* The test cases are those of one form, the last one written, each once, and that is
\* what submissions are judged on; only while a save is between its statements, or
\* after two saves crossed or one was cut short, are they anything else.
TestsOfOneForm ==
    /\ ~torn /\ Writing = {} =>
         /\ Stored = saved
         /\ \A r, s \in rows : r.by = s.by
    /\ misread = {}

\* A save drops no test case but those its administrator removed by hand, unless the page
\* was loaded without the rights or amid another save, or the test cases have changed since.
NoCaseLost == lost = {}
=============================================================================
