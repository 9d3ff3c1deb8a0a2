------------------------------- MODULE Workbench -------------------------------
(***************************************************************************)
(* What a user at the editor of a problem sees: submissions and sample     *)
(* runs are sent to the backend, judged by the worker test case by test    *)
(* case, and polled for until a verdict arrives.  Verdicts of submissions  *)
(* are in the database, those of runs in the backend's memory.             *)
(*                                                                         *)
(* The hooks useSubmission and useRun have one state each; every poll is a *)
(* loop of its own that knows only its id.  Queue and worker are as fair   *)
(* and as lossy as JudgePipeline shows them.                               *)
(***************************************************************************)
EXTENDS Integers, Sequences, FiniteSets, SequencesExt

CONSTANTS
    CaseCount,      \* test cases of the problem, in a submission
    SampleCount,    \* sample test cases among them
    MaxOrders,      \* BOUND: submissions and runs that may be sent
    MaxBenchFaults  \* BOUND: restarts of the backend, results that never come

ASSUME WorkbenchAssumption ==
    /\ CaseCount \in Nat /\ SampleCount \in 0..CaseCount
    /\ MaxOrders \in Nat /\ MaxBenchFaults \in Nat

VARIABLES
    hooks,          \* state of useSubmission and useRun: whether busy, and the result shown
    orders,         \* running requests to submit or run
    polls,          \* running poll loops
    pollRefs,       \* the poll whose timer each hook would clear, 0 for none
    mounted,        \* whether the page is still there
    pressed,        \* orders sent so far
    issued,         \* the kind of each id given out
    verdicts,       \* the status the backend knows for each id
    waiting,        \* ids in the queue of the worker
    machine,        \* the job being judged
    benchFaults,
    gone,           \* history: ids whose verdict was lost
    upset           \* history: hooks that were sent a second order while busy, or met an error

view == <<hooks, polls, pollRefs, mounted, pressed>>
server == <<issued, verdicts, waiting, machine>>
benchVars == <<view, orders, server, benchFaults, gone, upset>>

Hooks == {"submit", "run"}
Nothing == [id |-> 0, status |-> "none"]
NoJob == [id |-> 0]
Terminal == {"ACCEPTED", "WRONG_ANSWER", "TLE", "MLE", "RUNTIME_ERROR", "COMPILE_ERROR"}

-----------------------------------------------------------------------------
(* The sandbox and the verdict.                                            *)

\* Ways a container ends, or is not even started ("other"), for a language that is known or
\* not, and with what on stderr.
Exits == {"0", "137", "other", "other_saying_mle", "timeout", "unknown_language"}

\* runCode; the stderr of an ended container is trimmed, whatever it says: "memory_limit" is
\* the text "Memory limit exceeded", from runCode or from the program, "any" any other.
ResultOf(exit) ==
    CASE exit = "0" -> [status |-> "OK", stderr |-> "any"]
      [] exit = "137" -> [status |-> "MLE", stderr |-> "memory_limit"]
      [] exit = "timeout" -> [status |-> "TLE", stderr |-> "time_limit"]
      [] exit = "other_saying_mle" -> [status |-> "RUNTIME_ERROR", stderr |-> "memory_limit"]
      [] exit = "unknown_language" -> [status |-> "COMPILE_ERROR", stderr |-> "any"]
      [] OTHER -> [status |-> "RUNTIME_ERROR", stderr |-> "any"]

Failing == {"TLE", "MLE", "RUNTIME_ERROR"}

\* Mutant: only the answers are looked at.
PassesAnswer(result, right) == right

\* Whether a test case leaves allAccepted alone; right is what the comparison, or the
\* checker's exit code, says of the output.
Passes(result, right) == result.status \notin Failing /\ right

\* What happened in a test case.
CaseOf(result, right) ==
    IF result.status # "OK" THEN result.status ELSE IF right THEN "ACCEPTED" ELSE "WRONG_ANSWER"

\* The loop's variables after a test case; met is history.
Judged(m, exit, right) ==
    LET result == ResultOf(exit) IN
    [m EXCEPT !.left = @ - 1,
              !.allAccepted = @ /\ Passes(result, right),
              !.lastStderr = IF result.status \in {"MLE", "RUNTIME_ERROR"} THEN result.stderr ELSE @,
              !.met = @ \union {CaseOf(result, right)}]

\* finalStatus
FinalStatus(m) ==
    IF m.allAccepted THEN "ACCEPTED"
    ELSE IF m.lastStderr = "memory_limit" THEN "MLE" ELSE "WRONG_ANSWER"

-----------------------------------------------------------------------------
(* The page.                                                               *)

AnyBusy == \E h \in Hooks : hooks[h].busy

\* The buttons, which are disabled while busy, or for a submission also the keys.
Press(h, byKey) ==
    /\ mounted
    /\ pressed < MaxOrders
    /\ pressed' = pressed + 1
    /\ IF byKey THEN h = "submit" ELSE ~AnyBusy
    /\ hooks' = [hooks EXCEPT ![h] = [busy |-> TRUE, shown |-> Nothing]]
    /\ orders' = Append(orders, [hook |-> h, id |-> 0])
    /\ upset' = IF hooks[h].busy THEN upset \union {h} ELSE upset
    /\ UNCHANGED <<polls, pollRefs, mounted, server, benchFaults, gone>>

\* The answer: the id is shown as queued and polled for.
AnswerOrder(i) ==
    /\ orders[i].id # 0
    /\ LET h == orders[i].hook  id == orders[i].id IN
       /\ hooks' = [hooks EXCEPT ![h].shown = [id |-> id, status |-> "QUEUED"]]
       /\ polls' = polls \union {[hook |-> h, id |-> id, pc |-> "fetch", status |-> "none"]}
    /\ orders' = RemoveAt(orders, i)
    /\ UNCHANGED <<pollRefs, mounted, pressed, server, benchFaults, gone, upset>>

\* Mutant: a memory limit is not the end.
IsTerminalMissing(status) == status \in Terminal \ {"MLE"}

IsTerminal(status) == status \in Terminal

\* Mutant: the id shown is not the one that was polled for.
MergedInto(shown, id, status) == [id |-> IF shown.id = 0 THEN id ELSE shown.id, status |-> status]

\* setResult of an answer.
Merged(shown, id, status) == [id |-> id, status |-> status]

\* A poll's answer: shown, and the end of the poll or a timer for the next.
AnswerPoll(p) ==
    /\ p.pc = "answered"
    /\ LET done == IsTerminal(p.status) IN
       /\ hooks' = [hooks EXCEPT ![p.hook].shown = Merged(@, p.id, p.status),
                                 ![p.hook].busy = @ /\ ~done]
       /\ polls' = (polls \ {p}) \union IF done THEN {} ELSE {[p EXCEPT !.pc = "timer", !.status = "none"]}
       /\ pollRefs' = IF done THEN pollRefs ELSE [pollRefs EXCEPT ![p.hook] = p.id]
    /\ UNCHANGED <<mounted, pressed, orders, server, benchFaults, gone, upset>>

\* The timer fires.
PollAgain(p) ==
    /\ p.pc = "timer"
    /\ polls' = (polls \ {p}) \union {[p EXCEPT !.pc = "fetch"]}
    /\ UNCHANGED <<hooks, pollRefs, mounted, pressed, orders, server, benchFaults, gone, upset>>

\* The page is left: each hook clears the one timer it knows of.
LeavePage ==
    /\ mounted
    /\ mounted' = FALSE
    /\ polls' = {p \in polls : ~(p.pc = "timer" /\ pollRefs[p.hook] = p.id)}
    /\ UNCHANGED <<hooks, pollRefs, pressed, orders, server, benchFaults, gone, upset>>

-----------------------------------------------------------------------------
(* The backend and the worker.                                             *)

\* handleRunSolution and handleSubmitSolution: an id is given out and queued.
AcceptOrder(i) ==
    /\ orders[i].id = 0
    /\ orders[i].hook = "run" => SampleCount > 0
    /\ issued' = Append(issued, orders[i].hook)
    /\ verdicts' = Append(verdicts, IF orders[i].hook = "submit" THEN "QUEUED" ELSE "none")
    /\ waiting' = Append(waiting, Len(issued) + 1)
    /\ orders' = [orders EXCEPT ![i].id = Len(issued) + 1]
    /\ UNCHANGED <<view, machine, benchFaults, gone, upset>>

\* Any refusal: nothing to run on, the cooldown, an error.  The hook is done.
RefuseOrder(i) ==
    /\ orders[i].id = 0
    /\ hooks' = [hooks EXCEPT ![orders[i].hook].busy = FALSE]
    /\ orders' = RemoveAt(orders, i)
    /\ upset' = upset \union {orders[i].hook}
    /\ UNCHANGED <<polls, pollRefs, mounted, pressed, server, benchFaults, gone>>

\* handleSubmissionStatus or handleGetRunResult, whose 404 has the status "error".
AnswerStatus(p) ==
    /\ p.pc = "fetch"
    /\ LET known == verdicts[p.id] IN
       polls' = (polls \ {p}) \union
                {[p EXCEPT !.pc = "answered", !.status = IF known = "none" THEN "error" ELSE known]}
    /\ UNCHANGED <<hooks, pollRefs, mounted, pressed, orders, server, benchFaults, gone, upset>>

CasesOf(kind) == IF kind = "submit" THEN CaseCount ELSE IF SampleCount < 3 THEN SampleCount ELSE 3

\* The worker takes the next job.
TakeOrder ==
    /\ machine.id = 0 /\ waiting # <<>>
    /\ machine' = [id |-> Head(waiting), left |-> CasesOf(issued[Head(waiting)]),
                   allAccepted |-> TRUE, lastStderr |-> "", met |-> {}]
    /\ waiting' = Tail(waiting)
    /\ UNCHANGED <<view, orders, issued, verdicts, benchFaults, gone, upset>>

\* It runs the next test case; one that fails may have printed the right answer before.
JudgeCase(exit, right) ==
    /\ machine.id # 0 /\ machine.left > 0
    /\ machine' = Judged(machine, exit, right)
    /\ UNCHANGED <<view, orders, issued, verdicts, waiting, benchFaults, gone, upset>>

\* updateSubmission: stored in the database, or for a run in memory.
Report ==
    /\ machine.id # 0 /\ machine.left = 0
    /\ verdicts' = [verdicts EXCEPT ![machine.id] = FinalStatus(machine)]
    /\ machine' = NoJob
    /\ UNCHANGED <<view, orders, issued, waiting, benchFaults, gone, upset>>

-----------------------------------------------------------------------------
(* Faults.                                                                 *)

\* The last attempt of a job fails.
LoseVerdict ==
    /\ benchFaults < MaxBenchFaults
    /\ machine.id # 0
    /\ benchFaults' = benchFaults + 1
    /\ gone' = gone \union {machine.id}
    /\ machine' = NoJob
    /\ UNCHANGED <<view, orders, issued, verdicts, waiting, upset>>

IsRun(id) == issued[id] = "run"

\* A result is polled for too late: getRunResult drops it.
ExpireRun(id) ==
    /\ benchFaults < MaxBenchFaults
    /\ IsRun(id) /\ verdicts[id] # "none"
    /\ benchFaults' = benchFaults + 1
    /\ verdicts' = [verdicts EXCEPT ![id] = "none"]
    /\ gone' = gone \union {id}
    /\ UNCHANGED <<view, orders, issued, waiting, machine, upset>>

\* The backend restarts: results of runs are gone, requests fail and end what they were for.
RestartBench ==
    /\ benchFaults < MaxBenchFaults
    /\ benchFaults' = benchFaults + 1
    /\ gone' = gone \union {id \in DOMAIN issued : IsRun(id) /\ verdicts[id] # "none"}
    /\ verdicts' = [id \in DOMAIN issued |-> IF IsRun(id) THEN "none" ELSE verdicts[id]]
    /\ LET cut == {orders[i].hook : i \in DOMAIN orders} \union {p.hook : p \in {q \in polls : q.pc = "fetch"}}
       IN /\ hooks' = [h \in Hooks |-> [hooks[h] EXCEPT !.busy = @ /\ h \notin cut]]
          /\ upset' = upset \union cut
    /\ orders' = <<>>
    /\ polls' = {p \in polls : p.pc # "fetch"}
    /\ UNCHANGED <<pollRefs, mounted, pressed, issued, waiting, machine>>

BenchInit ==
    /\ hooks = [h \in Hooks |-> [busy |-> FALSE, shown |-> Nothing]]
    /\ orders = <<>> /\ polls = {}
    /\ pollRefs = [h \in Hooks |-> 0] /\ mounted = TRUE /\ pressed = 0
    /\ issued = <<>> /\ verdicts = <<>> /\ waiting = <<>>
    /\ machine = NoJob
    /\ benchFaults = 0 /\ gone = {} /\ upset = {}

UseBench == LeavePage \/ \E h \in Hooks, byKey \in BOOLEAN : Press(h, byKey)

ServeOrder == \E i \in DOMAIN orders : AcceptOrder(i) \/ RefuseOrder(i) \/ AnswerOrder(i)

Poll(id) == \E p \in polls : p.id = id /\ (AnswerStatus(p) \/ AnswerPoll(p) \/ PollAgain(p))

RunMachine == TakeOrder \/ Report \/ \E exit \in Exits, right \in BOOLEAN : JudgeCase(exit, right)

DisturbBench == LoseVerdict \/ RestartBench \/ \E id \in DOMAIN issued : ExpireRun(id)

BenchNext ==
    \/ UseBench \/ ServeOrder \/ RunMachine \/ DisturbBench
    \/ \E id \in 1..MaxOrders : Poll(id)

\* Requests are answered, timers fire and the worker works.
BenchFairness ==
    /\ WF_benchVars(ServeOrder) /\ WF_benchVars(RunMachine)
    /\ \A id \in 1..MaxOrders : WF_benchVars(Poll(id))

BenchSpec == BenchInit /\ [][BenchNext]_benchVars /\ BenchFairness

-----------------------------------------------------------------------------
(* Properties.                                                             *)

Ids == DOMAIN issued
Statuses == Terminal \union {"none", "QUEUED", "error"}
Shown == [id : Ids \union {0}, status : Statuses]

\* Every variable of the workbench has its type.
BenchTypeOK ==
    /\ hooks \in [Hooks -> [busy : BOOLEAN, shown : Shown]]
    /\ orders \in Seq([hook : Hooks, id : Ids \union {0}])
    /\ polls \subseteq [hook : Hooks, id : Ids, pc : {"fetch", "answered", "timer"}, status : Statuses]
    /\ pollRefs \in [Hooks -> Ids \union {0}] /\ mounted \in BOOLEAN
    /\ pressed \in 0..MaxOrders
    /\ issued \in Seq(Hooks) /\ Len(issued) <= MaxOrders
    /\ verdicts \in Seq(Statuses) /\ Len(verdicts) = Len(issued)
    /\ waiting \in Seq(Ids)
    /\ machine # NoJob => machine.id \in Ids /\ machine.left \in 0..CaseCount
    /\ benchFaults \in 0..MaxBenchFaults /\ gone \subseteq Ids /\ upset \subseteq Hooks

\* A job that went through its test cases, and its verdict against what happened in them.
AllJudged == machine.id # 0 /\ machine.left = 0 /\ machine.met # {}

\* A program whose language is known is accepted exactly if it gave the right answer in
\* each test case without failing in one, whatever a failing one printed; and if it
\* broke for nothing but memory, that is its verdict, whatever came later.
VerdictSound ==
    AllJudged /\ "COMPILE_ERROR" \notin machine.met =>
        /\ FinalStatus(machine) = "ACCEPTED" <=> machine.met = {"ACCEPTED"}
        /\ machine.met \intersect {"MLE", "RUNTIME_ERROR"} = {"MLE"} => FinalStatus(machine) = "MLE"

\* A page that is not waiting shows the verdict of its last order, unless it was sent a second order
\* while busy or met an error; and any verdict it shows is that of the id it shows.
ShownIsOwn ==
    \A h \in Hooks :
        LET shown == hooks[h].shown IN
        /\ shown.status \in Terminal /\ shown.id \notin gone => shown.status = verdicts[shown.id]
        /\ mounted /\ ~hooks[h].busy /\ h \notin upset =>
             \/ shown = Nothing /\ \A id \in Ids : issued[id] # h
             \/ shown.status \in Terminal /\ \A id \in Ids : issued[id] = h => id <= shown.id

\* A page stops waiting, unless a verdict was lost: it then polls for ever.
PollingEnds == []<>(~AnyBusy \/ ~mounted \/ gone # {})

-----------------------------------------------------------------------------
(* What the documents say and the code does not do.                        *)

\* "ACCEPTED: All test cases passed", "WRONG_ANSWER: Output mismatch", "TLE: Time limit
\* exceeded", "RUNTIME_ERROR: Crashed during execution", "COMPILE_ERROR: Compilation
\* failed" (docs/code-execution.md:226-235): a verdict other than an acceptance names
\* something that happened in a test case.
VerdictNamesCause ==
    AllJudged => IF FinalStatus(machine) = "ACCEPTED" THEN machine.met = {"ACCEPTED"}
                 ELSE FinalStatus(machine) \in machine.met

=============================================================================
