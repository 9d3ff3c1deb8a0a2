----------------------------- MODULE RejudgeJobs -----------------------------
(***************************************************************************)
(* The RejudgeJob rows an administrator watches.  A request counts the     *)
(* submissions, creates a row and starts processRejudgeJob, which nothing  *)
(* awaits: it loads the submissions and the problem again, resets and      *)
(* sends one submission after the other and writes its progress to the     *)
(* row.  Meanwhile submissions are posted and the problem is deleted with  *)
(* its submissions.  What becomes of a submission that was sent is the     *)
(* matter of JudgePipeline.                                                *)
(*                                                                         *)
(* One problem outside a contest.  A job's errorLog is the number of its   *)
(* lines.                                                                  *)
(***************************************************************************)
EXTENDS Integers, Sequences, FiniteSets

CONSTANTS
    FirstRows, LaterRows,   \* the problem's submissions: those there, those posted later
    Buttons,                \* the rejudge buttons of the administrators' pages
    MaxRejudgeJobs,         \* BOUND: jobs created
    MaxRejudgeFaults        \* BOUND: failed statements, lost requests, restarts

\* A problem has finitely many submissions.
ASSUME RejudgeAssumption == IsFiniteSet(FirstRows) /\ IsFiniteSet(LaterRows)

VARIABLES
    problemRow, rowsThere,  \* whether the problem exists, and its submissions that do
    asked,                  \* the request each button has under way
    rejudgeJobs,            \* RejudgeJob rows in the order created
    processors,             \* the processRejudgeJob call of each row
    jobsPage,               \* the rejudge-jobs page: the rows read for it, and those shown
    rejudgeFaults

asking == <<asked, jobsPage>>
rejudgeVars == <<problemRow, rowsThere, asking, rejudgeJobs, processors, rejudgeFaults>>

AllRows == "all"        \* submissionId is null
NotAsked == [pc |-> "none"]
Jobs == DOMAIN rejudgeJobs
Running == {j \in Jobs : processors[j].pc \notin {"returned", "thrown"}}

Disturbed == rejudgeFaults < MaxRejudgeFaults /\ rejudgeFaults' = rejudgeFaults + 1

-----------------------------------------------------------------------------
(* The requests.                                                           *)

\* A button is disabled until its request is answered.
ButtonEnabled(b) == asked[b].pc = "none"

\* The pages' handleRejudge, for one submission, and handleBulkRejudge, for all.
PressRejudge(b, only) ==
    /\ ButtonEnabled(b)
    /\ asked' = [asked EXCEPT ![b] = [pc |-> "find", only |-> only]]
    /\ UNCHANGED <<problemRow, rowsThere, jobsPage, rejudgeJobs, processors, rejudgeFaults>>

Chosen(only) == IF only = AllRows THEN rowsThere ELSE rowsThere \intersect {only}

\* The submission, or the problem and the count of its submissions.
CountRows(b) ==
    /\ asked[b].pc = "find"
    /\ asked' = [asked EXCEPT ![b] =
          IF Chosen(asked[b].only) = {} THEN NotAsked
          ELSE [pc |-> "create", only |-> asked[b].only, total |-> Cardinality(Chosen(asked[b].only))]]
    /\ UNCHANGED <<problemRow, rowsThere, jobsPage, rejudgeJobs, processors, rejudgeFaults>>

\* The row is created, the processor called and the request answered.
CreateJob(b) ==
    /\ asked[b].pc = "create"
    /\ Len(rejudgeJobs) < MaxRejudgeJobs
    /\ rejudgeJobs' = Append(rejudgeJobs, [status |-> "PENDING", only |-> asked[b].only,
                                           total |-> asked[b].total, done |-> 0, errors |-> 0])
    /\ processors' = Append(processors, [pc |-> "mark", rows |-> {}, left |-> {}, done |-> 0,
                                         errors |-> 0, sent |-> 0, twice |-> 0])
    /\ asked' = [asked EXCEPT ![b] = NotAsked]
    /\ UNCHANGED <<problemRow, rowsThere, jobsPage, rejudgeFaults>>

\* handleAdminListRejudgeJobs reads the rows for the page.
ListJobs ==
    /\ jobsPage.pc = "loading"
    /\ jobsPage' = [jobsPage EXCEPT !.pc = "answered", !.read = rejudgeJobs]
    /\ UNCHANGED <<problemRow, rowsThere, asked, rejudgeJobs, processors, rejudgeFaults>>

\* The page is opened; the answer is shown.  The interval that should refresh a page
\* with running jobs sets the page number to itself, which fetches nothing.
TurnJobsPage ==
    /\ jobsPage' = CASE jobsPage.pc = "closed" -> [jobsPage EXCEPT !.pc = "loading"]
                     [] jobsPage.pc = "answered" -> [pc |-> "shown", read |-> <<>>, jobs |-> jobsPage.read]
                     [] jobsPage.pc = "shown" -> [jobsPage EXCEPT !.pc = "closed", !.jobs = <<>>]
                     [] OTHER -> jobsPage
    /\ jobsPage' # jobsPage
    /\ UNCHANGED <<problemRow, rowsThere, asked, rejudgeJobs, processors, rejudgeFaults>>

-----------------------------------------------------------------------------
(* processRejudgeJob.                                                      *)

\* A step of the processor of job j that changes neither the submissions nor a page.
Processing(j, from, job, processor) ==
    /\ j \in Running /\ processors[j].pc = from
    /\ rejudgeJobs' = [rejudgeJobs EXCEPT ![j] = job]
    /\ processors' = [processors EXCEPT ![j] = processor]
    /\ UNCHANGED <<problemRow, rowsThere, asking>>

\* The row becomes RUNNING.
MarkRunning(j) ==
    /\ Processing(j, "mark", [rejudgeJobs[j] EXCEPT !.status = "RUNNING"],
                             [processors[j] EXCEPT !.pc = "load"])
    /\ UNCHANGED rejudgeFaults

\* The submissions, which may be others than the request counted; none: "No submissions matched".
LoadRows(j) ==
    /\ LET rows == Chosen(rejudgeJobs[j].only) IN
       Processing(j, "load",
                  IF rows = {} THEN [rejudgeJobs[j] EXCEPT !.status = "DONE", !.errors = 1]
                               ELSE rejudgeJobs[j],
                  [processors[j] EXCEPT !.rows = rows, !.left = rows,
                                        !.pc = IF rows = {} THEN "returned" ELSE "problem"])
    /\ UNCHANGED rejudgeFaults

\* The problem with its test cases, or "Problem not found".
LoadProblem(j) ==
    /\ Processing(j, "problem",
                  IF problemRow THEN rejudgeJobs[j]
                                ELSE [rejudgeJobs[j] EXCEPT !.status = "FAILED", !.errors = 1],
                  [processors[j] EXCEPT !.pc = IF problemRow THEN "reset" ELSE "returned"])
    /\ UNCHANGED rejudgeFaults

\* submission.update to QUEUED; it throws if the row is gone, and the catch goes on.
ResetRow(j, s) ==
    /\ j \in Running /\ s \in processors[j].left
    /\ LET thrown == [processors[j] EXCEPT !.pc = "recount", !.left = @ \ {s},
                                           !.done = @ + 1, !.errors = @ + 1]
           reset == [processors[j] EXCEPT !.pc = "send", !.left = @ \ {s}]
       IN  \/ /\ s \in rowsThere /\ Processing(j, "reset", rejudgeJobs[j], reset)
              /\ UNCHANGED rejudgeFaults
           \/ /\ s \notin rowsThere /\ Processing(j, "reset", rejudgeJobs[j], thrown)
              /\ UNCHANGED rejudgeFaults
           \/ Disturbed /\ Processing(j, "reset", rejudgeJobs[j], thrown)

\* sendToWorker: a request without the answer ok is an error, but not an exception.
SendRow(j) ==
    LET counted == [processors[j] EXCEPT !.pc = "count", !.done = @ + 1] IN
    \/ /\ Processing(j, "send", rejudgeJobs[j], [counted EXCEPT !.sent = @ + 1])
       /\ UNCHANGED rejudgeFaults
    \/ Disturbed /\ Processing(j, "send", rejudgeJobs[j], [counted EXCEPT !.errors = @ + 1])

\* The loop goes on, or ends.
NextRow(p) == IF p.left = {} THEN "finish" ELSE "reset"

\* doneCount is written; if that throws, the catch takes the submission for one more,
\* and counts an error for a row that was sent.
CountDone(j) ==
    LET p == processors[j] IN
    \/ /\ Processing(j, "count", [rejudgeJobs[j] EXCEPT !.done = p.done], [p EXCEPT !.pc = NextRow(p)])
       /\ UNCHANGED rejudgeFaults
    \/ Disturbed /\ Processing(j, "count", rejudgeJobs[j],
                               [p EXCEPT !.pc = "recount", !.done = @ + 1, !.errors = @ + 1, !.twice = @ + 1])

\* The catch writes doneCount.
RecountDone(j) ==
    LET p == processors[j] IN
    /\ Processing(j, "recount", [rejudgeJobs[j] EXCEPT !.done = p.done], [p EXCEPT !.pc = NextRow(p)])
    /\ UNCHANGED rejudgeFaults

\* Mutant: one error fails the job.
FinalStatusOnError(p) == IF p.errors > 0 THEN "FAILED" ELSE "DONE"

\* finalStatus.
FinalStatusOf(p) == IF p.errors = Cardinality(p.rows) THEN "FAILED" ELSE "DONE"

FinishJob(j) ==
    LET p == processors[j] IN
    /\ Processing(j, "finish", [rejudgeJobs[j] EXCEPT !.status = FinalStatusOf(p), !.errors = p.errors],
                               [p EXCEPT !.pc = "returned"])
    /\ UNCHANGED rejudgeFaults

\* Any other statement fails: the processor throws, which is only logged.
FailStatement(j) ==
    /\ Disturbed
    /\ \E at \in {"mark", "load", "problem", "recount", "finish"} :
          Processing(j, at, rejudgeJobs[j], [processors[j] EXCEPT !.pc = "thrown"])

-----------------------------------------------------------------------------
(* The rest of the system.                                                 *)

PostRow(s) ==
    /\ problemRow /\ s \in LaterRows \ rowsThere
    /\ rowsThere' = rowsThere \union {s}
    /\ UNCHANGED <<problemRow, asking, rejudgeJobs, processors, rejudgeFaults>>

\* The problem is deleted, and with it its submissions.
RemoveProblem ==
    /\ problemRow
    /\ problemRow' = FALSE /\ rowsThere' = {}
    /\ UNCHANGED <<asking, rejudgeJobs, processors, rejudgeFaults>>

\* The backend restarts: calls and requests are gone.
RestartRejudging ==
    /\ Disturbed
    /\ processors' = [j \in Jobs |-> IF j \in Running THEN [processors[j] EXCEPT !.pc = "thrown"]
                                                      ELSE processors[j]]
    /\ asked' = [b \in Buttons |-> NotAsked]
    /\ jobsPage' = IF jobsPage.pc = "loading" THEN [jobsPage EXCEPT !.pc = "shown"] ELSE jobsPage
    /\ UNCHANGED <<problemRow, rowsThere, rejudgeJobs>>

RejudgeInit ==
    /\ problemRow = TRUE /\ rowsThere = FirstRows
    /\ asked = [b \in Buttons |-> NotAsked]
    /\ rejudgeJobs = <<>> /\ processors = <<>>
    /\ jobsPage = [pc |-> "closed", read |-> <<>>, jobs |-> <<>>]
    /\ rejudgeFaults = 0

Process(j) ==
    \/ MarkRunning(j) \/ LoadRows(j) \/ LoadProblem(j)
    \/ \E s \in FirstRows \union LaterRows : ResetRow(j, s)
    \/ SendRow(j) \/ CountDone(j) \/ RecountDone(j) \/ FinishJob(j)
    \/ FailStatement(j)

RejudgeNext ==
    \/ \E b \in Buttons : \/ \E only \in FirstRows \union {AllRows} : PressRejudge(b, only)
                          \/ CountRows(b) \/ CreateJob(b)
    \/ \E j \in Jobs : Process(j)
    \/ ListJobs \/ TurnJobsPage
    \/ \E s \in LaterRows : PostRow(s)
    \/ RemoveProblem \/ RestartRejudging

RejudgeSpec == RejudgeInit /\ [][RejudgeNext]_rejudgeVars

-----------------------------------------------------------------------------
(* Properties.                                                             *)

JobRow == [status : {"PENDING", "RUNNING", "DONE", "FAILED"}, only : FirstRows \union {AllRows},
           total : Nat, done : Nat, errors : Nat]

\* Type correctness; each row has its processor.
RejudgeTypeOK ==
    /\ problemRow \in BOOLEAN /\ rowsThere \subseteq FirstRows \union LaterRows
    /\ \A b \in Buttons : asked[b].pc \in {"none", "find", "create"}
    /\ rejudgeJobs \in Seq(JobRow) /\ jobsPage.read \in Seq(JobRow) /\ jobsPage.jobs \in Seq(JobRow)
    /\ DOMAIN processors = Jobs
    /\ \A j \in Jobs : processors[j].left \subseteq processors[j].rows

\* A job that says it is over is over, and says what it did: every submission it found
\* is counted, twice only if the write of a count failed; without that it FAILED if
\* none of them was sent, or the problem was gone before the first, and is DONE
\* otherwise.  A job found running or pending without its processor met a fault.
Accounted(j) ==
    LET job == rejudgeJobs[j]  p == processors[j] IN
    IF job.status \in {"DONE", "FAILED"}
    THEN /\ p.pc = "returned"
         /\ \/ job.done = Cardinality(p.rows) + p.twice
            \/ job.status = "FAILED" /\ job.done = 0 /\ p.left = p.rows
         /\ p.twice = 0 /\ p.rows # {} => (job.status = "FAILED" <=> p.sent = 0)
    ELSE j \in Running \/ rejudgeFaults > 0

\* What the rejudge-jobs page shows has happened, though it need not be all: no shown
\* count is ahead of the row, and a job shown as over is as shown.
NeverAhead(j) ==
    LET shown == jobsPage.jobs[j]  job == rejudgeJobs[j] IN
    /\ shown.done <= job.done /\ shown.total = job.total
    /\ shown.status \in {"DONE", "FAILED"} => shown = job

\* The rows of rejudge jobs are true, in the database and on the page.
JobsAccounted ==
    /\ \A j \in Jobs : Accounted(j)
    /\ \A j \in DOMAIN jobsPage.jobs : j \in Jobs /\ NeverAhead(j)
=============================================================================
