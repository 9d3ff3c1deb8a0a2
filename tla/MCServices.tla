---------------------------- MODULE MCServices ----------------------------
(***************************************************************************)
(* Small instances of the services whose safety matters: the warnings, the *)
(* virtual contests, the problem editor, the live updates and the rejudge  *)
(* jobs.  They share no state; TLC explores every behaviour of one of them *)
(* while the others wait in their initial states.                          *)
(***************************************************************************)
EXTENDS Warnings, VirtualContest, ProblemEditor, Realtime, RejudgeJobs, TLC

CONSTANTS a1, a2, u1, r1, r2, c1, c2

VARIABLE explored

MCViolator == [r \in Reports |-> u1]
MCPageContest == [p \in Pages |-> c1]

MCInit ==
    /\ explored \in {"warnings", "virtual contests", "editor", "live updates", "rejudge jobs"}
    /\ WarningInit /\ VirtualInit /\ EditorInit /\ RealtimeInit /\ RejudgeInit
    /\ problem = "present" => explored = "editor"
    /\ redisUp \/ explored = "live updates"

\* BOUND: the standings of one contest change in a behaviour.  Two faults happen before its
\* freeze and its end, with at most one registration besides the results, and while no
\* attempt to subscribe has failed; a third change leaves one row, while the contest
\* runs, without a fault.
LiveBounds ==
    /\ \E c \in LiveContests : \A d \in LiveContests \ {c} : standing'[d] = 0 /\ phase'[d] = "before"
    /\ (\E c \in LiveContests : phase'[c] \in {"frozen", "over"}) => liveFaults' <= 1
    /\ boot'.attempt > 1 => liveFaults' <= 1
    /\ \A c \in LiveContests :
         /\ standing'[c] > 2 => liveFaults' = 0 /\ openRows'[c] = 1 /\ phase'[c] = "running"
         /\ standing'[c] > 1 /\ credited'[c] = 0 => liveFaults' <= 1

MCNext ==
    /\ UNCHANGED explored
    /\ \/ explored = "warnings" /\ WarningNext /\ UNCHANGED <<virtualVars, editorVars, realtimeVars, rejudgeVars>>
       \/ explored = "virtual contests" /\ VirtualNext /\ UNCHANGED <<warningVars, editorVars, realtimeVars, rejudgeVars>>
       \/ explored = "editor" /\ EditorNext /\ UNCHANGED <<warningVars, virtualVars, realtimeVars, rejudgeVars>>
       \/ explored = "live updates" /\ RealtimeNext /\ LiveBounds /\ UNCHANGED <<warningVars, virtualVars, editorVars, rejudgeVars>>
       \/ explored = "rejudge jobs" /\ RejudgeNext /\ UNCHANGED <<warningVars, virtualVars, editorVars, realtimeVars>>

MCSpec == MCInit /\ [][MCNext]_<<explored, warningVars, virtualVars, editorVars, realtimeVars, rejudgeVars>>

\* Every variable of the five services has its type; only users with a warning are
\* banned, and the SSE server's two tables list the same clients.
ServicesTypeOK == WarningTypeOK /\ VirtualTypeOK /\ EditorTypeOK /\ RealtimeTypeOK /\ RejudgeTypeOK
===========================================================================
