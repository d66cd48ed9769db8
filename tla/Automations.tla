---------------------------- MODULE Automations ----------------------------
(***************************************************************************)
(* The runs of one scheduled task (utils/automation_runner.py,             *)
(* utils/automation_scheduler.py, models/automations.py).                  *)
(*                                                                         *)
(* A run is a row that is "running" until someone ends it: the coroutine   *)
(* that executes it, when its reply ended, broke, was stopped or ran past  *)
(* the time limit; or the next start of the server.  The reply is a task   *)
(* of its own.  Awaiting it forwards a cancellation to it, and the reply   *)
(* handles the cancellation itself and returns, except early in its life   *)
(* and while it already ends (tasks.py, utils/middleware.py).              *)
(*                                                                         *)
(* Stop reaches the tasks registered for the chat: the reply and, for "Run *)
(* now", the coroutine of the run.  A shutdown reaches the coroutines of   *)
(* scheduled runs.                                                         *)
(*                                                                         *)
(* A call of report_task_result may wait for its picture in a thread, and  *)
(* then outlives a tool loop that broke beside it.  finish_run commits the *)
(* end of a run and its picture one after the other, on the event loop:    *)
(* only a thread or the end of the process comes between.                  *)
(***************************************************************************)
EXTENDS Naturals, FiniteSets

CONSTANT MaxRuns    \* bound: runs of the task

ASSUME RunsAssumption == MaxRuns \in Nat

Runs == 1..MaxRuns
NoRun == 0

VARIABLES
    server,     \* the one process that runs tasks
    task,       \* the task: scheduled, switched off, or deleted
    job,        \* the scheduler has its job
    picture,    \* the run the task's picture is from
    row,        \* the stored status of each run
    kind,       \* what began it
    proc,       \* where execute_automation is
    reply,      \* its reply task
    calling,    \* a call of report_task_result is under way (bound: one a run)
    report,     \* _reports and _report_images
    asked       \* who wanted it to end

vars == <<server, task, job, picture, row, kind, proc, reply, calling, report, asked>>

taskVars == <<server, task, job>>

Results == {"reported", "unknown"}
Ended == Results \cup {"stopped", "error"}
\* Before the run's first finish_run, and after it; between its two commits the
\* run is "picturing".
Executing == {"creating", "opening", "awaiting", "closing"}
Ending == {"ending", "stopping", "failing"}

TypeOK ==
    /\ server \in {"up", "closing", "down"}
    /\ task \in {"on", "off", "deleted"}
    /\ job \in BOOLEAN
    /\ picture \in Runs \cup {NoRun}
    /\ row \in [Runs -> {"none", "running"} \cup Ended]
    /\ kind \in [Runs -> {"none", "schedule", "now"}]
    /\ proc \in [Runs -> {"idle", "picturing", "over"} \cup Executing \cup Ending]
    /\ reply \in [Runs -> {"none", "going", "done", "marked", "raised"}]
    /\ calling \in [Runs -> BOOLEAN]
    /\ report \in [Runs -> {"none", "plain", "image"}]
    /\ asked \in [Runs -> SUBSET {"stop", "limit", "shutdown"}]

Init ==
    /\ server = "up" /\ task = "on" /\ job = TRUE
    /\ picture = NoRun
    /\ row = [r \in Runs |-> "none"]
    /\ kind = [r \in Runs |-> "none"]
    /\ proc = [r \in Runs |-> "idle"]
    /\ reply = [r \in Runs |-> "none"]
    /\ calling = [r \in Runs |-> FALSE]
    /\ report = [r \in Runs |-> "none"]
    /\ asked = [r \in Runs |-> {}]

Goto(r, place) == proc' = [proc EXCEPT ![r] = place]

\* The event loop runs nothing else between the two commits of finish_run.
LoopFree == server # "down" /\ \A r \in Runs : proc[r] # "picturing"
Alive(r) == LoopFree /\ proc[r] \notin {"idle", "over"}

----------------------------------------------------------------------------
(* The task and its job.                                                   *)

\* Switching scheduled runs on or off, and sync_automation_job.
Switch(state) ==
    /\ server = "up" /\ task # "deleted"
    /\ task' = state
    /\ job' = (state = "on")
    /\ UNCHANGED <<server, picture, row, kind, proc, reply, calling, report, asked>>

\* Deletion takes the rows of all runs along, also of running ones.
Delete ==
    /\ server = "up" /\ task # "deleted"
    /\ task' = "deleted" /\ job' = FALSE
    /\ picture' = NoRun
    /\ row' = [r \in Runs |-> "none"]
    /\ UNCHANGED <<server, kind, proc, reply, calling, report, asked>>

RemovePicture ==
    /\ server = "up" /\ task # "deleted"
    /\ picture' = NoRun
    /\ UNCHANGED <<taskVars, row, kind, proc, reply, calling, report, asked>>

----------------------------------------------------------------------------
(* finish_run.                                                             *)

\* The status a run ends with: its report counts only for a result.
StatusOf(r, outcome) ==
    IF outcome # "result" THEN outcome
    ELSE IF report[r] # "none" THEN "reported" ELSE "unknown"

\* Mutation: a report is kept for the next finish.
FinishKeepingReport(r, outcome) ==
    /\ row' = [row EXCEPT ![r] = IF @ = "none" THEN @ ELSE StatusOf(r, outcome)]
    /\ UNCHANGED report

\* The row, if it is still there, gets its status; the report is used up.
FinishRun(r, outcome) ==
    /\ row' = [row EXCEPT ![r] = IF @ = "none" THEN @ ELSE StatusOf(r, outcome)]
    /\ report' = [report EXCEPT ![r] = "none"]

\* Mutation: the picture is taken over whatever the run ends as.
TakesAnyPicture(r, outcome) == report[r] = "image" /\ row[r] # "none"

\* set_image follows.
TakesPicture(r, outcome) ==
    StatusOf(r, outcome) = "reported" /\ report[r] = "image" /\ row[r] # "none"

----------------------------------------------------------------------------
(* execute_automation.                                                     *)

\* The job fires, one run at a time (APScheduler's max_instances), or someone
\* presses "Run now".
Begin(r, by) ==
    /\ server = "up" /\ LoopFree /\ task # "deleted"
    /\ proc[r] = "idle" /\ \A q \in Runs : q < r => proc[q] # "idle"
    /\ by = "schedule" => job /\ \A q \in Runs : kind[q] = "schedule" => proc[q] = "over"
    /\ row' = [row EXCEPT ![r] = "running"]
    /\ kind' = [kind EXCEPT ![r] = by]
    /\ Goto(r, "creating")
    /\ UNCHANGED <<taskVars, picture, reply, calling, report, asked>>

\* The chat is created and named in the row.  Without the row the run breaks
\* on it, before and inside its error handlers.
CreateChat(r) ==
    /\ Alive(r) /\ proc[r] = "creating"
    /\ Goto(r, IF row[r] = "none" THEN "over" ELSE "opening")
    /\ UNCHANGED <<taskVars, picture, row, kind, reply, calling, report, asked>>

\* The chat cannot be created, the payload fails, the model is out of reach.
Break(r) ==
    /\ Alive(r) /\ proc[r] \in {"creating", "opening"}
    /\ FinishRun(r, "error")
    /\ Goto(r, "failing")
    /\ UNCHANGED <<taskVars, picture, kind, reply, calling, asked>>

StartReply(r) ==
    /\ Alive(r) /\ proc[r] = "opening"
    /\ reply' = [reply EXCEPT ![r] = "going"]
    /\ Goto(r, "awaiting")
    /\ UNCHANGED <<taskVars, picture, row, kind, calling, report, asked>>

Replying(r) == Alive(r) /\ reply[r] = "going"

\* The model reports, perhaps with a picture that a thread prepares.
CallReport(r) ==
    /\ Replying(r) /\ ~ calling[r]
    /\ calling' = [calling EXCEPT ![r] = TRUE]
    /\ UNCHANGED <<taskVars, picture, row, kind, proc, reply, report, asked>>

\* record_report, also when the reply or the run is over by now; a later report
\* replaces an earlier one.
Report(r, with) ==
    /\ LoopFree /\ calling[r]
    /\ calling' = [calling EXCEPT ![r] = FALSE]
    /\ report' = [report EXCEPT ![r] = with]
    /\ UNCHANGED <<taskVars, picture, row, kind, proc, reply, asked>>

\* The reply ends on its own; a tool loop that breaks leaves its calls behind.
ReplyEnds(r) ==
    /\ Replying(r)
    /\ reply' = [reply EXCEPT ![r] = "done"]
    /\ UNCHANGED <<taskVars, picture, row, kind, proc, calling, report, asked>>

\* A cancelled reply marks the metadata and returns, or raises.  Its wave is
\* cancelled with it, but not the calls of a tool loop that had broken.
CancelReply(r) ==
    /\ reply' \in {[reply EXCEPT ![r] = end] : end \in {"marked", "raised"}}
    /\ calling' \in {calling, [calling EXCEPT ![r] = FALSE]}
    /\ UNCHANGED <<row, proc, report>>

\* CancelledError in the coroutine of the run: handled once, where there is a
\* handler.
CancelRun(r) ==
    /\ IF proc[r] \in {"opening", "closing", "ending"}
       THEN FinishRun(r, "stopped") /\ Goto(r, "stopping")
       ELSE Goto(r, "over") /\ UNCHANGED <<row, report>>
    /\ UNCHANGED <<reply, calling>>

\* Stop in the chat of the run.
Stop(r) ==
    /\ server = "up" /\ Alive(r)
    /\ asked' = [asked EXCEPT ![r] = @ \cup {"stop"}]
    /\ \/ reply[r] = "going" /\ CancelReply(r)
       \/ kind[r] = "now" /\ proc[r] \notin {"creating", "awaiting"} /\ CancelRun(r)
    /\ UNCHANGED <<taskVars, picture, kind>>

\* Mutation: the time limit writes a status of its own.
LimitAsTimeout(r) ==
    /\ Alive(r)
    /\ asked' = [asked EXCEPT ![r] = @ \cup {"limit"}]
    /\ \/ /\ proc[r] = "opening"
          /\ FinishRun(r, "timeout") /\ Goto(r, "failing")
          /\ UNCHANGED <<reply, calling>>
       \/ reply[r] = "going" /\ CancelReply(r)
    /\ UNCHANGED <<taskVars, picture, kind>>

\* The deadline of the run passes: it cancels the coroutine where it is.
Limit(r) ==
    /\ Alive(r)
    /\ asked' = [asked EXCEPT ![r] = @ \cup {"limit"}]
    /\ \/ /\ proc[r] = "opening"
          /\ FinishRun(r, "error") /\ Goto(r, "failing")
          /\ UNCHANGED <<reply, calling>>
       \/ reply[r] = "going" /\ CancelReply(r)
    /\ UNCHANGED <<taskVars, picture, kind>>

\* shutdown_scheduler cancels a scheduled run.
Shut(r) ==
    /\ server = "closing" /\ Alive(r) /\ kind[r] = "schedule"
    /\ "shutdown" \notin asked[r]
    /\ asked' = [asked EXCEPT ![r] = @ \cup {"shutdown"}]
    /\ \/ reply[r] = "going" /\ CancelReply(r)
       \/ proc[r] # "awaiting" /\ CancelRun(r)
    /\ UNCHANGED <<taskVars, picture, kind>>

\* The reply is over.  A return leads to the final save, a CancelledError is
\* the time limit if that has passed, else a stop.
Return(r) ==
    /\ Alive(r) /\ proc[r] = "awaiting" /\ reply[r] # "going"
    /\ \/ /\ reply[r] # "raised"
          /\ Goto(r, "closing") /\ UNCHANGED <<row, report>>
       \/ /\ reply[r] = "raised" /\ "limit" \in asked[r]
          /\ FinishRun(r, "error") /\ Goto(r, "failing")
       \/ /\ reply[r] = "raised" /\ "limit" \notin asked[r]
          /\ FinishRun(r, "stopped") /\ Goto(r, "stopping")
    /\ UNCHANGED <<taskVars, picture, kind, reply, calling, asked>>

\* The final save is done, and the run ends with that outcome.
EndsAs(r, outcome) ==
    /\ Alive(r) /\ proc[r] = "closing"
    /\ FinishRun(r, outcome)
    /\ Goto(r, IF TakesPicture(r, outcome) THEN "picturing" ELSE "ending")
    /\ UNCHANGED <<taskVars, picture, kind, reply, calling, asked>>

\* Mutation: the mark of a stopped reply is not looked at.
FinishUnmarked(r) == EndsAs(r, "result")

\* As stopped or with its result.
Finish(r) == EndsAs(r, IF reply[r] = "marked" THEN "stopped" ELSE "result")

\* set_image, whether or not the task is still there.
SetImage(r) ==
    /\ server # "down" /\ proc[r] = "picturing"
    /\ picture' = r
    /\ Goto(r, "ending")
    /\ UNCHANGED <<taskVars, row, kind, reply, calling, report, asked>>

\* set_image raises: the handler of the run ends it once more.
SetImageFails(r) ==
    /\ server # "down" /\ proc[r] = "picturing"
    /\ FinishRun(r, "error")
    /\ Goto(r, "failing")
    /\ UNCHANGED <<taskVars, picture, kind, reply, calling, asked>>

\* The end is announced.  A scheduled run that broke is finished once more.
Notify(r) ==
    /\ Alive(r) /\ proc[r] \in Ending
    /\ IF proc[r] = "failing" /\ kind[r] = "schedule"
       THEN FinishRun(r, "error")
       ELSE UNCHANGED <<row, report>>
    /\ Goto(r, "over")
    /\ UNCHANGED <<taskVars, picture, kind, reply, calling, asked>>

----------------------------------------------------------------------------
(* The server.                                                             *)

Close ==
    /\ server = "up" /\ LoopFree
    /\ server' = "closing"
    /\ UNCHANGED <<task, job, picture, row, kind, proc, reply, calling, report, asked>>

\* The process ends, by itself or killed.
Exit ==
    /\ server # "down"
    /\ server' = "down"
    /\ job' = FALSE
    /\ proc' = [r \in Runs |-> IF proc[r] = "idle" THEN "idle" ELSE "over"]
    /\ report' = [r \in Runs |-> "none"]
    /\ calling' = [r \in Runs |-> FALSE]
    /\ reply' = [r \in Runs |-> IF reply[r] = "going" THEN "done" ELSE reply[r]]
    /\ UNCHANGED <<task, picture, row, kind, asked>>

\* Mutation: interrupted runs are left as they are.
StartUnmarked ==
    /\ server = "down"
    /\ server' = "up"
    /\ job' = (task = "on")
    /\ UNCHANGED <<task, picture, row, kind, proc, reply, calling, report, asked>>

\* Mutation: every run is marked, not only those still running.
StartAllMarked ==
    /\ server = "down"
    /\ server' = "up"
    /\ row' = [r \in Runs |-> IF row[r] = "none" THEN "none" ELSE "error"]
    /\ job' = (task = "on")
    /\ UNCHANGED <<task, picture, kind, proc, reply, calling, report, asked>>

\* start_scheduler: mark_interrupted, and a job for an enabled task.
Start ==
    /\ server = "down"
    /\ server' = "up"
    /\ row' = [r \in Runs |-> IF row[r] = "running" THEN "error" ELSE row[r]]
    /\ job' = (task = "on")
    /\ UNCHANGED <<task, picture, kind, proc, reply, calling, report, asked>>

----------------------------------------------------------------------------
RunStep(r) ==
    \/ CreateChat(r) \/ Break(r) \/ StartReply(r) \/ ReplyEnds(r)
    \/ Return(r) \/ Finish(r) \/ SetImage(r) \/ SetImageFails(r) \/ Notify(r)

Next ==
    \/ \E state \in {"on", "off"} : Switch(state)
    \/ Delete \/ RemovePicture
    \/ \E r \in Runs :
          \/ \E by \in {"schedule", "now"} : Begin(r, by)
          \/ CallReport(r)
          \/ \E with \in {"plain", "image"} : Report(r, with)
          \/ RunStep(r)
          \/ Stop(r) \/ Limit(r) \/ Shut(r)
    \/ Close \/ Exit \/ Start

\* A run goes on and its reply ends (it has a time limit); a process that shut
\* down exits and is started again.  Users and crashes are not fair.
Fairness ==
    /\ \A r \in Runs : WF_vars(RunStep(r))
    /\ WF_vars(server = "closing" /\ Exit)
    /\ WF_vars(Start)

Spec == Init /\ [][Next]_vars
FairSpec == Spec /\ Fairness

----------------------------------------------------------------------------
(* Properties.                                                             *)

\* While the server is up, a row says "running" exactly while its coroutine
\* has not ended the run: no path leaves a run behind or ends it early.
RunningIsExecuted ==
    server = "up" => \A r \in Runs :
        IF proc[r] \in Executing THEN row[r] \in {"running", "none"} ELSE row[r] # "running"

\* What the model reported before its run ends is used up by that end and lost by
\* nothing before it, and a run ends as unknown only when there is no report.
\* (A report that comes later stays: its run has no further end to use it.)
ReportsOfExecutedRuns ==
    [][server' # "down" => \A r \in Runs :
          /\ proc[r] \in Executing /\ proc'[r] \notin Executing => report'[r] = "none"
          /\ report[r] # "none" /\ report'[r] = "none" => proc'[r] \notin Executing
          /\ report[r] # "none" /\ row'[r] = "unknown" => row[r] = "unknown"]_vars

\* The task's picture is from a run that ended as its model reported ("A
\* reported image becomes the task's picture only when the run ends as the
\* model reported or as unknown"); only a late cancellation, while the end is
\* announced, makes it a stopped run.
PictureOfAResult ==
    picture # NoRun /\ task # "deleted" =>
        \/ row[picture] = "reported"
        \/ row[picture] = "stopped" /\ asked[picture] \cap {"stop", "shutdown"} # {}

\* A run whose reply was cancelled ends as stopped or error, never with a
\* result ("a stopped run is neither an error nor a result").
CancelledIsNoResult ==
    \A r \in Runs : reply[r] \in {"marked", "raised"} => row[r] \notin Results

\* An ended run stays ended, as it ended: it is only deleted, or stopped while
\* its result is announced, or broken by the picture of what it reported.
EndedStaysEnded ==
    [][\A r \in Runs : row[r] \in Ended /\ row'[r] # row[r] =>
          \/ row'[r] = "none"
          \/ row[r] \in Results /\ row'[r] = "stopped"
          \/ row[r] = "reported" /\ row'[r] = "error" /\ proc[r] = "picturing"]_vars

\* Every run ends, also one the server was killed in.
EveryRunEnds == \A r \in Runs : (row[r] = "running") ~> (row[r] # "running")

\* A run that ran past its time limit, and that nobody stopped, is an error
\* ("A run that takes longer is stopped and recorded as an error").
TimeLimitIsAnError ==
    \A r \in Runs : asked[r] = {"limit"} => row[r] \in {"running", "error", "none"}

=============================================================================
