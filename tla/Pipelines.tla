------------------------------- MODULE Pipelines -------------------------------
(***************************************************************************)
(* One pipeline, its steps, and the execution of one of its runs:             *)
(* services/pipeline.py and engine/pipeline_runtime/executor.py.             *)
(*                                                                         *)
(* An execution is one request: it commits before and after every step and     *)
(* the session keeps the run and the logs as they were loaded, since a second   *)
(* select does not overwrite loaded rows; a rollback (a publication that        *)
(* fails) makes it load them anew.  Cancellations, other executions and edits   *)
(* of the steps come in between; the process may stop and forget its           *)
(* executions.  Steps are numbered by sort_order.                            *)
(***************************************************************************)
EXTENDS Integers, FiniteSets, FiniteSetsExt

CONSTANTS Steps,       \* sort_orders a step may have
          TypeOfStep,  \* sort_order -> step_type
          PipeClients,
          MaxPipeOps   \* bound on the requests

\* Who triggers the run and edits its steps is none of the clients; 0 stands for no step.
ASSUME PipeAssumption == IsFiniteSet(Steps) /\ Steps \subseteq Nat \ {0} /\ "trigger" \notin PipeClients

NoError == 0
NoPipe == [kind |-> "none"]
Trigger == "trigger"
Ended == {"completed", "failed", "cancelled"}

VARIABLES steps,        \* sort_orders of the pipeline's steps
          run,          \* [status, total, completed, error, ended]
          logs,         \* <<step, who added it>> -> status
          pipeRequests, \* client -> its request
          pipeOps

pipeVars == <<steps, run, logs, pipeRequests, pipeOps>>

PipeCounted == pipeOps < MaxPipeOps /\ pipeOps' = pipeOps + 1
Pending(S) == [l \in S \X {Trigger} |-> "pending"]
LogsOf(all, s) == {l \in DOMAIN all : l[1] = s}
Others(by) ==
  [c \in PipeClients |-> IF c = by \/ pipeRequests[c].kind = "none" THEN pipeRequests[c] ELSE [pipeRequests[c] EXCEPT !.alone = FALSE]]

(* A run was triggered, one log for each step that was there. *)
trigger_pipeline_run(S) ==
  S # {} /\ run = [status |-> "pending", total |-> Cardinality(S), completed |-> 0, error |-> NoError, ended |-> FALSE] /\ logs = Pending(S)
PipeInit ==
  /\ \E S \in SUBSET Steps : steps = S /\ trigger_pipeline_run(S)
  /\ pipeRequests = [c \in PipeClients |-> NoPipe] /\ pipeOps = 0

(* Edits of the steps. *)
create_step(s) ==
  /\ PipeCounted /\ s \notin steps /\ steps' = steps \cup {s}
  /\ pipeRequests' = Others(Trigger) /\ UNCHANGED <<run, logs>>
delete_step(s) ==   \* its logs go with it
  /\ PipeCounted /\ s \in steps /\ steps' = steps \ {s}
  /\ logs' = [l \in DOMAIN logs \ LogsOf(logs, s) |-> logs[l]]
  /\ run' = IF run.error = s THEN [run EXCEPT !.error = NoError] ELSE run
  /\ pipeRequests' = Others(Trigger)

(* Cancelling: what was loaded decides. *)
LoadCancel(c) ==
  /\ PipeCounted /\ pipeRequests[c] = NoPipe
  /\ run.status \notin Ended
  /\ pipeRequests' = [pipeRequests EXCEPT ![c] =
       [kind |-> "cancel", skips |-> {l \in DOMAIN logs : logs[l] = "pending"}, alone |-> TRUE]]
  /\ UNCHANGED <<steps, run, logs>>
cancel_run(c) ==
  /\ pipeRequests[c].kind = "cancel"
  /\ pipeRequests' = [Others(c) EXCEPT ![c] = NoPipe]
  /\ IF ~(pipeRequests[c].skips \subseteq DOMAIN logs) THEN UNCHANGED <<run, logs>>
     ELSE /\ run' = [run EXCEPT !.status = "cancelled", !.ended = TRUE]
          /\ logs' = [l \in DOMAIN logs |-> IF l \in pipeRequests[c].skips THEN "skipped" ELSE logs[l]]
  /\ UNCHANGED <<steps, pipeOps>>
-----------------------------------------------------------------------------
(* Executing.  seen is the run's status in the session, seenLogs the statuses  *)
(* of the logs there, todo the steps it loaded that are left.                 *)
MayExecute(status) == status \in {"pending", "running"}
LoadRun(c) ==
  /\ PipeCounted /\ pipeRequests[c] = NoPipe /\ MayExecute(run.status)
  /\ pipeRequests' = [pipeRequests EXCEPT ![c] =
       [kind |-> "execute", stage |-> "loaded", seen |-> run.status, seenLogs |-> logs, todo |-> steps,
        step |-> NoError, log |-> <<NoError, Trigger>>, done |-> run.completed, first |-> run.status = "pending", alone |-> TRUE]]
  /\ UNCHANGED <<steps, run, logs>>

Go(c, fields) == pipeRequests' = [Others(c) EXCEPT ![c] = [f \in DOMAIN @ |-> IF f \in DOMAIN fields THEN fields[f] ELSE @[f]]]
Raises(c) == pipeRequests' = [pipeRequests EXCEPT ![c] = NoPipe]

(* start_run commits and refreshes the run and its logs: what came in between   *)
(* is what the execution sees.  Only then is it seen that there are no steps.   *)
start_run(c) ==
  LET r == pipeRequests[c]
  IN /\ r.kind = "execute" /\ r.stage = "loaded"
     /\ IF r.seen = "pending" THEN run' = [run EXCEPT !.status = "running"] /\ Go(c, [stage |-> "started"])
        ELSE UNCHANGED run /\ IF r.todo = {} THEN Raises(c) ELSE Go(c, [stage |-> "next"])
     /\ UNCHANGED <<steps, logs, pipeOps>>
RefreshRun(c) ==
  LET r == pipeRequests[c]
  IN /\ r.kind = "execute" /\ r.stage = "started"
     /\ IF r.todo = {} THEN Raises(c)
        ELSE pipeRequests' = [pipeRequests EXCEPT ![c] =
               [r EXCEPT !.stage = "next", !.seen = run.status, !.seenLogs = logs, !.done = run.completed]]
     /\ UNCHANGED <<steps, run, logs, pipeOps>>

(* A log's status is sent when it differs from the one that was loaded; the    *)
(* log is refreshed.  A log that was deleted makes the request raise.          *)
update_step_log_status(c, l, status) ==
  logs' = [logs EXCEPT ![l] = IF pipeRequests[c].seenLogs[l] = status THEN @ ELSE status]

BeginStep_Last(todo) == Max(todo)   \* mutant: steps in the wrong order
BeginStep(todo) == Min(todo)
BeginKnown(c, s, l) ==   \* l: the last of its logs, in an order with ties
  IF l \notin DOMAIN logs THEN Raises(c) /\ UNCHANGED logs
  ELSE /\ update_step_log_status(c, l, "running")
       /\ Go(c, [stage |-> "step", step |-> s, log |-> l, todo |-> pipeRequests[c].todo \ {s},
                 seenLogs |-> [pipeRequests[c].seenLogs EXCEPT ![l] = logs'[l]]])
BeginAdded(c, s, l) ==   \* a step the trigger did not see, as long as it is there
  IF s \notin steps THEN Raises(c) /\ UNCHANGED logs
  ELSE /\ logs' = [k \in DOMAIN logs \cup {l} |-> IF k = l THEN "running" ELSE logs[k]]
       /\ Go(c, [stage |-> "step", step |-> s, log |-> l, todo |-> pipeRequests[c].todo \ {s},
                 seenLogs |-> [k \in DOMAIN pipeRequests[c].seenLogs \cup {l} |->
                                IF k = l THEN "running" ELSE pipeRequests[c].seenLogs[k]]])
ExecuteNext(c) ==
  LET r == pipeRequests[c]
      s == BeginStep(r.todo)
  IN /\ r.kind = "execute" /\ r.stage = "next" /\ r.todo # {}
     /\ IF LogsOf(r.seenLogs, s) # {} THEN \E l \in LogsOf(r.seenLogs, s) : BeginKnown(c, s, l)
        ELSE BeginAdded(c, s, <<s, c>>)
     /\ UNCHANGED <<steps, run, pipeOps>>

Executing(c, stage) == pipeRequests[c].kind = "execute" /\ pipeRequests[c].stage = stage

(* The step returns: its log and the run's progress in two commits. *)
StepSucceeds(c) ==
  /\ Executing(c, "step")
  /\ LET l == pipeRequests[c].log
     IN IF l \notin DOMAIN logs THEN Raises(c) /\ UNCHANGED logs
        ELSE /\ update_step_log_status(c, l, "completed")
             /\ Go(c, [stage |-> "progress", done |-> pipeRequests[c].done + 1,
                       seenLogs |-> [pipeRequests[c].seenLogs EXCEPT ![l] = logs'[l]]])
  /\ UNCHANGED <<steps, run, pipeOps>>
Progress(c) ==
  /\ Executing(c, "progress")
  /\ run' = [run EXCEPT !.completed = pipeRequests[c].done]
  /\ Go(c, [stage |-> "next"]) /\ UNCHANGED <<steps, logs, pipeOps>>

(* The step raises; a publication may have rolled back, and then the run and    *)
(* its logs are loaded anew.                                               *)
StepFails(c) ==
  /\ Executing(c, "step")
  /\ LET r == pipeRequests[c]
     IN \E rolledBack \in {FALSE, TypeOfStep[r.step] = "publish"} :
          IF r.log \notin DOMAIN logs THEN Raises(c) /\ UNCHANGED logs
          ELSE /\ logs' = [logs EXCEPT ![r.log] = "failed"]
               /\ Go(c, [stage |-> "failed", seen |-> IF rolledBack THEN run.status ELSE r.seen,
                         seenLogs |-> IF rolledBack THEN logs' ELSE [r.seenLogs EXCEPT ![r.log] = "failed"]])
  /\ UNCHANGED <<steps, run, pipeOps>>

PendingSeen(r) == {l \in DOMAIN r.seenLogs : r.seenLogs[l] = "pending"}
_mark_remaining_logs_skipped(c) ==
  LET r == pipeRequests[c]
  IN /\ Executing(c, "failed") /\ PendingSeen(r) # {}
     /\ \E l \in PendingSeen(r) :
          IF l \notin DOMAIN logs THEN Raises(c) /\ UNCHANGED logs
          ELSE logs' = [logs EXCEPT ![l] = "skipped"] /\ Go(c, [seenLogs |-> [r.seenLogs EXCEPT ![l] = "skipped"]])
     /\ UNCHANGED <<steps, run, pipeOps>>

fail_run(c) ==
  LET r == pipeRequests[c]
  IN /\ Executing(c, "failed") /\ PendingSeen(r) = {}
     /\ IF r.seen # "running" \/ r.step \notin steps THEN Raises(c) /\ UNCHANGED run
        ELSE /\ run' = [run EXCEPT !.status = "failed", !.error = r.step, !.ended = TRUE]
             /\ pipeRequests' = [Others(c) EXCEPT ![c] = NoPipe]
     /\ UNCHANGED <<steps, logs, pipeOps>>

(* All steps were executed: the progress is set to the total, then the run is   *)
(* completed; what was loaded first decides.                                *)
FinishProgress(c) ==
  /\ Executing(c, "next") /\ pipeRequests[c].todo = {}
  /\ run' = IF pipeRequests[c].done = run.total THEN run ELSE [run EXCEPT !.completed = run.total]
  /\ Go(c, [stage |-> "finish"]) /\ UNCHANGED <<steps, logs, pipeOps>>
complete_run(c) ==
  /\ Executing(c, "finish")
  /\ IF pipeRequests[c].seen # "running" THEN Raises(c) /\ UNCHANGED run
     ELSE /\ run' = [run EXCEPT !.status = "completed", !.ended = TRUE]
          /\ pipeRequests' = [Others(c) EXCEPT ![c] = NoPipe]
  /\ UNCHANGED <<steps, logs, pipeOps>>

(* The process stops: its requests are forgotten, the run stays as it is.      *)
Stop ==
  /\ \E c \in PipeClients : pipeRequests[c] # NoPipe
  /\ pipeRequests' = [c \in PipeClients |-> NoPipe] /\ UNCHANGED <<steps, run, logs, pipeOps>>

execute_run(c) ==
  \/ LoadRun(c) \/ start_run(c) \/ RefreshRun(c) \/ ExecuteNext(c) \/ StepSucceeds(c) \/ Progress(c) \/ StepFails(c)
  \/ _mark_remaining_logs_skipped(c) \/ fail_run(c) \/ FinishProgress(c) \/ complete_run(c)

PipeNext ==
  \/ \E s \in Steps : create_step(s) \/ delete_step(s)
  \/ \E c \in PipeClients : LoadCancel(c) \/ cancel_run(c) \/ execute_run(c)
  \/ Stop
PipeSpec == PipeInit /\ [][PipeNext]_pipeVars
-----------------------------------------------------------------------------
(* A run that one execution ended, that nothing overlapped and that no earlier  *)
(* one had begun, explains itself: completed when all its steps' logs are,      *)
(* failed when the steps up to the failing one are completed and the others     *)
(* skipped (execute_run).                                                  *)
ExplainsItself ==
  \A c \in PipeClients :
       LET r == pipeRequests[c]
       IN (r.kind = "execute" /\ r.alone /\ r.first /\ pipeRequests'[c] = NoPipe /\ run'.ended /\ ~run.ended) =>
            IF run'.status = "completed" THEN (\A l \in DOMAIN logs' : logs'[l] = "completed") /\ run'.completed = run'.total
            ELSE \A l \in DOMAIN logs' :
                   logs'[l] = IF l[1] < run'.error THEN "completed" ELSE IF l[1] = run'.error THEN "failed" ELSE "skipped"

(* A run that ended is changed by those requests only that loaded it before:    *)
(* once they are through, it stays as it is, however it was cancelled,          *)
(* executed and abandoned (cancel_run, execute_run).                         *)
StaysEnded ==
     (run.ended /\ run.status \in Ended /\ \A c \in PipeClients : pipeRequests[c] = NoPipe) =>
       run'.status = run.status /\ \A c \in PipeClients : pipeRequests'[c] = NoPipe

(* Together: what a run shows once it ended is what happened, and it stays so *)
(* (services/pipeline.py).                                                    *)
RunsExplainThemselves == [][ExplainsItself /\ StaysEnded]_pipeVars
=============================================================================
