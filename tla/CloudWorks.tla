------------------------------- MODULE CloudWorks ------------------------------
(***************************************************************************)
(* CloudWorks runs and the schedule that starts them                       *)
(* (services/cloudworks.py, api/cloudworks.py, engine/job_scheduler.py).   *)
(*                                                                         *)
(* One schedule with its run rows in the database, the in-process runtime  *)
(* that has the schedule registered with the cron scheduler or not, and a  *)
(* set of sessions: each is one HTTP request or one cron firing, has its   *)
(* own database session, and gives way at every database call.  Commit and *)
(* refresh are separate calls.  A session keeps the attribute values it    *)
(* loaded (expire_on_commit=False), and SQLAlchemy emits an UPDATE only    *)
(* when an attribute differs from its loaded value, `seen` here.           *)
(***************************************************************************)
EXTENDS Integers, FiniteSets

CONSTANTS Runs,        \* ids of the run rows that may be created
          Sessions,    \* concurrent requests and cron firings
          MaxRetries,  \* CloudWorksSchedule.max_retries
          Operations,  \* which operations sessions perform: a subset of AllOperations
          MaxRestarts  \* bound on how often the process ends and starts again

AllOperations == {"trigger", "execute", "complete", "fail", "retry", "cron",
                  "enabled", "disabled", "delete"}

ASSUME CloudWorksAssumption ==
    /\ MaxRetries \in Nat
    /\ Operations \subseteq AllOperations
    /\ MaxRestarts \in Nat

Executable == {"pending", "retrying"}
NoRow      == "none"          \* the run row does not exist (or no longer)
NoRun      == "none"

\* The steps of a session that works on one run row.
RunSteps == {"mark", "refresh", "outcome", "completed", "failed", "clone"}

VARIABLES
    schedule,      \* the schedule row: "enabled", "disabled" or "deleted"
    registered,    \* the runtime's cron job for the schedule exists
    status,        \* CloudWorksRun.status per row: "pending", "running", "completed",
                   \* "failed", "retrying" or NoRow
    attempt,       \* CloudWorksRun.attempt_number per row
    session,       \* what each session is at, the run it has and what it loaded
    restarts       \* how often the process has started again

rows == <<status, attempt>>
vars == <<schedule, registered, status, attempt, session, restarts>>

Idle == [at |-> "idle", run |-> NoRun, seen |-> NoRow]

Init == /\ schedule = "enabled" /\ registered = TRUE
        /\ status = [r \in Runs |-> NoRow]
        /\ attempt = [r \in Runs |-> 0]
        /\ session = [a \in Sessions |-> Idle]
        /\ restarts = 0

Exists(r) == status[r] # NoRow
At(a, step) == session[a].at = step
Goes(a, step) == session' = [session EXCEPT ![a].at = step]
Ends(a) == session' = [session EXCEPT ![a] = Idle]
Holds(a, step, r, value) ==
    session' = [session EXCEPT ![a] = [at |-> step, run |-> r, seen |-> value]]

\* Loads row r into the session and goes on with step.
Loads(a, r, step) ==
    /\ At(a, "idle") /\ Exists(r)
    /\ Holds(a, step, r, status[r])
    /\ UNCHANGED <<schedule, registered, rows>>

Unused == {r \in Runs : attempt[r] = 0}

\* INSERT of the next row: ids are never used again.
Inserts(r, initial, n) ==
    /\ r \in Unused /\ r = CHOOSE u \in Unused : TRUE
    /\ status' = [status EXCEPT ![r] = initial]
    /\ attempt' = [attempt EXCEPT ![r] = n]

\* UPDATE of the session's row to a new status, which is not sent when the loaded
\* status is that one already.
Writes(a, new) ==
    status' = [status EXCEPT ![session[a].run] = IF session[a].seen = new THEN @ ELSE new]

\* The session's row is gone (its schedule was deleted): StaleDataError, the
\* request fails.
RowLost(a) ==
    /\ session[a].at \in RunSteps \ {"clone"}
    /\ ~Exists(session[a].run)
    /\ Ends(a)
    /\ UNCHANGED <<schedule, registered, rows>>

-------------------------------------------------------------------------------
(* Runs.                                                                    *)

\* trigger_run for the HTTP endpoint
TriggerRun(a, r) ==
    /\ "trigger" \in Operations
    /\ At(a, "idle") /\ schedule # "deleted"
    /\ Inserts(r, "pending", 1)
    /\ UNCHANGED <<schedule, registered, session>>

\* The status check of execute_run is made on the row the endpoint loaded.
BeginExecute(a, r) ==
    /\ "execute" \in Operations
    /\ status[r] \in Executable
    /\ Loads(a, r, "mark")

\* mark_run_running: commit, then refresh in a read of its own.
MarkRunning(a) ==
    /\ At(a, "mark") /\ Exists(session[a].run)
    /\ Writes(a, "running")
    /\ Goes(a, "refresh")
    /\ UNCHANGED <<schedule, registered, attempt>>

RefreshRun(a) ==
    /\ At(a, "refresh") /\ Exists(session[a].run)
    /\ Holds(a, "outcome", session[a].run, status[session[a].run])
    /\ UNCHANGED <<schedule, registered, rows>>

\* Mutant: a connector error leaves execute_run without mark_run_failed.
FinishRun_ErrorEscapes(a) ==
    /\ At(a, "outcome") /\ Exists(session[a].run)
    /\ Writes(a, "completed") \/ UNCHANGED status
    /\ Ends(a)
    /\ UNCHANGED <<schedule, registered, attempt>>

\* The connectors have read and written: mark_run_completed, or mark_run_failed
\* from the exception handler.
FinishRun(a) ==
    /\ At(a, "outcome") /\ Exists(session[a].run)
    /\ Writes(a, "completed") \/ Writes(a, "failed")
    /\ Ends(a)
    /\ UNCHANGED <<schedule, registered, attempt>>

\* The complete and fail endpoints, which do not look at the status.
BeginOverride(a, r) ==
    \/ "complete" \in Operations /\ Loads(a, r, "completed")
    \/ "fail" \in Operations /\ Loads(a, r, "failed")

Override(a) ==
    /\ At(a, "completed") \/ At(a, "failed")
    /\ Exists(session[a].run)
    /\ Writes(a, session[a].at)
    /\ Ends(a)
    /\ UNCHANGED <<schedule, registered, attempt>>

\* retry_run: the endpoint loads the run, then a row with the next attempt number
\* is inserted.
BeginRetry(a, r) == "retry" \in Operations /\ Loads(a, r, "clone")

RetriesExhausted(n) == n >= MaxRetries

RetryRun(a, r) ==
    /\ At(a, "clone") /\ schedule # "deleted"
    /\ LET n == attempt[session[a].run] IN
         ~RetriesExhausted(n) /\ Inserts(r, "retrying", n + 1)
    /\ Ends(a)
    /\ UNCHANGED <<schedule, registered>>

RetryRefused(a) ==
    /\ At(a, "clone")
    /\ schedule = "deleted" \/ RetriesExhausted(attempt[session[a].run])
    /\ Ends(a)
    /\ UNCHANGED <<schedule, registered, rows>>

-------------------------------------------------------------------------------
(* The cron firing: _run_scheduled_job submits execute_scheduled_run.       *)

\* The scheduler fires and an executor's worker takes the job up.
CronFires(a) ==
    /\ "cron" \in Operations
    /\ At(a, "idle") /\ registered
    /\ Goes(a, "fired")
    /\ UNCHANGED <<schedule, registered, rows>>

\* The schedule is read again; a disabled or deleted one is left alone.
CronReadsSchedule(a) ==
    /\ At(a, "fired")
    /\ \/ schedule = "enabled" /\ Goes(a, "create")
       \/ schedule # "enabled" /\ Ends(a)
    /\ UNCHANGED <<schedule, registered, rows>>

\* Mutant: the run refers to no schedule row that the database would check.
CronTriggersRun_NoForeignKey(a, r) ==
    /\ At(a, "create")
    /\ Inserts(r, "pending", 1)
    /\ Holds(a, "mark", r, "pending")
    /\ UNCHANGED <<schedule, registered>>

\* trigger_run and, in the same session, execute_run on the new row.
CronTriggersRun(a, r) ==
    /\ At(a, "create") /\ schedule # "deleted"
    /\ Inserts(r, "pending", 1)
    /\ Holds(a, "mark", r, "pending")
    /\ UNCHANGED <<schedule, registered>>

\* The INSERT fails: the schedule it refers to is gone (logged, not raised).
CronFindsNoSchedule(a) ==
    /\ At(a, "create") /\ schedule = "deleted"
    /\ Ends(a)
    /\ UNCHANGED <<schedule, registered, rows>>

-------------------------------------------------------------------------------
(* The schedule: enable_disable_schedule and delete_schedule.               *)

BeginToggle(a) ==
    /\ At(a, "idle") /\ schedule # "deleted"
    /\ \E op \in Operations \cap {"enabled", "disabled"} :
         Holds(a, op, NoRun, schedule)
    /\ UNCHANGED <<schedule, registered, rows>>

CommitToggle(a) ==
    /\ At(a, "enabled") \/ At(a, "disabled")
    /\ schedule # "deleted"
    /\ schedule' = IF session[a].seen = session[a].at THEN schedule ELSE session[a].at
    /\ Goes(a, "reload")
    /\ UNCHANGED <<registered, rows>>

RefreshToggle(a) ==
    /\ At(a, "reload") /\ schedule # "deleted"
    /\ Holds(a, "apply", NoRun, schedule)
    /\ UNCHANGED <<schedule, registered, rows>>

\* register_schedule or unregister_schedule, by what the refresh saw.
ApplyToggle(a) ==
    /\ At(a, "apply")
    /\ registered' = (session[a].seen = "enabled")
    /\ Ends(a)
    /\ UNCHANGED <<schedule, rows>>

ToggleLost(a) ==
    /\ At(a, "enabled") \/ At(a, "disabled") \/ At(a, "reload")
    /\ schedule = "deleted"
    /\ Ends(a)
    /\ UNCHANGED <<schedule, registered, rows>>

\* The cron job goes first; the row, and by cascade its runs, in the commit.
BeginDelete(a) ==
    /\ "delete" \in Operations
    /\ At(a, "idle") /\ schedule # "deleted"
    /\ registered' = FALSE
    /\ Goes(a, "drop")
    /\ UNCHANGED <<schedule, rows>>

CommitDelete(a) ==
    /\ At(a, "drop")
    /\ schedule' = "deleted"
    /\ status' = [r \in Runs |-> NoRow]
    /\ Ends(a)
    /\ UNCHANGED <<registered, attempt>>

\* The process ends, with all it was doing, and starts again: start_cloudworks_runtime
\* starts an empty scheduler.
Restart ==
    /\ restarts < MaxRestarts /\ restarts' = restarts + 1
    /\ registered' = FALSE
    /\ session' = [a \in Sessions |-> Idle]
    /\ UNCHANGED <<schedule, rows>>

-------------------------------------------------------------------------------

Continues(a) ==
    \/ MarkRunning(a) \/ RefreshRun(a) \/ FinishRun(a)
    \/ Override(a) \/ RowLost(a) \/ RetryRefused(a)
    \/ \E r \in Runs : RetryRun(a, r) \/ CronTriggersRun(a, r)
    \/ CronReadsSchedule(a) \/ CronFindsNoSchedule(a)
    \/ CommitToggle(a) \/ RefreshToggle(a) \/ ApplyToggle(a) \/ ToggleLost(a)
    \/ CommitDelete(a)

Begins(a) ==
    \/ \E r \in Runs : \/ TriggerRun(a, r) \/ BeginExecute(a, r)
                       \/ BeginOverride(a, r) \/ BeginRetry(a, r)
    \/ CronFires(a) \/ BeginToggle(a) \/ BeginDelete(a)

Next == (UNCHANGED restarts /\ \E a \in Sessions : Begins(a) \/ Continues(a)) \/ Restart

Spec == Init /\ [][Next]_vars

\* A request that has begun is served to its end; nothing obliges it to begin.
Fairness == \A a \in Sessions : WF_vars(UNCHANGED restarts /\ Continues(a))

FairSpec == Spec /\ Fairness

-------------------------------------------------------------------------------
(* Properties.                                                              *)

\* The session executes run r and its outcome will reach the row.
WillFinish(a, r) ==
    /\ session[a].run = r
    /\ At(a, "refresh") \/ (At(a, "outcome") /\ session[a].seen = "running")

\* A run that is running is in the hands of a session that will write its outcome,
\* however many sessions execute, complete, fail or retry it at the same time, and
\* although the ORM does not send a write it believes redundant, until the process ends
\* (execute_run).
RunningIsAttended ==
    restarts = 0 =>
        \A r \in Runs : status[r] = "running" => \E a \in Sessions : WillFinish(a, r)

\* A run that has begun ends, or is deleted with its schedule, unless the process ends
\* first (execute_run).
RunsEnd == \A r \in Runs : status[r] = "running" ~> (status[r] # "running" \/ restarts > 0)

\* What was deleted stays deleted, and no run is left or made for it, whatever was
\* in flight: a firing cron job, an enable, a retry (delete_schedule).
DeletedStaysDeleted ==
    [][schedule = "deleted" =>
          schedule' = "deleted" /\ \A r \in Runs : status'[r] = NoRow]_vars

===============================================================================
