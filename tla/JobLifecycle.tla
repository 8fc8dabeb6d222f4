----------------------------- MODULE JobLifecycle -----------------------------
(***************************************************************************)
(* What the background job registry promises about every job, whatever     *)
(* executor drives it (engine/job_registry.py): a job moves only along     *)
(* ALLOWED_TRANSITIONS, it is run at most max_retries + 1 times, it is     *)
(* failed only when that budget is spent, and a cancellation once asked    *)
(* for is never forgotten and is never followed by another attempt.        *)
(*                                                                         *)
(* One step may move several jobs (stop(drain=False) cancels every job in  *)
(* one go), so Next is stated job by job.  A job that the registry does    *)
(* not know is "absent"; submit() registers it as pending and queues it in *)
(* the same uninterrupted segment, so "pending" is never observable.       *)
(***************************************************************************)
EXTENDS Naturals

CONSTANTS Jobs,        \* the job ids that may ever be submitted
          MaxRetries   \* bound on the max_retries a caller passes to submit()

VARIABLES state,           \* JobRecord.state
          attempts,        \* JobRecord.attempts
          budget,          \* JobRecord.max_retries
          cancelRequested  \* jobs whose JobRecord.cancel_requested is set

vars == <<state, attempts, budget, cancelRequested>>

JobState == {"absent", "queued", "running", "completed", "failed", "retrying",
             "cancelled"}

TERMINAL_JOB_STATES == {"completed", "failed", "cancelled"}

ALLOWED_TRANSITIONS ==
    { <<"absent", "queued">>,
      <<"queued", "running">>, <<"queued", "cancelled">>,
      <<"running", "completed">>, <<"running", "failed">>,
      <<"running", "retrying">>, <<"running", "cancelled">>,
      <<"retrying", "queued">>, <<"retrying", "cancelled">> }

retries_used(n) == IF n = 0 THEN 0 ELSE n - 1

-------------------------------------------------------------------------------

Init == /\ state = [j \in Jobs |-> "absent"]
        /\ attempts = [j \in Jobs |-> 0]
        /\ budget = [j \in Jobs |-> 0]
        /\ cancelRequested = {}

Stays(j) == /\ state'[j] = state[j]
            /\ attempts'[j] = attempts[j]
            /\ budget'[j] = budget[j]

Submitted(j) == /\ state[j] = "absent" /\ state'[j] = "queued"
                /\ attempts'[j] = 0
                /\ budget'[j] \in 0..MaxRetries
                /\ j \notin cancelRequested'

Moves(j) == /\ state[j] # "absent"
            /\ <<state[j], state'[j]>> \in ALLOWED_TRANSITIONS
            /\ budget'[j] = budget[j]
            /\ attempts'[j] = attempts[j] + (IF state'[j] = "running" THEN 1 ELSE 0)
            /\ state'[j] = "running" => j \notin cancelRequested
            /\ state'[j] = "retrying" => /\ retries_used(attempts[j]) < budget[j]
                                         /\ j \notin cancelRequested
            /\ state'[j] = "failed" => /\ retries_used(attempts[j]) >= budget[j]
                                       /\ j \notin cancelRequested

\* A cancellation is recorded only for a registered job that is not over yet.
CancelsRecorded == /\ cancelRequested \subseteq cancelRequested'
                   /\ \A j \in cancelRequested' \ cancelRequested :
                          state[j] \notin TERMINAL_JOB_STATES \union {"absent"}

Next == /\ \A j \in Jobs : Stays(j) \/ Submitted(j) \/ Moves(j)
        /\ DOMAIN state' = Jobs /\ DOMAIN attempts' = Jobs /\ DOMAIN budget' = Jobs
        /\ CancelsRecorded

Spec == Init /\ [][Next]_vars

===============================================================================
