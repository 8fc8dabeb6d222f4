------------------------------ MODULE MCRequests ------------------------------
(* Small instances of the components that serve concurrent requests, each    *)
(* explored by itself: focus says which.                                    *)
EXTENDS ChunkedUpload, Workflows, Batches, BulkJobs, Presence, Scaling, CalcCache, TLC

CONSTANTS a1, a2, b1    \* sockets

VARIABLE focus

MCUserOf == (a1 :> "a") @@ (a2 :> "a") @@ (b1 :> "b")
MCRows == <<[item |-> "b", key |-> "k", value |-> "new"], [item |-> "c", key |-> "k", value |-> "x"], [item |-> "b", key |-> "k", value |-> "newer"]>>
MCMapping == {<<"a", "b">>}
MCChain == <<"l1", "l2">>
MCComputed == {<<"v1", "h1">>, <<"v1", "h2">>, <<"v2", "h1">>}

FirstStage == CHOOSE s \in WfStages: TRUE
FirstWfTask == CHOOSE t \in WfTasks: TRUE
ReqInit ==
  /\ focus \in {"upload", "workflow", "batch", "bulk", "presence", "scaling", "cache"}
  /\ Init /\ WorkflowInit /\ stages[FirstStage].exists /\ tasks[FirstWfTask].exists
   /\ BatchInit /\ BulkInit /\ (focus # "bulk" => ~sealed) /\ PresenceInit /\ ScalingInit /\ CacheInit
ReqNext ==
  /\ UNCHANGED focus
  /\ \/ focus = "upload" /\ Next /\ UNCHANGED <<wfVars, batchVars, bulkVars, presenceVars, scVars, ccVars>>
     \/ focus = "workflow" /\ WorkflowNext /\ UNCHANGED <<vars, batchVars, bulkVars, presenceVars, scVars, ccVars>>
     \/ focus = "batch" /\ BatchNext /\ UNCHANGED <<vars, wfVars, bulkVars, presenceVars, scVars, ccVars>>
     \/ focus = "bulk" /\ BulkNext /\ UNCHANGED <<vars, wfVars, batchVars, presenceVars, scVars, ccVars>>
     \/ focus = "presence" /\ PresenceNext /\ UNCHANGED <<vars, wfVars, batchVars, bulkVars, scVars, ccVars>>
     \/ focus = "scaling" /\ ScalingNext /\ UNCHANGED <<vars, wfVars, batchVars, bulkVars, presenceVars, ccVars>>
     \/ focus = "cache" /\ CacheNext /\ UNCHANGED <<vars, wfVars, batchVars, bulkVars, presenceVars, scVars>>
ReqSpec == ReqInit /\ [][ReqNext]_<<focus, vars, wfVars, batchVars, bulkVars, presenceVars, scVars, ccVars>>

(* Decisions and gates of a workflow follow from the approvals its tasks     *)
(* have, whatever requests overlap (approve_task, reject_task,               *)
(* get_workflow_progress).                                                   *)
WorkflowsAgree == DecisionsDecide /\ GatesAgree
(* Bulk work is neither lost nor counted twice: a batch keeps the additions  *)
(* that nobody overwrote, a job's counters add up to its rows, and what a    *)
(* copy counted as done has arrived (add_batch_operation,                    *)
(* bulk_write_cells, bulk_copy_cells, bulk_delete_cells).                    *)
BulkWorkAddsUp == BatchKeepsAdditions /\ JobsAddUp /\ CopiesArrive
=============================================================================
