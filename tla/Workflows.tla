------------------------------ MODULE Workflows ------------------------------
(***************************************************************************)
(* Approval workflows of services/workflow.py behind api/workflow.py.  A    *)
(* request loads the rows it works on (Ask...), checks what it loaded and    *)
(* commits the columns it changed (the second step), so that requests       *)
(* overlap.  An update of a row deleted meanwhile fails; a delete does not. *)
(* Names, descriptions, due dates and assignees are left out: no status      *)
(* depends on them.                                                         *)
(***************************************************************************)
EXTENDS Integers, Sequences, SequencesExt, FiniteSets

CONSTANTS WfClients,      \* concurrent requests
          WfStages,       \* identities of stages
          WfTasks,        \* identities of tasks
          MaxWfRequests   \* how many requests are made in all

ASSUME WorkflowAssumption == "none" \notin WfStages /\ "deleted" \notin WfStages

VARIABLES workflow,   \* the status of the workflow, "none" when it does not exist
          stages,     \* stage -> whether it exists and is a gate
          tasks,      \* task -> its row, its approvals and the history of its commits
          wfReqs,     \* client -> the request it has open
          wfMade      \* requests made so far

wfVars == <<workflow, stages, tasks, wfReqs, wfMade>>

NoStage == [exists |-> FALSE, is_gate |-> FALSE, deleted |-> FALSE]
(* commits counts the committed changes of the row; overlapped records that *)
(* one of them was decided on an older row than it changed.                 *)
NoTask == [exists |-> FALSE, stage |-> "none", status |-> "pending", completed |-> FALSE, approvals |-> <<>>,
           commits |-> 0, overlapped |-> FALSE]
(* The identities of what was deleted are not used again.                   *)
DeletedStage == [NoStage EXCEPT !.deleted = TRUE]
DeletedTask == [NoTask EXCEPT !.stage = "deleted"]
Stage(gate) == [NoStage EXCEPT !.exists = TRUE, !.is_gate = gate]
NoWfReq == [op |-> "none", target |-> "none", status |-> "none", commits |-> 0, gate |-> FALSE]

VALID_TRANSITIONS ==
  [pending |-> {"in_progress"}, in_progress |-> {"submitted"}, submitted |-> {"approved", "rejected"},
   rejected |-> {"in_progress"}, approved |-> {}]
NoGates == [s \in WfStages |-> NoStage]
FirstTask == [NoTask EXCEPT !.exists = TRUE, !.stage = CHOOSE s \in WfStages: stages[s].exists]
(* The status each operation on a task asks for, in_progress being reached  *)
(* by callers of transition_task_status alone.                              *)
Asked == [start |-> "in_progress", submit |-> "submitted", approve |-> "approved", reject |-> "rejected"]

(* A draft with one gate and, in it, one task nobody has started.          *)
WorkflowInit ==
  /\ workflow = "draft"
  /\ \E s \in WfStages: stages = [NoGates EXCEPT ![s] = Stage(TRUE)]
  /\ \E t \in WfTasks: tasks = [x \in WfTasks |-> IF x = t THEN FirstTask ELSE NoTask]
  /\ wfReqs = [c \in WfClients |-> NoWfReq]
  /\ wfMade = 0

Ask(c, req) ==
  /\ wfReqs[c] = NoWfReq /\ wfMade < MaxWfRequests
  /\ wfMade' = wfMade + 1
  /\ wfReqs' = [wfReqs EXCEPT ![c] = req]
  /\ UNCHANGED <<workflow, stages, tasks>>
WfRequest(op, target, status, commits, gate) == [op |-> op, target |-> target, status |-> status, commits |-> commits, gate |-> gate]
(* A request on the workflow or on a new stage loads the workflow ...      *)
AskWorkflow(c) ==
  /\ workflow # "none"
  /\ \/ \E op \in {"activate", "complete", "archive", "delete_workflow"}: Ask(c, WfRequest(op, "none", workflow, 0, FALSE))
     \/ \E s \in WfStages, g \in BOOLEAN: stages[s] = NoStage /\ Ask(c, WfRequest("create_stage", s, workflow, 0, g))
(* ... one on a stage or on a new task the stage ...                       *)
AskStage(c) ==
  \E s \in {x \in WfStages: stages[x].exists}:
    \/ \E g \in BOOLEAN: Ask(c, WfRequest("update_stage", s, "none", 0, g))
    \/ Ask(c, WfRequest("delete_stage", s, "none", 0, FALSE))
    \/ Ask(c, WfRequest("create_task", s, "none", 0, FALSE))
(* ... and one on a task the task, whose status it checks.                 *)
AskTask(c) ==
  \E t \in {x \in WfTasks: tasks[x].exists}, op \in DOMAIN Asked:
    Ask(c, WfRequest(op, t, tasks[t].status, tasks[t].commits, FALSE))

Finish(c) == wfReqs' = [wfReqs EXCEPT ![c] = NoWfReq] /\ UNCHANGED wfMade
Has(c, ops) == wfReqs[c].op \in ops
(* The three changes of the workflow's own status: only drafts are          *)
(* activated, only active workflows completed, any is archived.             *)
MaySet == [activate |-> {"draft"}, complete |-> {"active"}, archive |-> {"draft", "active", "completed", "archived"}]
StatusAfter == [activate |-> "active", complete |-> "completed", archive |-> "archived"]
SetWorkflowStatus(c) ==
  /\ Has(c, DOMAIN StatusAfter)
  /\ workflow' = IF wfReqs[c].status \in MaySet[wfReqs[c].op] /\ workflow # "none" THEN StatusAfter[wfReqs[c].op] ELSE workflow
  /\ Finish(c) /\ UNCHANGED <<stages, tasks>>
Without(ts) == [t \in WfTasks |-> IF t \in ts THEN DeletedTask ELSE tasks[t]]
TasksOf(ss) == {t \in WfTasks: tasks[t].exists /\ tasks[t].stage \in ss}
(* Deleting cascades to stages, tasks and approvals.                       *)
delete_workflow(c) ==
  /\ Has(c, {"delete_workflow"})
  /\ workflow' = "none"
  /\ stages' = [s \in WfStages |-> DeletedStage]
  /\ tasks' = Without(WfTasks)
  /\ Finish(c)
(* The insert fails when the workflow is gone.                             *)
create_stage(c) ==
  /\ Has(c, {"create_stage"})
  /\ stages' = IF workflow = "none" \/ stages[wfReqs[c].target] # NoStage THEN stages
               ELSE [stages EXCEPT ![wfReqs[c].target] = Stage(wfReqs[c].gate)]
  /\ Finish(c) /\ UNCHANGED <<workflow, tasks>>
update_stage(c) ==
  /\ Has(c, {"update_stage"})
  /\ stages' = IF stages[wfReqs[c].target].exists THEN [stages EXCEPT ![wfReqs[c].target].is_gate = wfReqs[c].gate] ELSE stages
  /\ Finish(c) /\ UNCHANGED <<workflow, tasks>>
delete_stage(c) ==
  /\ Has(c, {"delete_stage"})
  /\ stages' = [stages EXCEPT ![wfReqs[c].target] = DeletedStage]
  /\ tasks' = Without(TasksOf({wfReqs[c].target}))
  /\ Finish(c) /\ UNCHANGED workflow
create_task(c) ==
  /\ Has(c, {"create_task"})
  /\ IF stages[wfReqs[c].target].exists /\ \E t \in WfTasks: tasks[t] = NoTask
     THEN LET new == CHOOSE t \in WfTasks: tasks[t] = NoTask
          IN  tasks' = [tasks EXCEPT ![new] = [NoTask EXCEPT !.exists = TRUE, !.stage = wfReqs[c].target]]
     ELSE UNCHANGED tasks
  /\ Finish(c) /\ UNCHANGED <<workflow, stages>>
(* transition_task_status, submit_task, approve_task and reject_task: the   *)
(* loaded status decides; the status, for an approval completed_at, and the *)
(* decision are committed together.                                         *)
Decision_Uncompleted(row, status) == [row EXCEPT !.approvals = Append(@, status)]
Decision(row, status) == [row EXCEPT !.approvals = Append(@, status), !.completed = @ \/ status = "approved"]
Transition(row, req) == Asked[req.op] \in VALID_TRANSITIONS[req.status]
SetTaskStatus(c) ==
  LET req == wfReqs[c]  row == tasks[req.target]  status == Asked[req.op]
      moved == [row EXCEPT !.status = status, !.commits = @ + 1, !.overlapped = @ \/ req.commits # row.commits]
  IN  /\ Has(c, DOMAIN Asked)
      /\ tasks' = IF ~row.exists \/ ~Transition(row, req) THEN tasks
                  ELSE [tasks EXCEPT ![req.target] = IF req.op \in {"approve", "reject"} THEN Decision(moved, status) ELSE moved]
      /\ Finish(c) /\ UNCHANGED <<workflow, stages>>

WorkflowNext ==
  \E c \in WfClients:
    \/ AskWorkflow(c) \/ AskStage(c) \/ AskTask(c)
    \/ SetWorkflowStatus(c) \/ delete_workflow(c)
    \/ create_stage(c) \/ update_stage(c) \/ delete_stage(c)
    \/ create_task(c) \/ SetTaskStatus(c)

----------------------------------------------------------------------------
(* What the workflow's readers are told. *)
is_gate_stage_completed(s) ==
  /\ stages[s].is_gate
  /\ TasksOf({s}) # {} /\ \A t \in TasksOf({s}): tasks[t].status = "approved"
get_workflow_progress ==
  LET gates == {s \in WfStages: stages[s].exists /\ stages[s].is_gate}
      approvedAll(s) == \A t \in TasksOf({s}): tasks[t].status = "approved"
  IN  [total_tasks |-> Cardinality(TasksOf(WfStages)),
       gate_total |-> Cardinality(gates),
       gate_completed |-> Cardinality({s \in gates: TasksOf({s}) # {} /\ approvedAll(s)})]

(* How many changes a status is away from the last decision.                *)
SinceDecision == [pending |-> 0, in_progress |-> 1, submitted |-> 2, approved |-> 0, rejected |-> 0]
(* A task tells the story of its decisions.  However requests overlap, a    *)
(* task is completed exactly when somebody approved it.  When no change of  *)
(* the task was decided on a stale row, its status follows from the         *)
(* decisions: approved once at most and then for good, rejected or under    *)
(* way otherwise.                                                           *)
DecisionsDecide ==
  \A t \in WfTasks: tasks[t].exists =>
    LET row == tasks[t]  n == Len(row.approvals)
    IN  /\ row.completed <=> "approved" \in ToSet(row.approvals)
        /\ ~row.overlapped =>
             /\ row.completed <=> row.status = "approved"
             /\ row.status \in {"approved", "rejected"} => n > 0 /\ row.approvals[n] = row.status
             /\ "approved" \notin ToSet(SubSeq(row.approvals, 1, n - 1))
             /\ row.commits = 3 * n + SinceDecision[row.status]
(* No task outlives its stage, no stage its workflow, and the gates the      *)
(* progress counts as completed are those is_gate_stage_completed tells.    *)
GatesAgree ==
  /\ get_workflow_progress.gate_completed = Cardinality({s \in WfStages: is_gate_stage_completed(s)})
  /\ \A t \in WfTasks: tasks[t].exists => stages[tasks[t].stage].exists
  /\ \A s \in WfStages: stages[s].exists => workflow # "none"
=============================================================================
