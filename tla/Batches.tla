------------------------------- MODULE Batches -------------------------------
(***************************************************************************)
(* Transactional batches and import tasks of services/chunked_upload.py.    *)
(* An addition to a batch writes the list it read plus one operation; every *)
(* request checks the status it read.  Nothing applies a batch's operations *)
(* and nothing enforces expires_at: committing is a change of status.       *)
(***************************************************************************)
EXTENDS Integers, Sequences, SequencesExt, FiniteSets

CONSTANTS BtClients,     \* concurrent requests
          Operations,    \* operations clients add
          MaxBtRequests  \* how many requests are made in all

VARIABLES batch,     \* the row: status and operations
          btReqs,    \* client -> its open request and what it read
          commits,   \* history: the commits of the batch, each with what its request had seen
          import     \* the import task's row

batchVars == <<batch, btReqs, commits, import>>

NoBtReq == [op |-> "none", operation |-> "none", status |-> "none", operations |-> <<>>, seen |-> 0]
ImportTaskStatus == {"pending", "validating", "importing", "completed", "failed"}

(* create_batch and create_import_task.                                    *)
BatchInit ==
  /\ batch = [status |-> "open", operations |-> <<>>]
  /\ btReqs = [c \in BtClients |-> NoBtReq]
  /\ commits = <<>>
  /\ import = [status |-> "pending", processed |-> 0, completed |-> FALSE]

(* get_batch at the head of every operation, which stops there unless the   *)
(* batch is open.                                                          *)
get_batch(c) ==
  /\ btReqs[c] = NoBtReq /\ batch.status = "open" /\ Len(commits) < MaxBtRequests
  /\ \E op \in {"add", "commit", "rollback"}, o \in Operations \cup {"none"}:
       (op = "add" <=> o # "none") /\ btReqs' = [btReqs EXCEPT ![c] = [op |-> op, operation |-> o, status |-> batch.status,
                                        operations |-> batch.operations, seen |-> Len(commits)]]
  /\ UNCHANGED <<batch, commits, import>>
Committed(c, row) ==
  /\ batch' = row
  /\ commits' = Append(commits, [op |-> btReqs[c].op, operation |-> btReqs[c].operation, seen |-> btReqs[c].seen])
  /\ btReqs' = [btReqs EXCEPT ![c] = NoBtReq]
  /\ UNCHANGED import
Extended(req) == Append(req.operations, req.operation)
add_batch_operation(c) == btReqs[c].op = "add" /\ Committed(c, [batch EXCEPT !.operations = Extended(btReqs[c])])
commit_batch(c) == btReqs[c].op = "commit" /\ Committed(c, [batch EXCEPT !.status = "committed"])
rollback_batch(c) == btReqs[c].op = "rollback" /\ Committed(c, [batch EXCEPT !.status = "rolled_back"])

(* A worker reports the progress of an import, with any status or none;     *)
(* no endpoint does.                                                       *)
update_import_task_progress ==
  /\ \E n \in 0..1, status \in ImportTaskStatus \cup {"none"}:
       import' = [processed |-> n,
                  status |-> IF status = "none" THEN import.status ELSE status,
                  completed |-> import.completed \/ status \in {"completed", "failed"}]
  /\ UNCHANGED <<batch, btReqs, commits>>

BatchNext ==
  \/ \E c \in BtClients: get_batch(c) \/ add_batch_operation(c) \/ commit_batch(c) \/ rollback_batch(c)
  \/ update_import_task_progress

----------------------------------------------------------------------------
Additions == {i \in DOMAIN commits: commits[i].op = "add"}
Closings == DOMAIN commits \ Additions
(* An addition lost another one when it wrote a list read before that one   *)
(* was committed.                                                          *)
LosesOthers(i) == \E j \in Additions: commits[i].seen < j /\ j < i
(* A batch holds what was acknowledged: unless one addition overlapped      *)
(* another it is the list of all additions in order, and in any case the    *)
(* last one is in it.  Once closed a batch grows, or changes its status,    *)
(* only by requests that had read it while it was open; committed batches   *)
(* are never reopened.                                                     *)
BatchKeepsAdditions ==
  /\ \A i \in Additions: (\A j \in Additions: j <= i) => batch.operations # <<>> /\ Last(batch.operations) = commits[i].operation
  /\ (\A i \in Additions: ~LosesOthers(i)) =>
       /\ Len(batch.operations) = Cardinality(Additions)
       /\ \A i \in Additions: batch.operations[Cardinality({j \in Additions: j <= i})] = commits[i].operation
  /\ Len(batch.operations) <= Cardinality(Additions)
  /\ \A i \in DOMAIN commits: ~\E j \in Closings: j <= commits[i].seen
  /\ batch.status = "open" <=> Closings = {}
  /\ import.status \in {"completed", "failed"} => import.completed
=============================================================================
