------------------------------- MODULE BulkJobs -------------------------------
(***************************************************************************)
(* Bulk jobs of services/bulk_ops.py behind api/bulk_ops.py: a request       *)
(* creates a job and then runs it, committing after every row it writes and *)
(* keeping the job's row current after every chunk; other requests cancel   *)
(* the job.  A worker's session never reads the job again: what it commits   *)
(* are the columns it sets.                                                 *)
(*                                                                         *)
(* A cell is looked up by line item and key.  Cells are read from their      *)
(* plain columns, as exports do (services/import_export.py): when the        *)
(* model is encrypted those are empty.                                      *)
(***************************************************************************)
EXTENDS Integers, Sequences, SequencesExt, FiniteSets

CONSTANTS Rows,        \* the rows of a bulk write: [item, key, value]
          ChunkSize,   \* rows between two reports of progress
          Mapping,     \* bulk copy: a set of <<source, target>> line items
          Cancellers   \* requests that cancel jobs

ASSUME ChunkAssumption == ChunkSize \in Nat \ {0}
ASSUME BulkAssumption == Rows \in Seq(Range(Rows)) /\ \A m \in Mapping: m = <<m[1], m[2]>>

VARIABLES jobs,      \* type of job -> its row
          workers,   \* type of job -> how far its request is
          bulkCells, \* the cells that exist: <<item, key>> -> value
          sealed,    \* whether the models are encrypted
          cancels    \* canceller -> the job it loaded

bulkVars == <<jobs, workers, bulkCells, sealed, cancels>>

JobTypes == {"import_cells", "delete_cells", "copy_cells"}
TargetItems == {m[2]: m \in Mapping}
NoJob == [status |-> "none", processed |-> 0, failed |-> 0, ended |-> FALSE]
(* What a worker has in hand: where it is, rows left to handle, counts; of   *)
(* the cells it took up, what was there, for the properties.                *)
Resting == [at |-> "idle", left |-> <<>>, items |-> {}, processed |-> 0, failed |-> 0, took |-> {}]
NoCancel == [job |-> "none", status |-> "none"]

BulkInit ==
  /\ jobs = [j \in JobTypes |-> NoJob]
  /\ workers = [j \in JobTypes |-> Resting]
  /\ \E m \in Mapping: bulkCells = [k \in {<<m[1], "k">>, <<m[2], "j">>} |-> "old"]
  /\ sealed \in BOOLEAN
  /\ cancels = [c \in Cancellers |-> NoCancel]

(* create_bulk_job.                                                        *)
create_bulk_job(j) ==
  /\ jobs[j] = NoJob
  /\ jobs' = [jobs EXCEPT ![j] = [NoJob EXCEPT !.status = "pending"]]
  /\ workers' = [workers EXCEPT ![j].at = "created"]
  /\ UNCHANGED <<bulkCells, sealed, cancels>>
Work(j, at) == workers[j].at = at
(* The three operations first mark the job as running.                     *)
MarkRunning(j) ==
  /\ Work(j, "created")
  /\ jobs' = [jobs EXCEPT ![j].status = "running"]
  /\ workers' = [workers EXCEPT ![j] = [@ EXCEPT !.at = "rows", !.left = IF j = "import_cells" THEN Rows ELSE <<>>,
                                                  !.items = IF j = "copy_cells" THEN Mapping ELSE {}]]
  /\ UNCHANGED <<bulkCells, sealed, cancels>>
(* write_cell commits each row by itself; a row it refuses before any        *)
(* statement fails (an id that is none, a quota) is counted and passed over. *)
Written(k, v) == [c \in DOMAIN bulkCells \cup {k} |-> IF c = k THEN v ELSE bulkCells[c]]
Handled(j, ok) ==
  LET w == workers[j]
  IN  workers' = [workers EXCEPT ![j] = [w EXCEPT !.left = Tail(w.left), !.processed = w.processed + (IF ok THEN 1 ELSE 0),
                                                  !.failed = w.failed + (IF ok THEN 0 ELSE 1)]]
ChunkDone(j) == LET n == workers[j].processed + workers[j].failed IN n > 0 /\ (n % ChunkSize = 0 \/ workers[j].left = <<>>)
Counts(j, row) == [row EXCEPT !.processed = workers[j].processed, !.failed = workers[j].failed]
MustReport == ChunkDone("import_cells") /\ jobs["import_cells"] # Counts("import_cells", jobs["import_cells"])
HandleRow(j) ==
  /\ Work(j, "rows") /\ workers[j].left # <<>>
  /\ ~(j = "import_cells" /\ MustReport)
  /\ LET r == Head(workers[j].left)
     IN  \/ bulkCells' = Written(<<r.item, r.key>>, r.value) /\ Handled(j, TRUE)
         \/ UNCHANGED bulkCells /\ Handled(j, FALSE)
  /\ UNCHANGED <<jobs, sealed, cancels>>
(* A flush or commit that fails leaves the session in need of a rollback     *)
(* that nobody asks for: what else the worker writes is refused as well, and *)
(* its next report, read or final commit raises.  The request ends with an   *)
(* error and the job stays as it is.                                        *)
SessionFails(j) ==
  /\ workers[j].at \in {"created", "rows", "found", "deleted"}
  /\ workers' = [workers EXCEPT ![j].at = "broken"]
  /\ UNCHANGED <<jobs, bulkCells, sealed, cancels>>
(* update_job_progress, after each chunk.                                  *)
update_job_progress ==
  LET j == "import_cells"
  IN  /\ Work(j, "rows") /\ MustReport
      /\ jobs' = [jobs EXCEPT ![j] = Counts(j, @)]
      /\ UNCHANGED <<workers, bulkCells, sealed, cancels>>
(* bulk_copy_cells reads the cells of one mapped line item, then writes      *)
(* them to the other; an empty value is copied as such.                     *)
ReadValue(k) == IF sealed THEN "empty" ELSE bulkCells[k]
ReadSource ==
  LET j == "copy_cells"
      w == workers[j]
  IN  /\ Work(j, "rows") /\ w.left = <<>>
      /\ \E m \in w.items:
           LET found == {k \in DOMAIN bulkCells: k[1] = m[1]}
           IN  workers' = [workers EXCEPT ![j] = [w EXCEPT !.items = w.items \ {m},
                             !.left = SetToSeq({[item |-> m[2], key |-> k[2], value |-> ReadValue(k)]: k \in found}),
                             !.took = w.took \cup {<<m, k, bulkCells[k]>>: k \in found}]]
      /\ UNCHANGED <<jobs, bulkCells, sealed, cancels>>
(* bulk_delete_cells finds the cells of the copy's targets, then deletes     *)
(* them by identity and commits.                                            *)
FindCells ==
  LET j == "delete_cells"
  IN  /\ Work(j, "rows")
      /\ workers' = [workers EXCEPT ![j] = [@ EXCEPT !.at = "found", !.took = {k \in DOMAIN bulkCells: k[1] \in TargetItems}]]
      /\ UNCHANGED <<jobs, bulkCells, sealed, cancels>>
DeleteCells ==
  LET j == "delete_cells"
  IN  /\ Work(j, "found")
      /\ bulkCells' = [k \in DOMAIN bulkCells \ workers[j].took |-> bulkCells[k]]
      /\ workers' = [workers EXCEPT ![j] = [@ EXCEPT !.at = "deleted", !.processed = Cardinality(workers[j].took)]]
      /\ UNCHANGED <<jobs, sealed, cancels>>
(* The end of each operation, complete_job: whatever became of the job's     *)
(* row meanwhile, it is completed with the worker's counts.                 *)
AllHandled_Early(j) == Work(j, "deleted") \/ (Work(j, "rows") /\ j # "delete_cells" /\ workers[j].items = {})
AllHandled(j) ==
  \/ Work(j, "deleted")
  \/ Work(j, "rows") /\ j # "delete_cells" /\ workers[j].left = <<>> /\ workers[j].items = {}
     /\ ~(j = "import_cells" /\ MustReport)
complete_job(j) ==
  /\ AllHandled(j)
  /\ jobs' = [jobs EXCEPT ![j] = [Counts(j, @) EXCEPT !.status = "completed", !.ended = TRUE]]
  /\ workers' = [workers EXCEPT ![j].at = "done"]
  /\ UNCHANGED <<bulkCells, sealed, cancels>>

(* The endpoint loads the job and refuses to cancel one that has ended;      *)
(* cancel_bulk_job in the same session finds the row it loaded.             *)
LoadJob(c, j) ==
  /\ cancels[c] = NoCancel /\ jobs[j].status \in {"pending", "running"}
  /\ cancels' = [cancels EXCEPT ![c] = [job |-> j, status |-> jobs[j].status]]
  /\ UNCHANGED <<jobs, workers, bulkCells, sealed>>
cancel_bulk_job(c) ==
  /\ cancels[c] # NoCancel /\ cancels[c].status # "done"
  /\ jobs' = [jobs EXCEPT ![cancels[c].job] = [@ EXCEPT !.status = "cancelled", !.ended = TRUE]]
  /\ cancels' = [cancels EXCEPT ![c].status = "done"]
  /\ UNCHANGED <<workers, bulkCells, sealed>>

BulkNext ==
  \/ \E j \in JobTypes: create_bulk_job(j) \/ MarkRunning(j) \/ HandleRow(j) \/ SessionFails(j) \/ complete_job(j)
  \/ update_job_progress \/ ReadSource \/ FindCells \/ DeleteCells
  \/ \E c \in Cancellers: cancel_bulk_job(c) \/ \E j \in JobTypes: LoadJob(c, j)

----------------------------------------------------------------------------
(* A job's row never promises more than its worker did, and once the worker *)
(* is done it accounts for every row: however cancellations interleave, its *)
(* counts are final, every row is written or failed, and the job has ended, *)
(* completed or - by a cancellation that came too late - cancelled.  Only a  *)
(* worker that got through completes its job.                               *)
JobsAddUp ==
  \A j \in JobTypes:
    /\ jobs[j].processed <= workers[j].processed /\ jobs[j].failed <= workers[j].failed
    /\ Work(j, "done") =>
         /\ jobs[j] = [Counts(j, jobs[j]) EXCEPT !.ended = TRUE]
         /\ jobs[j].status \in {"completed", "cancelled"}
         /\ j = "import_cells" => jobs[j].processed + jobs[j].failed = Len(Rows)
         /\ j = "copy_cells" => jobs[j].processed + jobs[j].failed = Cardinality(workers[j].took)
    /\ jobs[j].status = "completed" => Work(j, "done")
(* A copy that nobody interfered with and that counted no failure leaves,   *)
(* in each target of a single source, the values of the plain cells it read; *)
(* a deletion leaves none of the cells it found, unless they were written    *)
(* again.                                                                   *)
SoleSource(m) == \A n \in Mapping: n[2] = m[2] => n = m
CopyAlone == \A j \in JobTypes \ {"copy_cells"}: jobs[j] = NoJob
CopiesArrive ==
  /\ Work("copy_cells", "done") /\ CopyAlone /\ jobs["copy_cells"].failed = 0 /\ ~sealed =>
       \A t \in {u \in workers["copy_cells"].took: SoleSource(u[1])}:
         <<t[1][2], t[2][2]>> \in DOMAIN bulkCells /\ bulkCells[<<t[1][2], t[2][2]>>] = t[3]
  /\ workers["delete_cells"].at \in {"deleted", "done"} /\ jobs["import_cells"] = NoJob /\ jobs["copy_cells"] = NoJob =>
       \A k \in DOMAIN bulkCells: k[1] \notin TargetItems
=============================================================================
