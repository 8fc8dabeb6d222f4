----------------------------- MODULE ChunkedUpload -----------------------------
(***************************************************************************)
(* One chunked upload (services/chunked_upload.py): chunks arrive in       *)
(* concurrent requests, the last one completes the upload; a client may    *)
(* also complete it explicitly, and the application fail it.               *)
(*                                                                         *)
(* A request reads the upload, then looks for its chunk, then commits; it  *)
(* gives way between these queries.  What it writes to the upload are the  *)
(* columns it assigned, with values computed from what it read.  No unique *)
(* constraint guards a chunk's index.                                      *)
(***************************************************************************)
EXTENDS Integers, FiniteSets

CONSTANTS TotalChunks,   \* ChunkedUpload.total_chunks
          Requests       \* concurrent requests

ASSUME ChunkedUploadAssumption == TotalChunks \in Nat \ {0}

Indices == 0 .. TotalChunks - 1

VARIABLES
    status, received,   \* the upload's row
    copies,             \* upload_chunks: the number of rows of each index
    request             \* per request: what it does, its chunk, what it read

row  == <<status, received>>
vars == <<status, received, copies, request>>

Idle == [at |-> "idle", index |-> 0, received |-> 0, status |-> "uploading"]

Stored == {i \in Indices : copies[i] > 0}

Init ==
    /\ status = "uploading" /\ received = 0
    /\ copies = [i \in Indices |-> 0]
    /\ request = [r \in Requests |-> Idle]

Becomes(r, state) == request' = [request EXCEPT ![r] = state]

\* get_upload, at the start of every operation.
Loads(r, at, i) ==
    /\ request[r].at = "idle"
    /\ Becomes(r, [at |-> at, index |-> i, received |-> received, status |-> status])
    /\ UNCHANGED <<row, copies>>

InRange(i) == 0 <= i /\ i < TotalChunks

\* upload_chunk: refused unless the upload is open and the index in range.
BeginChunk(r, i) == status = "uploading" /\ InRange(i) /\ Loads(r, "check", i)

FindsNoDuplicate(i) == copies[i] = 0

\* With one row found the chunk is refused; with more scalar_one_or_none raises.
CheckDuplicate(r) ==
    /\ request[r].at = "check"
    /\ Becomes(r, IF FindsNoDuplicate(request[r].index)
                  THEN [request[r] EXCEPT !.at = "chunk"] ELSE Idle)
    /\ UNCHANGED <<row, copies>>

NewStatus(r) == IF request[r].received + 1 >= TotalChunks THEN "complete" ELSE status

CommitChunk(r) ==
    /\ request[r].at = "chunk"
    /\ copies' = [copies EXCEPT ![request[r].index] = @ + 1]
    /\ received' = request[r].received + 1
    /\ status' = NewStatus(r)
    /\ Becomes(r, Idle)

AllReceived_OffByOne == received + 1 >= TotalChunks    \* Mutant.

AllReceived == received >= TotalChunks

\* complete_upload: refused while the count is short, whatever the status.
BeginComplete(r) == AllReceived /\ Loads(r, "complete", 0)

BeginFail(r) == Loads(r, "fail", 0)

\* The status is sent only if it differs from the one read.
Sends(r, new) == IF request[r].status = new THEN status ELSE new

CommitComplete(r) ==
    /\ request[r].at = "complete"
    /\ status' = Sends(r, "complete")
    /\ Becomes(r, Idle)
    /\ UNCHANGED <<received, copies>>

\* fail_upload, which no endpoint offers.
CommitFail(r) ==
    /\ request[r].at = "fail"
    /\ status' = Sends(r, "failed")
    /\ Becomes(r, Idle)
    /\ UNCHANGED <<received, copies>>

Next ==
    \E r \in Requests :
        \/ \E i \in -1 .. TotalChunks : BeginChunk(r, i)
        \/ CheckDuplicate(r) \/ CommitChunk(r)
        \/ BeginComplete(r) \/ CommitComplete(r)
        \/ BeginFail(r) \/ CommitFail(r)

Spec == Init /\ [][Next]_vars

-------------------------------------------------------------------------------
(* Properties.                                                              *)

\* Every variable holds a value of its type.
TypeOK ==
    /\ status \in {"uploading", "complete", "failed"}
    /\ received \in 0 .. TotalChunks
    /\ copies \in [Indices -> Nat]
    /\ request \in [Requests -> [at : {"idle", "check", "chunk", "complete", "fail"},
                                 index : Indices, received : 0 .. TotalChunks,
                                 status : {"uploading", "complete", "failed"}]]

\* Increments may be lost and chunks stored twice, but the counter never exceeds the
\* number of distinct chunks: the count is read before the duplicate is looked for.
NeverOvercounts == received <= Cardinality(Stored)

\* An upload is complete only when every chunk is stored, however requests race
\* (upload_chunk's automatic completion, complete_upload).
CompleteHasAllChunks == status = "complete" => Stored = Indices

\* A request that read the upload while it was open does not reopen it.
NeverReopens == [][status # "uploading" => status' # "uploading"]_vars
===============================================================================
