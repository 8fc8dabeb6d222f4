---------------------------- MODULE RequestsProofs ----------------------------
(***************************************************************************)
(* Theorems about the components MCRequests composes, for every number of   *)
(* requests, chunks, clients, line items, nodes, stages, tasks, sockets and   *)
(* rows.  A component has its inductive invariant and one lemma per action.  *)
(* The upload's theorems are about its own Spec; ReqSpec runs one of the     *)
(* others at a time, so that a step of it is a step or a stutter of each.   *)
(***************************************************************************)
EXTENDS MCRequests, FiniteSetTheorems, TLAPS

-------------------------------------------------------------------------------
(* The chunked upload: the counter never exceeds the number of distinct     *)
(* chunks, so that a complete upload has all of them.                       *)

\* What requests read stays below the number of distinct chunks, and a request about to
\* store its chunk counted only others: its chunk was missing after it read the count.
ReadsAreLow ==
    \A r \in Requests :
        /\ request[r].at = "check" => request[r].received <= Cardinality(Stored)
        /\ request[r].at = "chunk" =>
              request[r].received <= Cardinality(Stored \ {request[r].index})
        /\ request[r].at = "complete" => Stored = Indices

IInv == TypeOK /\ NeverOvercounts /\ CompleteHasAllChunks /\ ReadsAreLow

-------------------------------------------------------------------------------
(* Cardinalities of sets of chunks.                                         *)

LEMMA IndicesFinite ==
    IsFiniteSet(Indices) /\ Cardinality(Indices) = TotalChunks /\ TotalChunks \in Nat \ {0}
  BY FS_Interval, ChunkedUploadAssumption DEF ChunkedUploadAssumption, Indices

LEMMA ChunkSets ==
    ASSUME NEW S \in SUBSET Indices
    PROVE  /\ IsFiniteSet(S) /\ Cardinality(S) \in 0 .. TotalChunks
           /\ Cardinality(S) = TotalChunks => S = Indices
<1>1. IsFiniteSet(S) /\ Cardinality(S) <= Cardinality(Indices)
      /\ (Cardinality(Indices) = Cardinality(S) => Indices = S)
  BY IndicesFinite, FS_Subset
<1>2. Cardinality(S) \in Nat
  BY <1>1, FS_CardinalityType
<1> QED
  BY <1>1, <1>2, IndicesFinite

LEMMA OneChunkLess ==
    ASSUME NEW S \in SUBSET Indices, NEW i \in Indices
    PROVE  /\ Cardinality(S \ {i}) \in Nat
           /\ Cardinality(S \ {i}) = IF i \in S THEN Cardinality(S) - 1 ELSE Cardinality(S)
           /\ Cardinality(S \union {i}) = Cardinality(S \ {i}) + 1
<1>1. IsFiniteSet(S) /\ IsFiniteSet(S \ {i}) /\ Cardinality(S) \in Nat /\ Cardinality(S \ {i}) \in Nat
  BY ChunkSets
<1>2. Cardinality(S \ {i}) = IF i \in S THEN Cardinality(S) - 1 ELSE Cardinality(S)
  BY <1>1, FS_RemoveElement
<1>3. Cardinality(S \union {i}) = IF i \in S THEN Cardinality(S) ELSE Cardinality(S) + 1
  BY <1>1, FS_AddElement
<1> QED
  BY <1>1, <1>2, <1>3

\* More chunks are counted higher.
LEMMA MoreChunks ==
    ASSUME NEW S \in SUBSET Indices, NEW i \in Indices, NEW j \in Indices
    PROVE  /\ Cardinality(S) <= Cardinality(S \union {i})
           /\ Cardinality(S \ {j}) <= Cardinality((S \union {i}) \ {j})
<1>1. /\ IsFiniteSet(S \union {i}) /\ IsFiniteSet((S \union {i}) \ {j})
      /\ Cardinality(S) \in Nat /\ Cardinality(S \ {j}) \in Nat
  BY ChunkSets
<1>2. S \subseteq S \union {i} /\ S \ {j} \subseteq (S \union {i}) \ {j}
  OBVIOUS
<1>3. Cardinality(S) <= Cardinality(S \union {i})
  BY <1>1, <1>2, FS_Subset
<1>4. Cardinality(S \ {j}) <= Cardinality((S \union {i}) \ {j})
  BY <1>1, <1>2, FS_Subset
<1> QED
  BY <1>3, <1>4

-------------------------------------------------------------------------------
(* Steps.                                                                   *)

LEMMA StoredType == Stored \in SUBSET Indices
  BY DEF Stored

\* Steps that store nothing and count nothing.
LEMMA KeepsChunks ==
    ASSUME IInv, UNCHANGED <<received, copies>>, TypeOK', CompleteHasAllChunks', ReadsAreLow'
    PROVE  IInv'
  BY DEF IInv, NeverOvercounts, Stored

LEMMA LoadKeeps ==
    ASSUME IInv, NEW r \in Requests, NEW i \in Indices,
           NEW at \in {"check", "complete", "fail"}, Loads(r, at, i),
           at = "complete" => AllReceived
    PROVE  IInv'
<1>1. /\ request' = [request EXCEPT ![r] =
                        [at |-> at, index |-> i, received |-> received, status |-> status]]
      /\ UNCHANGED <<status, received, copies>>
  BY DEF Loads, Becomes, row
<1>2. TypeOK'
  BY <1>1 DEF IInv, TypeOK
<1>3. Stored' = Stored
  BY <1>1 DEF Stored
<1>4. at = "complete" => Stored = Indices
  <2>1. Cardinality(Stored) \in 0 .. TotalChunks /\ (Cardinality(Stored) = TotalChunks => Stored = Indices)
    BY StoredType, ChunkSets
  <2>2. received \in 0 .. TotalChunks
    BY DEF IInv, TypeOK
  <2> QED
    BY <2>1, <2>2, IndicesFinite DEF AllReceived, IInv, NeverOvercounts
<1>5. received <= Cardinality(Stored)
  BY DEF IInv, NeverOvercounts
<1>6. ReadsAreLow'
  <2> SUFFICES ASSUME NEW x \in Requests
               PROVE  /\ request'[x].at = "check" => request'[x].received <= Cardinality(Stored)
                      /\ request'[x].at = "chunk" =>
                            request'[x].received <= Cardinality(Stored \ {request'[x].index})
                      /\ request'[x].at = "complete" => Stored = Indices
    BY <1>3 DEF ReadsAreLow
  <2>1. CASE x = r
    BY <1>1, <1>4, <1>5, <2>1 DEF IInv, TypeOK
  <2>2. CASE x # r
    BY <1>1, <2>2 DEF IInv, TypeOK, ReadsAreLow
  <2> QED
    BY <2>1, <2>2
<1>7. CompleteHasAllChunks'
  BY <1>1, <1>3 DEF IInv, CompleteHasAllChunks
<1> QED
  BY <1>1, <1>2, <1>6, <1>7, KeepsChunks

LEMMA CheckKeeps ==
    ASSUME IInv, NEW r \in Requests, CheckDuplicate(r)
    PROVE  IInv'
<1>1. /\ request[r].at = "check" /\ UNCHANGED <<status, received, copies>>
      /\ request' = [request EXCEPT ![r] = IF FindsNoDuplicate(request[r].index)
                                           THEN [request[r] EXCEPT !.at = "chunk"] ELSE Idle]
  BY DEF CheckDuplicate, Becomes, row
<1>2. request[r].index \in Indices
  BY DEF IInv, TypeOK
<1>3. 0 \in Indices /\ 0 \in 0 .. TotalChunks
  BY IndicesFinite DEF Indices
<1>4. TypeOK'
  BY <1>1, <1>3 DEF IInv, TypeOK, Idle
<1>5. Stored' = Stored
  BY <1>1 DEF Stored
<1>6. ASSUME FindsNoDuplicate(request[r].index)
      PROVE  request[r].received <= Cardinality(Stored \ {request[r].index})
  <2>1. request[r].index \notin Stored
    BY <1>2, <1>6 DEF FindsNoDuplicate, Stored
  <2>2. Stored \ {request[r].index} = Stored
    BY <2>1
  <2> QED
    BY <1>1, <2>2 DEF IInv, ReadsAreLow
<1>7. ReadsAreLow'
  <2> SUFFICES ASSUME NEW x \in Requests
               PROVE  /\ request'[x].at = "check" => request'[x].received <= Cardinality(Stored)
                      /\ request'[x].at = "chunk" =>
                            request'[x].received <= Cardinality(Stored \ {request'[x].index})
                      /\ request'[x].at = "complete" => Stored = Indices
    BY <1>5 DEF ReadsAreLow
  <2>1. CASE x = r
    BY <1>1, <1>6, <2>1 DEF IInv, TypeOK, Idle
  <2>2. CASE x # r
    BY <1>1, <2>2 DEF IInv, TypeOK, ReadsAreLow
  <2> QED
    BY <2>1, <2>2
<1>8. CompleteHasAllChunks'
  BY <1>1, <1>5 DEF IInv, CompleteHasAllChunks
<1> QED
  BY <1>1, <1>4, <1>7, <1>8, KeepsChunks

LEMMA CommitChunkKeeps ==
    ASSUME IInv, NEW r \in Requests, CommitChunk(r)
    PROVE  IInv'
<1> DEFINE i == request[r].index
           chunks_seen == request[r].received
<1>1. /\ request[r].at = "chunk"
      /\ copies' = [copies EXCEPT ![i] = @ + 1]
      /\ received' = chunks_seen + 1 /\ status' = NewStatus(r)
      /\ request' = [request EXCEPT ![r] = Idle]
  BY DEF CommitChunk, Becomes
<1>2. i \in Indices /\ chunks_seen \in 0 .. TotalChunks /\ copies \in [Indices -> Nat]
  BY DEF IInv, TypeOK
<1>3. Stored' = Stored \union {i}
  BY <1>1, <1>2 DEF Stored
<1>4. chunks_seen <= Cardinality(Stored \ {i})
  BY <1>1 DEF IInv, ReadsAreLow
<1>5. /\ Cardinality(Stored \ {i}) \in Nat
      /\ Cardinality(Stored \union {i}) = Cardinality(Stored \ {i}) + 1
  BY <1>2, StoredType, OneChunkLess
<1>6. /\ Cardinality(Stored \union {i}) \in 0 .. TotalChunks
      /\ Cardinality(Stored \union {i}) = TotalChunks => Stored \union {i} = Indices
  BY <1>2, StoredType, ChunkSets
<1>7. NeverOvercounts' /\ received' \in 0 .. TotalChunks
  <2>1. chunks_seen + 1 <= Cardinality(Stored \union {i}) /\ chunks_seen + 1 \in 0 .. TotalChunks
    BY <1>2, <1>4, <1>5, <1>6, IndicesFinite
  <2> QED
    BY <1>1, <1>3, <2>1 DEF NeverOvercounts
<1>8. CompleteHasAllChunks'
  <2>1. CASE chunks_seen + 1 >= TotalChunks
    <3>1. Cardinality(Stored \union {i}) = TotalChunks
      BY <1>2, <1>4, <1>5, <1>6, <2>1, IndicesFinite
    <3> QED
      BY <1>3, <1>6, <3>1 DEF CompleteHasAllChunks
  <2>2. CASE ~(chunks_seen + 1 >= TotalChunks)
    BY <1>1, <1>2, <1>3, <2>2 DEF IInv, CompleteHasAllChunks, NewStatus
  <2> QED
    BY <2>1, <2>2
<1>9. 0 \in Indices /\ 0 \in 0 .. TotalChunks
  BY IndicesFinite DEF Indices
<1>10. TypeOK'
  <2>1. status' \in {"uploading", "complete", "failed"}
    BY <1>1 DEF IInv, TypeOK, NewStatus
  <2>2. copies' \in [Indices -> Nat]
    BY <1>1, <1>2
  <2> QED
    BY <1>1, <1>7, <1>9, <2>1, <2>2 DEF IInv, TypeOK, Idle
<1>11. ReadsAreLow'
  <2> SUFFICES ASSUME NEW x \in Requests
               PROVE  /\ request'[x].at = "check" => request'[x].received <= Cardinality(Stored \union {i})
                      /\ request'[x].at = "chunk" =>
                            request'[x].received <= Cardinality((Stored \union {i}) \ {request'[x].index})
                      /\ request'[x].at = "complete" => Stored \union {i} = Indices
    BY <1>3 DEF ReadsAreLow
  <2>1. CASE x = r
    BY <1>1, <2>1 DEF IInv, TypeOK, Idle
  <2>2. CASE x # r
    <3>1. request'[x] = request[x] /\ request[x].index \in Indices /\ request[x].received \in Nat
      BY <1>1, <2>2 DEF IInv, TypeOK
    <3>2. /\ Cardinality(Stored) <= Cardinality(Stored \union {i})
          /\ Cardinality(Stored \ {request[x].index})
                <= Cardinality((Stored \union {i}) \ {request[x].index})
      BY <1>2, <3>1, StoredType, MoreChunks
    <3>3. /\ Cardinality(Stored) \in Nat /\ Cardinality(Stored \union {i}) \in Nat
          /\ Cardinality(Stored \ {request[x].index}) \in Nat
          /\ Cardinality((Stored \union {i}) \ {request[x].index}) \in Nat
      BY <1>2, StoredType, ChunkSets
    <3>4. request[x].at = "complete" => Stored \union {i} = Indices
      BY <1>2 DEF IInv, ReadsAreLow
    <3>5. /\ request[x].at = "check" => request[x].received <= Cardinality(Stored)
          /\ request[x].at = "chunk" =>
                request[x].received <= Cardinality(Stored \ {request[x].index})
      BY DEF IInv, ReadsAreLow
    <3> QED
      BY <3>1, <3>2, <3>3, <3>4, <3>5
  <2> QED
    BY <2>1, <2>2
<1> QED
  BY <1>7, <1>8, <1>10, <1>11 DEF IInv

LEMMA StatusStepKeeps ==
    ASSUME IInv, NEW r \in Requests, CommitComplete(r) \/ CommitFail(r)
    PROVE  IInv'
<1>1. /\ request' = [request EXCEPT ![r] = Idle] /\ UNCHANGED <<received, copies>>
      /\ status' \in {status, "complete", "failed"}
      /\ status' = "complete" => status = "complete" \/ request[r].at = "complete"
  BY DEF CommitComplete, CommitFail, Becomes, Sends
<1>2. 0 \in Indices /\ 0 \in 0 .. TotalChunks
  BY IndicesFinite DEF Indices
<1>3. TypeOK'
  BY <1>1, <1>2 DEF IInv, TypeOK, Idle
<1>4. Stored' = Stored
  BY <1>1 DEF Stored
<1>5. CompleteHasAllChunks'
  BY <1>1, <1>4 DEF IInv, CompleteHasAllChunks, ReadsAreLow
<1>6. ReadsAreLow'
  <2> SUFFICES ASSUME NEW x \in Requests
               PROVE  /\ request'[x].at = "check" => request'[x].received <= Cardinality(Stored)
                      /\ request'[x].at = "chunk" =>
                            request'[x].received <= Cardinality(Stored \ {request'[x].index})
                      /\ request'[x].at = "complete" => Stored = Indices
    BY <1>4 DEF ReadsAreLow
  <2>1. request'[x] = Idle \/ request'[x] = request[x]
    BY <1>1 DEF IInv, TypeOK
  <2> QED
    BY <2>1 DEF IInv, ReadsAreLow, Idle
<1> QED
  BY <1>1, <1>3, <1>5, <1>6, KeepsChunks

LEMMA Inductive == IInv /\ [Next]_vars => IInv'
<1> SUFFICES ASSUME IInv, [Next]_vars PROVE IInv'
  OBVIOUS
<1>1. ASSUME NEW r \in Requests, NEW i \in -1 .. TotalChunks, BeginChunk(r, i) PROVE IInv'
  <2>1. i \in Indices
    BY <1>1, IndicesFinite DEF BeginChunk, InRange, Indices
  <2> QED
    BY <1>1, <2>1, LoadKeeps DEF BeginChunk
<1>2. 0 \in Indices
  BY IndicesFinite DEF Indices
<1>3. ASSUME NEW r \in Requests, BeginComplete(r) \/ BeginFail(r) PROVE IInv'
  BY <1>2, <1>3, LoadKeeps DEF BeginComplete, BeginFail
<1>4. ASSUME NEW r \in Requests, CheckDuplicate(r) PROVE IInv'
  BY <1>4, CheckKeeps
<1>5. ASSUME NEW r \in Requests, CommitChunk(r) PROVE IInv'
  BY <1>5, CommitChunkKeeps
<1>6. ASSUME NEW r \in Requests, CommitComplete(r) \/ CommitFail(r) PROVE IInv'
  BY <1>6, StatusStepKeeps
<1>7. ASSUME UNCHANGED vars PROVE IInv'
  BY <1>7 DEF vars, row, IInv, TypeOK, NeverOvercounts, CompleteHasAllChunks, ReadsAreLow, Stored
<1> QED
  BY <1>1, <1>3, <1>4, <1>5, <1>6, <1>7 DEF Next

LEMMA Initially == Init => IInv
<1> SUFFICES ASSUME Init PROVE IInv
  OBVIOUS
<1>1. 0 \in Indices /\ 0 \in 0 .. TotalChunks
  BY IndicesFinite DEF Indices
<1>2. TypeOK
  BY <1>1 DEF Init, TypeOK, Idle
<1>3. Cardinality(Stored) \in 0 .. TotalChunks
  BY StoredType, ChunkSets
<1>4. NeverOvercounts /\ CompleteHasAllChunks /\ ReadsAreLow
  BY <1>3 DEF Init, NeverOvercounts, CompleteHasAllChunks, ReadsAreLow, Idle
<1> QED
  BY <1>2, <1>4 DEF IInv

LEMMA Always == Spec => []IInv
  BY Initially, Inductive, PTL DEF Spec

-------------------------------------------------------------------------------
(* The theorems.                                                            *)

\* Every variable keeps its type.
THEOREM TypeCorrect == Spec => []TypeOK
<1>1. IInv => TypeOK
  BY DEF IInv
<1> QED
  BY <1>1, Always, PTL

\* Lost increments and duplicate rows never make received_chunks exceed the number of
\* distinct chunks (upload_chunk).
THEOREM NeverOvercountsAlways == Spec => []NeverOvercounts
<1>1. IInv => NeverOvercounts
  BY DEF IInv
<1> QED
  BY <1>1, Always, PTL

\* A complete upload has all its chunks, for any number of chunks and of concurrent
\* requests (upload_chunk, complete_upload).
THEOREM CompleteHasAllChunksAlways == Spec => []CompleteHasAllChunks
<1>1. IInv => CompleteHasAllChunks
  BY DEF IInv
<1> QED
  BY <1>1, Always, PTL

\* A chunk that was on its way when the upload was completed or failed does not open it
\* again (upload_chunk, complete_upload, fail_upload).
THEOREM NeverReopensAlways == Spec => NeverReopens
<1>1. ASSUME [Next]_vars, status # "uploading" PROVE status' # "uploading"
  <2>1. CASE UNCHANGED vars
    BY <1>1, <2>1 DEF vars, row
  <2>2. CASE Next
    <3>1. PICK r \in Requests :
             \/ \E i \in -1 .. TotalChunks : BeginChunk(r, i)
             \/ CheckDuplicate(r) \/ CommitChunk(r)
             \/ BeginComplete(r) \/ CommitComplete(r)
             \/ BeginFail(r) \/ CommitFail(r)
      BY <2>2 DEF Next
    <3>2. status' \in {status, "complete", "failed"}
      <4>1. CASE \/ \E i \in -1 .. TotalChunks : BeginChunk(r, i)
                 \/ CheckDuplicate(r) \/ BeginComplete(r) \/ BeginFail(r)
        BY <4>1 DEF BeginChunk, CheckDuplicate, BeginComplete, BeginFail, Loads, row
      <4>2. CASE CommitChunk(r)
        BY <4>2 DEF CommitChunk, NewStatus
      <4>3. CASE CommitComplete(r) \/ CommitFail(r)
        BY <4>3 DEF CommitComplete, CommitFail, Sends
      <4> QED
        BY <3>1, <4>1, <4>2, <4>3
    <3> QED
      BY <3>2, <1>1
  <2> QED
    BY <1>1, <2>1, <2>2
<1> QED
  BY <1>1, PTL DEF Spec, NeverReopens

-------------------------------------------------------------------------------
(* The calculation cache.                                                   *)

Values == {"none"} \cup {p[1]: p \in Computed}
Hashes == {"none"} \cup {p[2]: p \in Computed}
CacheRow == [exists: BOOLEAN, value: Values, hash: Hashes, valid: BOOLEAN, id: Nat,
             overlapped: BOOLEAN, hits: Nat, outdated: BOOLEAN, recalculated: BOOLEAN]
\* What a entry keeps, and what a request must not have lost sight of.
RowServes(entry) ==
  /\ entry \in CacheRow
  /\ entry.exists <=> entry.id # 0
  /\ entry.exists /\ ~entry.overlapped => <<entry.value, entry.hash>> \in Computed
  /\ entry.valid /\ entry.outdated => entry.recalculated
\* A request has the fields of a request.
Formed(req) == req = [op |-> req.op, items |-> req.items, put |-> req.put, loaded |-> req.loaded, ids |-> req.ids, late |-> req.late]
\* An open set of l, unless another set came between, knows what the entry holds.
SetKnows(req, entries, now) ==
  req.op = "set" =>
    /\ now > 0
    /\ req.put \in Computed /\ req.loaded \in CacheRow /\ (req.loaded.exists <=> req.loaded.id # 0)
    /\ \E l \in DOMAIN entries:
         /\ req.items = <<l>>
         /\ req.loaded.exists /\ ~req.late /\ entries[l].id = req.loaded.id =>
              entries[l].value = req.loaded.value /\ entries[l].hash = req.loaded.hash
RequestFits(req, entries, now) == Formed(req) /\ req.late \in BOOLEAN /\ SetKnows(req, entries, now)
CacheInv ==
  /\ made \in Nat
  /\ cache = [l \in DOMAIN cache |-> cache[l]] /\ \A l \in DOMAIN cache: RowServes(cache[l])
  /\ ccReqs = [c \in CcClients |-> ccReqs[c]] /\ \A c \in CcClients: RequestFits(ccReqs[c], cache, made)

LEMMA CacheInvInit == CacheInit => CacheInv
<1> SUFFICES ASSUME CacheInit PROVE CacheInv
  OBVIOUS
<1>1. RowServes(NoRow)
  BY DEF RowServes, NoRow, CacheRow, Values, Hashes
<1>2. Formed(NoRequest) /\ NoRequest.late \in BOOLEAN /\ NoRequest.op # "set"
  BY DEF Formed, NoRequest
<1>3. \A c \in CcClients: ccReqs[c] = NoRequest
  BY DEF CacheInit
<1> QED
  BY <1>1, <1>2, <1>3 DEF CacheInit, CacheInv, SetKnows, RequestFits

LEMMA RestingFits == \A entries, now: RequestFits(NoRequest, entries, now)
BY DEF RequestFits, SetKnows, Formed, NoRequest

\* What is open still fits entries that went on with the same values, or were cleared.
LEMMA RowsGoOn ==
  ASSUME NEW now \in Nat, NEW later \in Nat, later >= now, NEW entries, NEW after, DOMAIN after = DOMAIN entries,
         NEW req, RequestFits(req, entries, now),
         \A l \in DOMAIN entries: \/ after[l].id = entries[l].id /\ after[l].value = entries[l].value /\ after[l].hash = entries[l].hash
                               \/ after[l].id = 0
  PROVE  RequestFits(req, after, later)
<1> SUFFICES ASSUME req.op = "set" PROVE SetKnows(req, after, later)
  BY DEF RequestFits, SetKnows
<1>1. PICK l \in DOMAIN entries:
         /\ req.items = <<l>>
         /\ req.loaded.exists /\ ~req.late /\ entries[l].id = req.loaded.id =>
              entries[l].value = req.loaded.value /\ entries[l].hash = req.loaded.hash
  BY DEF RequestFits, SetKnows
<1>2. req.loaded.exists /\ ~req.late /\ after[l].id = req.loaded.id =>
              after[l].value = req.loaded.value /\ after[l].hash = req.loaded.hash
  BY <1>1 DEF RequestFits, SetKnows
<1> QED
  BY <1>1, <1>2 DEF RequestFits, SetKnows

\* A request that opens disturbs nothing.
LEMMA OpeningKeeps ==
  ASSUME CacheInv, NEW c \in CcClients, NEW req, Opens(c, req), RequestFits(req, cache, made'), UNCHANGED cache
  PROVE  CacheInv'
<1>1. made' \in Nat /\ made' >= made /\ made \in Nat
  BY DEF Opens, CacheInv
<1>2. ccReqs' = [d \in CcClients |-> IF d = c THEN req ELSE ccReqs[d]]
  BY DEF Opens, CacheInv
<1>3. ASSUME NEW d \in CcClients PROVE RequestFits(ccReqs'[d], cache, made')
  <2>1. CASE d = c
    BY <1>2, <2>1
  <2>2. CASE d # c
    <3>1. ccReqs'[d] = ccReqs[d] /\ RequestFits(ccReqs[d], cache, made)
      BY <1>2, <2>2 DEF CacheInv
    <3> QED
      BY <1>1, <3>1, RowsGoOn
  <2> QED
    BY <2>1, <2>2
<1> QED
  BY <1>1, <1>2, <1>3 DEF CacheInv

\* The request that opens to set l, which it loaded as entry.
SetRequest(l, p, entry) == [NoRequest EXCEPT !.op = "set", !.items = <<l>>, !.put = p, !.loaded = entry]
LEMMA SetRequestFits ==
  ASSUME NEW entries, NEW l \in DOMAIN entries, NEW p \in Computed, NEW now \in Nat, now > 0,
         entries[l] \in CacheRow, entries[l].exists <=> entries[l].id # 0
  PROVE  RequestFits(SetRequest(l, p, entries[l]), entries, now)
<1>1. PICK entry, q: entry = entries[l] /\ q = SetRequest(l, p, entry)
  OBVIOUS
<1>2. q.op = "set" /\ q.items = <<l>> /\ q.put = p /\ q.loaded = entry /\ q.late = FALSE /\ Formed(q)
  BY <1>1 DEF SetRequest, NoRequest, Formed
<1>3. RequestFits(q, entries, now)
  BY <1>1, <1>2 DEF RequestFits, SetKnows
<1> QED
  BY <1>1, <1>3
LEMMA LoadForSetKeeps ==
  ASSUME CacheInv, NEW c \in CcClients, NEW l \in DOMAIN cache, LoadForSet(c, l)
  PROVE  CacheInv'
<1>1. PICK p \in Computed: Opens(c, SetRequest(l, p, cache[l]))
  BY DEF LoadForSet, SetRequest
<1>2. UNCHANGED cache
  BY DEF LoadForSet
<1>3. made' > 0 /\ made' \in Nat
  BY <1>1 DEF Opens, CacheInv
<1>4. cache[l] \in CacheRow /\ (cache[l].exists <=> cache[l].id # 0)
  BY DEF CacheInv, RowServes
<1>5. RequestFits(SetRequest(l, p, cache[l]), cache, made')
  BY <1>3, <1>4, SetRequestFits
<1> QED
  BY <1>1, <1>2, <1>5, OpeningKeeps

\* What set_cached_value writes.
LEMMA PutServes ==
  ASSUME NEW put \in Computed
  PROVE  put[1] \in Values /\ put[2] \in Hashes /\ <<put[1], put[2]>> \in Computed
BY CacheAssumption DEF Values, Hashes
InsertedRow(c, late) == [Inserted(c, ccReqs[c]) EXCEPT !.overlapped = late, !.outdated = FALSE]
LEMMA InsertedRowIs ==
  ASSUME NEW c, NEW late, NEW entry, entry = InsertedRow(c, late)
  PROVE  entry = [exists |-> TRUE, value |-> ccReqs[c].put[1], hash |-> ccReqs[c].put[2], valid |-> TRUE, id |-> made,
                overlapped |-> late, hits |-> 0, outdated |-> FALSE, recalculated |-> FALSE]
BY DEF InsertedRow, Inserted, NoRow
LEMMA InsertServes ==
  ASSUME made \in Nat, made > 0, NEW c \in CcClients, ccReqs[c].put \in Computed,
         NEW late \in BOOLEAN, NEW entry, entry = InsertedRow(c, late)
  PROVE  RowServes(entry) /\ entry.id = made
<1>1. entry = [exists |-> TRUE, value |-> ccReqs[c].put[1], hash |-> ccReqs[c].put[2], valid |-> TRUE, id |-> made,
             overlapped |-> late, hits |-> 0, outdated |-> FALSE, recalculated |-> FALSE]
  BY InsertedRowIs
<1>2. ccReqs[c].put[1] \in Values /\ ccReqs[c].put[2] \in Hashes /\ <<ccReqs[c].put[1], ccReqs[c].put[2]>> \in Computed
  BY PutServes
<1>3. entry \in CacheRow
  BY <1>1, <1>2 DEF CacheRow
<1>4. <<entry.value, entry.hash>> \in Computed /\ entry.exists /\ entry.id = made /\ ~entry.outdated
  BY <1>1, <1>2
<1> QED
  BY <1>3, <1>4 DEF RowServes
UpdatedRow(req, entry) ==
  [Updated(req, entry) EXCEPT !.overlapped = req.late, !.outdated = @ /\ req.loaded.valid /\ entry.hits > req.loaded.hits]
LEMMA UpdatedRowIs ==
  ASSUME NEW req, NEW entry \in CacheRow, NEW new, new = UpdatedRow(req, entry)
  PROVE  new = [exists |-> entry.exists, value |-> Changed(req.loaded.value, req.put[1], entry.value),
                hash |-> Changed(req.loaded.hash, req.put[2], entry.hash), valid |-> Changed(req.loaded.valid, TRUE, entry.valid),
                id |-> entry.id, overlapped |-> req.late, hits |-> entry.hits,
                outdated |-> (entry.outdated /\ req.loaded.valid /\ entry.hits > req.loaded.hits), recalculated |-> entry.recalculated]
<1>1. entry = [exists |-> entry.exists, value |-> entry.value, hash |-> entry.hash, valid |-> entry.valid, id |-> entry.id,
             overlapped |-> entry.overlapped, hits |-> entry.hits, outdated |-> entry.outdated, recalculated |-> entry.recalculated]
  BY DEF CacheRow
<1> QED
  BY <1>1 DEF UpdatedRow, Updated

LEMMA UpdateServes ==
  ASSUME NEW req, NEW entry, NEW new, RowServes(entry), req.put \in Computed, req.loaded \in CacheRow, req.late \in BOOLEAN,
         entry.exists, ~req.late => entry.value = req.loaded.value /\ entry.hash = req.loaded.hash,
         new = UpdatedRow(req, entry)
  PROVE  RowServes(new)
<1>1. entry \in CacheRow
  BY DEF RowServes
<1>2. new = [exists |-> entry.exists, value |-> Changed(req.loaded.value, req.put[1], entry.value),
                hash |-> Changed(req.loaded.hash, req.put[2], entry.hash), valid |-> Changed(req.loaded.valid, TRUE, entry.valid),
                id |-> entry.id, overlapped |-> req.late, hits |-> entry.hits,
                outdated |-> (entry.outdated /\ req.loaded.valid /\ entry.hits > req.loaded.hits), recalculated |-> entry.recalculated]
  BY ZenonT(40), <1>1, UpdatedRowIs
<1>3. req.put[1] \in Values /\ req.put[2] \in Hashes /\ <<req.put[1], req.put[2]>> \in Computed
  BY PutServes
<1>4. /\ Changed(req.loaded.value, req.put[1], entry.value) \in Values
      /\ Changed(req.loaded.hash, req.put[2], entry.hash) \in Hashes
      /\ Changed(req.loaded.valid, TRUE, entry.valid) \in BOOLEAN
  BY <1>1, <1>3 DEF Changed, CacheRow
<1>5. ~req.late => Changed(req.loaded.value, req.put[1], entry.value) = req.put[1] /\ Changed(req.loaded.hash, req.put[2], entry.hash) = req.put[2]
  BY DEF Changed
<1>6. req.loaded.valid => Changed(req.loaded.valid, TRUE, entry.valid) = entry.valid
  BY <1>1 DEF Changed, CacheRow
<1>7. PICK v \in Values, h \in Hashes, ok \in BOOLEAN, out \in BOOLEAN:
        /\ new = [exists |-> TRUE, value |-> v, hash |-> h, valid |-> ok, id |-> entry.id, overlapped |-> req.late,
                  hits |-> entry.hits, outdated |-> out, recalculated |-> entry.recalculated]
        /\ ~req.late => <<v, h>> \in Computed
        /\ ok /\ out => entry.recalculated
  <2>1. PICK v, h, ok, out: /\ v = Changed(req.loaded.value, req.put[1], entry.value) /\ h = Changed(req.loaded.hash, req.put[2], entry.hash)
                            /\ ok = Changed(req.loaded.valid, TRUE, entry.valid)
                            /\ out = (entry.outdated /\ req.loaded.valid /\ entry.hits > req.loaded.hits)
    OBVIOUS
  <2>2. entry.exists = TRUE /\ out \in BOOLEAN
    BY <1>1, <2>1 DEF CacheRow
  <2>3. new = [exists |-> TRUE, value |-> v, hash |-> h, valid |-> ok, id |-> entry.id, overlapped |-> req.late,
                  hits |-> entry.hits, outdated |-> out, recalculated |-> entry.recalculated]
    BY <1>2, <2>1, <2>2
  <2>4. ~req.late => <<v, h>> \in Computed
    BY <1>3, <1>5, <2>1
  <2>5. ok /\ out => entry.recalculated
    BY <1>6, <2>1 DEF RowServes
  <2> QED
    BY ZenonT(40), <1>4, <2>1, <2>2, <2>3, <2>4, <2>5
<1>8. entry.id \in Nat /\ entry.hits \in Nat /\ entry.recalculated \in BOOLEAN /\ entry.id # 0
  BY <1>1 DEF CacheRow, RowServes
<1>9. new \in CacheRow
  BY <1>7, <1>8 DEF CacheRow
<1>10. new.exists /\ new.id # 0 /\ (~new.overlapped => <<new.value, new.hash>> \in Computed) /\ (new.valid /\ new.outdated => new.recalculated)
  BY <1>7, <1>8
<1> QED
  BY <1>9, <1>10 DEF RowServes

\* Another set that is open is late once a set has written its entry.
Belated(req, l) == IF req.op = "set" /\ req.items = <<l>> THEN [req EXCEPT !.late = TRUE] ELSE req
LEMMA OthersFit ==
  ASSUME NEW req, NEW entries, NEW after, NEW now, NEW l, RequestFits(req, entries, now), DOMAIN after = DOMAIN entries,
         \A k \in DOMAIN entries: k # l => after[k] = entries[k]
  PROVE  RequestFits(Belated(req, l), after, now)
<1>1. CASE req.op = "set" /\ req.items = <<l>>
  <2>1. PICK q: q = [req EXCEPT !.late = TRUE]
    OBVIOUS
  <2>2. q = [op |-> req.op, items |-> req.items, put |-> req.put, loaded |-> req.loaded, ids |-> req.ids, late |-> TRUE]
    BY <2>1 DEF RequestFits, Formed
  <2>3. Formed(q)
    BY <2>2 DEF Formed
  <2>4. l \in DOMAIN entries
    BY <1>1 DEF RequestFits, SetKnows
  <2>5. SetKnows(q, after, now)
    <3>1. q.op = "set" /\ q.items = <<l>> /\ q.put = req.put /\ q.loaded = req.loaded /\ q.late = TRUE
      BY <1>1, <2>2
    <3>2. now > 0 /\ req.put \in Computed /\ req.loaded \in CacheRow /\ (req.loaded.exists <=> req.loaded.id # 0)
      BY <1>1 DEF RequestFits, SetKnows
    <3> QED
      BY <2>4, <3>1, <3>2 DEF SetKnows
  <2> QED
    BY <1>1, <2>1, <2>2, <2>3, <2>5 DEF Belated, RequestFits
<1>2. CASE ~(req.op = "set" /\ req.items = <<l>>)
  <2>1. Belated(req, l) = req
    BY <1>2 DEF Belated
  <2>2. ASSUME req.op = "set" PROVE SetKnows(req, after, now)
    <3>1. PICK k \in DOMAIN entries:
         /\ req.items = <<k>>
         /\ req.loaded.exists /\ ~req.late /\ entries[k].id = req.loaded.id =>
              entries[k].value = req.loaded.value /\ entries[k].hash = req.loaded.hash
      BY <2>2 DEF RequestFits, SetKnows
    <3>2. after[k] = entries[k]
      BY <1>2, <2>2, <3>1
    <3> QED
      BY <2>2, <3>1, <3>2 DEF SetKnows, RequestFits
  <2> QED
    BY <2>1, <2>2 DEF RequestFits, SetKnows
<1> QED
  BY <1>1, <1>2

\* The entry l is written and every other set of it that is open is late.
LEMMA WriteKeeps ==
  ASSUME CacheInv, NEW c \in CcClients, NEW l \in DOMAIN cache, NEW entry, RowServes(entry),
         cache' = [cache EXCEPT ![l] = entry], UNCHANGED made,
         ccReqs' = [d \in CcClients |-> IF d = c THEN NoRequest ELSE Belated(ccReqs[d], l)]
  PROVE  CacheInv'
<1>1. DOMAIN cache' = DOMAIN cache /\ cache' = [k \in DOMAIN cache |-> IF k = l THEN entry ELSE cache[k]]
  BY DEF CacheInv
<1>2. \A k \in DOMAIN cache': RowServes(cache'[k])
  BY <1>1 DEF CacheInv
<1>3. ASSUME NEW d \in CcClients PROVE RequestFits(ccReqs'[d], cache', made)
  <2>1. CASE d = c
    BY <2>1, RestingFits
  <2>2. CASE d # c
    <3>1. ccReqs'[d] = Belated(ccReqs[d], l) /\ RequestFits(ccReqs[d], cache, made)
      BY <2>2 DEF CacheInv
    <3>2. \A k \in DOMAIN cache: k # l => cache'[k] = cache[k]
      BY <1>1
    <3>3. RequestFits(Belated(ccReqs[d], l), cache', made)
      BY <1>1, <3>1, <3>2, OthersFit
    <3> QED
      BY <3>1, <3>3
  <2> QED
    BY <2>1, <2>2
<1> QED
  BY <1>1, <1>2, <1>3 DEF CacheInv

LEMMA SetKeeps ==
  ASSUME CacheInv, NEW c \in CcClients, set_cached_value(c)
  PROVE  CacheInv'
<1>1. PICK req: req = ccReqs[c] /\ req.op = "set" /\ RequestFits(req, cache, made)
  BY DEF set_cached_value, CacheInv
<1>2. PICK l \in DOMAIN cache:
         /\ req.items = <<l>>
         /\ req.loaded.exists /\ ~req.late /\ cache[l].id = req.loaded.id =>
              cache[l].value = req.loaded.value /\ cache[l].hash = req.loaded.hash
  BY <1>1 DEF RequestFits, SetKnows
<1>3. req.items[1] = l
  BY <1>2
<1>4. made \in Nat /\ made > 0 /\ req.put \in Computed /\ req.loaded \in CacheRow /\ (req.loaded.exists <=> req.loaded.id # 0) /\ req.late \in BOOLEAN
  BY <1>1 DEF RequestFits, SetKnows, CacheInv
<1>5. RowServes(cache[l])
  BY DEF CacheInv
<1>6. UNCHANGED made
  BY DEF set_cached_value
<1> DEFINE inserts == ~req.loaded.exists /\ ~cache[l].exists
           updates == req.loaded.exists /\ cache[l].id = req.loaded.id
<1>7. ASSUME inserts \/ updates
      PROVE  ccReqs' = [d \in CcClients |-> IF d = c THEN NoRequest ELSE Belated(ccReqs[d], l)]
  BY <1>1, <1>3, <1>7 DEF set_cached_value, Overlapping, Belated
<1>8. CASE inserts
  <2>1. PICK entry: entry = InsertedRow(c, req.late)
    OBVIOUS
  <2>2. RowServes(entry)
    BY <1>1, <1>4, <2>1, InsertServes
  <2>3. cache' = [cache EXCEPT ![l] = entry]
    <3>1. InsertedRow(c, req.late) = [Inserted(c, req) EXCEPT !.overlapped = req.late,
                       !.outdated = @ /\ req.loaded.valid /\ cache[l].hits > req.loaded.hits]
      <4>1. PICK new: new = Inserted(c, req)
        OBVIOUS
      <4>2. new.outdated = FALSE
        BY <4>1 DEF Inserted, NoRow
      <4> QED
        BY <1>1, <4>1, <4>2 DEF InsertedRow
    <3> QED
      BY <1>1, <1>3, <1>8, <2>1, <3>1 DEF set_cached_value
  <2> QED
    BY <1>6, <1>7, <1>8, <2>2, <2>3, WriteKeeps
<1>9. CASE ~inserts /\ updates
  <2>1. PICK entry: entry = UpdatedRow(req, cache[l])
    OBVIOUS
  <2>2. cache[l].exists
    BY <1>4, <1>5, <1>9 DEF RowServes
  <2>3. ~req.late => cache[l].value = req.loaded.value /\ cache[l].hash = req.loaded.hash
    BY <1>2, <1>9
  <2>4. RowServes(entry)
    BY <1>4, <1>5, <2>1, <2>2, <2>3, UpdateServes
  <2>5. cache' = [cache EXCEPT ![l] = entry]
    BY <1>1, <1>3, <1>9, <2>1 DEF set_cached_value, UpdatedRow
  <2> QED
    BY <1>6, <1>7, <1>9, <2>4, <2>5, WriteKeeps
<1>10. CASE ~inserts /\ ~updates
  <2>1. cache' = cache /\ ccReqs' = [d \in CcClients |-> IF d = c THEN NoRequest ELSE ccReqs[d]]
    BY <1>1, <1>3, <1>10 DEF set_cached_value
  <2>2. \A d \in CcClients: RequestFits(ccReqs'[d], cache, made)
    BY <2>1, RestingFits DEF CacheInv
  <2> QED
    BY <1>6, <2>1, <2>2 DEF CacheInv
<1> QED
  BY <1>8, <1>9, <1>10

\* The other requests that open load nothing they write.
LEMMA OtherRequestFits ==
  ASSUME NEW req, req.op # "set", Formed(req), req.late = FALSE PROVE \A entries, now: RequestFits(req, entries, now)
BY DEF RequestFits, SetKnows

InvalidateRequest(items) == [NoRequest EXCEPT !.op = "invalidate", !.items = items]
LEMMA InvalidateAsksKeeps == ASSUME CacheInv, NEW c \in CcClients, invalidate_dependents(c) PROVE CacheInv'
<1>1. PICK items: Opens(c, InvalidateRequest(items))
  BY DEF invalidate_dependents, InvalidateRequest
<1>2. PICK req: req = InvalidateRequest(items)
  OBVIOUS
<1>3. req.op = "invalidate" /\ req.late = FALSE /\ Formed(req)
  BY <1>2 DEF InvalidateRequest, NoRequest, Formed
<1>4. RequestFits(req, cache, made')
  BY <1>3, OtherRequestFits
<1>5. UNCHANGED cache
  BY DEF invalidate_dependents
<1> QED
  BY <1>1, <1>2, <1>4, <1>5, OpeningKeeps

RecalculateRequest(items, ids) == [NoRequest EXCEPT !.op = "recalculate", !.items = items, !.ids = ids]
LEMMA StaleAsksKeeps == ASSUME CacheInv, NEW c \in CcClients, get_stale_entries(c) PROVE CacheInv'
<1>1. PICK items, ids: Opens(c, RecalculateRequest(items, ids))
  BY DEF get_stale_entries, RecalculateRequest
<1>2. PICK req: req = RecalculateRequest(items, ids)
  OBVIOUS
<1>3. req.op = "recalculate" /\ req.late = FALSE /\ Formed(req)
  BY <1>2 DEF RecalculateRequest, NoRequest, Formed
<1>4. RequestFits(req, cache, made')
  BY <1>3, OtherRequestFits
<1>5. UNCHANGED cache
  BY DEF get_stale_entries
<1> QED
  BY <1>1, <1>2, <1>4, <1>5, OpeningKeeps

LEMMA InvalidatedServes ==
  ASSUME NEW entry, RowServes(entry), NEW new, new = Invalidated(entry)
  PROVE  RowServes(new) /\ new.id = entry.id /\ new.value = entry.value /\ new.hash = entry.hash
<1>1. entry = [exists |-> entry.exists, value |-> entry.value, hash |-> entry.hash, valid |-> entry.valid, id |-> entry.id,
             overlapped |-> entry.overlapped, hits |-> entry.hits, outdated |-> entry.outdated, recalculated |-> entry.recalculated]
  BY DEF RowServes, CacheRow
<1>2. new = [exists |-> entry.exists, value |-> entry.value, hash |-> entry.hash, valid |-> FALSE, id |-> entry.id,
             overlapped |-> entry.overlapped, hits |-> entry.hits + 1, outdated |-> TRUE, recalculated |-> FALSE]
  BY <1>1 DEF Invalidated
<1>3. entry \in CacheRow
  BY DEF RowServes
<1>4. new \in CacheRow
  BY <1>2, <1>3 DEF CacheRow
<1>5. new.id = entry.id /\ new.value = entry.value /\ new.hash = entry.hash /\ new.exists = entry.exists /\ new.overlapped = entry.overlapped /\ ~new.valid
  BY <1>2
<1> QED
  BY <1>4, <1>5 DEF RowServes

\* A request that goes on or ends, over entries that went on, keeps the invariant.
LEMMA RowsGoOnKeeps ==
  ASSUME CacheInv, NEW c \in CcClients, made' \in Nat, made' >= made, NEW req, \A entries, now: RequestFits(req, entries, now),
         cache' = [l \in DOMAIN cache |-> cache'[l]],
         \A l \in DOMAIN cache: /\ RowServes(cache'[l])
                                /\ \/ cache'[l].id = cache[l].id /\ cache'[l].value = cache[l].value /\ cache'[l].hash = cache[l].hash
                                   \/ cache'[l].id = 0,
         ccReqs' = [ccReqs EXCEPT ![c] = req] \/ UNCHANGED ccReqs
  PROVE  CacheInv'
<1>1. DOMAIN cache' = DOMAIN cache /\ made \in Nat
  BY DEF CacheInv
<1>2. ccReqs' = [d \in CcClients |-> IF d = c THEN ccReqs'[c] ELSE ccReqs[d]] /\ ccReqs'[c] \in {req, ccReqs[c]}
  BY DEF CacheInv
<1>3. ASSUME NEW d \in CcClients PROVE RequestFits(ccReqs'[d], cache', made')
  <2>1. CASE ccReqs'[d] = req
    BY <2>1
  <2>2. CASE ccReqs'[d] = ccReqs[d]
    <3>1. RequestFits(ccReqs[d], cache, made)
      BY DEF CacheInv
    <3>2. RequestFits(ccReqs[d], cache', made')
      BY <1>1, <3>1, RowsGoOn
    <3> QED
      BY <2>2, <3>2
  <2> QED
    BY <1>2, <2>1, <2>2
<1> QED
  BY <1>1, <1>2, <1>3 DEF CacheInv

LEMMA InvalidateKeeps == ASSUME CacheInv, NEW c \in CcClients, invalidate_cache(c) PROVE CacheInv'
<1>1. PICK l, rest: /\ cache' = IF cache[l].exists THEN [cache EXCEPT ![l] = Invalidated(cache[l])] ELSE cache
                    /\ ccReqs' = [ccReqs EXCEPT ![c] = IF rest = <<>> THEN NoRequest ELSE [ccReqs[c] EXCEPT !.items = rest]]
  BY DEF invalidate_cache
<1>2. ccReqs[c].op = "invalidate" /\ UNCHANGED made
  BY DEF invalidate_cache
<1>3. PICK old: old = ccReqs[c] /\ old.op = "invalidate" /\ RequestFits(old, cache, made)
  BY <1>2 DEF CacheInv
<1>4. PICK req: req = IF rest = <<>> THEN NoRequest ELSE [old EXCEPT !.items = rest]
  OBVIOUS
<1>5. \A entries, now: RequestFits(req, entries, now)
  <2>1. CASE rest = <<>>
    BY <1>4, <2>1, RestingFits
  <2>2. CASE rest # <<>>
    <3>1. req = [op |-> old.op, items |-> rest, put |-> old.put, loaded |-> old.loaded, ids |-> old.ids, late |-> old.late]
      BY <1>3, <1>4, <2>2 DEF RequestFits, Formed
    <3>2. req.op = "invalidate" /\ req.late = old.late /\ Formed(req)
      BY <1>3, <3>1 DEF Formed
    <3> QED
      BY <1>3, <3>2 DEF RequestFits, SetKnows
  <2> QED
    BY <2>1, <2>2
<1>6. ccReqs' = [ccReqs EXCEPT ![c] = req]
  BY <1>1, <1>3, <1>4
<1>7. cache' = [k \in DOMAIN cache |-> IF k = l /\ cache[l].exists THEN Invalidated(cache[k]) ELSE cache[k]]
  BY <1>1 DEF CacheInv
<1>8. ASSUME NEW k \in DOMAIN cache
      PROVE  RowServes(cache'[k]) /\ cache'[k].id = cache[k].id /\ cache'[k].value = cache[k].value /\ cache'[k].hash = cache[k].hash
  <2>1. RowServes(cache[k])
    BY DEF CacheInv
  <2>2. cache'[k] \in {cache[k], Invalidated(cache[k])}
    BY <1>7
  <2> QED
    BY <2>1, <2>2, InvalidatedServes
<1>9. made' \in Nat /\ made' >= made /\ cache' = [k \in DOMAIN cache |-> cache'[k]]
  BY <1>2, <1>7 DEF CacheInv
<1> QED
  BY <1>5, <1>6, <1>8, <1>9, RowsGoOnKeeps

RecalculatedRow(entry) == [entry EXCEPT !.valid = TRUE, !.recalculated = TRUE]
LEMMA RecalculatedRowServes ==
  ASSUME NEW entry, RowServes(entry), NEW new, new = RecalculatedRow(entry)
  PROVE  RowServes(new) /\ new.id = entry.id /\ new.value = entry.value /\ new.hash = entry.hash
<1>1. entry = [exists |-> entry.exists, value |-> entry.value, hash |-> entry.hash, valid |-> entry.valid, id |-> entry.id,
             overlapped |-> entry.overlapped, hits |-> entry.hits, outdated |-> entry.outdated, recalculated |-> entry.recalculated]
  BY DEF RowServes, CacheRow
<1>2. new = [exists |-> entry.exists, value |-> entry.value, hash |-> entry.hash, valid |-> TRUE, id |-> entry.id,
             overlapped |-> entry.overlapped, hits |-> entry.hits, outdated |-> entry.outdated, recalculated |-> TRUE]
  BY <1>1 DEF RecalculatedRow
<1>3. entry \in CacheRow
  BY DEF RowServes
<1>4. new \in CacheRow
  BY <1>2, <1>3 DEF CacheRow
<1>5. new.id = entry.id /\ new.value = entry.value /\ new.hash = entry.hash /\ new.exists = entry.exists /\ new.overlapped = entry.overlapped /\ new.recalculated
  BY <1>2
<1> QED
  BY <1>4, <1>5 DEF RowServes

LEMMA RecalculateKeeps == ASSUME CacheInv, NEW c \in CcClients, recalculate_stale(c) PROVE CacheInv'
<1>1. PICK marked: cache' = cache \/ cache' = [l \in DOMAIN cache |-> IF l \in marked THEN RecalculatedRow(cache[l]) ELSE cache[l]]
  BY DEF recalculate_stale, RecalculatedRow
<1>2. ccReqs' = [ccReqs EXCEPT ![c] = NoRequest] /\ UNCHANGED made
  BY DEF recalculate_stale
<1>3. ASSUME NEW k \in DOMAIN cache
      PROVE  RowServes(cache'[k]) /\ cache'[k].id = cache[k].id /\ cache'[k].value = cache[k].value /\ cache'[k].hash = cache[k].hash
  <2>1. RowServes(cache[k])
    BY DEF CacheInv
  <2>2. cache'[k] \in {cache[k], RecalculatedRow(cache[k])}
    BY <1>1
  <2> QED
    BY <2>1, <2>2, RecalculatedRowServes
<1>4. made' \in Nat /\ made' >= made /\ cache' = [k \in DOMAIN cache |-> cache'[k]]
  BY <1>1, <1>2 DEF CacheInv
<1> QED
  BY <1>2, <1>3, <1>4, RestingFits, RowsGoOnKeeps

LEMMA ClearKeeps == ASSUME CacheInv, NEW c \in CcClients, clear_cache(c) PROVE CacheInv'
<1>1. RowServes(NoRow) /\ NoRow.id = 0
  BY DEF RowServes, NoRow, CacheRow, Values, Hashes
<1>2. cache' = [l \in DOMAIN cache |-> NoRow] /\ made' = made + 1 /\ UNCHANGED ccReqs /\ made \in Nat
  BY DEF clear_cache, CacheInv
<1>3. \A l \in DOMAIN cache: RowServes(cache'[l]) /\ cache'[l].id = 0
  BY <1>1, <1>2
<1>4. made' \in Nat /\ made' >= made /\ cache' = [k \in DOMAIN cache |-> cache'[k]]
  BY <1>2
<1> QED
  BY <1>2, <1>3, <1>4, RestingFits, RowsGoOnKeeps

LEMMA CacheStepKeeps == CacheInv /\ [CacheNext]_ccVars => CacheInv'
<1> SUFFICES ASSUME CacheInv, [CacheNext]_ccVars PROVE CacheInv'
  OBVIOUS
<1>1. CASE UNCHANGED ccVars
  BY <1>1 DEF ccVars, CacheInv
<1>2. CASE CacheNext
  BY <1>2, LoadForSetKeeps, SetKeeps, InvalidateAsksKeeps, InvalidateKeeps, StaleAsksKeeps, RecalculateKeeps, ClearKeeps DEF CacheNext
<1> QED
  BY <1>1, <1>2

LEMMA CacheInvServes == CacheInv => ServesWhatWasSet
BY DEF CacheInv, RowServes, ServesWhatWasSet, get_cached_value

-------------------------------------------------------------------------------
(* The approval workflows.                                                  *)

TaskStatus == {"pending", "in_progress", "submitted", "approved", "rejected"}
Verdicts == Seq({"approved", "rejected"})
TaskRow == [exists: BOOLEAN, stage: WfStages \cup {"none", "deleted"}, status: TaskStatus, completed: BOOLEAN,
            approvals: Verdicts, commits: Nat, overlapped: BOOLEAN]
StageRow == [exists: BOOLEAN, is_gate: BOOLEAN, deleted: BOOLEAN]
\* What DecisionsDecide says of one task.
TellsItsStory(task) ==
  LET n == Len(task.approvals)
  IN  /\ task.completed <=> "approved" \in ToSet(task.approvals)
      /\ ~task.overlapped =>
           /\ task.completed <=> task.status = "approved"
           /\ task.status \in {"approved", "rejected"} => n > 0 /\ task.approvals[n] = task.status
           /\ "approved" \notin ToSet(SubSeq(task.approvals, 1, n - 1))
           /\ task.commits = 3 * n + SinceDecision[task.status]
\* A request on a task knows its status unless the task was changed since.
KnowsTask(req, ts) ==
  req.op \in DOMAIN Asked =>
    /\ req.target \in WfTasks /\ req.status \in TaskStatus /\ req.commits \in Nat
    /\ ts[req.target].stage # "none"
    /\ ts[req.target].exists => req.commits <= ts[req.target].commits
                                /\ (req.commits = ts[req.target].commits => req.status = ts[req.target].status)
HasTarget(req) == req.op \in {"create_stage", "update_stage", "delete_stage", "create_task"} => req.target \in WfStages /\ req.gate \in BOOLEAN
WfTypes ==
  /\ stages \in [WfStages -> StageRow] /\ tasks \in [WfTasks -> TaskRow]
  /\ wfReqs = [c \in WfClients |-> wfReqs[c]] /\ \A c \in WfClients: HasTarget(wfReqs[c])
  /\ \A t \in WfTasks: tasks[t].exists => tasks[t].stage \in WfStages
WfInv ==
  /\ WfTypes
  /\ \A t \in WfTasks: tasks[t].exists => TellsItsStory(tasks[t]) /\ stages[tasks[t].stage].exists
  /\ \A s \in WfStages: stages[s].exists => workflow # "none"
  /\ \A c \in WfClients: KnowsTask(wfReqs[c], tasks)

LEMMA StageRowIs == ASSUME NEW g \in BOOLEAN PROVE Stage(g) \in StageRow /\ Stage(g).exists
BY DEF Stage, NoStage, StageRow
LEMMA NoStageIs == NoStage \in StageRow /\ ~NoStage.exists /\ DeletedStage \in StageRow /\ ~DeletedStage.exists
BY DEF NoStage, DeletedStage, StageRow
NewTask(s) == [NoTask EXCEPT !.exists = TRUE, !.stage = s]
LEMMA NewTaskTells ==
  ASSUME NEW s \in WfStages, NEW task, task = NewTask(s)
  PROVE  task \in TaskRow /\ task.exists /\ task.stage = s /\ TellsItsStory(task)
<1>1. task = [exists |-> TRUE, stage |-> s, status |-> "pending", completed |-> FALSE, approvals |-> <<>>, commits |-> 0, overlapped |-> FALSE]
  BY DEF NewTask, NoTask
<1>2. <<>> \in Verdicts /\ Len(<<>>) = 0 /\ ToSet(<<>>) = {} /\ SubSeq(<<>>, 1, 0 - 1) = <<>>
  BY DEF Verdicts, ToSet
<1>3. task \in TaskRow
  BY <1>1, <1>2 DEF TaskRow, TaskStatus
<1>4. TellsItsStory(task)
  <2>1. task.completed = FALSE /\ task.approvals = <<>> /\ task.status = "pending" /\ task.commits = 0
    BY <1>1
  <2>2. SinceDecision[task.status] = 0
    BY <2>1 DEF SinceDecision
  <2>3. Len(task.approvals) = 0 /\ ToSet(task.approvals) = {} /\ ToSet(SubSeq(task.approvals, 1, Len(task.approvals) - 1)) = {}
    BY <1>2, <2>1
  <2> QED
    BY <2>1, <2>2, <2>3 DEF TellsItsStory
<1> QED
  BY <1>1, <1>3, <1>4
LEMMA NoTaskIs ==
  /\ NoTask \in TaskRow /\ ~NoTask.exists /\ NoTask.stage = "none"
  /\ DeletedTask \in TaskRow /\ ~DeletedTask.exists /\ DeletedTask.stage = "deleted"
<1>1. <<>> \in Verdicts
  BY DEF Verdicts
<1> QED
  BY <1>1 DEF NoTask, DeletedTask, TaskRow, TaskStatus
LEMMA RestingKnows == HasTarget(NoWfReq) /\ \A ts: KnowsTask(NoWfReq, ts)
BY DEF HasTarget, KnowsTask, NoWfReq, Asked

LEMMA WfInvInit == WorkflowInit => WfInv
<1> SUFFICES ASSUME WorkflowInit PROVE WfInv
  OBVIOUS
<1>1. PICK s \in WfStages: stages = [x \in WfStages |-> IF x = s THEN Stage(TRUE) ELSE NoStage]
  BY DEF WorkflowInit, NoGates
<1>2. stages \in [WfStages -> StageRow] /\ \A x \in WfStages: stages[x].exists <=> x = s
  BY <1>1, StageRowIs, NoStageIs
<1>3. (CHOOSE x \in WfStages: stages[x].exists) = s
  BY <1>2
<1>4. PICK t \in WfTasks: tasks = [x \in WfTasks |-> IF x = t THEN NewTask(s) ELSE NoTask]
  BY <1>3 DEF WorkflowInit, FirstTask, NewTask
<1>5. PICK new: new = NewTask(s)
  OBVIOUS
<1>6. new \in TaskRow /\ new.exists /\ new.stage = s /\ TellsItsStory(new)
  BY <1>5, NewTaskTells
<1>7. tasks \in [WfTasks -> TaskRow] /\ \A x \in WfTasks: tasks[x].exists => tasks[x] = new
  BY <1>4, <1>5, <1>6, NoTaskIs
<1>8. \A c \in WfClients: wfReqs[c] = NoWfReq
  BY DEF WorkflowInit
<1>9. workflow # "none" /\ wfReqs = [c \in WfClients |-> wfReqs[c]]
  BY DEF WorkflowInit
<1> QED
  BY <1>2, <1>6, <1>7, <1>8, <1>9, RestingKnows DEF WfInv, WfTypes

\* A request that opens disturbs nothing.
LEMMA AskKeeps ==
  ASSUME WfInv, NEW c \in WfClients, NEW req, Ask(c, req), HasTarget(req), KnowsTask(req, tasks)
  PROVE  WfInv'
<1>1. wfReqs' = [d \in WfClients |-> IF d = c THEN req ELSE wfReqs[d]] /\ UNCHANGED <<workflow, stages, tasks>>
  BY DEF Ask, WfInv, WfTypes
<1>2. \A d \in WfClients: HasTarget(wfReqs'[d]) /\ KnowsTask(wfReqs'[d], tasks)
  BY <1>1 DEF WfInv, WfTypes
<1> QED
  BY <1>1, <1>2 DEF WfInv, WfTypes

LEMMA AskWorkflowKeeps == ASSUME WfInv, NEW c \in WfClients, AskWorkflow(c) PROVE WfInv'
<1>1. CASE \E op \in {"activate", "complete", "archive", "delete_workflow"}: Ask(c, WfRequest(op, "none", workflow, 0, FALSE))
  <2>1. PICK op \in {"activate", "complete", "archive", "delete_workflow"}: Ask(c, WfRequest(op, "none", workflow, 0, FALSE))
    BY <1>1
  <2>2. PICK req: req = WfRequest(op, "none", workflow, 0, FALSE)
    OBVIOUS
  <2>3. req.op = op
    BY <2>2 DEF WfRequest
  <2>4. HasTarget(req) /\ KnowsTask(req, tasks)
    BY <2>3 DEF HasTarget, KnowsTask, Asked
  <2> QED
    BY <2>1, <2>2, <2>4, AskKeeps
<1>2. CASE \E s \in WfStages, g \in BOOLEAN: Ask(c, WfRequest("create_stage", s, workflow, 0, g))
  <2>1. PICK s \in WfStages, g \in BOOLEAN: Ask(c, WfRequest("create_stage", s, workflow, 0, g))
    BY <1>2
  <2>2. PICK req: req = WfRequest("create_stage", s, workflow, 0, g)
    OBVIOUS
  <2>3. req.op = "create_stage" /\ req.target = s /\ req.gate = g
    BY <2>2 DEF WfRequest
  <2>4. HasTarget(req) /\ KnowsTask(req, tasks)
    BY <2>3 DEF HasTarget, KnowsTask, Asked
  <2> QED
    BY <2>1, <2>2, <2>4, AskKeeps
<1> QED
  BY <1>1, <1>2 DEF AskWorkflow

LEMMA AskStageKeeps == ASSUME WfInv, NEW c \in WfClients, AskStage(c) PROVE WfInv'
<1>1. PICK s \in WfStages, op \in {"update_stage", "delete_stage", "create_task"}, g \in BOOLEAN: Ask(c, WfRequest(op, s, "none", 0, g))
  BY DEF AskStage
<1>2. PICK req: req = WfRequest(op, s, "none", 0, g)
  OBVIOUS
<1>3. req.op = op /\ req.target = s /\ req.gate = g
  BY <1>2 DEF WfRequest
<1>4. HasTarget(req) /\ KnowsTask(req, tasks)
  BY <1>3 DEF HasTarget, KnowsTask, Asked
<1> QED
  BY <1>1, <1>2, <1>4, AskKeeps

LEMMA AskTaskKeeps == ASSUME WfInv, NEW c \in WfClients, AskTask(c) PROVE WfInv'
<1>1. PICK t \in {x \in WfTasks: tasks[x].exists}, op \in DOMAIN Asked: Ask(c, WfRequest(op, t, tasks[t].status, tasks[t].commits, FALSE))
  BY DEF AskTask
<1>2. PICK req: req = WfRequest(op, t, tasks[t].status, tasks[t].commits, FALSE)
  OBVIOUS
<1>3. req.op = op /\ req.target = t /\ req.status = tasks[t].status /\ req.commits = tasks[t].commits /\ req.gate = FALSE
  BY <1>2 DEF WfRequest
<1>4. HasTarget(req)
  BY <1>3 DEF HasTarget, Asked
<1>5. tasks[t] \in TaskRow /\ tasks[t].stage \in WfStages
  BY DEF WfInv, WfTypes
<1>6. tasks[t].status \in TaskStatus /\ tasks[t].commits \in Nat /\ tasks[t].stage # "none" /\ tasks[t].commits <= tasks[t].commits
  BY <1>5, WorkflowAssumption DEF TaskRow
<1>7. KnowsTask(req, tasks)
  BY <1>3, <1>6 DEF KnowsTask
<1> QED
  BY <1>1, <1>2, <1>4, <1>7, AskKeeps

\* A task goes on: it is not forgotten, and a change of its status counts.
GoesOn(t, ts) ==
  tasks[t].stage # "none" =>
    /\ ts[t].stage # "none"
    /\ ts[t].exists => /\ tasks[t].exists /\ ts[t].commits >= tasks[t].commits
                       /\ ts[t].commits = tasks[t].commits => ts[t].status = tasks[t].status
LEMMA FinishKeeps ==
  ASSUME WfInv, NEW c \in WfClients, Finish(c), stages' \in [WfStages -> StageRow], tasks' \in [WfTasks -> TaskRow],
         \A t \in WfTasks: GoesOn(t, tasks'),
         \A t \in WfTasks: tasks'[t].exists => tasks'[t].stage \in WfStages /\ TellsItsStory(tasks'[t]) /\ stages'[tasks'[t].stage].exists,
         \A s \in WfStages: stages'[s].exists => workflow' # "none"
  PROVE  WfInv'
<1>1. wfReqs' = [d \in WfClients |-> IF d = c THEN NoWfReq ELSE wfReqs[d]]
  BY DEF Finish, WfInv, WfTypes
<1>2. ASSUME NEW d \in WfClients PROVE HasTarget(wfReqs'[d]) /\ KnowsTask(wfReqs'[d], tasks')
  <2>1. CASE d = c
    BY <1>1, <2>1, RestingKnows
  <2>2. CASE d # c
    <3>1. PICK req: req = wfReqs[d] /\ req = wfReqs'[d]
      BY <1>1, <2>2
    <3>2. HasTarget(req) /\ KnowsTask(req, tasks)
      BY <3>1 DEF WfInv, WfTypes
    <3>3. ASSUME req.op \in DOMAIN Asked PROVE KnowsTask(req, tasks')
      <4>1. PICK t \in WfTasks: t = req.target
        BY <3>2, <3>3 DEF KnowsTask
      <4>2. req.status \in TaskStatus /\ req.commits \in Nat /\ tasks[t].stage # "none"
        BY <3>2, <3>3, <4>1 DEF KnowsTask
      <4>3. tasks[t].exists => req.commits <= tasks[t].commits /\ (req.commits = tasks[t].commits => req.status = tasks[t].status)
        BY <3>2, <3>3, <4>1 DEF KnowsTask
      <4>4. tasks'[t].stage # "none" /\ (tasks'[t].exists => /\ tasks[t].exists /\ tasks'[t].commits >= tasks[t].commits
                       /\ (tasks'[t].commits = tasks[t].commits => tasks'[t].status = tasks[t].status))
        BY <4>2 DEF GoesOn
      <4>5. tasks[t].commits \in Nat /\ tasks'[t].commits \in Nat
        BY DEF WfInv, WfTypes, TaskRow
      <4>6. tasks'[t].exists => req.commits <= tasks'[t].commits /\ (req.commits = tasks'[t].commits => req.status = tasks'[t].status)
        BY <4>2, <4>3, <4>4, <4>5
      <4> QED
        BY <3>3, <4>1, <4>2, <4>4, <4>6 DEF KnowsTask
    <3>4. req.op \notin DOMAIN Asked => KnowsTask(req, tasks')
      BY DEF KnowsTask
    <3> QED
      BY <3>1, <3>2, <3>3, <3>4
  <2> QED
    BY <2>1, <2>2
<1>3. wfReqs' = [d \in WfClients |-> wfReqs'[d]]
  BY <1>1
<1>4. \A t \in WfTasks: tasks'[t].exists => tasks'[t].stage \in WfStages /\ TellsItsStory(tasks'[t]) /\ stages'[tasks'[t].stage].exists
  OBVIOUS
<1> QED
  BY <1>2, <1>3, <1>4 DEF WfInv, WfTypes

\* Tasks that stay as they are, or are deleted, go on.
LEMMA StayingGoesOn ==
  ASSUME WfInv, NEW ts, \A t \in WfTasks: ts[t] = tasks[t] \/ ts[t] = DeletedTask
  PROVE  \A t \in WfTasks: GoesOn(t, ts)
<1> SUFFICES ASSUME NEW t \in WfTasks PROVE GoesOn(t, ts)
  OBVIOUS
<1>1. tasks[t].commits \in Nat
  BY DEF WfInv, WfTypes, TaskRow
<1>2. ~DeletedTask.exists /\ DeletedTask.stage # "none"
  BY NoTaskIs
<1> QED
  BY <1>1, <1>2 DEF GoesOn

LEMMA SetWorkflowStatusKeeps == ASSUME WfInv, NEW c \in WfClients, SetWorkflowStatus(c) PROVE WfInv'
<1>1. PICK op \in DOMAIN StatusAfter: workflow' = StatusAfter[op] \/ workflow' = workflow
  BY DEF SetWorkflowStatus, Has
<1>2. StatusAfter[op] # "none"
  BY DEF StatusAfter
<1>3. Finish(c) /\ UNCHANGED <<stages, tasks>>
  BY DEF SetWorkflowStatus
<1>4. \A s \in WfStages: stages'[s].exists => workflow' # "none"
  BY <1>1, <1>2, <1>3 DEF WfInv
<1>5. \A t \in WfTasks: GoesOn(t, tasks')
  BY <1>3, StayingGoesOn
<1>6. stages' \in [WfStages -> StageRow] /\ tasks' \in [WfTasks -> TaskRow]
  BY <1>3 DEF WfInv, WfTypes
<1>7. \A t \in WfTasks: tasks'[t].exists => tasks'[t].stage \in WfStages /\ TellsItsStory(tasks'[t]) /\ stages'[tasks'[t].stage].exists
  BY <1>3 DEF WfInv, WfTypes
<1> QED
  BY <1>3, <1>4, <1>5, <1>6, <1>7, FinishKeeps

LEMMA DeleteWorkflowKeeps == ASSUME WfInv, NEW c \in WfClients, delete_workflow(c) PROVE WfInv'
<1>1. stages' = [s \in WfStages |-> DeletedStage] /\ Finish(c)
  BY DEF delete_workflow
<1>2. tasks' = [t \in WfTasks |-> DeletedTask]
  BY DEF delete_workflow, Without
<1>3. stages' \in [WfStages -> StageRow] /\ \A s \in WfStages: ~stages'[s].exists
  BY <1>1, NoStageIs
<1>4. tasks' \in [WfTasks -> TaskRow] /\ \A t \in WfTasks: ~tasks'[t].exists
  BY <1>2, NoTaskIs
<1>5. \A t \in WfTasks: GoesOn(t, tasks')
  BY <1>2, StayingGoesOn
<1> QED
  BY <1>1, <1>3, <1>4, <1>5, FinishKeeps

\* Stages that keep existing keep their tasks.
LEMMA StagesChangeKeeps ==
  ASSUME WfInv, NEW c \in WfClients, Finish(c), UNCHANGED <<workflow, tasks>>, stages' \in [WfStages -> StageRow],
         \A s \in WfStages: stages[s].exists => stages'[s].exists, \A s \in WfStages: stages'[s].exists => workflow # "none"
  PROVE  WfInv'
<1>1. \A t \in WfTasks: GoesOn(t, tasks')
  BY StayingGoesOn
<1>2. tasks' \in [WfTasks -> TaskRow]
  BY DEF WfInv, WfTypes
<1>3. \A t \in WfTasks: tasks'[t].exists => tasks'[t].stage \in WfStages /\ TellsItsStory(tasks'[t]) /\ stages'[tasks'[t].stage].exists
  BY DEF WfInv, WfTypes
<1> QED
  BY <1>1, <1>2, <1>3, FinishKeeps

LEMMA CreateStageKeeps == ASSUME WfInv, NEW c \in WfClients, create_stage(c) PROVE WfInv'
<1>1. PICK s, g: s = wfReqs[c].target /\ g = wfReqs[c].gate
  OBVIOUS
<1>2. s \in WfStages /\ g \in BOOLEAN
  BY <1>1 DEF WfInv, WfTypes, HasTarget, create_stage, Has
<1>3. stages' = stages \/ (workflow # "none" /\ stages' = [stages EXCEPT ![s] = Stage(g)])
  <2>1. stages' = IF workflow = "none" \/ stages[s] # NoStage THEN stages ELSE [stages EXCEPT ![s] = Stage(g)]
    BY <1>1, Zenon DEF create_stage
  <2> QED
    BY <2>1
<1>4. Finish(c) /\ UNCHANGED <<workflow, tasks>>
  BY DEF create_stage
<1>5. /\ stages' \in [WfStages -> StageRow] /\ \A x \in WfStages: stages[x].exists => stages'[x].exists
      /\ \A x \in WfStages: stages'[x].exists => workflow # "none"
  BY <1>2, <1>3, StageRowIs DEF WfInv, WfTypes
<1> QED
  BY <1>4, <1>5, StagesChangeKeeps

LEMMA UpdateStageKeeps == ASSUME WfInv, NEW c \in WfClients, update_stage(c) PROVE WfInv'
<1>1. PICK s, g: s = wfReqs[c].target /\ g = wfReqs[c].gate
  OBVIOUS
<1>2. s \in WfStages /\ g \in BOOLEAN
  BY <1>1 DEF WfInv, WfTypes, HasTarget, update_stage, Has
<1>3. PICK old, new: old = stages[s] /\ new = [old EXCEPT !.is_gate = g]
  OBVIOUS
<1>4. old \in StageRow
  BY <1>2, <1>3 DEF WfInv, WfTypes
<1>5. new \in StageRow /\ new.exists = old.exists
  BY <1>2, <1>3, <1>4 DEF StageRow
<1>6. stages' = stages \/ stages' = [stages EXCEPT ![s] = new]
  <2>1. stages' = stages \/ stages' = [stages EXCEPT ![s].is_gate = g]
    BY <1>1, Zenon DEF update_stage
  <2>2. [stages EXCEPT ![s].is_gate = g] = [stages EXCEPT ![s] = new]
    BY <1>2, <1>3 DEF WfInv, WfTypes
  <2> QED
    BY <2>1, <2>2
<1>7. Finish(c) /\ UNCHANGED <<workflow, tasks>>
  BY DEF update_stage
<1>8. /\ stages' \in [WfStages -> StageRow] /\ \A x \in WfStages: stages[x].exists => stages'[x].exists
      /\ \A x \in WfStages: stages'[x].exists => workflow # "none"
  BY <1>2, <1>3, <1>5, <1>6 DEF WfInv, WfTypes
<1> QED
  BY <1>7, <1>8, StagesChangeKeeps

LEMMA DeleteStageKeeps == ASSUME WfInv, NEW c \in WfClients, delete_stage(c) PROVE WfInv'
<1>1. PICK s \in WfStages: s = wfReqs[c].target
  BY DEF WfInv, WfTypes, HasTarget, delete_stage, Has
<1>2. stages' = [stages EXCEPT ![s] = DeletedStage] /\ Finish(c) /\ UNCHANGED workflow
  BY <1>1 DEF delete_stage
<1>3. tasks' = [t \in WfTasks |-> IF tasks[t].exists /\ tasks[t].stage = s THEN DeletedTask ELSE tasks[t]]
  BY <1>1 DEF delete_stage, Without, TasksOf
<1>4. /\ stages' \in [WfStages -> StageRow]
      /\ \A x \in WfStages: stages'[x].exists <=> x # s /\ stages[x].exists
  BY <1>2, NoStageIs DEF WfInv, WfTypes
<1>5. tasks' \in [WfTasks -> TaskRow] /\ \A t \in WfTasks: tasks'[t].exists => tasks[t].exists /\ tasks'[t] = tasks[t] /\ tasks[t].stage # s
  BY <1>3, NoTaskIs DEF WfInv, WfTypes
<1>6. \A t \in WfTasks: GoesOn(t, tasks')
  BY <1>3, StayingGoesOn
<1>7. \A t \in WfTasks: tasks'[t].exists => tasks'[t].stage \in WfStages /\ TellsItsStory(tasks'[t]) /\ stages'[tasks'[t].stage].exists
  BY <1>4, <1>5 DEF WfInv, WfTypes
<1>8. \A x \in WfStages: stages'[x].exists => workflow' # "none"
  BY <1>2, <1>4 DEF WfInv
<1> QED
  BY <1>2, <1>4, <1>5, <1>6, <1>7, <1>8, FinishKeeps

\* One task changes.
LEMMA TaskChangeKeeps ==
  ASSUME WfInv, NEW c \in WfClients, Finish(c), UNCHANGED <<workflow, stages>>,
         NEW t \in WfTasks, NEW new \in TaskRow, tasks' = [tasks EXCEPT ![t] = new],
         new.exists, new.stage \in WfStages, TellsItsStory(new), stages[new.stage].exists,
         \/ tasks[t].stage = "none"
         \/ tasks[t].exists /\ new.commits > tasks[t].commits
  PROVE  WfInv'
<1>1. tasks' = [x \in WfTasks |-> IF x = t THEN new ELSE tasks[x]]
  BY DEF WfInv, WfTypes
<1>2. tasks' \in [WfTasks -> TaskRow] /\ stages' \in [WfStages -> StageRow]
  BY <1>1 DEF WfInv, WfTypes
<1>3. tasks[t].commits \in Nat /\ new.commits \in Nat /\ new.stage # "none"
  BY WorkflowAssumption DEF WfInv, WfTypes, TaskRow
<1>4. ASSUME NEW x \in WfTasks PROVE GoesOn(x, tasks')
  <2>1. CASE x = t
    BY <1>1, <1>3, <2>1 DEF GoesOn
  <2>2. CASE x # t
    <3>1. tasks'[x] = tasks[x] /\ tasks[x].commits \in Nat
      BY <1>1, <2>2 DEF WfInv, WfTypes, TaskRow
    <3> QED
      BY <3>1 DEF GoesOn
  <2> QED
    BY <2>1, <2>2
<1>5. \A x \in WfTasks: tasks'[x].exists => tasks'[x].stage \in WfStages /\ TellsItsStory(tasks'[x]) /\ stages'[tasks'[x].stage].exists
  BY <1>1 DEF WfInv, WfTypes
<1>6. \A s \in WfStages: stages'[s].exists => workflow' # "none"
  BY DEF WfInv
<1> QED
  BY <1>2, <1>4, <1>5, <1>6, FinishKeeps

LEMMA NoChangeKeeps == ASSUME WfInv, NEW c \in WfClients, Finish(c), UNCHANGED <<workflow, stages, tasks>> PROVE WfInv'
<1>1. stages' \in [WfStages -> StageRow] /\ \A x \in WfStages: stages[x].exists => stages'[x].exists
  BY DEF WfInv, WfTypes
<1>2. \A x \in WfStages: stages'[x].exists => workflow # "none"
  BY DEF WfInv
<1> QED
  BY <1>1, <1>2, StagesChangeKeeps

LEMMA CreateTaskKeeps == ASSUME WfInv, NEW c \in WfClients, create_task(c) PROVE WfInv'
<1>1. PICK s \in WfStages: s = wfReqs[c].target
  BY DEF WfInv, WfTypes, HasTarget, create_task, Has
<1>2. Finish(c) /\ UNCHANGED <<workflow, stages>>
  BY DEF create_task
<1>3. CASE UNCHANGED tasks
  BY <1>2, <1>3, NoChangeKeeps
<1>4. CASE stages[s].exists /\ \E t \in WfTasks: tasks[t] = NoTask
  <2>1. PICK t \in WfTasks: tasks[t] = NoTask /\ tasks' = [tasks EXCEPT ![t] = NewTask(s)]
    BY <1>1, <1>4 DEF create_task, NewTask
  <2>2. PICK new: new = NewTask(s)
    OBVIOUS
  <2>3. new \in TaskRow /\ new.exists /\ new.stage = s /\ TellsItsStory(new)
    BY <2>2, NewTaskTells
  <2>4. tasks[t].stage = "none" /\ tasks' = [tasks EXCEPT ![t] = new]
    BY <2>1, <2>2, NoTaskIs
  <2> QED
    BY <1>2, <1>4, <2>3, <2>4, TaskChangeKeeps
<1> QED
  BY <1>1, <1>3, <1>4 DEF create_task

LEMMA AppendIs ==
  ASSUME NEW ap \in Verdicts, NEW v \in {"approved", "rejected"}
  PROVE  /\ Append(ap, v) \in Verdicts /\ Len(Append(ap, v)) = Len(ap) + 1 /\ Append(ap, v)[Len(ap) + 1] = v
         /\ SubSeq(Append(ap, v), 1, Len(ap) + 1 - 1) = ap /\ ToSet(Append(ap, v)) = ToSet(ap) \cup {v}
<1>1. Len(ap) \in Nat /\ Append(ap, v) \in Verdicts /\ Len(Append(ap, v)) = Len(ap) + 1 /\ DOMAIN ap = 1..Len(ap)
  BY DEF Verdicts
<1>2. \A i \in 1..Len(ap): Append(ap, v)[i] = ap[i]
  BY DEF Verdicts
<1>3. Append(ap, v)[Len(ap) + 1] = v /\ DOMAIN Append(ap, v) = 1..(Len(ap) + 1)
  BY DEF Verdicts
<1>4. SubSeq(Append(ap, v), 1, Len(ap) + 1 - 1) = ap
  <2>1. Len(ap) + 1 - 1 = Len(ap)
    BY <1>1
  <2>2. SubSeq(Append(ap, v), 1, Len(ap)) = ap
    BY <1>1, <1>2 DEF Verdicts
  <2> QED
    BY <2>1, <2>2
<1>5. ToSet(Append(ap, v)) = ToSet(ap) \cup {v}
  BY <1>1, <1>2, <1>3 DEF ToSet
<1> QED
  BY <1>1, <1>3, <1>4, <1>5

\* The fields of a task after a change of its status.
Moved(task, verdict, late) == [task EXCEPT !.status = verdict, !.commits = @ + 1, !.overlapped = @ \/ late]
MovedTask(task, op, late) ==
  IF op \in {"approve", "reject"} THEN Decision(Moved(task, Asked[op], late), Asked[op]) ELSE Moved(task, Asked[op], late)
LEMMA MovedIs ==
  ASSUME NEW task \in TaskRow, NEW verdict, NEW late \in BOOLEAN, NEW new, new = Moved(task, verdict, late)
  PROVE  new = [exists |-> task.exists, stage |-> task.stage, status |-> verdict, completed |-> task.completed,
                approvals |-> task.approvals, commits |-> task.commits + 1, overlapped |-> (task.overlapped \/ late)]
<1>1. task = [exists |-> task.exists, stage |-> task.stage, status |-> task.status, completed |-> task.completed,
              approvals |-> task.approvals, commits |-> task.commits, overlapped |-> task.overlapped]
  BY DEF TaskRow
<1> QED
  BY <1>1 DEF Moved
LEMMA DecisionIs ==
  ASSUME NEW task, NEW verdict, task = [exists |-> task.exists, stage |-> task.stage, status |-> task.status, completed |-> task.completed,
              approvals |-> task.approvals, commits |-> task.commits, overlapped |-> task.overlapped],
         NEW new, new = Decision(task, verdict)
  PROVE  new = [exists |-> task.exists, stage |-> task.stage, status |-> task.status, completed |-> (task.completed \/ verdict = "approved"),
                approvals |-> Append(task.approvals, verdict), commits |-> task.commits, overlapped |-> task.overlapped]
BY DEF Decision

LEMMA MovedTaskIs ==
  ASSUME NEW task \in TaskRow, NEW op \in DOMAIN Asked, NEW late \in BOOLEAN, NEW new, new = MovedTask(task, op, late)
  PROVE  /\ new.exists = task.exists /\ new.stage = task.stage /\ new.commits = task.commits + 1
         /\ new.status = Asked[op] /\ new.overlapped = (task.overlapped \/ late)
         /\ new.approvals = IF op \in {"approve", "reject"} THEN Append(task.approvals, Asked[op]) ELSE task.approvals
         /\ new.completed = (task.completed \/ op = "approve")
         /\ new \in TaskRow
<1>1. PICK m: m = Moved(task, Asked[op], late)
  OBVIOUS
<1>2. m = [exists |-> task.exists, stage |-> task.stage, status |-> Asked[op], completed |-> task.completed,
           approvals |-> task.approvals, commits |-> task.commits + 1, overlapped |-> (task.overlapped \/ late)]
  BY <1>1, MovedIs
<1>3. /\ task.exists \in BOOLEAN /\ task.stage \in WfStages \cup {"none", "deleted"} /\ task.completed \in BOOLEAN
      /\ task.approvals \in Verdicts /\ task.commits + 1 \in Nat /\ (task.overlapped \/ late) \in BOOLEAN
  BY DEF TaskRow
<1>4. Asked[op] \in TaskStatus /\ (op = "approve" <=> Asked[op] = "approved") /\ (op \in {"approve", "reject"} => Asked[op] \in {"approved", "rejected"})
  BY DEF Asked, TaskStatus
<1>5. CASE op \in {"approve", "reject"}
  <2>1. new = Decision(m, Asked[op])
    BY <1>1, <1>5 DEF MovedTask
  <2>2. m = [exists |-> m.exists, stage |-> m.stage, status |-> m.status, completed |-> m.completed,
              approvals |-> m.approvals, commits |-> m.commits, overlapped |-> m.overlapped]
    BY <1>2
  <2>3. new = [exists |-> m.exists, stage |-> m.stage, status |-> m.status, completed |-> (m.completed \/ Asked[op] = "approved"),
                approvals |-> Append(m.approvals, Asked[op]), commits |-> m.commits, overlapped |-> m.overlapped]
    BY <2>1, <2>2, DecisionIs
  <2>4. new.exists = task.exists /\ new.stage = task.stage /\ new.commits = task.commits + 1 /\ new.status = Asked[op]
        /\ new.overlapped = (task.overlapped \/ late) /\ new.approvals = Append(task.approvals, Asked[op])
    BY <1>2, <2>3
  <2>5. new.completed = (task.completed \/ op = "approve")
    BY <1>2, <1>4, <2>3
  <2>6. Append(task.approvals, Asked[op]) \in Verdicts
    BY <1>3, <1>4, <1>5, AppendIs
  <2>7. new \in TaskRow
    <3>1. new = [exists |-> new.exists, stage |-> new.stage, status |-> new.status, completed |-> new.completed,
              approvals |-> new.approvals, commits |-> new.commits, overlapped |-> new.overlapped]
      BY <2>3
    <3>2. new.completed \in BOOLEAN
      BY <1>3, <2>5
    <3> QED
      BY <1>3, <1>4, <2>4, <2>6, <3>1, <3>2 DEF TaskRow
  <2> QED
    BY <1>5, <2>4, <2>5, <2>7
<1>6. CASE op \notin {"approve", "reject"}
  <2>1. new = m
    BY <1>1, <1>6 DEF MovedTask
  <2>2. new.exists = task.exists /\ new.stage = task.stage /\ new.commits = task.commits + 1 /\ new.status = Asked[op]
        /\ new.overlapped = (task.overlapped \/ late) /\ new.approvals = task.approvals
    BY <1>2, <2>1
  <2>3. new.completed = (task.completed \/ op = "approve")
    BY <1>2, <1>3, <1>6, <2>1
  <2>4. new \in TaskRow
    BY <1>2, <1>3, <1>4, <2>1 DEF TaskRow
  <2> QED
    BY <1>6, <2>2, <2>3, <2>4
<1> QED
  BY <1>5, <1>6

\* A change decided on the status it changes continues the story of the task.
LEMMA StoryGoesOn ==
  ASSUME NEW task \in TaskRow, TellsItsStory(task), NEW op \in DOMAIN Asked, NEW late \in BOOLEAN,
         ~late => Asked[op] \in VALID_TRANSITIONS[task.status],
         NEW new, new = MovedTask(task, op, late)
  PROVE  TellsItsStory(new)
<1>1. /\ new.commits = task.commits + 1 /\ new.status = Asked[op] /\ new.overlapped = (task.overlapped \/ late)
      /\ new.approvals = IF op \in {"approve", "reject"} THEN Append(task.approvals, Asked[op]) ELSE task.approvals
      /\ new.completed = (task.completed \/ op = "approve")
  BY MovedTaskIs
<1>2. /\ task.approvals \in Verdicts /\ task.completed \in BOOLEAN /\ task.overlapped \in BOOLEAN /\ task.commits \in Nat
      /\ task.status \in TaskStatus
  BY DEF TaskRow
<1>3. PICK n \in Nat: n = Len(task.approvals)
  BY <1>2 DEF Verdicts
<1>4. op \in {"approve", "reject"} =>
        /\ Len(new.approvals) = n + 1 /\ new.approvals[n + 1] = Asked[op]
        /\ SubSeq(new.approvals, 1, n + 1 - 1) = task.approvals /\ ToSet(new.approvals) = ToSet(task.approvals) \cup {Asked[op]}
  <2> SUFFICES ASSUME op \in {"approve", "reject"} PROVE /\ Len(new.approvals) = n + 1 /\ new.approvals[n + 1] = Asked[op]
        /\ SubSeq(new.approvals, 1, n + 1 - 1) = task.approvals /\ ToSet(new.approvals) = ToSet(task.approvals) \cup {Asked[op]}
    OBVIOUS
  <2>1. Asked[op] \in {"approved", "rejected"}
    BY DEF Asked
  <2>2. new.approvals = Append(task.approvals, Asked[op])
    BY <1>1
  <2> QED
    BY <1>2, <1>3, <2>1, <2>2, AppendIs
<1>5. op \in {"start", "submit"} => new.approvals = task.approvals /\ new.completed = task.completed
  BY <1>1, <1>2
<1>6. op \in {"start", "submit", "approve", "reject"}
  BY DEF Asked
<1>7. new.completed <=> "approved" \in ToSet(new.approvals)
  <2>1. task.completed <=> "approved" \in ToSet(task.approvals)
    BY DEF TellsItsStory
  <2>2. CASE op \in {"start", "submit"}
    BY <1>5, <2>1, <2>2
  <2>3. CASE op = "approve"
    BY <1>1, <1>4, <2>3 DEF Asked
  <2>4. CASE op = "reject"
    <3>1. ToSet(new.approvals) = ToSet(task.approvals) \cup {"rejected"} /\ new.completed = task.completed
      BY <1>1, <1>2, <1>4, <2>4 DEF Asked
    <3> QED
      BY <2>1, <3>1
  <2> QED
    BY <1>6, <2>2, <2>3, <2>4
<1>8. ASSUME ~new.overlapped
      PROVE  /\ new.completed <=> new.status = "approved"
             /\ new.status \in {"approved", "rejected"} => Len(new.approvals) > 0 /\ new.approvals[Len(new.approvals)] = new.status
             /\ "approved" \notin ToSet(SubSeq(new.approvals, 1, Len(new.approvals) - 1))
             /\ new.commits = 3 * Len(new.approvals) + SinceDecision[new.status]
  <2>1. ~task.overlapped /\ ~late
    BY <1>1, <1>2, <1>8
  <2>2. Asked[op] \in VALID_TRANSITIONS[task.status]
    BY <2>1
  <2>3. /\ task.completed <=> "approved" \in ToSet(task.approvals)
        /\ task.completed <=> task.status = "approved"
        /\ "approved" \notin ToSet(SubSeq(task.approvals, 1, n - 1))
        /\ task.commits = 3 * n + SinceDecision[task.status]
    BY <1>3, <2>1 DEF TellsItsStory
  <2>4. CASE op = "start"
    <3>1. task.status \in {"pending", "rejected"} /\ new.status = "in_progress"
      BY <1>1, <1>2, <2>2, <2>4 DEF Asked, VALID_TRANSITIONS, TaskStatus
    <3>2. SinceDecision[task.status] = 0 /\ SinceDecision[new.status] = 1
      BY <3>1 DEF SinceDecision
    <3>3. new.approvals = task.approvals /\ new.completed = task.completed /\ Len(new.approvals) = n
      BY <1>3, <1>5, <2>4
    <3>4. new.commits = 3 * Len(new.approvals) + SinceDecision[new.status]
      BY <1>1, <2>3, <3>2, <3>3
    <3> QED
      BY <2>3, <3>1, <3>3, <3>4
  <2>5. CASE op = "submit"
    <3>1. task.status = "in_progress" /\ new.status = "submitted"
      BY <1>1, <1>2, <2>2, <2>5 DEF Asked, VALID_TRANSITIONS, TaskStatus
    <3>2. SinceDecision[task.status] = 1 /\ SinceDecision[new.status] = 2
      BY <3>1 DEF SinceDecision
    <3>3. new.approvals = task.approvals /\ new.completed = task.completed /\ Len(new.approvals) = n
      BY <1>3, <1>5, <2>5
    <3>4. new.commits = 3 * Len(new.approvals) + SinceDecision[new.status]
      BY <1>1, <2>3, <3>2, <3>3
    <3> QED
      BY <2>3, <3>1, <3>3, <3>4
  <2>6. CASE op \in {"approve", "reject"}
    <3>1. task.status = "submitted" /\ new.status = Asked[op] /\ (new.status = "approved" <=> op = "approve") /\ new.status \in {"approved", "rejected"}
      BY <1>1, <1>2, <2>2, <2>6 DEF Asked, VALID_TRANSITIONS, TaskStatus
    <3>2. SinceDecision[task.status] = 2 /\ SinceDecision[new.status] = 0
      BY <3>1 DEF SinceDecision
    <3>3. Len(new.approvals) = n + 1 /\ new.approvals[n + 1] = new.status /\ SubSeq(new.approvals, 1, Len(new.approvals) - 1) = task.approvals
      BY <1>4, <2>6, <3>1
    <3>4. new.commits = 3 * Len(new.approvals) + SinceDecision[new.status]
      BY <1>1, <2>3, <3>2, <3>3
    <3>5. ~task.completed /\ "approved" \notin ToSet(task.approvals)
      BY <2>3, <3>1
    <3>6. new.completed <=> new.status = "approved"
      BY <1>1, <3>1, <3>5
    <3>7. Len(new.approvals) > 0 /\ new.approvals[Len(new.approvals)] = new.status
      BY <3>3
    <3>8. "approved" \notin ToSet(SubSeq(new.approvals, 1, Len(new.approvals) - 1))
      BY <3>3, <3>5
    <3> QED
      BY <3>4, <3>6, <3>7, <3>8
  <2> QED
    BY <1>6, <2>4, <2>5, <2>6
<1> QED
  BY <1>7, <1>8 DEF TellsItsStory

LEMMA SetTaskStatusKeeps == ASSUME WfInv, NEW c \in WfClients, SetTaskStatus(c) PROVE WfInv'
<1>1. PICK req: req = wfReqs[c] /\ req.op \in DOMAIN Asked /\ KnowsTask(req, tasks)
  BY DEF SetTaskStatus, Has, WfInv
<1>2. PICK t \in WfTasks, op \in DOMAIN Asked: t = req.target /\ op = req.op
  BY <1>1 DEF KnowsTask
<1>3. PICK task: task = tasks[t]
  OBVIOUS
<1>4. PICK late \in BOOLEAN: late = (req.commits # task.commits)
  OBVIOUS
<1>5. Finish(c) /\ UNCHANGED <<workflow, stages>>
  BY DEF SetTaskStatus
<1>6. CASE ~task.exists \/ ~Transition(task, req)
  <2>1. UNCHANGED tasks
    BY <1>1, <1>2, <1>3, <1>6 DEF SetTaskStatus
  <2> QED
    BY <1>5, <2>1, NoChangeKeeps
<1>7. CASE task.exists /\ Transition(task, req)
  <2>1. PICK new: new = MovedTask(task, op, late)
    OBVIOUS
  <2>2. tasks' = [tasks EXCEPT ![t] = new]
    <3>1. tasks' = [tasks EXCEPT ![t] = MovedTask(tasks[t], op, req.commits # tasks[t].commits)]
      BY <1>1, <1>2, <1>3, <1>7 DEF SetTaskStatus, MovedTask, Moved
    <3>2. MovedTask(tasks[t], op, req.commits # tasks[t].commits) = new
      BY <1>3, <1>4, <2>1
    <3> QED
      BY <3>1, <3>2
  <2>3. task \in TaskRow /\ TellsItsStory(task) /\ task.stage \in WfStages /\ stages[task.stage].exists
    BY <1>3, <1>7 DEF WfInv, WfTypes
  <2>4. ~late => Asked[op] \in VALID_TRANSITIONS[task.status]
    BY <1>1, <1>2, <1>3, <1>4, <1>7 DEF KnowsTask, Transition
  <2>5. TellsItsStory(new)
    BY <2>1, <2>3, <2>4, StoryGoesOn
  <2>6. new.exists = task.exists /\ new.stage = task.stage /\ new.commits = task.commits + 1 /\ new \in TaskRow
    BY <2>1, <2>3, MovedTaskIs
  <2>7. new.commits > tasks[t].commits
    BY <1>3, <2>3, <2>6 DEF TaskRow
  <2> QED
    BY <1>3, <1>5, <1>7, <2>2, <2>3, <2>5, <2>6, <2>7, TaskChangeKeeps
<1> QED
  BY <1>6, <1>7

LEMMA WfStepKeeps == WfInv /\ [WorkflowNext]_wfVars => WfInv'
<1> SUFFICES ASSUME WfInv, [WorkflowNext]_wfVars PROVE WfInv'
  OBVIOUS
<1>1. CASE UNCHANGED wfVars
  BY <1>1 DEF wfVars, WfInv, WfTypes, KnowsTask
<1>2. CASE WorkflowNext
  BY <1>2, AskWorkflowKeeps, AskStageKeeps, AskTaskKeeps, SetWorkflowStatusKeeps, DeleteWorkflowKeeps, CreateStageKeeps,
     UpdateStageKeeps, DeleteStageKeeps, CreateTaskKeeps, SetTaskStatusKeeps DEF WorkflowNext
<1> QED
  BY <1>1, <1>2

LEMMA WfInvAgrees == WfInv => DecisionsDecide /\ GatesAgree
<1> SUFFICES ASSUME WfInv PROVE DecisionsDecide /\ GatesAgree
  OBVIOUS
<1>1. DecisionsDecide
  BY DEF WfInv, DecisionsDecide, TellsItsStory
<1>2. get_workflow_progress.gate_completed = Cardinality({s \in WfStages: is_gate_stage_completed(s)})
  <2>1. \A s \in WfStages: TasksOf({s}) # {} => stages[s].exists
    BY DEF WfInv, TasksOf
  <2>2. {s \in {s \in WfStages: stages[s].exists /\ stages[s].is_gate}: TasksOf({s}) # {} /\ \A t \in TasksOf({s}): tasks[t].status = "approved"}
        = {s \in WfStages: is_gate_stage_completed(s)}
    BY <2>1 DEF is_gate_stage_completed
  <2> QED
    BY <2>2 DEF get_workflow_progress
<1>3. /\ \A t \in WfTasks: tasks[t].exists => stages[tasks[t].stage].exists
      /\ \A s \in WfStages: stages[s].exists => workflow # "none"
  BY DEF WfInv
<1> QED
  BY <1>1, <1>2, <1>3 DEF GatesAgree

-------------------------------------------------------------------------------
(* The nodes behind one Redis.                                              *)

Holder == Nodes \cup {Nobody}
NodeState == [assigned: Holder, cached: Nat, events: Seq(Nat)]
Points == {"rest", "get", "set", "push", "claim", "force", "read_holder", "remember", "remember_forced", "trim"}
CallRow == [at: Points, node: Holder, target: Holder, event: Nat]
Underway(call) == call \in CallRow /\ (call.at # "rest" => call.node \in Nodes /\ call.target \in Nodes)
ScTypes ==
  /\ redis \in NodeState /\ memory \in [Nodes -> NodeState] /\ pushed \in Seq(Nat) /\ raced \in BOOLEAN
  /\ calls = [c \in ScClients |-> calls[c]] /\ \A c \in ScClients: Underway(calls[c])
  /\ used \in [requests: Nat, faults: Nat, expiries: Nat]
\* Redis has named nobody but the node it holds.
NamesOne(assigned, names) == names \subseteq {assigned} /\ (assigned = Nobody => names = {})
\* A list of Redis is the newest of what was pushed, as much as the cap allows at least.
Newest(list, all) ==
  /\ Len(list) <= Len(all) /\ \A i \in 1..Len(list): list[i] = all[i]
  /\ Len(all) <= Len(list) \/ EventCap <= Len(list)
Trimming(cs) == {c \in ScClients: cs[c].at = "trim"}
Trimmed(list, cs, faults) == Len(list) <= EventCap + Cardinality(Trimming(cs)) + faults
\* Without a fault nobody is about to remember what Redis does not know, or does.
NothingAlone(mem, cs, faults, late) ==
  faults = 0 =>
    /\ \A n \in Nodes: mem[n].cached = 0 /\ (mem[n].assigned # Nobody => late)
    /\ \A c \in ScClients: cs[c].at # "remember_forced" /\ (cs[c].at = "remember" => late)
ScInv ==
  /\ ScTypes
  /\ NamesOne(redis.assigned, seen)
  /\ Newest(redis.events, pushed) /\ Trimmed(redis.events, calls, used.faults)
  /\ NothingAlone(memory, calls, used.faults, raced)

LEMMA TrimmingFinite == \A cs: IsFiniteSet(Trimming(cs)) /\ Cardinality(Trimming(cs)) \in Nat
<1> SUFFICES ASSUME NEW cs PROVE IsFiniteSet(Trimming(cs)) /\ Cardinality(Trimming(cs)) \in Nat
  OBVIOUS
<1>1. Trimming(cs) \subseteq ScClients
  BY DEF Trimming
<1> QED
  BY <1>1, ScalingAssumption, FS_Subset, FS_CardinalityType

LEMMA EmptyStateIs == EmptyState \in NodeState /\ EmptyState.assigned = Nobody /\ EmptyState.cached = 0 /\ EmptyState.events = <<>>
<1>1. <<>> \in Seq(Nat)
  OBVIOUS
<1> QED
  BY <1>1 DEF EmptyState, NodeState, Holder
LEMMA AtRestIs == Underway(AtRest) /\ AtRest.at = "rest"
BY DEF AtRest, Underway, CallRow, Points, Holder

LEMMA ScInvInit == ScalingInit => ScInv
<1> SUFFICES ASSUME ScalingInit PROVE ScInv
  OBVIOUS
<1>1. redis = EmptyState /\ \A n \in Nodes: memory[n] = EmptyState
  BY DEF ScalingInit
<1>2. \A c \in ScClients: calls[c] = AtRest
  BY DEF ScalingInit
<1>3. used \in [requests: Nat, faults: Nat, expiries: Nat] /\ used.faults = 0
  BY DEF ScalingInit
<1>4. pushed = <<>> /\ pushed \in Seq(Nat) /\ Len(pushed) = 0 /\ seen = {} /\ raced \in BOOLEAN
  <2>1. pushed = <<>> /\ seen = {} /\ raced = FALSE
    BY DEF ScalingInit
  <2>2. <<>> \in Seq(Nat) /\ Len(<<>>) = 0
    OBVIOUS
  <2> QED
    BY <2>1, <2>2
<1>5. memory \in [Nodes -> NodeState] /\ calls = [c \in ScClients |-> calls[c]]
  BY EmptyStateIs DEF ScalingInit
<1>6. Newest(redis.events, pushed)
  BY <1>1, <1>4, EmptyStateIs DEF Newest
<1>7. Trimmed(redis.events, calls, used.faults)
  <2>1. Len(redis.events) = 0
    BY <1>1, EmptyStateIs
  <2> QED
    BY <1>3, <2>1, ScalingAssumption, TrimmingFinite DEF Trimmed
<1>8. NothingAlone(memory, calls, used.faults, raced)
  BY <1>1, <1>2, EmptyStateIs, AtRestIs DEF NothingAlone
<1> QED
  BY <1>1, <1>2, <1>3, <1>4, <1>5, <1>6, <1>7, <1>8, EmptyStateIs, AtRestIs DEF ScInv, ScTypes, NamesOne

\* Who is not about to trim before and after a step leaves the bound as it is.
LEMMA SameTrimming ==
  ASSUME NEW c \in ScClients, NEW cs, NEW after, \A d \in ScClients: d # c => after[d] = cs[d]
  PROVE  /\ cs[c].at # "trim" /\ after[c].at # "trim" => Trimming(after) = Trimming(cs)
         /\ cs[c].at # "trim" /\ after[c].at = "trim" => Trimming(after) = Trimming(cs) \cup {c} /\ c \notin Trimming(cs)
         /\ cs[c].at = "trim" /\ after[c].at # "trim" => Trimming(after) = Trimming(cs) \ {c} /\ c \in Trimming(cs)
BY DEF Trimming
LEMMA TrimmingGrows ==
  ASSUME NEW c \in ScClients, NEW cs, NEW after, \A d \in ScClients: d # c => after[d] = cs[d], cs[c].at # "trim", after[c].at = "trim"
  PROVE  Cardinality(Trimming(after)) = Cardinality(Trimming(cs)) + 1
<1>1. Trimming(after) = Trimming(cs) \cup {c} /\ c \notin Trimming(cs)
  BY SameTrimming
<1>2. IsFiniteSet(Trimming(cs))
  BY TrimmingFinite
<1> QED
  BY <1>1, <1>2, FS_AddElement
LEMMA TrimmingShrinks ==
  ASSUME NEW c \in ScClients, NEW cs, NEW after, \A d \in ScClients: d # c => after[d] = cs[d], cs[c].at = "trim", after[c].at # "trim"
  PROVE  Cardinality(Trimming(after)) = Cardinality(Trimming(cs)) - 1
<1>1. Trimming(after) = Trimming(cs) \ {c} /\ c \in Trimming(cs)
  BY SameTrimming
<1>2. IsFiniteSet(Trimming(cs))
  BY TrimmingFinite
<1> QED
  BY <1>1, <1>2, FS_RemoveElement

\* What updating one field of a node's state, or of a call, leaves.
LEMMA AssignedIs ==
  ASSUME NEW st \in NodeState, NEW a \in Holder, NEW new, new = [st EXCEPT !.assigned = a]
  PROVE  new \in NodeState /\ new.assigned = a /\ new.cached = st.cached /\ new.events = st.events
BY DEF NodeState
LEMMA CachedIs ==
  ASSUME NEW st \in NodeState, NEW v \in Nat, NEW new, new = [st EXCEPT !.cached = v]
  PROVE  new \in NodeState /\ new.assigned = st.assigned /\ new.cached = v /\ new.events = st.events
BY DEF NodeState
LEMMA EventsIs ==
  ASSUME NEW st \in NodeState, NEW list \in Seq(Nat), NEW new, new = [st EXCEPT !.events = list]
  PROVE  new \in NodeState /\ new.assigned = st.assigned /\ new.cached = st.cached /\ new.events = list
BY DEF NodeState

\* The calls after a step of c: c's is now to.
CallsAre(c, to) == Underway(to) /\ calls' = [d \in ScClients |-> IF d = c THEN to ELSE calls[d]]
LEMMA GoesIs ==
  ASSUME ScTypes, NEW c \in ScClients, NEW at \in Points, Goes(c, at), calls[c].at # "rest"
  PROVE  \E to: CallsAre(c, to) /\ to.at = at
<1>1. PICK call: call = calls[c] /\ Underway(call) /\ call.at # "rest"
  BY DEF ScTypes
<1>2. PICK to: to = [call EXCEPT !.at = at]
  OBVIOUS
<1>3. Underway(to) /\ to.at = at
  BY <1>1, <1>2 DEF Underway, CallRow
<1>4. calls' = [d \in ScClients |-> IF d = c THEN to ELSE calls[d]]
  BY <1>1, <1>2 DEF Goes, ScTypes
<1> QED
  BY <1>3, <1>4 DEF CallsAre
LEMMA RestsIs ==
  ASSUME ScTypes, NEW c \in ScClients, Rests(c)
  PROVE  \E to: CallsAre(c, to) /\ to.at = "rest"
<1>1. calls' = [d \in ScClients |-> IF d = c THEN AtRest ELSE calls[d]]
  BY DEF Rests, ScTypes
<1> QED
  BY <1>1, AtRestIs DEF CallsAre
LEMMA FaultIs ==
  ASSUME ScTypes, Fault
  PROVE  used' \in [requests: Nat, faults: Nat, expiries: Nat] /\ used'.faults = used.faults + 1
<1>1. PICK u: u = used /\ u \in [requests: Nat, faults: Nat, expiries: Nat]
  BY DEF ScTypes
<1>2. PICK new: new = [u EXCEPT !.faults = @ + 1]
  OBVIOUS
<1>3. new \in [requests: Nat, faults: Nat, expiries: Nat] /\ new.faults = u.faults + 1
  BY <1>1, <1>2
<1>4. used' = new
  BY <1>1, <1>2 DEF Fault
<1> QED
  BY <1>1, <1>3, <1>4

LEMMA CallsAreCalls ==
  ASSUME ScTypes, NEW c \in ScClients, NEW to, CallsAre(c, to)
  PROVE  /\ calls' = [d \in ScClients |-> calls'[d]] /\ \A d \in ScClients: Underway(calls'[d])
         /\ calls'[c] = to /\ \A d \in ScClients: d # c => calls'[d] = calls[d]
BY DEF CallsAre, ScTypes

\* A step of c that touches no event of Redis.
LEMMA EventsStayKeeps ==
  ASSUME ScInv, NEW c \in ScClients, NEW to, CallsAre(c, to), calls[c].at # "trim", to.at # "trim",
         redis' \in NodeState, redis'.events = redis.events, memory' \in [Nodes -> NodeState], UNCHANGED pushed, raced' \in BOOLEAN,
         used' \in [requests: Nat, faults: Nat, expiries: Nat], used'.faults >= used.faults,
         NamesOne(redis'.assigned, seen'),
         used'.faults = 0 =>
           /\ raced => raced'
           /\ \A n \in Nodes: memory'[n].cached = 0 /\ (memory'[n].assigned # Nobody => raced')
           /\ to.at # "remember_forced" /\ (to.at = "remember" => raced')
  PROVE  ScInv'
<1>1. /\ calls' = [d \in ScClients |-> calls'[d]] /\ \A d \in ScClients: Underway(calls'[d])
      /\ calls'[c] = to /\ \A d \in ScClients: d # c => calls'[d] = calls[d]
  BY CallsAreCalls DEF ScInv
<1>2. Trimming(calls') = Trimming(calls)
  BY <1>1, SameTrimming
<1>3. used.faults \in Nat /\ used'.faults \in Nat /\ Len(redis.events) \in Nat
  BY DEF ScInv, ScTypes, NodeState
<1>4. Trimmed(redis'.events, calls', used'.faults)
  BY <1>2, <1>3, TrimmingFinite, ScalingAssumption DEF ScInv, Trimmed
<1>5. Newest(redis'.events, pushed')
  BY DEF ScInv
<1>6. NothingAlone(memory', calls', used'.faults, raced')
  <2> SUFFICES ASSUME used'.faults = 0 PROVE /\ \A n \in Nodes: memory'[n].cached = 0 /\ (memory'[n].assigned # Nobody => raced')
                                             /\ \A d \in ScClients: calls'[d].at # "remember_forced" /\ (calls'[d].at = "remember" => raced')
    BY DEF NothingAlone
  <2>1. used.faults = 0
    BY <1>3
  <2>2. \A d \in ScClients: calls[d].at # "remember_forced" /\ (calls[d].at = "remember" => raced)
    BY <2>1 DEF ScInv, NothingAlone
  <2> QED
    BY <1>1, <2>2
<1>7. ScTypes'
  BY <1>1 DEF ScTypes, ScInv
<1> QED
  BY <1>4, <1>5, <1>6, <1>7 DEF ScInv

LEMMA ScCallKeeps ==
  ASSUME ScInv, NEW c \in ScClients, NEW at \in {"get", "set", "push", "claim", "force"}, NEW n \in Nodes, NEW t \in Nodes, Call(c, at, n, t)
  PROVE  ScInv'
<1>1. PICK to: to = [at |-> at, node |-> n, target |-> t, event |-> used.requests + 1]
  OBVIOUS
<1>2. used \in [requests: Nat, faults: Nat, expiries: Nat] /\ ScTypes
  BY DEF ScInv, ScTypes
<1>3. to.at = at /\ Underway(to)
  BY <1>1, <1>2 DEF Underway, CallRow, Points, Holder
<1>4. calls' = [d \in ScClients |-> IF d = c THEN to ELSE calls[d]] /\ UNCHANGED <<redis, memory, seen, raced, pushed>>
  BY <1>1, <1>2 DEF Call, ScTypes
<1>5. used' \in [requests: Nat, faults: Nat, expiries: Nat] /\ used'.faults = used.faults
  <2>1. PICK u, new: u = used /\ new = [u EXCEPT !.requests = @ + 1]
    OBVIOUS
  <2>2. new \in [requests: Nat, faults: Nat, expiries: Nat] /\ new.faults = u.faults
    BY <1>2, <2>1
  <2>3. used' = new
    BY <2>1 DEF Call
  <2> QED
    BY <2>1, <2>2, <2>3
<1>6. CallsAre(c, to)
  BY <1>3, <1>4 DEF CallsAre
<1>7. calls[c].at = "rest"
  BY DEF Call, Now
<1>8. NamesOne(redis'.assigned, seen') /\ redis' \in NodeState /\ memory' \in [Nodes -> NodeState] /\ raced' \in BOOLEAN
  BY <1>4 DEF ScInv, ScTypes
<1>9. used'.faults = 0 => \A m \in Nodes: memory'[m].cached = 0 /\ (memory'[m].assigned # Nobody => raced')
  BY <1>4, <1>5 DEF ScInv, NothingAlone
<1>10. used.faults \in Nat /\ redis'.events = redis.events /\ UNCHANGED pushed /\ (raced => raced')
  BY <1>2, <1>4
<1>11. used'.faults >= used.faults /\ to.at # "trim" /\ to.at # "remember_forced" /\ to.at # "remember"
  BY <1>3, <1>5, <1>10
<1> QED
  BY <1>5, <1>6, <1>7, <1>8, <1>9, <1>10, <1>11, EventsStayKeeps

\* The assignment c asks for is set in Redis.
LEMMA SetAssigned ==
  ASSUME ScTypes, NEW c \in ScClients, calls[c].at # "rest", redis' = [redis EXCEPT !.assigned = calls[c].target]
  PROVE  redis' \in NodeState /\ redis'.assigned = calls[c].target /\ redis'.events = redis.events /\ calls[c].target \in Nodes
<1>1. calls[c].target \in Nodes /\ redis \in NodeState
  BY DEF ScTypes, Underway
<1> QED
  BY <1>1, AssignedIs DEF Holder

LEMMA NothingAloneStays ==
  ASSUME ScInv, UNCHANGED <<memory, raced>>
  PROVE  used.faults = 0 => \A m \in Nodes: memory'[m].cached = 0 /\ (memory'[m].assigned # Nobody => raced')
BY DEF ScInv, NothingAlone

LEMMA ClaimKeeps == ASSUME ScInv, NEW c \in ScClients, ClaimInRedis(c) PROVE ScInv'
<1>1. calls[c].at \in {"claim", "force"} /\ UNCHANGED <<memory, raced, pushed, used>>
  BY DEF ClaimInRedis, Now, Forced
<1>2. ScTypes /\ memory' \in [Nodes -> NodeState] /\ raced' \in BOOLEAN /\ used' \in [requests: Nat, faults: Nat, expiries: Nat] /\ used.faults \in Nat
  BY <1>1 DEF ScInv, ScTypes
<1>3. used'.faults = 0 => \A m \in Nodes: memory'[m].cached = 0 /\ (memory'[m].assigned # Nobody => raced')
  BY <1>1, NothingAloneStays
<1>4. CASE Forced(c) \/ Claims
  <2>1. redis' = [redis EXCEPT !.assigned = calls[c].target] /\ Rests(c) /\ seen' = IF Forced(c) THEN {calls[c].target} ELSE seen \cup {calls[c].target}
    BY <1>4 DEF ClaimInRedis
  <2>2. PICK to: CallsAre(c, to) /\ to.at = "rest"
    BY <1>2, <2>1, RestsIs
  <2>3. redis' \in NodeState /\ redis'.assigned = calls[c].target /\ redis'.events = redis.events /\ calls[c].target \in Nodes
    BY <1>1, <1>2, <2>1, SetAssigned
  <2>4. NamesOne(redis'.assigned, seen')
    BY <1>4, <2>1, <2>3, ScalingAssumption DEF ScInv, NamesOne, Claims, Nobody
  <2> QED
    BY <1>1, <1>2, <1>3, <2>2, <2>3, <2>4, EventsStayKeeps
<1>5. CASE ~(Forced(c) \/ Claims)
  <2>1. Goes(c, "read_holder") /\ UNCHANGED <<redis, seen>>
    BY <1>5 DEF ClaimInRedis
  <2>2. PICK to: CallsAre(c, to) /\ to.at = "read_holder"
    BY <1>1, <1>2, <2>1, GoesIs DEF Points
  <2>3. NamesOne(redis'.assigned, seen') /\ redis' \in NodeState /\ redis'.events = redis.events
    BY <2>1 DEF ScInv, ScTypes
  <2> QED
    BY <1>1, <1>2, <1>3, <2>2, <2>3, EventsStayKeeps
<1> QED
  BY <1>4, <1>5

LEMMA ReadHolderKeeps == ASSUME ScInv, NEW c \in ScClients, ReadHolder(c) PROVE ScInv'
<1>1. calls[c].at = "read_holder" /\ UNCHANGED <<redis, memory, pushed, used>>
  BY DEF ReadHolder, Now
<1>2. /\ ScTypes /\ redis' \in NodeState /\ memory' \in [Nodes -> NodeState] /\ used' \in [requests: Nat, faults: Nat, expiries: Nat]
      /\ used.faults \in Nat /\ redis'.events = redis.events /\ raced \in BOOLEAN
  BY <1>1 DEF ScInv, ScTypes
<1>3. CASE redis.assigned = Nobody
  <2>1. Goes(c, "remember") /\ raced' = TRUE /\ UNCHANGED seen
    BY <1>3 DEF ReadHolder
  <2>2. PICK to: CallsAre(c, to) /\ to.at = "remember"
    BY <1>1, <1>2, <2>1, GoesIs DEF Points
  <2>3. NamesOne(redis'.assigned, seen')
    BY <1>1, <2>1 DEF ScInv
  <2>4. used'.faults = 0 => \A m \in Nodes: memory'[m].cached = 0
    BY <1>1 DEF ScInv, NothingAlone
  <2> QED
    BY <1>1, <1>2, <2>1, <2>2, <2>3, <2>4, EventsStayKeeps
<1>4. CASE redis.assigned # Nobody
  <2>1. Rests(c) /\ seen' = seen \cup {redis.assigned} /\ UNCHANGED raced
    BY <1>4 DEF ReadHolder
  <2>2. PICK to: CallsAre(c, to) /\ to.at = "rest"
    BY <1>2, <2>1, RestsIs
  <2>3. NamesOne(redis'.assigned, seen')
    BY <1>1, <1>4, <2>1 DEF ScInv, NamesOne
  <2>4. used'.faults = 0 => \A m \in Nodes: memory'[m].cached = 0 /\ (memory'[m].assigned # Nobody => raced')
    BY <1>1, <2>1, NothingAloneStays
  <2> QED
    BY <1>1, <1>2, <2>1, <2>2, <2>3, <2>4, EventsStayKeeps
<1> QED
  BY <1>3, <1>4

LEMMA ClaimFailsKeeps == ASSUME ScInv, NEW c \in ScClients, ClaimFails(c) PROVE ScInv'
<1>1. calls[c].at \in {"claim", "force", "read_holder"} /\ UNCHANGED <<memory, raced, pushed>> /\ Fault
  BY DEF ClaimFails, Now
<1>2. /\ ScTypes /\ memory' \in [Nodes -> NodeState] /\ raced' \in BOOLEAN /\ used.faults \in Nat
  BY <1>1 DEF ScInv, ScTypes
<1>3. used' \in [requests: Nat, faults: Nat, expiries: Nat] /\ used'.faults = used.faults + 1
  BY <1>1, <1>2, FaultIs
<1>4. PICK at \in {"remember", "remember_forced"}: Goes(c, at)
  BY DEF ClaimFails
<1>5. PICK to: CallsAre(c, to) /\ to.at = at
  BY <1>1, <1>2, <1>4, GoesIs DEF Points
<1>6. redis' \in NodeState /\ redis'.events = redis.events /\ NamesOne(redis'.assigned, seen')
  <2>1. CASE UNCHANGED <<redis, seen>>
    BY <2>1 DEF ScInv, ScTypes
  <2>2. CASE /\ Forced(c) \/ Claims
             /\ redis' = [redis EXCEPT !.assigned = calls[c].target]
             /\ seen' = IF Forced(c) THEN {calls[c].target} ELSE seen \cup {calls[c].target}
    <3>1. redis' \in NodeState /\ redis'.assigned = calls[c].target /\ redis'.events = redis.events /\ calls[c].target \in Nodes
      BY <1>1, <1>2, <2>2, SetAssigned
    <3>2. NamesOne(redis'.assigned, seen')
      BY <2>2, <3>1, ScalingAssumption DEF ScInv, NamesOne, Claims, Nobody
    <3> QED
      BY <3>1, <3>2
  <2> QED
    BY <2>1, <2>2 DEF ClaimFails
<1> QED
  BY <1>1, <1>2, <1>3, <1>4, <1>5, <1>6, EventsStayKeeps

LEMMA RememberKeeps == ASSUME ScInv, NEW c \in ScClients, Remember(c) PROVE ScInv'
<1>1. calls[c].at \in {"remember", "remember_forced"} /\ UNCHANGED <<redis, seen, raced, pushed, used>> /\ Rests(c)
  BY DEF Remember, Now
<1>2. /\ ScTypes /\ redis' \in NodeState /\ redis'.events = redis.events /\ raced' \in BOOLEAN
      /\ used' \in [requests: Nat, faults: Nat, expiries: Nat] /\ used.faults \in Nat /\ NamesOne(redis'.assigned, seen')
  BY <1>1 DEF ScInv, ScTypes
<1>3. PICK to: CallsAre(c, to) /\ to.at = "rest"
  BY <1>1, <1>2, RestsIs
<1>4. PICK n \in Nodes, t \in Nodes: n = calls[c].node /\ t = calls[c].target
  BY <1>1, <1>2 DEF ScTypes, Underway
<1>5. PICK st, new: st = memory[n] /\ new = [st EXCEPT !.assigned = t]
  OBVIOUS
<1>6. st \in NodeState /\ new \in NodeState /\ new.cached = st.cached
  BY <1>2, <1>5, AssignedIs DEF ScTypes, Holder
<1>7. memory' = memory \/ memory' = [memory EXCEPT ![n] = new]
  <2>1. memory' = memory \/ memory' = [memory EXCEPT ![n].assigned = t]
    BY <1>4 DEF Remember
  <2>2. [memory EXCEPT ![n].assigned = t] = [memory EXCEPT ![n] = new]
    BY <1>2, <1>5 DEF ScTypes
  <2> QED
    BY <2>1, <2>2
<1>8. memory' \in [Nodes -> NodeState]
  BY <1>2, <1>6, <1>7 DEF ScTypes
<1>9. ASSUME used'.faults = 0 PROVE \A m \in Nodes: memory'[m].cached = 0 /\ (memory'[m].assigned # Nobody => raced')
  <2>1. used.faults = 0
    BY <1>1, <1>9
  <2>2. calls[c].at = "remember" /\ raced
    BY <1>1, <2>1 DEF ScInv, NothingAlone
  <2>3. \A m \in Nodes: memory[m].cached = 0
    BY <2>1 DEF ScInv, NothingAlone
  <2>4. \A m \in Nodes: memory'[m].cached = memory[m].cached
    BY <1>2, <1>5, <1>6, <1>7 DEF ScTypes
  <2> QED
    BY <1>1, <2>2, <2>3, <2>4
<1> QED
  BY <1>1, <1>2, <1>3, <1>8, <1>9, EventsStayKeeps

LEMMA GetAssignmentKeeps == ASSUME ScInv, NEW c \in ScClients, GetAssignment(c) PROVE ScInv'
<1>1. calls[c].at = "get" /\ UNCHANGED <<redis, memory, raced, pushed>>
  BY DEF GetAssignment, Now
<1>2. /\ ScTypes /\ redis' \in NodeState /\ redis'.events = redis.events /\ raced' \in BOOLEAN /\ memory' \in [Nodes -> NodeState]
      /\ used \in [requests: Nat, faults: Nat, expiries: Nat]
  BY <1>1 DEF ScInv, ScTypes
<1>3. PICK to: CallsAre(c, to) /\ to.at \in {"rest", "claim"}
  <2>1. Rests(c) \/ Goes(c, "claim")
    BY DEF GetAssignment
  <2>2. CASE Rests(c)
    BY <1>2, <2>2, RestsIs
  <2>3. CASE Goes(c, "claim")
    BY <1>1, <1>2, <2>3, GoesIs DEF Points
  <2> QED
    BY <2>1, <2>2, <2>3
<1>4. UNCHANGED used \/ Fault
  BY DEF GetAssignment
<1>5. used' \in [requests: Nat, faults: Nat, expiries: Nat] /\ used'.faults >= used.faults /\ (used'.faults = 0 => used.faults = 0)
  <2>1. used.faults \in Nat
    BY <1>2
  <2>2. CASE UNCHANGED used
    BY <1>2, <2>1, <2>2
  <2>3. CASE Fault
    BY <1>2, <2>1, <2>3, FaultIs
  <2> QED
    BY <1>4, <2>2, <2>3
<1>6. NamesOne(redis'.assigned, seen')
  <2>1. UNCHANGED seen \/ (redis.assigned # Nobody /\ seen' = seen \cup {redis.assigned})
    BY DEF GetAssignment
  <2> QED
    BY <1>1, <2>1 DEF ScInv, NamesOne
<1>7. used'.faults = 0 => \A m \in Nodes: memory'[m].cached = 0 /\ (memory'[m].assigned # Nobody => raced')
  BY <1>1, <1>5, NothingAloneStays
<1> QED
  BY <1>1, <1>2, <1>3, <1>5, <1>6, <1>7, EventsStayKeeps

LEMMA SetCacheKeeps == ASSUME ScInv, NEW c \in ScClients, set_cache_entry(c) PROVE ScInv'
<1>1. calls[c].at = "set" /\ UNCHANGED <<seen, raced, pushed>> /\ Rests(c)
  BY DEF set_cache_entry, Now
<1>2. /\ ScTypes /\ redis \in NodeState /\ raced' \in BOOLEAN /\ memory \in [Nodes -> NodeState]
      /\ used \in [requests: Nat, faults: Nat, expiries: Nat] /\ used.faults \in Nat
  BY <1>1 DEF ScInv, ScTypes
<1>3. PICK to: CallsAre(c, to) /\ to.at = "rest"
  BY <1>1, <1>2, RestsIs
<1>4. PICK n \in Nodes, v \in Nat: n = calls[c].node /\ v = calls[c].event
  BY <1>1, <1>2 DEF ScTypes, Underway, CallRow
<1>5. redis' \in {redis, [redis EXCEPT !.cached = v]}
  BY <1>4 DEF set_cache_entry
<1>6. redis' \in NodeState /\ redis'.events = redis.events /\ redis'.assigned = redis.assigned
  BY <1>2, <1>5, CachedIs
<1>7. NamesOne(redis'.assigned, seen')
  BY <1>1, <1>6 DEF ScInv
<1>8. CASE UNCHANGED <<memory, used>>
  <2>1. used'.faults = 0 => \A m \in Nodes: memory'[m].cached = 0 /\ (memory'[m].assigned # Nobody => raced')
    BY <1>1, <1>8, NothingAloneStays
  <2> QED
    BY <1>1, <1>2, <1>3, <1>6, <1>7, <1>8, <2>1, EventsStayKeeps
<1>9. CASE Fault /\ memory' = [memory EXCEPT ![n].cached = v]
  <2>1. PICK st, new: st = memory[n] /\ new = [st EXCEPT !.cached = v]
    OBVIOUS
  <2>2. st \in NodeState /\ new \in NodeState
    BY <1>2, <2>1, CachedIs
  <2>3. memory' = [memory EXCEPT ![n] = new]
    BY <1>2, <1>9, <2>1
  <2>4. memory' \in [Nodes -> NodeState]
    BY <1>2, <2>2, <2>3
  <2>5. used' \in [requests: Nat, faults: Nat, expiries: Nat] /\ used'.faults = used.faults + 1
    BY <1>2, <1>9, FaultIs
  <2>6. used'.faults >= used.faults /\ used'.faults # 0
    BY <1>2, <2>5
  <2> QED
    BY <1>1, <1>2, <1>3, <1>6, <1>7, <2>4, <2>5, <2>6, EventsStayKeeps
<1> QED
  BY <1>4, <1>8, <1>9 DEF set_cache_entry

----------------------------------------------------------------------------
\* Lists of events.
LEMMA PushedIs ==
  ASSUME NEW list \in Seq(Nat), NEW e \in Nat
  PROVE  /\ <<e>> \o list \in Seq(Nat) /\ Len(<<e>> \o list) = Len(list) + 1
         /\ (<<e>> \o list)[1] = e /\ \A i \in 1..Len(list): (<<e>> \o list)[i + 1] = list[i]
OBVIOUS
LEMMA KeptIs ==
  ASSUME NEW list \in Seq(Nat)
  PROVE  /\ KeptEvents(list) \in Seq(Nat)
         /\ Len(KeptEvents(list)) = IF Len(list) < EventCap THEN Len(list) ELSE EventCap
         /\ \A i \in 1..Len(KeptEvents(list)): KeptEvents(list)[i] = list[i]
<1>1. PICK k: k = IF Len(list) < EventCap THEN Len(list) ELSE EventCap
  OBVIOUS
<1>2. k \in 0..Len(list) /\ KeptEvents(list) = SubSeq(list, 1, k)
  BY <1>1, ScalingAssumption DEF KeptEvents
<1>3. SubSeq(list, 1, k) \in Seq(Nat) /\ Len(SubSeq(list, 1, k)) = k /\ \A i \in 1..k: SubSeq(list, 1, k)[i] = list[i]
  BY <1>2
<1> QED
  BY <1>1, <1>2, <1>3
LEMMA PushKeepsNewest ==
  ASSUME NEW list \in Seq(Nat), NEW all \in Seq(Nat), NEW e \in Nat, Newest(list, all)
  PROVE  Newest(<<e>> \o list, <<e>> \o all)
<1>1. PICK n \in Nat, m \in Nat: n = Len(list) /\ m = Len(all)
  OBVIOUS
<1>2. n <= m /\ (\A i \in 1..n: list[i] = all[i]) /\ (m <= n \/ EventCap <= n)
  BY <1>1 DEF Newest
<1>3. PICK longer, full: longer = <<e>> \o list /\ full = <<e>> \o all
  OBVIOUS
<1>4. /\ Len(longer) = n + 1 /\ longer[1] = e /\ \A i \in 1..n: longer[i + 1] = list[i]
      /\ Len(full) = m + 1 /\ full[1] = e /\ \A i \in 1..m: full[i + 1] = all[i]
  BY <1>1, <1>3, PushedIs
<1>5. ASSUME NEW i \in 1..(n + 1) PROVE longer[i] = full[i]
  <2>1. CASE i = 1
    BY <1>4, <2>1
  <2>2. CASE i # 1
    <3>1. i - 1 \in 1..n /\ i - 1 \in 1..m /\ i = (i - 1) + 1
      BY <1>2, <2>2
    <3> QED
      BY <1>2, <1>4, <3>1
  <2> QED
    BY <2>1, <2>2
<1>6. n + 1 <= m + 1 /\ (m + 1 <= n + 1 \/ EventCap <= n + 1)
  BY <1>2, ScalingAssumption
<1>7. Newest(longer, full)
  BY <1>4, <1>5, <1>6 DEF Newest
<1> QED
  BY <1>3, <1>7
LEMMA TrimKeepsNewest ==
  ASSUME NEW list \in Seq(Nat), NEW all \in Seq(Nat), Newest(list, all)
  PROVE  Newest(KeptEvents(list), all)
<1>0. PICK k: k = KeptEvents(list)
  OBVIOUS
<1>1. PICK n \in Nat, m \in Nat: n = Len(list) /\ m = Len(all)
  OBVIOUS
<1>2. n <= m /\ (\A i \in 1..n: list[i] = all[i]) /\ (m <= n \/ EventCap <= n)
  BY <1>1 DEF Newest
<1>3. Len(k) = (IF n < EventCap THEN n ELSE EventCap) /\ \A i \in 1..Len(k): k[i] = list[i]
  BY <1>0, <1>1, KeptIs
<1>4. Len(k) \in Nat /\ Len(k) <= n /\ Len(k) <= m /\ (m <= Len(k) \/ EventCap <= Len(k))
  BY <1>2, <1>3, ScalingAssumption
<1>5. \A i \in 1..Len(k): k[i] = all[i]
  BY <1>2, <1>3, <1>4
<1>6. Newest(k, all)
  BY <1>0, <1>1, <1>4, <1>5 DEF Newest
<1> QED
  BY <1>0, <1>6

\* What a node appends to the events it remembers itself.
LEMMA AppendedIs ==
  ASSUME ScTypes, NEW n \in Nodes, NEW e \in Nat, memory' = Appended(n, e)
  PROVE  memory' \in [Nodes -> NodeState] /\ \A m \in Nodes: memory'[m].cached = memory[m].cached /\ memory'[m].assigned = memory[m].assigned
<1>1. PICK st, list, new: st = memory[n] /\ list = KeptEvents(<<e>> \o st.events) /\ new = [st EXCEPT !.events = list]
  OBVIOUS
<1>2. st \in NodeState /\ st.events \in Seq(Nat)
  BY <1>1 DEF ScTypes, NodeState
<1>3. list \in Seq(Nat)
  BY <1>1, <1>2, PushedIs, KeptIs
<1>4. new \in NodeState /\ new.assigned = st.assigned /\ new.cached = st.cached
  BY <1>1, <1>2, <1>3, EventsIs
<1>5. memory' = [memory EXCEPT ![n] = new]
  BY <1>1 DEF Appended, ScTypes
<1> QED
  BY <1>1, <1>4, <1>5 DEF ScTypes

\* The event a call publishes, pushed to the list of Redis.
LEMMA PushIs ==
  ASSUME ScInv, NEW e \in Nat, redis' = [redis EXCEPT !.events = <<e>> \o @], pushed' = <<e>> \o pushed
  PROVE  /\ redis' \in NodeState /\ redis'.assigned = redis.assigned /\ pushed' \in Seq(Nat)
         /\ Len(redis'.events) = Len(redis.events) + 1 /\ Newest(redis'.events, pushed')
<1>1. redis \in NodeState /\ redis.events \in Seq(Nat) /\ pushed \in Seq(Nat) /\ Newest(redis.events, pushed)
  BY DEF ScInv, ScTypes, NodeState
<1>2. PICK list: list = <<e>> \o redis.events
  OBVIOUS
<1>3. list \in Seq(Nat) /\ Len(list) = Len(redis.events) + 1
  BY <1>1, <1>2, PushedIs
<1>4. redis' = [redis EXCEPT !.events = list]
  BY <1>2
<1>5. redis' \in NodeState /\ redis'.assigned = redis.assigned /\ redis'.events = list
  <2>1. PICK st, new: st = redis /\ new = [st EXCEPT !.events = list]
    OBVIOUS
  <2>2. new \in NodeState /\ new.assigned = st.assigned /\ new.events = list
    BY <1>1, <1>3, <2>1, EventsIs
  <2>3. redis' = new
    BY <1>4, <2>1
  <2> QED
    BY <2>1, <2>2, <2>3
<1>6. pushed' \in Seq(Nat)
  BY <1>1, PushedIs
<1>7. Newest(list, pushed')
  BY <1>1, <1>2, PushKeepsNewest
<1> QED
  BY <1>3, <1>5, <1>6, <1>7

\* A step of c that changes the lists.
LEMMA EventsChangeKeeps ==
  ASSUME ScInv, NEW c \in ScClients, NEW to, CallsAre(c, to), to.at \in {"rest", "trim"}, UNCHANGED <<seen, raced>>,
         redis' \in NodeState, redis'.assigned = redis.assigned, pushed' \in Seq(Nat),
         memory' \in [Nodes -> NodeState],
         used' \in [requests: Nat, faults: Nat, expiries: Nat],
         used'.faults = 0 => /\ used.faults = 0
                             /\ \A n \in Nodes: memory'[n].cached = memory[n].cached /\ memory'[n].assigned = memory[n].assigned,
         Newest(redis'.events, pushed'), Trimmed(redis'.events, calls', used'.faults)
  PROVE  ScInv'
<1>1. /\ calls' = [d \in ScClients |-> calls'[d]] /\ \A d \in ScClients: Underway(calls'[d])
      /\ calls'[c] = to /\ \A d \in ScClients: d # c => calls'[d] = calls[d]
  BY CallsAreCalls DEF ScInv
<1>2. NothingAlone(memory', calls', used'.faults, raced')
  <2> SUFFICES ASSUME used'.faults = 0 PROVE /\ \A n \in Nodes: memory'[n].cached = 0 /\ (memory'[n].assigned # Nobody => raced')
                                             /\ \A d \in ScClients: calls'[d].at # "remember_forced" /\ (calls'[d].at = "remember" => raced')
    BY DEF NothingAlone
  <2>1. /\ \A n \in Nodes: memory[n].cached = 0 /\ (memory[n].assigned # Nobody => raced)
        /\ \A d \in ScClients: calls[d].at # "remember_forced" /\ (calls[d].at = "remember" => raced)
    BY DEF ScInv, NothingAlone
  <2> QED
    BY <1>1, <2>1
<1>3. ScTypes'
  BY <1>1 DEF ScTypes, ScInv
<1>4. NamesOne(redis'.assigned, seen')
  BY DEF ScInv
<1> QED
  BY <1>2, <1>3, <1>4 DEF ScInv

LEMMA PushKeeps == ASSUME ScInv, NEW c \in ScClients, Push(c) PROVE ScInv'
<1>1. calls[c].at = "push" /\ UNCHANGED <<memory, seen, raced, used>> /\ Goes(c, "trim")
  BY DEF Push, Now
<1>2. /\ ScTypes /\ memory' \in [Nodes -> NodeState] /\ used' \in [requests: Nat, faults: Nat, expiries: Nat]
      /\ used.faults \in Nat /\ redis.events \in Seq(Nat)
  BY <1>1 DEF ScInv, ScTypes, NodeState
<1>3. PICK to: CallsAre(c, to) /\ to.at = "trim"
  BY <1>1, <1>2, GoesIs DEF Points
<1>4. PICK e \in Nat: e = calls[c].event
  BY <1>2 DEF ScTypes, Underway, CallRow
<1>5. redis' = [redis EXCEPT !.events = <<e>> \o @] /\ pushed' = <<e>> \o pushed
  BY <1>4 DEF Push
<1>6. /\ redis' \in NodeState /\ redis'.assigned = redis.assigned /\ pushed' \in Seq(Nat)
      /\ Len(redis'.events) = Len(redis.events) + 1 /\ Newest(redis'.events, pushed')
  BY <1>5, PushIs
<1>7. Cardinality(Trimming(calls')) = Cardinality(Trimming(calls)) + 1
  BY <1>1, <1>2, <1>3, CallsAreCalls, TrimmingGrows
<1>8. Trimmed(redis'.events, calls', used'.faults)
  <2>1. Len(redis.events) <= EventCap + Cardinality(Trimming(calls)) + used.faults
    BY DEF ScInv, Trimmed
  <2>2. Len(redis.events) \in Nat /\ Cardinality(Trimming(calls)) \in Nat
    BY <1>2, TrimmingFinite
  <2> QED
    BY <1>1, <1>2, <1>6, <1>7, <2>1, <2>2, ScalingAssumption DEF Trimmed
<1> QED
  BY <1>1, <1>2, <1>3, <1>6, <1>8, EventsChangeKeeps

LEMMA TrimKeeps == ASSUME ScInv, NEW c \in ScClients, Trim(c) PROVE ScInv'
<1>1. calls[c].at = "trim" /\ UNCHANGED <<seen, raced, pushed, used>> /\ Rests(c)
  BY DEF Trim, Now
<1>2. /\ ScTypes /\ used' \in [requests: Nat, faults: Nat, expiries: Nat] /\ used.faults \in Nat /\ redis \in NodeState
      /\ redis.events \in Seq(Nat) /\ pushed' \in Seq(Nat) /\ pushed \in Seq(Nat)
  BY <1>1 DEF ScInv, ScTypes, NodeState
<1>3. PICK to: CallsAre(c, to) /\ to.at = "rest"
  BY <1>1, <1>2, RestsIs
<1>4. calls[c].node \in Nodes /\ calls[c].event \in Nat
  BY <1>1, <1>2 DEF ScTypes, Underway, CallRow
<1>5. memory' \in [Nodes -> NodeState] /\ \A m \in Nodes: memory'[m].cached = memory[m].cached /\ memory'[m].assigned = memory[m].assigned
  BY <1>2, <1>4, AppendedIs DEF Trim
<1>6. PICK list: list = KeptEvents(redis.events)
  OBVIOUS
<1>7. list \in Seq(Nat) /\ Len(list) <= EventCap /\ Len(list) \in Nat
  <2>1. list \in Seq(Nat) /\ Len(list) = IF Len(redis.events) < EventCap THEN Len(redis.events) ELSE EventCap
    BY <1>2, <1>6, KeptIs
  <2>2. Len(redis.events) \in Nat /\ EventCap \in Nat
    BY <1>2, ScalingAssumption
  <2> QED
    BY <2>1, <2>2
<1>8. redis' = [redis EXCEPT !.events = list]
  BY <1>6 DEF Trim
<1>9. redis' \in NodeState /\ redis'.assigned = redis.assigned /\ redis'.events = list
  BY <1>2, <1>7, <1>8, EventsIs
<1>10. Newest(redis'.events, pushed')
  BY <1>1, <1>2, <1>6, <1>9, TrimKeepsNewest DEF ScInv
<1>11. Trimmed(redis'.events, calls', used'.faults)
  BY <1>1, <1>2, <1>7, <1>9, TrimmingFinite, ScalingAssumption DEF Trimmed
<1> QED
  BY <1>1, <1>2, <1>3, <1>5, <1>9, <1>10, <1>11, EventsChangeKeeps

LEMMA PublishFailsKeeps == ASSUME ScInv, NEW c \in ScClients, PublishFails(c) PROVE ScInv'
<1>1. calls[c].at \in {"push", "trim"} /\ UNCHANGED <<seen, raced>> /\ Rests(c) /\ Fault
  BY DEF PublishFails, Now
<1>2. ScTypes /\ used.faults \in Nat /\ redis \in NodeState /\ redis.events \in Seq(Nat) /\ pushed \in Seq(Nat)
  BY DEF ScInv, ScTypes, NodeState
<1>3. PICK to: CallsAre(c, to) /\ to.at = "rest"
  BY <1>1, <1>2, RestsIs
<1>4. PICK n \in Nodes, e \in Nat: n = calls[c].node /\ e = calls[c].event
  BY <1>1, <1>2 DEF ScTypes, Underway, CallRow
<1>5. memory' \in [Nodes -> NodeState]
  BY <1>2, <1>4, AppendedIs DEF PublishFails
<1>6. used' \in [requests: Nat, faults: Nat, expiries: Nat] /\ used'.faults = used.faults + 1 /\ used'.faults # 0
  BY <1>1, <1>2, FaultIs
<1>7. \/ UNCHANGED <<redis, pushed>>
      \/ calls[c].at = "push" /\ redis' = [redis EXCEPT !.events = <<e>> \o @] /\ pushed' = <<e>> \o pushed
  BY <1>4 DEF PublishFails, Now
<1>8. PICK old \in Nat, many \in Nat, much \in Nat: old = Len(redis.events) /\ many = Cardinality(Trimming(calls)) /\ much = Cardinality(Trimming(calls'))
  BY <1>2, TrimmingFinite
<1>9. PICK f \in Nat, cap \in Nat: f = used.faults /\ cap = EventCap /\ old <= cap + many + f
  BY <1>2, <1>8, ScalingAssumption DEF ScInv, Trimmed
<1>10. CASE calls[c].at = "push"
  <2>1. Trimming(calls') = Trimming(calls)
    BY <1>2, <1>3, <1>10, CallsAreCalls, SameTrimming
  <2>2. /\ redis' \in NodeState /\ redis'.assigned = redis.assigned /\ pushed' \in Seq(Nat)
        /\ Len(redis'.events) \in {old, old + 1} /\ Newest(redis'.events, pushed')
    <3>1. CASE UNCHANGED <<redis, pushed>>
      BY <1>2, <1>8, <3>1 DEF ScInv
    <3>2. CASE redis' = [redis EXCEPT !.events = <<e>> \o @] /\ pushed' = <<e>> \o pushed
      BY <1>8, <3>2, PushIs
    <3> QED
      BY <1>7, <3>1, <3>2
  <2>3. Trimmed(redis'.events, calls', used'.faults)
    <3>1. Len(redis'.events) <= cap + many + (f + 1)
      BY <1>9, <2>2
    <3>2. Cardinality(Trimming(calls')) = many /\ used'.faults = f + 1
      BY <1>6, <1>8, <1>9, <2>1
    <3> QED
      BY <1>9, <3>1, <3>2 DEF Trimmed
  <2> QED
    BY <1>1, <1>3, <1>5, <1>6, <2>2, <2>3, EventsChangeKeeps
<1>11. CASE calls[c].at = "trim"
  <2>1. much = many - 1
    BY <1>2, <1>3, <1>8, <1>11, CallsAreCalls, TrimmingShrinks
  <2>2. UNCHANGED <<redis, pushed>>
    BY <1>7, <1>11
  <2>3. Newest(redis'.events, pushed') /\ redis' \in NodeState /\ redis'.assigned = redis.assigned /\ pushed' \in Seq(Nat)
    BY <1>2, <2>2 DEF ScInv
  <2>4. Trimmed(redis'.events, calls', used'.faults)
    <3>1. old <= cap + much + (f + 1)
      BY <1>9, <2>1
    <3>2. Len(redis'.events) = old /\ used'.faults = f + 1
      BY <1>6, <1>8, <1>9, <2>2
    <3> QED
      BY <1>8, <1>9, <3>1, <3>2 DEF Trimmed
  <2> QED
    BY <1>1, <1>3, <1>5, <1>6, <2>3, <2>4, EventsChangeKeeps
<1> QED
  BY <1>1, <1>10, <1>11

\* Nobody's call changes when an assignment expires.
LEMMA ExpireKeeps == ASSUME ScInv, Expire PROVE ScInv'
<1>1. UNCHANGED <<calls, raced, pushed>> /\ redis \in NodeState /\ memory \in [Nodes -> NodeState] /\ Nobody \in Holder
  BY DEF Expire, ScInv, ScTypes, Holder
<1>2. used' \in [requests: Nat, faults: Nat, expiries: Nat] /\ used'.faults = used.faults
  <2>1. PICK u, new: u = used /\ new = [u EXCEPT !.expiries = @ + 1]
    OBVIOUS
  <2>2. new \in [requests: Nat, faults: Nat, expiries: Nat] /\ new.faults = u.faults
    BY <2>1 DEF ScInv, ScTypes
  <2>3. used' = new
    BY <2>1 DEF Expire
  <2> QED
    BY <2>1, <2>2, <2>3
<1>3. redis' \in NodeState /\ redis'.events = redis.events /\ NamesOne(redis'.assigned, seen')
  <2>1. CASE redis' = [redis EXCEPT !.assigned = Nobody] /\ seen' = {}
    <3>1. redis' \in NodeState /\ redis'.assigned = Nobody /\ redis'.events = redis.events
      BY <1>1, <2>1, AssignedIs
    <3> QED
      BY <2>1, <3>1 DEF NamesOne
  <2>2. CASE UNCHANGED <<redis, seen>>
    BY <1>1, <2>2 DEF ScInv
  <2> QED
    BY <2>1, <2>2 DEF Expire
<1>4. memory' \in [Nodes -> NodeState] /\ \A m \in Nodes: memory'[m].cached = memory[m].cached /\ memory'[m].assigned \in {memory[m].assigned, Nobody}
  <2>1. CASE UNCHANGED memory
    BY <1>1, <2>1
  <2>2. CASE \E n \in Nodes: memory' = [memory EXCEPT ![n].assigned = Nobody]
    <3>1. PICK n \in Nodes: memory' = [memory EXCEPT ![n].assigned = Nobody]
      BY <2>2
    <3>2. PICK st, new: st = memory[n] /\ new = [st EXCEPT !.assigned = Nobody]
      OBVIOUS
    <3>3. new \in NodeState /\ new.assigned = Nobody /\ new.cached = st.cached
      BY <1>1, <3>2, AssignedIs
    <3>4. memory' = [memory EXCEPT ![n] = new]
      BY <1>1, <3>1, <3>2
    <3> QED
      BY <1>1, <3>2, <3>3, <3>4
  <2> QED
    BY <2>1, <2>2 DEF Expire
<1>5. NothingAlone(memory', calls', used'.faults, raced')
  BY <1>1, <1>2, <1>4 DEF ScInv, NothingAlone
<1>6. ScTypes'
  BY <1>1, <1>2, <1>3, <1>4 DEF ScInv, ScTypes
<1> QED
  BY <1>1, <1>2, <1>3, <1>5, <1>6 DEF ScInv

LEMMA ScStepKeeps == ScInv /\ [ScalingNext]_scVars => ScInv'
<1> SUFFICES ASSUME ScInv, [ScalingNext]_scVars PROVE ScInv'
  OBVIOUS
<1>1. CASE UNCHANGED scVars
  BY <1>1 DEF scVars, ScInv, ScTypes
<1>2. CASE ScalingNext
  <2>1. CASE \E c \in ScClients: \/ \E n \in Nodes: Call(c, "get", n, n) \/ Call(c, "set", n, n) \/ Call(c, "push", n, n)
                                 \/ \E n, t \in Nodes: Call(c, "claim", n, t) \/ Call(c, "force", n, t)
    BY <2>1, ScCallKeeps
  <2>2. CASE \E c \in ScClients: ClaimInRedis(c) \/ ReadHolder(c) \/ ClaimFails(c) \/ Remember(c) \/ GetAssignment(c)
    BY <2>2, ClaimKeeps, ReadHolderKeeps, ClaimFailsKeeps, RememberKeeps, GetAssignmentKeeps
  <2>3. CASE \E c \in ScClients: set_cache_entry(c) \/ Push(c) \/ Trim(c) \/ PublishFails(c)
    BY <2>3, SetCacheKeeps, PushKeeps, TrimKeeps, PublishFailsKeeps
  <2> QED
    BY <1>2, <2>1, <2>2, <2>3, ExpireKeeps DEF ScalingNext
<1> QED
  BY <1>1, <1>2

LEMMA ScInvAgrees == ScInv => NodesAgree
<1> SUFFICES ASSUME ScInv PROVE NodesAgree
  OBVIOUS
<1>1. used.faults = 0 => \A n \in Nodes: memory[n].cached = 0 /\ (memory[n].assigned # Nobody => raced)
  BY DEF ScInv, NothingAlone
<1>2. Cardinality(seen) <= 1
  <2>1. seen = {} \/ seen = {redis.assigned}
    BY DEF ScInv, NamesOne
  <2>2. Cardinality({}) = 0 /\ Cardinality({redis.assigned}) = 1
    BY FS_EmptySet, FS_Singleton
  <2> QED
    BY <2>1, <2>2
<1>3. PICK list \in Seq(Nat), all \in Seq(Nat): list = redis.events /\ all = pushed /\ Newest(list, all)
  BY DEF ScInv, ScTypes, NodeState
<1>4. IsPrefix(list, all)
  <2>1. Len(list) <= Len(all) /\ \A i \in 1..Len(list): list[i] = all[i]
    BY <1>3 DEF Newest
  <2>2. SubSeq(list, 1, Len(list)) = SubSeq(all, 1, Len(list))
    BY <2>1
  <2> QED
    BY <2>1, <2>2 DEF IsPrefix
<1>5. IsPrefix(KeptEvents(all), list)
  <2>1. PICK n \in Nat, m \in Nat, k \in Seq(Nat): n = Len(list) /\ m = Len(all) /\ k = KeptEvents(all)
    BY KeptIs
  <2>2. Len(k) = (IF m < EventCap THEN m ELSE EventCap) /\ \A i \in 1..Len(k): k[i] = all[i]
    BY <2>1, KeptIs
  <2>3. n <= m /\ (\A i \in 1..n: list[i] = all[i]) /\ (m <= n \/ EventCap <= n)
    BY <1>3, <2>1 DEF Newest
  <2>4. Len(k) <= n /\ Len(k) \in Nat
    BY <2>2, <2>3, ScalingAssumption
  <2>5. \A i \in 1..Len(k): k[i] = list[i]
    <3> SUFFICES ASSUME NEW i \in 1..Len(k) PROVE k[i] = list[i]
      OBVIOUS
    <3>1. i \in 1..n
      BY <2>1, <2>4
    <3>2. k[i] = all[i] /\ list[i] = all[i]
      BY <2>2, <2>3, <3>1
    <3> QED
      BY <3>2
  <2>6. SubSeq(k, 1, Len(k)) = SubSeq(list, 1, Len(k))
    BY SMTT(40), <2>1, <2>4, <2>5
  <2> QED
    BY <2>1, <2>4, <2>6 DEF IsPrefix
<1>6. Len(redis.events) <= EventCap + Untrimmed
  <2>1. Cardinality({c \in ScClients: Now(c, "trim")}) = Cardinality(Trimming(calls)) /\ Cardinality(Trimming(calls)) \in Nat
    BY TrimmingFinite DEF Trimming, Now
  <2>2. used.faults \in Nat /\ Len(redis.events) \in Nat
    BY DEF ScInv, ScTypes, NodeState
  <2>3. Len(redis.events) <= EventCap + Cardinality(Trimming(calls)) + used.faults
    BY DEF ScInv, Trimmed
  <2> QED
    BY <2>1, <2>2, <2>3, ScalingAssumption DEF Untrimmed
<1> QED
  BY <1>1, <1>2, <1>3, <1>4, <1>5, <1>6 DEF NodesAgree

-------------------------------------------------------------------------------
(* Presence and broadcasts.                                                 *)

\* A list without some of its elements holds the others.
LEMMA ListWithoutIs ==
  ASSUME NEW E, NEW list \in Seq(E), NEW removed
  PROVE  /\ ListWithout(list, removed) \in Seq(E)
         /\ ToSet(ListWithout(list, removed)) = ToSet(list) \ removed
<1> DEFINE left == {i \in DOMAIN list: list[i] \notin removed}
           n == Cardinality(left)
           upTo(i) == {j \in left: j <= i}
           at(k) == CHOOSE i \in left: Cardinality(upTo(i)) = k
           short == ListWithout(list, removed)
<1>1. left \subseteq 1..Len(list) /\ Len(list) \in Nat /\ \A i \in left: list[i] \in E \ removed
  OBVIOUS
<1>2. IsFiniteSet(left) /\ n \in Nat
  <2>1. IsFiniteSet(1..Len(list))
    BY <1>1, FS_Interval
  <2> HIDE DEF left
  <2> QED
    BY <1>1, <2>1, FS_Subset, FS_CardinalityType
<1>3. \A i \in left: IsFiniteSet(upTo(i)) /\ Cardinality(upTo(i)) \in 1..n
  <2> SUFFICES ASSUME NEW i \in left PROVE IsFiniteSet(upTo(i)) /\ Cardinality(upTo(i)) \in 1..n
    OBVIOUS
  <2>1. upTo(i) \subseteq left /\ i \in upTo(i)
    BY <1>1
  <2>2. IsFiniteSet(upTo(i)) /\ Cardinality(upTo(i)) <= n /\ Cardinality(upTo(i)) \in Nat
    BY <1>2, <2>1, FS_Subset, FS_CardinalityType
  <2>3. Cardinality(upTo(i)) # 0
    BY <2>1, <2>2, FS_EmptySet
  <2> QED
    BY <1>2, <2>2, <2>3
<1>4. \A i, j \in left: Cardinality(upTo(i)) = Cardinality(upTo(j)) => i = j
  <2>1. \A i, j \in left: i < j => Cardinality(upTo(i)) # Cardinality(upTo(j))
    <3> SUFFICES ASSUME NEW i \in left, NEW j \in left, i < j PROVE Cardinality(upTo(i)) # Cardinality(upTo(j))
      OBVIOUS
    <3>1. upTo(i) \subseteq upTo(j) /\ j \in upTo(j) /\ j \notin upTo(i)
      BY <1>1
    <3> QED
      BY <1>3, <3>1, FS_Subset
  <2> QED
    BY <2>1, <1>1
<1>5. [i \in left |-> Cardinality(upTo(i))] \in Injection(left, 1..n)
  <2> DEFINE f == [i \in left |-> Cardinality(upTo(i))]
  <2>1. f \in [left -> 1..n]
    BY <1>3
  <2>2. \A i \in left: f[i] = Cardinality(upTo(i))
    OBVIOUS
  <2>3. \A i, j \in left: f[i] = f[j] => i = j
    <3> SUFFICES ASSUME NEW i \in left, NEW j \in left, f[i] = f[j] PROVE i = j
      OBVIOUS
    <3>1. Cardinality(upTo(i)) = Cardinality(upTo(j))
      BY <2>2
    <3> HIDE DEF left, upTo, f
    <3> QED
      BY <1>4, <3>1
  <2> HIDE DEF left, upTo
  <2> QED
    BY <2>1, <2>3 DEF Injection, IsInjective
<1>6. IsFiniteSet(1..n) /\ Cardinality(1..n) = n
  BY <1>2, FS_Interval
<1>7. [i \in left |-> Cardinality(upTo(i))] \in Surjection(left, 1..n)
  <2> DEFINE f == [i \in left |-> Cardinality(upTo(i))]
  <2> HIDE DEF f
  <2> SUFFICES f \in Surjection(left, 1..n)
    BY DEF f
  <2>1. f \in Injection(left, 1..n)
    BY <1>5 DEF f
  <2> HIDE DEF left
  <2> QED
    BY <2>1, <1>6, FS_Injection
<1>8. \A k \in 1..n: at(k) \in left /\ Cardinality(upTo(at(k))) = k
  <2> SUFFICES ASSUME NEW k \in 1..n PROVE \E i \in left: Cardinality(upTo(i)) = k
    OBVIOUS
  <2> DEFINE f == [i \in left |-> Cardinality(upTo(i))]
  <2> HIDE DEF f
  <2>1. f \in Surjection(left, 1..n)
    BY <1>7 DEF f
  <2>2. PICK i \in left: f[i] = k
    BY <2>1, Zenon DEF Surjection
  <2> QED
    BY <2>2 DEF f
<1>9. short = [k \in 1..n |-> list[at(k)]]
  BY DEF ListWithout
<1> HIDE DEF short, at
<1>10. \A k \in 1..n: list[at(k)] \in E \ removed /\ list[at(k)] \in ToSet(list)
  BY <1>1, <1>8 DEF ToSet
<1>11. short \in Seq(E)
  BY <1>2, <1>9, <1>10
<1>12. ToSet(short) \subseteq ToSet(list) \ removed
  BY <1>9, <1>10 DEF ToSet
<1>13. \A i \in left: at(Cardinality(upTo(i))) = i
  BY <1>3, <1>4, <1>8
<1>14. ToSet(list) \ removed \subseteq ToSet(short)
  <2> SUFFICES ASSUME NEW c \in ToSet(list) \ removed PROVE c \in ToSet(short)
    OBVIOUS
  <2>1. PICK i \in left: list[i] = c
    BY DEF ToSet
  <2>2. Cardinality(upTo(i)) \in DOMAIN short /\ short[Cardinality(upTo(i))] = c
    BY <1>3, <1>9, <1>13, <2>1
  <2> QED
    BY <2>2 DEF ToSet
<1> QED
  BY <1>11, <1>12, <1>14 DEF short

(* The invariant.                                                           *)

SocketState == {"closed", "found", "registered", "broadcast", "open", "serving", "leaving", "left", "refused", "done", "unjoined"}
Connections == Seq(Sockets \X Nat)
Handler == [at : SocketState, session : Nat, found : Nat, todo : Connections, dead : Connections,
            then : {"none", "open", "serving", "done"}, overlapped : BOOLEAN]
PresenceTyped ==
  /\ handlers \in [Sockets -> Handler] /\ conns \in Connections
  /\ nextId \in Nat \ {0} /\ DOMAIN rows \subseteq 1..(nextId - 1)

\* A handler knows a session id once it has found or inserted the row.
Knows(s, i) == i # NoSession /\ i \in {handlers[s].session, handlers[s].found}
IdsAgree ==
  /\ \A s, t \in Sockets, i \in Nat: Knows(s, i) /\ Knows(t, i) => UserOf[s] = UserOf[t]
  /\ \A s \in Sockets, i \in Nat: Knows(s, i) => i < nextId /\ (i \in DOMAIN rows => rows[i] = UserOf[s])

HandlerFits(s) ==
  LET h == handlers[s]
  IN  /\ At(s, "broadcast") => h.then # "none"
      /\ h.session = NoSession <=> h.at \in {"closed", "found", "refused"}
      /\ ~At(s, "found") => h.found = NoSession
      /\ At(s, "found") /\ h.found = NoSession /\ ~h.overlapped => RowsOf(UserOf[s]) = {}
      /\ (At(s, "broadcast") /\ h.then = "done") \/ At(s, "done") => h.session \notin DOMAIN rows
      /\ \A i \in DOMAIN h.dead: h.dead[i][1] \in gone

\* A connection is listed under its handler's session while the handler has not ended well.
Listing ==
  \A c \in ToSet(conns): c[2] = handlers[c[1]].session /\ (Attached(c[1]) \/ handlers[c[1]].at \in {"leaving", "unjoined"})
HasHandler(i) ==
  \E s \in Sockets: handlers[s].session = i /\ handlers[s].at \in {"registered", "open", "serving", "broadcast", "leaving", "left", "unjoined"}
Present(s) ==
  /\ Attached(s) => s \in gone \/ <<s, handlers[s].session>> \in ToSet(conns)
  /\ Attached(s) \/ At(s, "registered") => handlers[s].session \in DOMAIN rows \cup deleted
RowsOverlap == \A s \in Sockets: Cardinality(RowsOf(UserOf[s])) > 1 => Overlaps(UserOf[s])

PresInv ==
  /\ PresenceTyped /\ IdsAgree /\ Listing /\ RowsOverlap
  /\ \A s \in Sockets: HandlerFits(s) /\ (Alone(s) => Present(s))
  /\ \A i \in DOMAIN rows: HasHandler(i)

LEMMA PresInvFollows == PresInv => PresenceFollowsSockets
<1> SUFFICES ASSUME PresInv PROVE PresenceFollowsSockets
  OBVIOUS
<1>1. conns \in Connections /\ \A c: c \in ToSet(conns) => Contains(conns, c)
  BY DEF PresInv, PresenceTyped, Connections, ToSet, Contains
<1>2. ASSUME NEW s \in Sockets, Attached(s), Alone(s)
      PROVE  (s \in gone \/ Contains(conns, <<s, handlers[s].session>>)) /\ handlers[s].session \in DOMAIN rows \cup deleted
  BY <1>1, <1>2 DEF PresInv, Present
<1>3. \A u \in {UserOf[s]: s \in Sockets}: Cardinality(RowsOf(u)) > 1 => Overlaps(u)
  BY DEF PresInv, RowsOverlap
<1>4. \A i \in DOMAIN conns: LET s == conns[i][1] IN Attached(s) \/ handlers[s].at \in {"leaving", "unjoined"}
  BY DEF PresInv, Listing, ToSet
<1> QED
  BY <1>2, <1>3, <1>4 DEF PresenceFollowsSockets, PresInv, HasHandler

LEMMA PresInvInit == PresenceInit => PresInv
<1> SUFFICES ASSUME PresenceInit PROVE PresInv
  OBVIOUS
<1>1. PresenceTyped
  BY DEF PresenceInit, PresenceTyped, Closed, Handler, SocketState, Connections, NoSession
<1>2. \A s \in Sockets: handlers[s] = Closed /\ RowsOf(UserOf[s]) = {} /\ DOMAIN rows = {} /\ conns = <<>>
  BY DEF PresenceInit, RowsOf
<1>3. IdsAgree /\ Listing
  BY <1>2 DEF PresenceInit, IdsAgree, Knows, Closed, NoSession, Listing, ToSet
<1>4. RowsOverlap
  <2>1. \A s \in Sockets: Cardinality(RowsOf(UserOf[s])) = 0
    BY <1>2, FS_EmptySet, Zenon
  <2> QED
    BY <2>1 DEF RowsOverlap
<1>5. ASSUME NEW s \in Sockets PROVE HandlerFits(s) /\ Present(s)
  BY <1>2 DEF HandlerFits, Present, Attached, At, Serving, Closed, NoSession
<1> QED
  BY <1>1, <1>2, <1>3, <1>4, <1>5 DEF PresInv, PresenceInit

\* A handler that goes on: nobody's rows change, and of the list only its own connection is new.
Living == {"registered", "open", "serving", "broadcast", "leaving", "left", "unjoined"}
HandlerGoesOn(s, h) ==
  /\ Step(s, h) /\ h \in Handler /\ UNCHANGED <<rows, nextId, deleted>>
  /\ conns' \in Connections /\ gone \subseteq gone'
  /\ h.session = handlers[s].session /\ h.overlapped = handlers[s].overlapped /\ h.at # "closed"
  /\ h.found \in {NoSession, handlers[s].found} \cup RowsOf(UserOf[s])
  /\ \A c \in ToSet(conns'): c \in ToSet(conns) \/ c = <<s, h.session>>
  /\ (\E c \in ToSet(conns'): c[1] = s) => Attached(s)' \/ h.at \in {"leaving", "unjoined"}
  /\ \A t \in Sockets \ {s}: Alone(t) /\ <<t, handlers[t].session>> \in ToSet(conns) => t \in gone' \/ <<t, handlers[t].session>> \in ToSet(conns')
  /\ h.session \in DOMAIN rows => h.at \in Living
  /\ HandlerFits(s)' /\ (Alone(s) => Present(s)')

LEMMA RowsOfIs ==
  ASSUME PresenceTyped, NEW u PROVE IsFiniteSet(RowsOf(u)) /\ RowsOf(u) \subseteq DOMAIN rows /\ DOMAIN rows \subseteq Nat
<1>1. nextId - 1 \in Int /\ DOMAIN rows \subseteq 1..(nextId - 1)
  BY DEF PresenceTyped
<1>2. IsFiniteSet(1..(nextId - 1))
  BY <1>1, FS_Interval
<1> QED
  BY <1>1, <1>2, FS_Subset DEF RowsOf

LEMMA GoingOnKeeps ==
  ASSUME PresInv, NEW s \in Sockets, NEW h, HandlerGoesOn(s, h) PROVE PresInv'
<1>1. handlers \in [Sockets -> Handler] /\ handlers' = [handlers EXCEPT ![s] = h] /\ h \in Handler
  BY DEF HandlerGoesOn, Step, PresInv, PresenceTyped
<1>2. handlers' \in [Sockets -> Handler] /\ handlers'[s] = h /\ \A t \in Sockets: t # s => handlers'[t] = handlers[t]
  BY <1>1
<1>3. rows' = rows /\ nextId' = nextId /\ deleted' = deleted /\ gone \subseteq gone' /\ \A u: RowsOf(u)' = RowsOf(u)
  BY DEF HandlerGoesOn, RowsOf
<1>4. PresenceTyped'
  BY <1>2, <1>3 DEF PresInv, PresenceTyped, HandlerGoesOn
<1>5. IdsAgree'
  <2>1. \A t \in Sockets: \A i: Knows(t, i)' => Knows(t, i) \/ (t = s /\ i \in RowsOf(UserOf[s]))
    BY <1>2 DEF Knows, HandlerGoesOn
  <2>2. \A i \in RowsOf(UserOf[s]): i < nextId /\ i \in DOMAIN rows /\ i \in Nat /\ rows[i] = UserOf[s]
    BY DEF RowsOf, PresInv, PresenceTyped
  <2>3. \A t, v \in Sockets, i \in Nat: Knows(t, i)' /\ Knows(v, i)' => UserOf[t] = UserOf[v]
    BY <2>1, <2>2 DEF PresInv, IdsAgree
  <2>4. \A t \in Sockets, i \in Nat: Knows(t, i)' => i < nextId /\ (i \in DOMAIN rows => rows[i] = UserOf[t])
    BY <2>1, <2>2 DEF PresInv, IdsAgree
  <2> QED
    BY <2>3, <2>4, <1>3 DEF IdsAgree
<1>6. \A t \in Sockets: t # s => (Attached(t)' <=> Attached(t)) /\ (\A a \in SocketState: At(t, a)' <=> At(t, a))
  BY <1>2 DEF Attached, At, Serving
<1>7. Listing'
  <2>1. \A c \in ToSet(conns'): c[1] \in Sockets
    BY DEF HandlerGoesOn, Connections, ToSet
  <2>2. \A c \in ToSet(conns'): c[1] # s => c[2] = handlers'[c[1]].session /\ (Attached(c[1]) \/ handlers'[c[1]].at \in {"leaving", "unjoined"})
    BY <1>2, <2>1 DEF PresInv, Listing, HandlerGoesOn
  <2>3. \A c \in ToSet(conns'): c[1] = s => c[2] = handlers'[c[1]].session
    BY <1>2, <2>1 DEF PresInv, Listing, HandlerGoesOn
  <2>4. \A c \in ToSet(conns'): c[1] = s => Attached(s)' \/ handlers'[s].at \in {"leaving", "unjoined"}
    BY <1>2, <2>1 DEF HandlerGoesOn
  <2>5. \A t \in Sockets \ {s}: Attached(t) => (t \in {v \in Sockets: Attached(v)})'
    BY <1>6
  <2>6. \A c \in ToSet(conns'): c[1] # s => (c[1] \in {v \in Sockets: Attached(v)})' \/ handlers'[c[1]].at \in {"leaving", "unjoined"}
    BY <2>1, <2>2, <2>5
  <2>7. \A c \in ToSet(conns'): c[1] = s => (c[1] \in {v \in Sockets: Attached(v)})' \/ handlers'[c[1]].at \in {"leaving", "unjoined"}
    BY <2>1, <2>4
  <2> QED
    BY <2>2, <2>3, <2>6, <2>7 DEF Listing
<1>8. RowsOverlap'
  <2>1. \A t \in Sockets: Overlaps(UserOf[t]) => Overlaps(UserOf[t])'
    BY <1>2 DEF Overlaps, HandlerGoesOn
  <2> QED
    BY <2>1, <1>3 DEF PresInv, RowsOverlap
<1>9. ASSUME NEW t \in Sockets PROVE HandlerFits(t)'
  <2>1. CASE t = s
    BY <2>1 DEF HandlerGoesOn
  <2>2. CASE t # s
    BY <2>2, <1>2, <1>3 DEF PresInv, HandlerFits, At
  <2> QED
    BY <2>1, <2>2
<1>10. ASSUME NEW t \in Sockets, Alone(t)' PROVE Present(t)'
  <2>1. Alone(t)
    <3>1. \A v \in Sockets: At(v, "closed")' => At(v, "closed")
      BY <1>2 DEF At, HandlerGoesOn
    <3> QED
      BY <3>1, <1>10 DEF Alone
  <2>2. CASE t = s
    BY <2>1, <2>2 DEF HandlerGoesOn
  <2>3. CASE t # s
    <3>1. Present(t)
      BY <2>1 DEF PresInv
    <3>2. Attached(t)' => t \in gone' \/ <<t, handlers'[t].session>> \in ToSet(conns')
      BY <3>1, <2>1, <2>3, <1>2, <1>3, <1>6 DEF Present, HandlerGoesOn
    <3>3. Attached(t)' \/ At(t, "registered")' => handlers'[t].session \in DOMAIN rows \cup deleted
      BY <3>1, <2>3, <1>2, <1>6 DEF Present, SocketState
    <3> QED
      BY <3>2, <3>3, <1>3 DEF Present
  <2> QED
    BY <2>2, <2>3
<1>11. ASSUME NEW i \in DOMAIN rows PROVE HasHandler(i)'
  <2>1. PICK t \in Sockets: handlers[t].session = i /\ handlers[t].at \in Living
    BY DEF PresInv, HasHandler, Living
  <2>2. handlers'[t].session = i /\ handlers'[t].at \in Living
    BY <2>1, <1>2 DEF HandlerGoesOn
  <2> QED
    BY <2>2 DEF HasHandler, Living
<1> QED
  BY <1>3, <1>4, <1>5, <1>7, <1>8, <1>9, <1>10, <1>11 DEF PresInv

\* What a handler becomes: somewhere else, in a broadcast, ended.
LEMMA WithIs ==
  ASSUME PresenceTyped, NEW s \in Sockets, NEW at \in SocketState
  PROVE  LET h == With(s, at)
         IN  /\ h \in Handler /\ h.at = at /\ h.then = "none" /\ h.dead = <<>> /\ h.todo = handlers[s].todo
             /\ h.session = handlers[s].session /\ h.found = handlers[s].found /\ h.overlapped = handlers[s].overlapped
<1>1. handlers[s] \in Handler /\ <<>> \in Connections
  BY DEF PresenceTyped, Connections
<1>2. PICK r, h: r = handlers[s] /\ h = [r EXCEPT !.at = at, !.then = "none", !.dead = <<>>]
  OBVIOUS
<1>3. h \in Handler
  BY <1>1, <1>2 DEF Handler
<1>4. /\ h.at = at /\ h.then = "none" /\ h.dead = <<>> /\ h.todo = r.todo
      /\ h.session = r.session /\ h.found = r.found /\ h.overlapped = r.overlapped
  BY <1>1, <1>2 DEF Handler
<1>5. With(s, at) = h
  BY <1>2 DEF With
<1> QED
  BY <1>2, <1>3, <1>4, <1>5

LEMMA BroadcastIs ==
  ASSUME PresenceTyped, NEW s \in Sockets, NEW list \in Connections, NEW exclude, NEW then \in {"open", "serving", "done"},
         Broadcast(s, list, exclude, then)
  PROVE  \E h \in Handler: /\ Step(s, h) /\ h.at = "broadcast" /\ h.then = then /\ h.dead = <<>>
                           /\ h.session = handlers[s].session /\ h.found = handlers[s].found /\ h.overlapped = handlers[s].overlapped
<1> DEFINE todo == ListWithout(list, OfSession(list, exclude))
           w == With(s, "broadcast")
           h == [w EXCEPT !.todo = todo, !.dead = <<>>, !.then = then]
<1>1. todo \in Connections /\ <<>> \in Connections
  BY ListWithoutIs DEF Connections
<1>2. w \in Handler /\ w.at = "broadcast" /\ w.session = handlers[s].session /\ w.found = handlers[s].found /\ w.overlapped = handlers[s].overlapped
  <2>1. "broadcast" \in SocketState
    BY DEF SocketState
  <2> QED
    BY <2>1, WithIs
<1>3. Step(s, h)
  BY DEF Broadcast
<1> HIDE DEF todo, w
<1>4. PICK g: g = h
  OBVIOUS
<1>5. g \in Handler
  BY <1>1, <1>2, <1>4 DEF Handler
<1>6. /\ g.at = "broadcast" /\ g.then = then /\ g.dead = <<>>
      /\ g.session = w.session /\ g.found = w.found /\ g.overlapped = w.overlapped
  BY <1>2, <1>4 DEF Handler
<1> QED
  BY <1>2, <1>3, <1>4, <1>5, <1>6

LEMMA EndsIs ==
  ASSUME PresenceTyped, NEW s \in Sockets, NEW at \in SocketState, Ends(s, at)
  PROVE  \E h \in Handler: /\ Step(s, h) /\ h.at = at /\ h.then = "none" /\ h.dead = <<>>
                           /\ h.session = handlers[s].session /\ h.found = NoSession /\ h.overlapped = handlers[s].overlapped
<1>1. handlers[s] \in Handler
  BY DEF PresenceTyped
<1>2. PICK r, h: r = handlers[s] /\ h = [Closed EXCEPT !.at = at, !.session = r.session, !.overlapped = r.overlapped]
  OBVIOUS
<1>3. Step(s, h)
  BY <1>2 DEF Ends
<1>4. <<>> \in Connections /\ NoSession \in Nat
  BY DEF Connections, NoSession
<1>5. h \in Handler
  BY <1>1, <1>2, <1>4 DEF Handler, Closed
<1>6. h.at = at /\ h.then = "none" /\ h.dead = <<>> /\ h.session = r.session /\ h.found = NoSession /\ h.overlapped = r.overlapped
  BY <1>2 DEF Closed
<1> QED
  BY <1>2, <1>3, <1>5, <1>6

LEMMA EndsGone == ASSUME NEW s, NEW at, Ends(s, at) PROVE gone' = gone \cup {s}
  BY DEF Ends

LEMMA FindPresenceKeeps ==
  ASSUME PresInv, NEW s \in Sockets, FindPresence(s) PROVE PresInv'
<1>1. /\ PresenceTyped /\ At(s, "closed") /\ handlers[s] \in Handler /\ handlers[s].session = NoSession /\ handlers[s].found = NoSession
      /\ conns' = conns /\ conns \in Connections /\ UNCHANGED <<rows, nextId, deleted>> /\ DOMAIN rows \subseteq Nat \ {0}
  BY DEF FindPresence, PresInv, PresenceTyped, HandlerFits, At
<1>2. \A c \in ToSet(conns'): c \in ToSet(conns) /\ c[1] # s
  BY <1>1 DEF PresInv, Listing, Attached, At, Serving
<1>3. CASE Cardinality(RowsOf(UserOf[s])) > 1
  <2>1. Ends(s, "refused")
    BY <1>3 DEF FindPresence
  <2>2. gone' = gone \cup {s}
    BY <2>1, EndsGone
  <2>3. PICK h \in Handler: /\ Step(s, h) /\ h.at = "refused" /\ h.then = "none" /\ h.dead = <<>>
                            /\ h.session = handlers[s].session /\ h.found = NoSession /\ h.overlapped = handlers[s].overlapped
    BY <1>1, <2>1, EndsIs DEF SocketState
  <2>4. handlers'[s] = h
    BY <2>3 DEF Step, PresInv, PresenceTyped
  <2>5. HandlerFits(s)'
    BY <1>1, <2>3, <2>4 DEF HandlerFits, At, NoSession
  <2>6. Present(s)'
    BY <2>3, <2>4 DEF Present, Attached, At, Serving
  <2>7. HandlerGoesOn(s, h)
    BY <1>1, <1>2, <2>2, <2>3, <2>5, <2>6 DEF HandlerGoesOn, NoSession
  <2> QED
    BY <2>7, GoingOnKeeps
<1>4. CASE ~(Cardinality(RowsOf(UserOf[s])) > 1)
  <2> DEFINE f == IF RowsOf(UserOf[s]) = {} THEN NoSession ELSE CHOOSE i \in RowsOf(UserOf[s]): TRUE
             w == With(s, "found")
             h == [w EXCEPT !.found = f]
  <2>1. gone' = gone /\ Step(s, h)
    BY <1>4 DEF FindPresence
  <2>2. RowsOf(UserOf[s]) \subseteq Nat \ {0}
    BY <1>1 DEF RowsOf
  <2>3. f \in Nat /\ f \in {NoSession} \cup RowsOf(UserOf[s]) /\ (f = NoSession => RowsOf(UserOf[s]) = {})
    BY <2>2 DEF NoSession
  <2>4. /\ w \in Handler /\ w.at = "found" /\ w.then = "none" /\ w.dead = <<>> /\ w.session = NoSession
        /\ w.overlapped = handlers[s].overlapped
    BY <1>1, WithIs DEF SocketState
  <2> HIDE DEF f, w
  <2>5. PICK g: g = h
    OBVIOUS
  <2>6. /\ g \in Handler /\ g.at = "found" /\ g.found = f /\ g.dead = <<>> /\ g.then = "none" /\ g.session = NoSession
        /\ g.overlapped = handlers[s].overlapped
    BY <2>3, <2>4, <2>5 DEF Handler
  <2>7. handlers'[s] = g /\ Step(s, g)
    BY <2>1, <2>5 DEF Step, PresInv, PresenceTyped
  <2>8. HandlerFits(s)'
    <3>1. RowsOf(UserOf[s])' = RowsOf(UserOf[s])
      BY <1>1 DEF RowsOf
    <3> QED
      BY <1>1, <2>3, <2>6, <2>7, <3>1 DEF HandlerFits, At
  <2>9. Present(s)'
    BY <2>6, <2>7 DEF Present, Attached, At, Serving
  <2>10. HandlerGoesOn(s, g)
    BY <1>1, <1>2, <2>1, <2>3, <2>6, <2>7, <2>8, <2>9 DEF HandlerGoesOn, NoSession
  <2> QED
    BY <2>10, GoingOnKeeps
<1> QED
  BY <1>3, <1>4

\* A step of a handler that reads no rows and registers nothing.
LEMMA StepsOn ==
  ASSUME PresInv, NEW s \in Sockets, NEW h \in Handler, Step(s, h),
         UNCHANGED <<rows, nextId, deleted>>, conns' \in Connections, gone \subseteq gone',
         h.session = handlers[s].session, h.found \in {handlers[s].found, NoSession}, h.overlapped = handlers[s].overlapped,
         handlers[s].at \notin {"closed", "found", "refused"}, h.at \notin {"closed", "found", "refused", "registered"},
         h.at = "broadcast" => h.then # "none",
         (h.at = "broadcast" /\ h.then = "done") \/ h.at = "done" => h.session \notin DOMAIN rows,
         \A i \in DOMAIN h.dead: h.dead[i][1] \in gone',
         \A c \in ToSet(conns'): c \in ToSet(conns) \/ c = <<s, h.session>>,
         (\E c \in ToSet(conns'): c[1] = s) => Attached(s)' \/ h.at \in {"leaving", "unjoined"},
         \A t \in Sockets \ {s}: Alone(t) /\ <<t, handlers[t].session>> \in ToSet(conns) => t \in gone' \/ <<t, handlers[t].session>> \in ToSet(conns'),
         Alone(s) /\ Attached(s)' => s \in gone' \/ <<s, h.session>> \in ToSet(conns'),
         Attached(s)' => Attached(s) \/ At(s, "registered")
  PROVE  PresInv'
<1>1. handlers'[s] = h /\ rows' = rows /\ deleted' = deleted /\ nextId' = nextId /\ handlers[s].found = NoSession
  BY DEF Step, PresInv, PresenceTyped, HandlerFits, At
<1>2. handlers[s].session # NoSession
  BY DEF PresInv, HandlerFits
<1>3. HandlerFits(s)'
  BY <1>1, <1>2 DEF HandlerFits, At, NoSession
<1>4. Alone(s) => Present(s)'
  <2>1. Alone(s) /\ Attached(s)' => h.session \in DOMAIN rows \cup deleted
    BY DEF PresInv, Present
  <2>2. ~At(s, "registered")'
    BY <1>1 DEF At
  <2> QED
    BY <1>1, <2>1, <2>2 DEF Present
<1>5. h.session \in DOMAIN rows => h.at \in Living
  <2>1. h.at \in SocketState
    BY DEF Handler
  <2> QED
    BY <2>1, <1>1 DEF SocketState, Living, At
<1>6. HandlerGoesOn(s, h)
  BY <1>1, <1>3, <1>4, <1>5 DEF HandlerGoesOn
<1> QED
  BY <1>6, GoingOnKeeps

LEMMA ListedAre == PresInv => \A c \in ToSet(conns): c \in Sockets \X Nat /\ c = <<c[1], handlers[c[1]].session>>
                                                     /\ (Attached(c[1]) \/ handlers[c[1]].at \in {"leaving", "unjoined"})
  BY DEF PresInv, PresenceTyped, Connections, Listing, ToSet

LEMMA AppendAdds ==
  ASSUME NEW E, NEW list \in Seq(E), NEW c \in E
  PROVE  Append(list, c) \in Seq(E) /\ ToSet(Append(list, c)) = ToSet(list) \cup {c}
<1> DEFINE n == Len(list)
           new == Append(list, c)
<1>1. /\ n \in Nat /\ DOMAIN list = 1..n /\ DOMAIN new = 1..(n + 1) /\ new[n + 1] = c
      /\ (\A i \in 1..n: new[i] = list[i]) /\ new \in Seq(E)
  OBVIOUS
<1> HIDE DEF n, new
<1>2. \A i \in 1..(n + 1): i \in 1..n \/ i = n + 1
  BY <1>1
<1>3. n + 1 \in 1..(n + 1) /\ 1..n \subseteq 1..(n + 1)
  BY <1>1
<1>4. ToSet(new) = ToSet(list) \cup {c}
  BY <1>1, <1>2, <1>3 DEF ToSet
<1> QED
  BY <1>1, <1>4 DEF new

LEMMA ConnectKeeps ==
  ASSUME PresInv, NEW s \in Sockets, connect(s) PROVE PresInv'
<1>1. /\ PresenceTyped /\ At(s, "registered") /\ handlers[s] \in Handler /\ conns \in Connections
      /\ conns' = Append(conns, <<s, handlers[s].session>>) /\ UNCHANGED <<rows, gone, nextId, deleted>>
      /\ Broadcast(s, conns', handlers[s].session, "open")
  BY DEF connect, PresInv, PresenceTyped
<1>2. handlers[s].session \in Nat
  BY <1>1 DEF Handler
<1>3. conns' \in Connections /\ ToSet(conns') = ToSet(conns) \cup {<<s, handlers[s].session>>}
  <2>1. <<s, handlers[s].session>> \in Sockets \X Nat
    BY <1>2
  <2> QED
    BY <1>1, <2>1, AppendAdds DEF Connections
<1>4. PICK h \in Handler: /\ Step(s, h) /\ h.at = "broadcast" /\ h.then = "open" /\ h.dead = <<>>
                          /\ h.session = handlers[s].session /\ h.found = handlers[s].found /\ h.overlapped = handlers[s].overlapped
  BY <1>1, <1>3, BroadcastIs
<1>5. Attached(s)'
  BY <1>1, <1>4 DEF Step, PresenceTyped, Attached, At
<1> QED
  BY <1>1, <1>3, <1>4, <1>5, StepsOn DEF At

LEMMA SendKeeps ==
  ASSUME PresInv, NEW s \in Sockets, Send(s) PROVE PresInv'
<1>1. /\ PresenceTyped /\ At(s, "broadcast") /\ handlers[s] \in Handler /\ conns \in Connections /\ HandlerFits(s)
      /\ UNCHANGED <<rows, conns, gone, nextId, deleted>> /\ handlers[s].todo # <<>>
  BY DEF Send, PresInv, PresenceTyped
<1>2. PICK r, h, c: /\ r = handlers[s] /\ c = Head(r.todo) /\ Step(s, h)
                    /\ h = [r EXCEPT !.todo = Tail(@), !.dead = IF c[1] \in gone THEN Append(@, c) ELSE @]
  <2> DEFINE new == [handlers[s] EXCEPT !.todo = Tail(@), !.dead = IF Head(handlers[s].todo)[1] \in gone THEN Append(@, Head(handlers[s].todo)) ELSE @]
  <2>1. Step(s, new)
    BY DEF Send
  <2> QED
    BY <2>1, Zenon
<1>3. /\ r.todo \in Connections /\ r.dead \in Connections /\ r.todo # <<>> /\ \A i \in DOMAIN r.dead: r.dead[i][1] \in gone
  BY <1>1, <1>2 DEF Handler, HandlerFits
<1>4. /\ c \in Sockets \X Nat /\ Tail(r.todo) \in Connections /\ Append(r.dead, c) \in Connections
      /\ (c[1] \in gone => \A i \in DOMAIN Append(r.dead, c): Append(r.dead, c)[i][1] \in gone)
  BY <1>2, <1>3 DEF Connections
<1>5. /\ h \in Handler
      /\ h.at = "broadcast" /\ h.then = r.then /\ h.session = r.session /\ h.found = r.found /\ h.overlapped = r.overlapped
      /\ \A i \in DOMAIN h.dead: h.dead[i][1] \in gone
  <2>1. CASE c[1] \in gone
    BY <1>1, <1>2, <1>3, <1>4, <2>1 DEF Handler, At
  <2>2. CASE c[1] \notin gone
    BY <1>1, <1>2, <1>3, <1>4, <2>2 DEF Handler, At
  <2> QED
    BY <2>1, <2>2
<1>6. Attached(s)' <=> Attached(s)
  BY <1>1, <1>2, <1>5 DEF Step, PresenceTyped, Attached, At, Serving
<1>7. \A x \in ToSet(conns): x[1] = s => Attached(s)
  BY <1>1, ListedAre DEF At
<1>8. Alone(s) /\ Attached(s) => s \in gone \/ <<s, r.session>> \in ToSet(conns)
  BY <1>2 DEF PresInv, Present
<1> QED
  BY <1>1, <1>2, <1>5, <1>6, <1>7, <1>8, StepsOn DEF At, HandlerFits

LEMMA ReceiveKeeps ==
  ASSUME PresInv, NEW s \in Sockets, Receive(s) PROVE PresInv'
<1>1. /\ PresenceTyped /\ Attached(s) /\ Serving(s) /\ handlers[s] \in Handler /\ conns \in Connections
      /\ UNCHANGED <<rows, conns, gone, nextId, deleted>> /\ Broadcast(s, conns, handlers[s].session, "serving")
  BY DEF Receive, PresInv, PresenceTyped, Attached
<1>2. PICK h \in Handler: /\ Step(s, h) /\ h.at = "broadcast" /\ h.then = "serving" /\ h.dead = <<>>
                          /\ h.session = handlers[s].session /\ h.found = handlers[s].found /\ h.overlapped = handlers[s].overlapped
  BY <1>1, BroadcastIs
<1>3. Attached(s)'
  BY <1>1, <1>2 DEF Step, PresenceTyped, Attached, At
<1>4. Alone(s) => s \in gone \/ <<s, handlers[s].session>> \in ToSet(conns)
  BY <1>1 DEF PresInv, Present
<1> QED
  BY <1>1, <1>2, <1>3, <1>4, StepsOn DEF Serving

LEMMA NoticeDisconnectKeeps ==
  ASSUME PresInv, NEW s \in Sockets, NoticeDisconnect(s) PROVE PresInv'
<1>1. /\ PresenceTyped /\ Serving(s) /\ handlers[s] \in Handler /\ conns \in Connections
      /\ UNCHANGED <<rows, conns, gone, nextId, deleted>> /\ Step(s, With(s, "leaving"))
  BY DEF NoticeDisconnect, PresInv, PresenceTyped
<1>2. PICK h \in Handler: /\ Step(s, h) /\ h.at = "leaving" /\ h.then = "none" /\ h.dead = <<>>
                          /\ h.session = handlers[s].session /\ h.found = handlers[s].found /\ h.overlapped = handlers[s].overlapped
  BY <1>1, WithIs DEF SocketState
<1>3. ~Attached(s)' /\ \A i \in DOMAIN h.dead: h.dead[i][1] \in gone
  BY <1>1, <1>2 DEF Step, PresenceTyped, Attached, At, Serving
<1>4. handlers[s].at \notin {"closed", "found", "refused"}
  BY <1>1 DEF Serving
<1> QED
  BY <1>1, <1>2, <1>3, <1>4, StepsOn

\* A connection leaves with its session: nobody else alone of its user holds that one.
LEMMA LeaveKeeps ==
  ASSUME PresInv, NEW s \in Sockets, Leave(s) PROVE PresInv'
<1>1. /\ PresenceTyped /\ At(s, "leaving") /\ handlers[s] \in Handler /\ conns \in Connections
      /\ UNCHANGED <<rows, gone, nextId, deleted>> /\ Step(s, With(s, "left"))
      /\ conns' = ListWithout(conns, OfSession(conns, handlers[s].session))
  BY DEF Leave, PresInv, PresenceTyped, disconnect
<1>2. PICK h \in Handler: /\ Step(s, h) /\ h.at = "left" /\ h.then = "none" /\ h.dead = <<>>
                          /\ h.session = handlers[s].session /\ h.found = handlers[s].found /\ h.overlapped = handlers[s].overlapped
  BY <1>1, WithIs DEF SocketState
<1>3. conns' \in Connections /\ ToSet(conns') = ToSet(conns) \ OfSession(conns, handlers[s].session)
  BY <1>1, ListWithoutIs DEF Connections
<1>4. \A c \in ToSet(conns'): c \in ToSet(conns) /\ c[1] # s
  BY <1>3, ListedAre DEF OfSession
<1>5. ~Attached(s)'
  BY <1>1, <1>2 DEF Step, PresenceTyped, Attached, At, Serving
<1>6. handlers[s].session \in Nat /\ Knows(s, handlers[s].session)
  BY <1>1 DEF Handler, Knows, PresInv, HandlerFits, At
<1>7. ASSUME NEW t \in Sockets \ {s}, Alone(t) PROVE handlers[t].session # handlers[s].session
  <2>1. ~Knows(t, handlers[s].session)
    BY <1>1, <1>6, <1>7 DEF PresInv, IdsAgree, Alone, At
  <2> QED
    BY <1>6, <2>1 DEF Knows
<1>8. \A t \in Sockets \ {s}: Alone(t) /\ <<t, handlers[t].session>> \in ToSet(conns) => <<t, handlers[t].session>> \in ToSet(conns')
  <2> SUFFICES ASSUME NEW t \in Sockets \ {s}, Alone(t), <<t, handlers[t].session>> \in ToSet(conns) PROVE <<t, handlers[t].session>> \in ToSet(conns')
    OBVIOUS
  <2>1. handlers[t].session # handlers[s].session
    BY <1>7
  <2> QED
    BY <1>3, <2>1 DEF OfSession
<1>9. handlers[s].at \notin {"closed", "found", "refused"} /\ \A i \in DOMAIN h.dead: h.dead[i][1] \in gone
  BY <1>1, <1>2 DEF At
<1> QED
  BY <1>1, <1>2, <1>3, <1>4, <1>5, <1>8, <1>9, StepsOn

LEMMA RemoveDeadKeeps ==
  ASSUME PresInv, NEW s \in Sockets, RemoveDead(s) PROVE PresInv'
<1> DEFINE r == handlers[s]
           missing == {i \in DOMAIN r.dead: ~Contains(conns, r.dead[i])}
           removed == IF missing = {} THEN ToSet(r.dead) ELSE {r.dead[i]: i \in {j \in DOMAIN r.dead: \A k \in missing: j < k}}
<1>1. /\ PresenceTyped /\ At(s, "broadcast") /\ r \in Handler /\ conns \in Connections /\ HandlerFits(s)
      /\ UNCHANGED <<rows, nextId, deleted>> /\ conns' = ListWithout(conns, removed)
  BY DEF RemoveDead, PresInv, PresenceTyped
<1>2. /\ missing = {} /\ r.then = "done" => Ends(s, "done")
      /\ missing = {} /\ r.then # "done" => Step(s, With(s, r.then)) /\ UNCHANGED gone
      /\ missing # {} /\ r.then = "open" => Ends(s, "unjoined")
      /\ missing # {} /\ r.then = "serving" => Step(s, With(s, "leaving")) /\ UNCHANGED gone
      /\ missing # {} /\ r.then = "done" => Ends(s, "done")
  BY DEF RemoveDead
<1>3. \A c \in removed: c[1] \in gone
  BY <1>1 DEF HandlerFits, ToSet
<1> HIDE DEF removed, missing
<1>4. conns' \in Connections /\ ToSet(conns') = ToSet(conns) \ removed
  BY <1>1, ListWithoutIs DEF Connections
<1>5. \A c \in ToSet(conns): c[1] \notin gone => c \in ToSet(conns')
  BY <1>3, <1>4
<1>6. r.then \in {"open", "serving", "done"} /\ r.at = "broadcast" /\ (r.then = "done" => r.session \notin DOMAIN rows)
  BY <1>1 DEF Handler, HandlerFits, At
<1>7. \A c \in ToSet(conns'): c \in ToSet(conns) /\ (c[1] = s => Attached(s))
  BY <1>4, <1>6, ListedAre
<1>8. Attached(s) <=> r.then \in {"open", "serving"}
  BY <1>6 DEF Attached, At, Serving
<1>9. Alone(s) /\ Attached(s) => s \in gone \/ <<s, r.session>> \in ToSet(conns')
  <2>1. \A c: c = <<s, r.session>> => c[1] = s
    OBVIOUS
  <2> QED
    BY <1>5, <2>1 DEF PresInv, Present
<1>10. \A t \in Sockets \ {s}: Alone(t) /\ <<t, handlers[t].session>> \in ToSet(conns) => t \in gone \/ <<t, handlers[t].session>> \in ToSet(conns')
  BY <1>5
<1>11. PICK h \in Handler: /\ Step(s, h) /\ h.dead = <<>> /\ h.then = "none" /\ gone \subseteq gone'
                           /\ h.session = r.session /\ h.found \in {r.found, NoSession} /\ h.overlapped = r.overlapped
                           /\ \/ h.at = r.then
                              \/ h.at \in {"leaving", "unjoined"}
  <2>1. {"open", "serving", "done", "unjoined", "leaving"} \subseteq SocketState
    BY DEF SocketState
  <2>2. CASE Ends(s, "done") /\ r.then = "done"
    BY <1>1, <2>1, <2>2, EndsIs, EndsGone
  <2>3. CASE Ends(s, "unjoined")
    BY <1>1, <2>1, <2>3, EndsIs, EndsGone
  <2>4. CASE Step(s, With(s, r.then)) /\ UNCHANGED gone /\ r.then # "done"
    BY <1>1, <1>6, <2>1, <2>4, WithIs
  <2>5. CASE Step(s, With(s, "leaving")) /\ UNCHANGED gone
    BY <1>1, <2>1, <2>5, WithIs
  <2> QED
    BY <1>2, <1>6, <2>2, <2>3, <2>4, <2>5
<1>12. handlers'[s] = h
  BY <1>1, <1>11 DEF Step, PresenceTyped
<1>13. Attached(s)' <=> h.at \in {"open", "serving"}
  BY <1>6, <1>11, <1>12 DEF Attached, At, Serving
<1>14. /\ h.at \in {"open", "serving", "done", "leaving", "unjoined"}
       /\ h.at \in {"open", "serving"} => Attached(s)
       /\ h.at = "done" => h.session \notin DOMAIN rows /\ ~Attached(s)
  BY <1>6, <1>8, <1>11
<1>15. r.at \notin {"closed", "found", "refused"} /\ (\A i \in DOMAIN h.dead: h.dead[i][1] \in gone')
  BY <1>6, <1>11
<1>16. /\ Attached(s)' => Attached(s)
       /\ h.at \notin {"closed", "found", "refused", "registered", "broadcast"}
       /\ (\E c \in ToSet(conns'): c[1] = s) => Attached(s)' \/ h.at \in {"leaving", "unjoined"}
  BY <1>7, <1>13, <1>14
<1> QED
  BY <1>1, <1>4, <1>7, <1>9, <1>10, <1>11, <1>14, <1>15, <1>16, StepsOn

\* Nobody's handler moves; a client may be gone.
LEMMA RestingKeeps ==
  ASSUME PresInv, UNCHANGED <<rows, handlers, conns, nextId, deleted>>, gone \subseteq gone' PROVE PresInv'
<1>1. PresenceTyped' /\ IdsAgree' /\ Listing' /\ RowsOverlap'
  <2>1. PresenceTyped'
    BY DEF PresInv, PresenceTyped
  <2>2. IdsAgree'
    BY DEF PresInv, IdsAgree, Knows
  <2>3. Listing'
    BY DEF PresInv, Listing, Attached, At, Serving
  <2>4. RowsOverlap'
    BY DEF PresInv, RowsOverlap, RowsOf, Overlaps
  <2> QED
    BY <2>1, <2>2, <2>3, <2>4
<1>2. ASSUME NEW t \in Sockets PROVE HandlerFits(t)' /\ (Alone(t)' => Present(t)')
  <2>1. HandlerFits(t) /\ (Alone(t) => Present(t))
    BY DEF PresInv
  <2>2. HandlerFits(t)'
    BY <2>1 DEF HandlerFits, At, RowsOf
  <2>3. Alone(t)' => Present(t)'
    BY <2>1 DEF Alone, At, Present, Attached, Serving
  <2> QED
    BY <2>2, <2>3
<1>3. ASSUME NEW i \in DOMAIN rows' PROVE HasHandler(i)'
  BY DEF PresInv, HasHandler
<1> QED
  BY <1>1, <1>2, <1>3 DEF PresInv

\* A row less: what was the user's others stay.
LEMMA RowLess ==
  ASSUME PresInv, NEW i, rows' = Without_(i), UNCHANGED nextId
  PROVE  /\ DOMAIN rows' = DOMAIN rows \ {i} /\ \A k \in DOMAIN rows': rows'[k] = rows[k]
         /\ \A u: RowsOf(u)' \subseteq RowsOf(u) /\ (Cardinality(RowsOf(u)') > 1 => Cardinality(RowsOf(u)) > 1)
<1>1. DOMAIN rows' = DOMAIN rows \ {i} /\ \A k \in DOMAIN rows': rows'[k] = rows[k]
  BY DEF Without_
<1>2. ASSUME NEW u PROVE RowsOf(u)' \subseteq RowsOf(u) /\ (Cardinality(RowsOf(u)') > 1 => Cardinality(RowsOf(u)) > 1)
  <2>1. RowsOf(u)' \subseteq RowsOf(u)
    BY <1>1 DEF RowsOf
  <2>2. IsFiniteSet(RowsOf(u))
    BY RowsOfIs DEF PresInv
  <2>3. /\ Cardinality(RowsOf(u)') <= Cardinality(RowsOf(u))
        /\ Cardinality(RowsOf(u)') \in Nat /\ Cardinality(RowsOf(u)) \in Nat
    BY <2>1, <2>2, FS_Subset, FS_CardinalityType
  <2> QED
    BY <2>1, <2>3
<1> QED
  BY <1>1, <1>2

LEMMA RemovePresenceKeeps ==
  ASSUME PresInv, NEW s \in Sockets, remove_presence(s) PROVE PresInv'
<1> DEFINE id == handlers[s].session
<1>1. /\ PresenceTyped /\ At(s, "left") /\ handlers[s] \in Handler /\ conns \in Connections /\ HandlerFits(s)
      /\ rows' = Without_(id) /\ UNCHANGED <<conns, gone, nextId, deleted>> /\ Broadcast(s, conns, NoSession, "done")
  BY DEF remove_presence, PresInv, PresenceTyped
<1>2. PICK h \in Handler: /\ Step(s, h) /\ h.at = "broadcast" /\ h.then = "done" /\ h.dead = <<>>
                          /\ h.session = handlers[s].session /\ h.found = handlers[s].found /\ h.overlapped = handlers[s].overlapped
  BY <1>1, BroadcastIs
<1>3. handlers' \in [Sockets -> Handler] /\ handlers'[s] = h /\ \A t \in Sockets: t # s => handlers'[t] = handlers[t]
  BY <1>1, <1>2 DEF Step, PresenceTyped
<1>4. /\ DOMAIN rows' = DOMAIN rows \ {id} /\ \A k \in DOMAIN rows': rows'[k] = rows[k]
      /\ \A u: RowsOf(u)' \subseteq RowsOf(u) /\ (Cardinality(RowsOf(u)') > 1 => Cardinality(RowsOf(u)) > 1)
  BY <1>1, RowLess
<1>5. PresenceTyped'
  BY <1>1, <1>3, <1>4 DEF PresenceTyped
<1>6. IdsAgree'
  <2>1. \A t \in Sockets: \A i: Knows(t, i)' <=> Knows(t, i)
    BY <1>2, <1>3 DEF Knows
  <2> QED
    BY <1>1, <1>4, <2>1 DEF PresInv, IdsAgree
<1>7. \A t \in Sockets: t # s => (Attached(t)' <=> Attached(t)) /\ (\A a \in SocketState: At(t, a)' <=> At(t, a))
  BY <1>3 DEF Attached, At, Serving
<1>8. Listing'
  <2>1. \A c \in ToSet(conns): c[1] \in Sockets /\ c[1] # s
    BY <1>1, ListedAre DEF Attached, At, Serving
  <2>2. \A t \in Sockets \ {s}: Attached(t) => (t \in {v \in Sockets: Attached(v)})'
    BY <1>7
  <2>3. \A c \in ToSet(conns'): c[2] = handlers'[c[1]].session /\ ((c[1] \in {v \in Sockets: Attached(v)})' \/ handlers'[c[1]].at \in {"leaving", "unjoined"})
    BY <1>1, <1>3, <2>1, <2>2 DEF PresInv, Listing
  <2> QED
    BY <2>3 DEF Listing
<1>9. RowsOverlap'
  <2>1. \A u: Overlaps(u) => Overlaps(u)'
    BY <1>2, <1>3 DEF Overlaps
  <2> QED
    BY <1>4, <2>1 DEF PresInv, RowsOverlap
<1>10. ASSUME NEW t \in Sockets PROVE HandlerFits(t)'
  <2>1. CASE t = s
    <3>1. handlers[s].session # NoSession /\ handlers[s].found = NoSession
      BY <1>1 DEF HandlerFits, At
    <3> QED
      BY <1>2, <1>3, <1>4, <2>1, <3>1 DEF HandlerFits, At
  <2>2. CASE t # s
    <3>1. HandlerFits(t) /\ handlers'[t] = handlers[t] /\ gone' = gone /\ RowsOf(UserOf[t])' \subseteq RowsOf(UserOf[t])
      BY <2>2, <1>1, <1>3, <1>4 DEF PresInv
    <3> QED
      BY <3>1, <1>4 DEF HandlerFits, At
  <2> QED
    BY <2>1, <2>2
<1>11. ASSUME NEW t \in Sockets, Alone(t)' PROVE Present(t)'
  <2>1. Alone(t)
    <3>1. \A v \in Sockets: At(v, "closed")' => At(v, "closed")
      BY <1>2, <1>3 DEF At
    <3> QED
      BY <1>11, <3>1 DEF Alone
  <2>2. CASE t = s
    BY <1>2, <1>3, <2>2 DEF Present, Attached, At, Serving
  <2>3. CASE t # s
    <3>1. Present(t) /\ handlers'[t] = handlers[t] /\ (Attached(t)' <=> Attached(t)) /\ (At(t, "registered")' <=> At(t, "registered"))
      BY <2>1, <2>3, <1>3, <1>7 DEF PresInv, SocketState
    <3>2. Knows(s, id) /\ id \in Nat
      BY <1>1 DEF Knows, HandlerFits, At, Handler
    <3>3. ~Knows(t, id)
      BY <1>1, <2>1, <2>3, <3>2 DEF PresInv, IdsAgree, Alone, At
    <3>4. handlers[t].session # id
      BY <3>2, <3>3 DEF Knows
    <3> QED
      BY <1>1, <1>4, <3>1, <3>4 DEF Present
  <2> QED
    BY <2>2, <2>3
<1>12. ASSUME NEW i \in DOMAIN rows' PROVE HasHandler(i)'
  <2>1. HasHandler(i) /\ i # id
    BY <1>4 DEF PresInv
  <2>2. PICK t \in Sockets: handlers[t].session = i /\ handlers[t].at \in Living
    BY <2>1 DEF HasHandler, Living
  <2>3. handlers'[t].session = i /\ handlers'[t].at \in Living
    BY <1>3, <2>1, <2>2
  <2> QED
    BY <2>3 DEF HasHandler, Living
<1> QED
  BY <1>5, <1>6, <1>8, <1>9, <1>10, <1>11, <1>12 DEF PresInv

LEMMA DeletePresenceKeeps ==
  ASSUME PresInv, NEW i \in DOMAIN rows, delete_presence(i) PROVE PresInv'
<1>1. PresenceTyped /\ rows' = Without_(i) /\ deleted' = deleted \cup {i} /\ UNCHANGED <<handlers, conns, gone, nextId>>
  BY DEF delete_presence, PresInv
<1>2. /\ DOMAIN rows' = DOMAIN rows \ {i} /\ \A k \in DOMAIN rows': rows'[k] = rows[k]
      /\ \A u: RowsOf(u)' \subseteq RowsOf(u) /\ (Cardinality(RowsOf(u)') > 1 => Cardinality(RowsOf(u)) > 1)
  BY <1>1, RowLess
<1>3. PresenceTyped'
  BY <1>1, <1>2 DEF PresenceTyped
<1>4. IdsAgree' /\ Listing'
  BY <1>1, <1>2 DEF PresInv, IdsAgree, Knows, Listing, Attached, At, Serving
<1>5. RowsOverlap'
  <2>1. \A u: Overlaps(u) => Overlaps(u)'
    BY <1>1 DEF Overlaps
  <2> QED
    BY <1>2, <2>1 DEF PresInv, RowsOverlap
<1>6. ASSUME NEW t \in Sockets PROVE HandlerFits(t)' /\ (Alone(t)' => Present(t)')
  <2>1. HandlerFits(t) /\ (Alone(t) => Present(t)) /\ RowsOf(UserOf[t])' \subseteq RowsOf(UserOf[t])
    BY <1>2 DEF PresInv
  <2>2. HandlerFits(t)'
    BY <1>1, <1>2, <2>1 DEF HandlerFits, At
  <2>3. Alone(t)' => Present(t)'
    BY <1>1, <1>2, <2>1 DEF Alone, At, Present, Attached, Serving
  <2> QED
    BY <2>2, <2>3
<1>7. ASSUME NEW k \in DOMAIN rows' PROVE HasHandler(k)'
  BY <1>1, <1>2 DEF PresInv, HasHandler
<1> QED
  BY <1>3, <1>4, <1>5, <1>6, <1>7 DEF PresInv

\* Registering: the others of the user that have read are overlapped.
LEMMA RegisterKeeps ==
  ASSUME PresInv, NEW s \in Sockets, register_presence(s) PROVE PresInv'
<1> DEFINE found == handlers[s].found
           joined(i) == [Meanwhile(s) EXCEPT ![s] = [With(s, "registered") EXCEPT !.session = i, !.found = NoSession]]
<1>1. /\ PresenceTyped /\ At(s, "found") /\ handlers[s] \in Handler /\ conns \in Connections /\ HandlerFits(s)
      /\ handlers[s].session = NoSession /\ UNCHANGED <<conns, deleted>> /\ found \in Nat /\ DOMAIN rows \subseteq Nat \ {0}
  BY DEF register_presence, PresInv, PresenceTyped, HandlerFits, At, Handler
<1>2. \/ /\ found = NoSession /\ nextId' = nextId + 1 /\ handlers' = joined(nextId) /\ UNCHANGED gone
         /\ rows' = [i \in DOMAIN rows \cup {nextId} |-> IF i = nextId THEN UserOf[s] ELSE rows[i]]
      \/ found \in DOMAIN rows /\ handlers' = joined(found) /\ UNCHANGED <<rows, nextId, gone>>
      \/ found # NoSession /\ found \notin DOMAIN rows /\ Ends(s, "refused") /\ UNCHANGED <<rows, nextId>>
  BY DEF register_presence
<1>3. \A c \in ToSet(conns'): c \in ToSet(conns) /\ c[1] # s
  BY <1>1, ListedAre DEF Attached, At, Serving
<1>4. CASE Ends(s, "refused") /\ UNCHANGED <<rows, nextId>>
  <2>1. gone' = gone \cup {s}
    BY <1>4, EndsGone
  <2>2. PICK h \in Handler: /\ Step(s, h) /\ h.at = "refused" /\ h.then = "none" /\ h.dead = <<>>
                            /\ h.session = handlers[s].session /\ h.found = NoSession /\ h.overlapped = handlers[s].overlapped
    BY <1>1, <1>4, EndsIs DEF SocketState
  <2>3. handlers'[s] = h
    BY <1>1, <2>2 DEF Step, PresenceTyped
  <2>4. HandlerFits(s)'
    BY <1>1, <2>2, <2>3 DEF HandlerFits, At, NoSession
  <2>5. Present(s)'
    BY <2>2, <2>3 DEF Present, Attached, At, Serving
  <2>6. HandlerGoesOn(s, h)
    BY <1>1, <1>3, <1>4, <2>1, <2>2, <2>4, <2>5 DEF HandlerGoesOn, NoSession
  <2> QED
    BY <2>6, GoingOnKeeps
<1>5. ASSUME NEW id, handlers' = joined(id), UNCHANGED gone,
             \/ /\ found = NoSession /\ id = nextId /\ nextId' = nextId + 1
                /\ rows' = [i \in DOMAIN rows \cup {nextId} |-> IF i = nextId THEN UserOf[s] ELSE rows[i]]
             \/ found \in DOMAIN rows /\ id = found /\ UNCHANGED <<rows, nextId>>
      PROVE  PresInv'
  <2>1. /\ id \in Nat \ {0} /\ nextId \in Nat \ {0} /\ nextId' \in Nat \ {0} /\ id < nextId' /\ nextId <= nextId' /\ id \in DOMAIN rows'
        /\ rows'[id] = UserOf[s] /\ DOMAIN rows' = DOMAIN rows \cup {id} /\ \A i \in DOMAIN rows: rows'[i] = rows[i]
    <3>1. nextId \in Nat \ {0} /\ \A i \in DOMAIN rows: i < nextId /\ i \in Nat \ {0}
      BY <1>1 DEF PresenceTyped
    <3>2. found \in DOMAIN rows => rows[found] = UserOf[s]
      BY <1>1 DEF PresInv, IdsAgree, Knows, NoSession
    <3>3. CASE found = NoSession /\ id = nextId /\ nextId' = nextId + 1
      BY <1>1, <1>5, <3>1, <3>3 DEF NoSession
    <3>4. CASE found \in DOMAIN rows /\ id = found
      BY <1>1, <1>5, <3>1, <3>2, <3>4 DEF NoSession
    <3> QED
      BY <1>5, <3>3, <3>4
  <2>2. PICK w, h: w = With(s, "registered") /\ h = [w EXCEPT !.session = id, !.found = NoSession]
    OBVIOUS
  <2>3. w \in Handler /\ w.at = "registered" /\ w.then = "none" /\ w.dead = <<>> /\ w.overlapped = handlers[s].overlapped
    <3>1. "registered" \in SocketState
      BY DEF SocketState
    <3> QED
      BY <1>1, <2>2, <3>1, WithIs
  <2>4. /\ h \in Handler /\ h.at = "registered" /\ h.then = "none" /\ h.dead = <<>> /\ h.session = id /\ h.found = NoSession
        /\ h.overlapped = handlers[s].overlapped
    BY <2>1, <2>2, <2>3 DEF Handler, NoSession
  <2>5. handlers' = [Meanwhile(s) EXCEPT ![s] = h]
    BY <1>5, <2>2
  <2>6. \A t \in Sockets: Meanwhile(s)[t] = IF t # s /\ UserOf[t] = UserOf[s] /\ At(t, "found") THEN [handlers[t] EXCEPT !.overlapped = TRUE] ELSE handlers[t]
    BY DEF Meanwhile
  <2>7. ASSUME NEW t \in Sockets
        PROVE  LET g == Meanwhile(s)[t] IN
               /\ g \in Handler /\ g.at = handlers[t].at /\ g.session = handlers[t].session /\ g.found = handlers[t].found
               /\ g.then = handlers[t].then /\ g.dead = handlers[t].dead /\ (handlers[t].overlapped => g.overlapped)
               /\ t # s /\ UserOf[t] = UserOf[s] /\ At(t, "found") => g.overlapped
    <3>1. PICK r, g: r = handlers[t] /\ g = [r EXCEPT !.overlapped = TRUE]
      OBVIOUS
    <3>2. r \in Handler
      BY <1>1, <3>1 DEF PresenceTyped
    <3>3. /\ g \in Handler /\ g.at = r.at /\ g.session = r.session /\ g.found = r.found /\ g.then = r.then /\ g.dead = r.dead
          /\ g.overlapped
      BY <3>1, <3>2 DEF Handler
    <3> QED
      BY <2>6, <3>1, <3>2, <3>3
  <2>8. handlers' \in [Sockets -> Handler] /\ handlers'[s] = h /\ \A t \in Sockets: t # s => handlers'[t] = Meanwhile(s)[t]
    BY <2>4, <2>5, <2>7 DEF Meanwhile
  <2>9. \A t \in Sockets: t # s =>
          /\ handlers'[t].at = handlers[t].at /\ handlers'[t].session = handlers[t].session /\ handlers'[t].found = handlers[t].found
          /\ handlers'[t].then = handlers[t].then /\ handlers'[t].dead = handlers[t].dead /\ (handlers[t].overlapped => handlers'[t].overlapped)
          /\ UserOf[t] = UserOf[s] /\ At(t, "found") => handlers'[t].overlapped
    BY <2>7, <2>8
  <2>10. PresenceTyped'
    <3>1. DOMAIN rows' \subseteq 1..(nextId' - 1)
      BY <1>1, <2>1 DEF PresenceTyped
    <3> QED
      BY <1>1, <2>1, <2>8, <3>1 DEF PresenceTyped
  <2>11. IdsAgree'
    <3>1. \A t \in Sockets: \A i: Knows(t, i)' => Knows(t, i) \/ (t = s /\ i = id)
      BY <2>4, <2>8, <2>9 DEF Knows
    <3>2. \A t \in Sockets: Knows(t, id) => UserOf[t] = UserOf[s]
      <4>1. CASE id = nextId
        BY <2>1, <4>1 DEF PresInv, IdsAgree
      <4>2. CASE id = found
        <5>1. Knows(s, id)
          BY <1>1, <2>1, <4>2 DEF Knows, NoSession
        <5> QED
          BY <2>1, <5>1 DEF PresInv, IdsAgree
      <4> QED
        BY <1>5, <4>1, <4>2
    <3>3. \A t, v \in Sockets, i \in Nat: Knows(t, i)' /\ Knows(v, i)' => UserOf[t] = UserOf[v]
      BY <3>1, <3>2 DEF PresInv, IdsAgree
    <3>4. \A t \in Sockets, i \in Nat: Knows(t, i)' => i < nextId' /\ (i \in DOMAIN rows' => rows'[i] = UserOf[t])
      <4> SUFFICES ASSUME NEW t \in Sockets, NEW i \in Nat, Knows(t, i)' PROVE i < nextId' /\ (i \in DOMAIN rows' => rows'[i] = UserOf[t])
        OBVIOUS
      <4>1. CASE i = id
        BY <2>1, <3>1, <3>2, <4>1
      <4>2. CASE i # id
        BY <2>1, <3>1, <4>2 DEF PresInv, IdsAgree
      <4> QED
        BY <4>1, <4>2
    <3> QED
      BY <3>3, <3>4 DEF IdsAgree
  <2>12. \A t \in Sockets: t # s => (Attached(t)' <=> Attached(t)) /\ (\A a \in SocketState: At(t, a)' <=> At(t, a))
    BY <2>9 DEF Attached, At, Serving
  <2>13. Listing'
    <3>1. \A c \in ToSet(conns): c[1] \in Sockets /\ c[1] # s
      BY <1>1, <1>3, ListedAre
    <3>2. \A t \in Sockets \ {s}: Attached(t) => (t \in {v \in Sockets: Attached(v)})'
      BY <2>12
    <3>3. \A c \in ToSet(conns'): c[2] = handlers'[c[1]].session /\ ((c[1] \in {v \in Sockets: Attached(v)})' \/ handlers'[c[1]].at \in {"leaving", "unjoined"})
      BY <1>1, <2>9, <3>1, <3>2 DEF PresInv, Listing
    <3> QED
      BY <3>3 DEF Listing
  <2>14. found = NoSession /\ ~handlers[s].overlapped => RowsOf(UserOf[s]) = {}
    BY <1>1 DEF HandlerFits
  <2>15. \A u: u # UserOf[s] \/ found # NoSession => RowsOf(u)' = RowsOf(u)
    BY <1>5, <2>1 DEF RowsOf
  <2>16. RowsOverlap'
    <3>1. \A u: Overlaps(u) => Overlaps(u)'
      BY <2>4, <2>8, <2>9 DEF Overlaps
    <3>2. ASSUME NEW t \in Sockets, Cardinality(RowsOf(UserOf[t])') > 1 PROVE Overlaps(UserOf[t])'
      <4>1. CASE UserOf[t] # UserOf[s] \/ found # NoSession
        BY <2>15, <3>1, <3>2, <4>1 DEF PresInv, RowsOverlap
      <4>2. CASE UserOf[t] = UserOf[s] /\ handlers[s].overlapped
        BY <2>4, <2>8, <4>2 DEF Overlaps
      <4>3. CASE UserOf[t] = UserOf[s] /\ ~handlers[s].overlapped /\ found = NoSession
        <5>1. RowsOf(UserOf[t])' = {nextId}
          BY <1>1, <1>5, <2>1, <2>14, <4>3 DEF RowsOf, NoSession
        <5>2. Cardinality(RowsOf(UserOf[t])') = 1
          BY <5>1, FS_Singleton
        <5> QED
          BY <3>2, <5>2
      <4> QED
        BY <4>1, <4>2, <4>3
    <3> QED
      BY <3>2 DEF RowsOverlap
  <2>17. ASSUME NEW t \in Sockets PROVE HandlerFits(t)'
    <3>1. CASE t = s
      BY <2>1, <2>4, <2>8, <3>1 DEF HandlerFits, At, NoSession
    <3>2. CASE t # s
      <4>1. handlers[t].session \notin DOMAIN rows /\ handlers[t].session # NoSession => handlers[t].session \notin DOMAIN rows'
        <5>1. handlers[t].session \in Nat
          BY <1>1 DEF PresenceTyped, Handler
        <5>2. handlers[t].session # NoSession => handlers[t].session < nextId
          BY <5>1 DEF PresInv, IdsAgree, Knows
        <5>3. found \in DOMAIN rows => DOMAIN rows' = DOMAIN rows
          BY <1>5, <1>1, <2>1 DEF NoSession
        <5>4. found \notin DOMAIN rows => id = nextId
          BY <1>5
        <5> QED
          BY <2>1, <5>1, <5>2, <5>3, <5>4
      <4>2. At(t, "found")' /\ handlers'[t].found = NoSession /\ ~handlers'[t].overlapped => RowsOf(UserOf[t])' = {}
        <5>1. At(t, "found")' => At(t, "found")
          BY <2>9, <3>2 DEF At
        <5> QED
          BY <2>9, <2>15, <3>2, <5>1 DEF PresInv, HandlerFits
      <4>3. HandlerFits(t)
        BY DEF PresInv
      <4> QED
        BY <1>5, <2>9, <3>2, <4>1, <4>2, <4>3 DEF HandlerFits, At
    <3> QED
      BY <3>1, <3>2
  <2>18. ASSUME NEW t \in Sockets, Alone(t)' PROVE Present(t)'
    <3>1. CASE t = s
      BY <2>1, <2>4, <2>8, <3>1 DEF Present, Attached, At, Serving
    <3>2. CASE t # s
      <4>1. \A v \in Sockets: At(v, "closed")' => At(v, "closed")
        BY <2>4, <2>8, <2>9 DEF At
      <4>2. Alone(t)
        BY <2>18, <4>1 DEF Alone
      <4>3. Present(t) /\ (Attached(t)' <=> Attached(t)) /\ (At(t, "registered")' <=> At(t, "registered"))
        BY <2>12, <3>2, <4>2 DEF PresInv, SocketState
      <4> QED
        BY <1>1, <1>5, <2>1, <2>9, <3>2, <4>3 DEF Present
    <3> QED
      BY <3>1, <3>2
  <2>19. ASSUME NEW i \in DOMAIN rows' PROVE HasHandler(i)'
    <3>1. CASE i = id
      BY <2>4, <2>8, <3>1 DEF HasHandler
    <3>2. CASE i # id
      <4>1. PICK t \in Sockets: handlers[t].session = i /\ handlers[t].at \in Living
        BY <2>1, <3>2 DEF PresInv, HasHandler, Living
      <4>2. t # s
        BY <1>1, <4>1 DEF At, Living
      <4>3. handlers'[t].session = i /\ handlers'[t].at \in Living
        BY <2>9, <4>1, <4>2
      <4> QED
        BY <4>3 DEF HasHandler, Living
    <3> QED
      BY <3>1, <3>2
  <2> QED
    BY <2>10, <2>11, <2>13, <2>16, <2>17, <2>18, <2>19 DEF PresInv
<1> QED
  BY <1>2, <1>4, <1>5

LEMMA PresStepKeeps == ASSUME PresInv, [PresenceNext]_presenceVars PROVE PresInv'
<1>1. CASE \E s \in Sockets: FindPresence(s) \/ register_presence(s) \/ connect(s) \/ Send(s) \/ RemoveDead(s)
  BY <1>1, FindPresenceKeeps, RegisterKeeps, ConnectKeeps, SendKeeps, RemoveDeadKeeps
<1>5. CASE \E s \in Sockets: Vanish(s)
  BY <1>5, RestingKeeps DEF Vanish
<1>2. CASE \E s \in Sockets: Receive(s) \/ NoticeDisconnect(s) \/ Leave(s) \/ remove_presence(s)
  BY <1>2, ReceiveKeeps, NoticeDisconnectKeeps, LeaveKeeps, RemovePresenceKeeps
<1>3. CASE \E i \in DOMAIN rows: delete_presence(i)
  BY <1>3, DeletePresenceKeeps
<1>4. CASE UNCHANGED presenceVars
  BY <1>4, RestingKeeps DEF presenceVars
<1> QED
  BY <1>1, <1>2, <1>3, <1>4, <1>5 DEF PresenceNext

-------------------------------------------------------------------------------
(* Transactional batches.                                                   *)

BtOps == Operations \cup {"none"}
Commit == [op : {"add", "commit", "rollback"}, operation : BtOps, seen : Nat]
BtTyped ==
  /\ batch \in [status : {"open", "committed", "rolled_back"}, operations : Seq(BtOps)]
  /\ btReqs \in [BtClients -> [op : {"none", "add", "commit", "rollback"}, operation : BtOps,
                               status : {"none", "open", "committed", "rolled_back"}, operations : Seq(BtOps), seen : Nat]]
  /\ commits \in Seq(Commit)

\* What an open request read: nothing closed the batch before, and unless an addition
\* was committed since then the list is as it was.
BtReadFits(c) ==
  LET req == btReqs[c]
  IN  req.op # "none" =>
        /\ req.seen <= Len(commits) /\ \A j \in Closings: req.seen < j
        /\ Len(req.operations) <= Cardinality(Additions)
        /\ (\A j \in Additions: j <= req.seen) => req.operations = batch.operations

BtInv ==
  /\ BtTyped /\ BatchKeepsAdditions
  /\ \A c \in BtClients: BtReadFits(c)
  /\ \A i \in DOMAIN commits: commits[i].seen < i

\* The commits so far are numbered 1..Len(commits); finitely many are additions.
LEMMA CommitsAre ==
  ASSUME BtTyped
  PROVE  /\ Len(commits) \in Nat /\ DOMAIN commits = 1..Len(commits)
         /\ \A i \in DOMAIN commits: commits[i] \in Commit
         /\ \A i \in 1..Len(commits): commits[i].op \in {"add", "commit", "rollback"} /\ commits[i].seen \in Nat
         /\ Additions \subseteq 1..Len(commits) /\ IsFiniteSet(Additions) /\ Cardinality(Additions) \in Nat
<1>1. Len(commits) \in Nat /\ DOMAIN commits = 1..Len(commits) /\ \A i \in 1..Len(commits): commits[i] \in Commit
  BY DEF BtTyped
<1>2. Additions \subseteq 1..Len(commits) /\ IsFiniteSet(1..Len(commits))
  <2>1. Additions \subseteq 1..Len(commits)
    BY <1>1 DEF Additions
  <2>2. IsFiniteSet(1..Len(commits))
    BY <1>1, FS_Interval
  <2> QED
    BY <2>1, <2>2
<1>3. IsFiniteSet(Additions) /\ Cardinality(Additions) \in Nat
  BY <1>2, FS_Subset, FS_CardinalityType
<1> QED
  BY <1>1, <1>2, <1>3 DEF Commit

\* A commit more: the others and their ranks stay.
LEMMA CommitMore ==
  ASSUME BtTyped, NEW new \in Commit, commits' = Append(commits, new), NEW n, n = Len(commits)
  PROVE  /\ commits' \in Seq(Commit) /\ DOMAIN commits' = 1..(n + 1) /\ commits'[n + 1] = new /\ \A i \in 1..n: commits'[i] = commits[i]
         /\ Additions' = Additions \cup (IF new.op = "add" THEN {n + 1} ELSE {})
         /\ Closings' = Closings \cup (IF new.op = "add" THEN {} ELSE {n + 1})
         /\ Cardinality(Additions') = Cardinality(Additions) + (IF new.op = "add" THEN 1 ELSE 0)
<1>1. n \in Nat /\ DOMAIN commits = 1..n /\ commits \in Seq(Commit)
  BY CommitsAre DEF BtTyped
<1>2. commits' \in Seq(Commit) /\ DOMAIN commits' = 1..(n + 1) /\ commits'[n + 1] = new /\ \A i \in 1..n: commits'[i] = commits[i]
  BY <1>1
<1>3. n + 1 \notin 1..n /\ 1..(n + 1) = 1..n \cup {n + 1}
  BY <1>1
<1>4. Additions' = Additions \cup (IF new.op = "add" THEN {n + 1} ELSE {})
  BY <1>1, <1>2, <1>3 DEF Additions
<1>5. Closings' = Closings \cup (IF new.op = "add" THEN {} ELSE {n + 1})
  BY <1>1, <1>2, <1>3, <1>4 DEF Closings, Additions
<1>6. n + 1 \notin Additions
  BY <1>1, <1>3 DEF Additions
<1>7. Cardinality(Additions') = Cardinality(Additions) + (IF new.op = "add" THEN 1 ELSE 0)
  <2>1. IsFiniteSet(Additions) /\ Cardinality(Additions) \in Nat
    BY CommitsAre
  <2>2. CASE new.op = "add"
    BY <1>4, <1>6, <2>1, <2>2, FS_AddElement
  <2>3. CASE new.op # "add"
    BY <1>4, <2>1, <2>3
  <2> QED
    BY <2>2, <2>3
<1> QED
  BY <1>2, <1>4, <1>5, <1>7

LEMMA BtInvInit == BatchInit => BtInv
<1> SUFFICES ASSUME BatchInit PROVE BtInv
  OBVIOUS
<1>1. BtTyped
  BY DEF BatchInit, BtTyped, NoBtReq, BtOps
<1>2. DOMAIN commits = {} /\ commits = <<>> /\ Len(commits) = 0
  BY DEF BatchInit
<1>3. Additions = {} /\ Closings = {}
  BY <1>2 DEF Additions, Closings
<1>4. Cardinality(Additions) = 0
  BY <1>3, FS_EmptySet
<1>5. Len(batch.operations) = 0
  BY DEF BatchInit
<1>6. BatchKeepsAdditions
  BY <1>2, <1>3, <1>4, <1>5 DEF BatchKeepsAdditions, BatchInit
<1>7. \A c \in BtClients: btReqs[c].op = "none"
  BY DEF BatchInit, NoBtReq
<1> QED
  BY <1>1, <1>2, <1>6, <1>7 DEF BtInv, BtReadFits

LEMMA GetBatchKeeps ==
  ASSUME BtInv, NEW c \in BtClients, get_batch(c) PROVE BtInv'
<1>1. UNCHANGED <<batch, commits, import>> /\ batch.status = "open"
  BY DEF get_batch
<1>2. PICK op, o, req:
         /\ op \in {"add", "commit", "rollback"} /\ o \in BtOps
         /\ req = [op |-> op, operation |-> o, status |-> batch.status, operations |-> batch.operations, seen |-> Len(commits)]
         /\ btReqs' = [btReqs EXCEPT ![c] = req]
  BY DEF get_batch, BtOps
<1>3. Additions' = Additions /\ Closings' = Closings /\ Closings = {}
  BY <1>1 DEF Additions, Closings, BtInv, BatchKeepsAdditions
<1>4. BtTyped'
  BY <1>1, <1>2 DEF BtInv, BtTyped
<1>5. BatchKeepsAdditions'
  <2>1. \A i: LosesOthers(i)' <=> LosesOthers(i)
    BY <1>1, <1>3 DEF LosesOthers
  <2> QED
    BY <1>1, <1>3, <2>1 DEF BtInv, BatchKeepsAdditions
<1>6. ASSUME NEW d \in BtClients PROVE BtReadFits(d)'
  <2>1. CASE d = c
    <3>1. btReqs'[d] = req
      BY <1>2, <2>1 DEF BtInv, BtTyped
    <3>2. Len(commits) \in Nat /\ Len(batch.operations) <= Cardinality(Additions)
      BY DEF BtInv, BtTyped, BatchKeepsAdditions
    <3> QED
      BY <1>1, <1>2, <1>3, <3>1, <3>2 DEF BtReadFits
  <2>2. CASE d # c
    <3>1. btReqs'[d] = btReqs[d]
      BY <1>2, <2>2 DEF BtInv, BtTyped
    <3> QED
      BY <1>1, <1>3, <3>1 DEF BtInv, BtReadFits
  <2> QED
    BY <2>1, <2>2
<1> QED
  BY <1>1, <1>4, <1>5, <1>6 DEF BtInv

\* What every commit keeps of the requests and of the history of what was seen.
LEMMA CommittedKeeps ==
  ASSUME BtInv, NEW c \in BtClients, NEW entry, Committed(c, entry), btReqs[c].op # "none",
         entry.operations # batch.operations => btReqs[c].op = "add"
  PROVE  /\ BtTyped' \/ entry \notin [status : {"open", "committed", "rolled_back"}, operations : Seq(BtOps)]
         /\ \A d \in BtClients: BtReadFits(d)'
         /\ \A i \in DOMAIN commits': commits'[i].seen < i /\ ~\E j \in Closings': j <= commits'[i].seen
<1> DEFINE req == btReqs[c]
           new == [op |-> req.op, operation |-> req.operation, seen |-> req.seen]
           n == Len(commits)
<1>1. BtTyped /\ batch' = entry /\ commits' = Append(commits, new) /\ btReqs' = [btReqs EXCEPT ![c] = NoBtReq] /\ UNCHANGED import
  BY DEF BtInv, Committed
<1>2. new \in Commit /\ req.seen \in Nat /\ n \in Nat
  BY <1>1, CommitsAre DEF BtTyped, Commit
<1>3. /\ commits' \in Seq(Commit) /\ DOMAIN commits' = 1..(n + 1) /\ commits'[n + 1] = new /\ \A i \in 1..n: commits'[i] = commits[i]
      /\ Additions' = Additions \cup (IF req.op = "add" THEN {n + 1} ELSE {})
      /\ Closings' = Closings \cup (IF req.op = "add" THEN {} ELSE {n + 1})
      /\ Cardinality(Additions') = Cardinality(Additions) + (IF req.op = "add" THEN 1 ELSE 0)
  <2>1. new.op = req.op
    OBVIOUS
  <2> HIDE DEF new, n
  <2> QED
    BY <1>1, <1>2, <2>1, CommitMore DEF n
<1>4. BtTyped' \/ entry \notin [status : {"open", "committed", "rolled_back"}, operations : Seq(BtOps)]
  BY <1>1, <1>3 DEF BtTyped, NoBtReq, BtOps
<1>5. req.seen <= n /\ \A j \in Closings: req.seen < j
  BY DEF BtInv, BtReadFits
<1>6. ASSUME NEW d \in BtClients PROVE BtReadFits(d)'
  <2>1. CASE d = c
    BY <1>1, <2>1 DEF BtReadFits, BtTyped, NoBtReq
  <2>2. CASE d # c
    <3>1. btReqs'[d] = btReqs[d] /\ BtReadFits(d) /\ btReqs[d].seen \in Nat /\ Len(btReqs[d].operations) \in Nat
      BY <1>1, <2>2 DEF BtTyped, BtInv
    <3>2. Cardinality(Additions) \in Nat /\ Len(commits') = n + 1
      BY <1>1, <1>2, <1>3, CommitsAre
    <3>3. SUFFICES ASSUME btReqs[d].op # "none" PROVE BtReadFits(d)'
      BY <3>1 DEF BtReadFits
    <3>4. btReqs[d].seen <= n + 1 /\ \A j \in Closings': btReqs[d].seen < j
      BY <1>2, <1>3, <3>1, <3>3 DEF BtReadFits
    <3>5. Len(btReqs[d].operations) <= Cardinality(Additions')
      BY <1>3, <3>1, <3>2, <3>3 DEF BtReadFits
    <3>6. (\A j \in Additions': j <= btReqs[d].seen) => btReqs[d].operations = batch'.operations
      <4>1. CASE req.op = "add"
        <5>1. n + 1 \in Additions' /\ ~(n + 1 <= btReqs[d].seen)
          BY <1>2, <1>3, <3>1, <3>3, <4>1 DEF BtReadFits
        <5> QED
          BY <5>1
      <4>2. CASE req.op # "add"
        BY <1>1, <1>3, <3>1, <3>3, <4>2 DEF BtReadFits
      <4> QED
        BY <4>1, <4>2
    <3> QED
      BY <3>1, <3>2, <3>4, <3>5, <3>6 DEF BtReadFits
  <2> QED
    BY <2>1, <2>2
<1>7. ASSUME NEW i \in DOMAIN commits' PROVE commits'[i].seen < i /\ ~\E j \in Closings': j <= commits'[i].seen
  <2>1. CASE i = n + 1
    <3>1. commits'[i].seen = req.seen /\ req.seen < n + 1
      BY <1>2, <1>3, <1>5, <2>1
    <3>2. \A j \in Closings': req.seen < j /\ j \in Nat
      BY <1>1, <1>2, <1>3, <1>5, CommitsAre DEF Closings
    <3> QED
      BY <1>2, <2>1, <3>1, <3>2
  <2>2. CASE i # n + 1
    <3>1. i \in 1..n /\ commits'[i] = commits[i] /\ i \in DOMAIN commits
      BY <1>1, <1>2, <1>3, <2>2, CommitsAre
    <3>2. commits[i].seen < i /\ commits[i].seen \in Nat /\ ~\E j \in Closings: j <= commits[i].seen
      BY <1>1, <3>1, CommitsAre DEF BtInv, BatchKeepsAdditions
    <3> QED
      BY <1>2, <1>3, <3>1, <3>2
  <2> QED
    BY <2>1, <2>2
<1> QED
  BY <1>4, <1>6, <1>7

\* An addition writes the list it read and its operation behind it.
LEMMA AddKeeps ==
  ASSUME BtInv, NEW c \in BtClients, add_batch_operation(c) PROVE BtInv'
<1> DEFINE req == btReqs[c]
<1>1. PICK entry, old: old = batch /\ entry = [old EXCEPT !.operations = Extended(req)] /\ Committed(c, entry) /\ req.op = "add"
  BY DEF add_batch_operation
<1>0. PICK n, k: n = Len(commits) /\ k = Cardinality(Additions)
  OBVIOUS
<1>2. BtTyped /\ BatchKeepsAdditions /\ req.operations \in Seq(BtOps) /\ req.operation \in BtOps /\ n \in Nat /\ k \in Nat
  BY <1>0, CommitsAre DEF BtInv, BtTyped
<1>3. /\ entry \in [status : {"open", "committed", "rolled_back"}, operations : Seq(BtOps)]
      /\ entry.operations = Append(req.operations, req.operation) /\ entry.status = batch.status
  <2>1. Extended(req) \in Seq(BtOps) /\ Extended(req) = Append(req.operations, req.operation)
    BY <1>2 DEF Extended
  <2> QED
    BY <1>1, <1>2, <2>1 DEF BtTyped
<1>4. /\ BtTyped' /\ (\A d \in BtClients: BtReadFits(d)')
      /\ \A i \in DOMAIN commits': commits'[i].seen < i /\ ~\E j \in Closings': j <= commits'[i].seen
  BY <1>1, <1>3, CommittedKeeps
<1>5. PICK new \in Commit: new.op = "add" /\ new.operation = req.operation /\ new.seen = req.seen /\ commits' = Append(commits, new) /\ batch' = entry /\ UNCHANGED import
  BY <1>1, <1>2 DEF Committed, Commit, BtTyped
<1>6. /\ DOMAIN commits' = 1..(n + 1) /\ commits'[n + 1] = new /\ \A i \in 1..n: commits'[i] = commits[i]
      /\ Additions' = Additions \cup {n + 1} /\ Closings' = Closings /\ Cardinality(Additions') = k + 1
  <2>1. /\ DOMAIN commits' = 1..(n + 1) /\ commits'[n + 1] = new /\ \A i \in 1..n: commits'[i] = commits[i]
        /\ Additions' = Additions \cup (IF new.op = "add" THEN {n + 1} ELSE {})
        /\ Closings' = Closings \cup (IF new.op = "add" THEN {} ELSE {n + 1})
        /\ Cardinality(Additions') = Cardinality(Additions) + (IF new.op = "add" THEN 1 ELSE 0)
    BY <1>0, <1>2, <1>5, CommitMore
  <2> QED
    BY <1>0, <1>5, <2>1
<1>7. Additions \subseteq 1..n /\ n + 1 \notin Additions /\ DOMAIN commits = 1..n
  BY <1>0, <1>2, CommitsAre
<1>8. /\ req.seen <= n /\ req.seen \in Nat /\ Len(req.operations) <= k
      /\ (\A j \in Additions: j <= req.seen) => req.operations = batch.operations
  BY <1>0, <1>1, <1>2 DEF BtInv, BtReadFits, BtTyped
<1> DEFINE ops == entry.operations
           m == Len(req.operations)
<1>9. /\ m \in Nat /\ ops # <<>> /\ Len(ops) = m + 1 /\ Last(ops) = req.operation /\ ops[m + 1] = req.operation
      /\ \A i \in 1..m: ops[i] = req.operations[i]
  BY <1>2, <1>3 DEF Last
<1> HIDE DEF m
<1>10. \A i \in Additions': (\A j \in Additions': j <= i) => ops # <<>> /\ Last(ops) = commits'[i].operation
  <2> SUFFICES ASSUME NEW i \in Additions', \A j \in Additions': j <= i PROVE Last(ops) = commits'[i].operation
    BY <1>9
  <2>1. i = n + 1
    BY <1>2, <1>6, <1>7
  <2> QED
    BY <1>5, <1>6, <1>9, <2>1
<1>11. \A i \in Additions: {j \in Additions': j <= i} = {j \in Additions: j <= i}
  BY <1>2, <1>6, <1>7
<1>12. {j \in Additions': j <= n + 1} = Additions'
  <2>1. \A j \in Additions': j <= n + 1
    BY <1>2, <1>6, <1>7
  <2> QED
    BY <2>1
<1>13. (\A i \in Additions': ~LosesOthers(i)') =>
         /\ Len(ops) = k + 1
         /\ \A i \in Additions': ops[Cardinality({j \in Additions': j <= i})] = commits'[i].operation
  <2> SUFFICES ASSUME \A i \in Additions': ~LosesOthers(i)'
               PROVE  Len(ops) = k + 1 /\ \A i \in Additions': ops[Cardinality({j \in Additions': j <= i})] = commits'[i].operation
    OBVIOUS
  <2>1. \A j \in Additions: j <= req.seen
    <3>1. \A i \in Additions': ~\E j \in Additions': commits'[i].seen < j /\ j < i
      BY DEF LosesOthers
    <3>2. n + 1 \in Additions' /\ commits'[n + 1].seen = req.seen /\ \A j \in Additions: j \in Additions' /\ j < n + 1 /\ j \in Nat
      BY <1>2, <1>5, <1>6, <1>7
    <3> QED
      BY <1>8, <3>1, <3>2
  <2>2. \A i \in Additions: ~LosesOthers(i)
    BY <1>6, <1>7 DEF LosesOthers
  <2>3. m = k /\ \A i \in Additions: req.operations[Cardinality({j \in Additions: j <= i})] = commits[i].operation
    BY <1>0, <1>2, <1>8, <2>1, <2>2 DEF BatchKeepsAdditions, m
  <2>4. ASSUME NEW i \in Additions PROVE ops[Cardinality({j \in Additions': j <= i})] = commits'[i].operation
    <3> DEFINE up == {j \in Additions: j <= i}
    <3>1. up \subseteq Additions /\ i \in up
      BY <1>7
    <3>2. IsFiniteSet(Additions)
      BY <1>2, CommitsAre
    <3> HIDE DEF up
    <3>3. Cardinality(up) \in Nat /\ Cardinality(up) <= k /\ Cardinality(up) # 0
      BY <3>1, <3>2, <1>0, FS_Subset, FS_CardinalityType, FS_EmptySet
    <3>4. Cardinality(up) \in 1..m
      BY <1>2, <2>3, <3>3
    <3> QED
      BY <1>6, <1>7, <1>9, <1>11, <2>3, <3>4 DEF up
  <2>5. ops[Cardinality({j \in Additions': j <= n + 1})] = commits'[n + 1].operation
    BY <1>5, <1>6, <1>9, <1>12, <2>3
  <2> QED
    BY <1>6, <1>9, <2>3, <2>4, <2>5
<1>14. Len(ops) <= Cardinality(Additions')
  BY <1>2, <1>6, <1>8, <1>9 DEF m
<1>15. batch'.status = "open" <=> Closings' = {}
  BY <1>2, <1>3, <1>5, <1>6 DEF BatchKeepsAdditions
<1>16. BatchKeepsAdditions'
  BY <1>2, <1>4, <1>5, <1>6, <1>10, <1>13, <1>14, <1>15 DEF BatchKeepsAdditions
<1> QED
  BY <1>4, <1>16 DEF BtInv

\* Closing a batch leaves its operations.
LEMMA CloseKeeps ==
  ASSUME BtInv, NEW c \in BtClients, commit_batch(c) \/ rollback_batch(c) PROVE BtInv'
<1> DEFINE req == btReqs[c]
           n == Len(commits)
<1>1. PICK entry, old, st: /\ st \in {"committed", "rolled_back"} /\ old = batch /\ entry = [old EXCEPT !.status = st]
                         /\ Committed(c, entry) /\ req.op \in {"commit", "rollback"}
  <2>1. CASE commit_batch(c)
    BY <2>1, Zenon DEF commit_batch
  <2>2. CASE rollback_batch(c)
    BY <2>2, Zenon DEF rollback_batch
  <2> QED
    BY <2>1, <2>2
<1>2. BtTyped /\ BatchKeepsAdditions /\ n \in Nat
  BY CommitsAre DEF BtInv, BtTyped
<1>3. /\ entry \in [status : {"open", "committed", "rolled_back"}, operations : Seq(BtOps)]
      /\ entry.operations = batch.operations /\ entry.status # "open"
  BY <1>1, <1>2 DEF BtTyped
<1>4. /\ BtTyped' /\ (\A d \in BtClients: BtReadFits(d)')
      /\ \A i \in DOMAIN commits': commits'[i].seen < i /\ ~\E j \in Closings': j <= commits'[i].seen
  BY <1>1, <1>3, CommittedKeeps
<1>5. PICK new \in Commit: new.op # "add" /\ commits' = Append(commits, new) /\ batch' = entry /\ UNCHANGED import
  BY <1>1, <1>2 DEF Committed, Commit, BtTyped
<1>6. /\ DOMAIN commits' = 1..(n + 1) /\ \A i \in 1..n: commits'[i] = commits[i]
      /\ Additions' = Additions /\ Closings' = Closings \cup {n + 1}
  BY <1>2, <1>5, CommitMore
<1>7. \A i \in Additions: commits'[i] = commits[i]
  BY <1>2, <1>6, CommitsAre
<1>8. \A i \in Additions: LosesOthers(i)' <=> LosesOthers(i)
  BY <1>6, <1>7 DEF LosesOthers
<1>9. /\ \A i \in Additions': (\A j \in Additions': j <= i) => batch'.operations # <<>> /\ Last(batch'.operations) = commits'[i].operation
      /\ (\A i \in Additions': ~LosesOthers(i)') =>
           /\ Len(batch'.operations) = Cardinality(Additions')
           /\ \A i \in Additions': batch'.operations[Cardinality({j \in Additions': j <= i})] = commits'[i].operation
      /\ Len(batch'.operations) <= Cardinality(Additions')
  BY <1>2, <1>3, <1>5, <1>6, <1>7, <1>8 DEF BatchKeepsAdditions
<1>10. BatchKeepsAdditions'
  BY <1>2, <1>3, <1>4, <1>5, <1>6, <1>9 DEF BatchKeepsAdditions
<1> QED
  BY <1>4, <1>10 DEF BtInv

LEMMA BtStepKeeps == ASSUME BtInv, [BatchNext]_batchVars PROVE BtInv'
<1>1. CASE \E c \in BtClients: get_batch(c) \/ add_batch_operation(c) \/ commit_batch(c) \/ rollback_batch(c)
  BY <1>1, GetBatchKeeps, AddKeeps, CloseKeeps
<1>2. CASE UNCHANGED <<batch, btReqs, commits>> /\ (import'.status \in {"completed", "failed"} => import'.completed)
  <2>1. Additions' = Additions /\ Closings' = Closings
    BY <1>2 DEF Additions, Closings
  <2>2. \A i: LosesOthers(i)' <=> LosesOthers(i)
    BY <1>2, <2>1 DEF LosesOthers
  <2>3. BatchKeepsAdditions'
    BY <1>2, <2>1, <2>2 DEF BtInv, BatchKeepsAdditions
  <2>4. BtTyped'
    BY <1>2 DEF BtInv, BtTyped
  <2>5. \A c \in BtClients: BtReadFits(c)'
    BY <1>2, <2>1 DEF BtInv, BtReadFits
  <2> QED
    BY <1>2, <2>3, <2>4, <2>5 DEF BtInv
<1>3. CASE update_import_task_progress
  <2>1. PICK n \in 0..1, st \in ImportTaskStatus \cup {"none"}:
          import' = [processed |-> n, status |-> IF st = "none" THEN import.status ELSE st,
                     completed |-> import.completed \/ st \in {"completed", "failed"}]
    BY <1>3 DEF update_import_task_progress
  <2>2. import.status \in {"completed", "failed"} => import.completed
    BY DEF BtInv, BatchKeepsAdditions
  <2>3. import'.status \in {"completed", "failed"} => import'.completed
    BY <2>1, <2>2
  <2> QED
    BY <1>2, <1>3, <2>3 DEF update_import_task_progress
<1>4. CASE UNCHANGED batchVars
  <2>1. import.status \in {"completed", "failed"} => import.completed
    BY DEF BtInv, BatchKeepsAdditions
  <2> QED
    BY <1>2, <1>4, <2>1 DEF batchVars
<1> QED
  BY <1>1, <1>3, <1>4 DEF BatchNext

-------------------------------------------------------------------------------
(* Bulk jobs.                                                               *)

JobRow == [status : {"none", "pending", "running", "completed", "cancelled"}, processed : Nat, failed : Nat, ended : BOOLEAN]
Cancellation == [job : JobTypes \cup {"none"}, status : {"none", "pending", "running", "done"}]
IsList(list) == list \in Seq(ToSet(list))
WorkerIs(w) ==
  /\ DOMAIN w = {"at", "left", "items", "processed", "failed", "took"}
  /\ w.at \in {"idle", "created", "rows", "found", "deleted", "done", "broken"}
  /\ w.processed \in Nat /\ w.failed \in Nat /\ IsList(w.left)
BulkTyped ==
  /\ jobs \in [JobTypes -> JobRow] /\ cancels \in [Cancellers -> Cancellation] /\ sealed \in BOOLEAN
  /\ workers = [j \in JobTypes |-> workers[j]]
  /\ \A j \in JobTypes: WorkerIs(workers[j])
  /\ IsFiniteSet(DOMAIN bulkCells) /\ \A k \in DOMAIN bulkCells: k = <<k[1], k[2]>>

\* A job's row never promises more than its worker did, and is final once that is done.
RowFits(j) ==
  /\ jobs[j].status = "none" <=> Work(j, "idle")
  /\ jobs[j].status = "none" => jobs[j] = NoJob
  /\ jobs[j].processed <= workers[j].processed /\ jobs[j].failed <= workers[j].failed
  /\ jobs[j].status = "completed" => Work(j, "done")
  /\ Work(j, "done") => /\ jobs[j].processed = workers[j].processed /\ jobs[j].failed = workers[j].failed
                        /\ jobs[j].ended /\ jobs[j].status \in {"completed", "cancelled"}

\* What a worker has counted and what is left is all it has to handle.
HasCounted(j, w) ==
  /\ w.at \in {"idle", "created"} => w.processed = 0 /\ w.failed = 0 /\ w.left = <<>> /\ w.items = {} /\ w.took = {}
  /\ w.at \in {"found", "deleted"} => j = "delete_cells"
  /\ w.at = "done" => w.left = <<>>
  /\ j = "import_cells" /\ w.at \in {"rows", "done"} => w.processed + w.failed + Len(w.left) = Len(Rows)
  /\ j = "delete_cells" => w.left = <<>> /\ IsFiniteSet(w.took) /\ (w.at \in {"rows", "found"} => w.processed = 0)
  /\ j = "copy_cells" => IsFiniteSet(w.took) /\ w.processed + w.failed + Len(w.left) = Cardinality(w.took)
WorkerFits(j) == HasCounted(j, workers[j])

\* The copy: what it took up, from sources read once, and what is left of it.
RowOf(t) == [item |-> t[1][2], key |-> t[2][2], value |-> t[3]]
Arrived(t) == <<t[1][2], t[2][2]>> \in DOMAIN bulkCells /\ bulkCells[<<t[1][2], t[2][2]>>] = t[3]
CopyFits ==
  LET w == workers["copy_cells"]
  IN  /\ w.items \subseteq Mapping
      /\ \A t \in w.took: t[1] \in Mapping \ w.items /\ t[2] = <<t[1][1], t[2][2]>>
      /\ \A t, u \in w.took: t[1] = u[1] /\ t[2] = u[2] => t[3] = u[3]
      /\ ~sealed => \A r \in ToSet(w.left): \E t \in w.took: r = RowOf(t)
      /\ CopyAlone /\ w.failed = 0 /\ ~sealed => \A t \in w.took: SoleSource(t[1]) => RowOf(t) \in ToSet(w.left) \/ Arrived(t)

\* The deletion: what it found, and that nobody writes there again.
DeleteAlone == jobs["import_cells"] = NoJob /\ jobs["copy_cells"] = NoJob
TargetCells == {k \in DOMAIN bulkCells: k[1] \in TargetItems}
DeleteFits ==
  DeleteAlone => /\ Work("delete_cells", "found") => TargetCells \subseteq workers["delete_cells"].took
                 /\ workers["delete_cells"].at \in {"deleted", "done"} => TargetCells = {}

CancelFits(c) == cancels[c] = NoCancel \/ (cancels[c].job \in JobTypes /\ jobs[cancels[c].job].status # "none")

BulkInv ==
  /\ BulkTyped /\ CopyFits /\ DeleteFits
  /\ \A j \in JobTypes: RowFits(j) /\ WorkerFits(j)
  /\ \A c \in Cancellers: CancelFits(c)

LEMMA ListOfSet ==
  ASSUME NEW S, IsFiniteSet(S)
  PROVE  SetToSeq(S) \in Seq(S) /\ Len(SetToSeq(S)) = Cardinality(S) /\ ToSet(SetToSeq(S)) = S
<1> DEFINE n == Cardinality(S)
           list == SetToSeq(S)
<1>1. n \in Nat /\ ExistsBijection(1..n, S)
  BY FS_CardinalityType
<1>2. \E f \in [1..n -> S]: IsInjective(f)
  BY <1>1 DEF ExistsBijection, Bijection, Injection
<1>3. list \in [1..n -> S] /\ IsInjective(list)
  BY <1>2 DEF SetToSeq
<1>4. IsFiniteSet(1..n) /\ Cardinality(1..n) = n
  BY <1>1, FS_Interval
<1> HIDE DEF n, list
<1>5. list \in Injection(1..n, S)
  BY <1>3 DEF Injection
<1>6. list \in Surjection(1..n, S)
  BY <1>4, <1>5, FS_Injection DEF n
<1>7. ToSet(list) = S
  BY <1>3, <1>6 DEF Surjection, ToSet
<1>8. list \in Seq(S) /\ Len(list) = n
  BY <1>1, <1>3
<1> QED
  BY <1>7, <1>8 DEF list, n

LEMMA AsMany ==
  ASSUME NEW S, IsFiniteSet(S), NEW f, DOMAIN f = S, \A x, y \in S: f[x] = f[y] => x = y
  PROVE  IsFiniteSet({f[x]: x \in S}) /\ Cardinality({f[x]: x \in S}) = Cardinality(S)
<1> DEFINE T == {f[x]: x \in S}
           g == [x \in S |-> f[x]]
<1>1. g \in Bijection(S, T)
  BY DEF Bijection, Injection, IsInjective, Surjection
<1>2. ExistsBijection(S, T)
  BY <1>1 DEF ExistsBijection
<1> HIDE DEF T
<1>3. IsFiniteSet(T) /\ Cardinality(T) = Cardinality(S)
  BY <1>2, FS_Bijection
<1> QED
  BY <1>3 DEF T

LEMMA ListedIs == ASSUME NEW E, NEW list \in Seq(E) PROVE IsList(list)
<1>1. \A i \in 1..Len(list): list[i] \in ToSet(list)
  BY DEF ToSet
<1> DEFINE T == ToSet(list)
<1> HIDE DEF T
<1>2. list \in Seq(T)
  BY <1>1 DEF T
<1> QED
  BY <1>2 DEF T, IsList

LEMMA RestingIs ==
  ASSUME NEW w, w = Resting
  PROVE  /\ WorkerIs(w) /\ w.at = "idle" /\ w.left = <<>> /\ w.items = {} /\ w.processed = 0 /\ w.failed = 0 /\ w.took = {}
<1>1. /\ w.at = "idle" /\ w.left = <<>> /\ w.items = {} /\ w.processed = 0 /\ w.failed = 0 /\ w.took = {}
      /\ DOMAIN w = {"at", "left", "items", "processed", "failed", "took"}
  BY DEF Resting
<1>2. IsList(<<>>)
  <2>1. <<>> \in Seq({})
    OBVIOUS
  <2> QED
    BY <2>1, ListedIs
<1> QED
  BY <1>1, <1>2 DEF WorkerIs

\* A list without its head.
LEMMA TailOf ==
  ASSUME NEW list, IsList(list), list # <<>>
  PROVE  /\ IsList(Tail(list)) /\ Len(Tail(list)) = Len(list) - 1 /\ Len(list) \in Nat
         /\ ToSet(list) = ToSet(Tail(list)) \cup {Head(list)}
<1> DEFINE n == Len(list)
           rest == Tail(list)
<1>1. /\ n \in Nat \ {0} /\ DOMAIN list = 1..n /\ DOMAIN rest = 1..(n - 1) /\ Len(rest) = n - 1
      /\ (\A i \in 1..(n - 1): rest[i] = list[i + 1]) /\ Head(list) = list[1]
  BY DEF IsList
<1> HIDE DEF rest, n
<1>2. \A i \in 1..n: i = 1 \/ (i - 1 \in 1..(n - 1) /\ list[i] = rest[i - 1])
  BY <1>1
<1>3. \A i \in 1..(n - 1): i + 1 \in 1..n
  BY <1>1
<1>4. ToSet(list) = ToSet(rest) \cup {Head(list)}
  <2>1. ASSUME NEW i \in 1..n PROVE list[i] \in ToSet(rest) \cup {Head(list)}
    <3>1. CASE i = 1
      BY <1>1, <3>1
    <3>2. CASE i - 1 \in 1..(n - 1) /\ list[i] = rest[i - 1]
      BY <1>1, <3>2 DEF ToSet
    <3> QED
      BY <1>2, <3>1, <3>2
  <2>2. \A c \in ToSet(rest): c \in ToSet(list)
    BY <1>1, <1>3 DEF ToSet
  <2>3. Head(list) \in ToSet(list)
    BY <1>1 DEF ToSet
  <2>4. \A c \in ToSet(list): \E i \in 1..n: c = list[i]
    BY <1>1 DEF ToSet
  <2> QED
    BY <2>1, <2>2, <2>3, <2>4
<1>5. IsList(rest)
  <2>1. rest \in Seq(ToSet(list))
    BY DEF IsList, rest
  <2> QED
    BY <2>1, ListedIs
<1> QED
  BY <1>1, <1>4, <1>5 DEF rest, n

LEMMA BulkInvAddsUp == BulkInv => JobsAddUp /\ CopiesArrive
<1> SUFFICES ASSUME BulkInv PROVE JobsAddUp /\ CopiesArrive
  OBVIOUS
<1>1. ASSUME NEW j \in JobTypes, Work(j, "done")
      PROVE  /\ jobs[j] = [Counts(j, jobs[j]) EXCEPT !.ended = TRUE]
             /\ j = "import_cells" => jobs[j].processed + jobs[j].failed = Len(Rows)
             /\ j = "copy_cells" => jobs[j].processed + jobs[j].failed = Cardinality(workers[j].took)
  <2>1. PICK r: r = jobs[j] /\ r \in JobRow
    BY DEF BulkInv, BulkTyped
  <2>2. r.processed = workers[j].processed /\ r.failed = workers[j].failed /\ r.ended = TRUE
    BY <1>1, <2>1 DEF BulkInv, RowFits, JobRow
  <2>3. [[[r EXCEPT !.processed = r.processed] EXCEPT !.failed = r.failed] EXCEPT !.ended = r.ended] = r
    BY <2>1 DEF JobRow
  <2>4. jobs[j] = [Counts(j, jobs[j]) EXCEPT !.ended = TRUE]
    BY <2>1, <2>2, <2>3 DEF Counts
  <2>5. workers[j].left = <<>> /\ workers[j].processed \in Nat /\ workers[j].failed \in Nat /\ Len(<<>>) = 0
    BY <1>1 DEF BulkInv, WorkerFits, HasCounted, Work, BulkTyped, WorkerIs
  <2>6. /\ j = "import_cells" => jobs[j].processed + jobs[j].failed = Len(Rows)
        /\ j = "copy_cells" => jobs[j].processed + jobs[j].failed = Cardinality(workers[j].took)
    BY <1>1, <2>1, <2>2, <2>5 DEF BulkInv, WorkerFits, HasCounted, Work
  <2> QED
    BY <2>4, <2>6
<1>2. JobsAddUp
  BY <1>1 DEF JobsAddUp, BulkInv, RowFits
<1>3. ASSUME Work("copy_cells", "done"), CopyAlone, jobs["copy_cells"].failed = 0, ~sealed, NEW t \in workers["copy_cells"].took, SoleSource(t[1])
      PROVE  Arrived(t)
  <2>1. "copy_cells" \in JobTypes
    BY DEF JobTypes
  <2>2. workers["copy_cells"].failed = 0 /\ workers["copy_cells"].left = <<>>
    BY <1>3, <2>1 DEF BulkInv, RowFits, WorkerFits, HasCounted, Work
  <2> QED
    BY <1>3, <2>2 DEF BulkInv, CopyFits, ToSet
<1>4. CopiesArrive
  BY <1>3 DEF CopiesArrive, Arrived, BulkInv, DeleteFits, DeleteAlone, TargetCells
<1> QED
  BY <1>2, <1>4

LEMMA BulkInvInit == BulkInit => BulkInv
<1> SUFFICES ASSUME BulkInit PROVE BulkInv
  OBVIOUS
<1>1. PICK m \in Mapping: bulkCells = [k \in {<<m[1], "k">>, <<m[2], "j">>} |-> "old"]
  BY DEF BulkInit
<1>2. \A j \in JobTypes: jobs[j] = NoJob /\ workers[j] = Resting
  BY DEF BulkInit
<1>3. BulkTyped
  <2>1. DOMAIN bulkCells = {<<m[1], "k">>} \cup {<<m[2], "j">>}
    BY <1>1
  <2>2. IsFiniteSet({<<m[1], "k">>}) /\ IsFiniteSet({<<m[2], "j">>})
    BY FS_Singleton
  <2>3. IsFiniteSet(DOMAIN bulkCells)
    BY <2>1, <2>2, FS_Union
  <2>4. \A k \in DOMAIN bulkCells: k = <<k[1], k[2]>>
    BY <2>1
  <2>5. \A j \in JobTypes: WorkerIs(workers[j])
    BY <1>2, RestingIs
  <2>6. jobs \in [JobTypes -> JobRow]
    BY DEF BulkInit, NoJob, JobRow
  <2>7. cancels \in [Cancellers -> Cancellation]
    BY DEF BulkInit, NoCancel, Cancellation
  <2>8. workers = [j \in JobTypes |-> workers[j]]
    BY DEF BulkInit
  <2> QED
    BY <2>3, <2>4, <2>5, <2>6, <2>7, <2>8 DEF BulkTyped, BulkInit
<1>4. \A j \in JobTypes: RowFits(j)
  BY <1>2 DEF RowFits, Work, NoJob, Resting
<1>5. ASSUME NEW j \in JobTypes PROVE WorkerFits(j)
  <2>1. IsFiniteSet({}) /\ Cardinality({}) = 0 /\ Len(<<>>) = 0
    BY FS_EmptySet
  <2>2. PICK w: w = workers[j]
    OBVIOUS
  <2>3. w.at = "idle" /\ w.left = <<>> /\ w.items = {} /\ w.processed = 0 /\ w.failed = 0 /\ w.took = {}
    BY <1>2, <2>2, RestingIs
  <2> QED
    BY <2>1, <2>2, <2>3 DEF WorkerFits, HasCounted
<1>6. {"copy_cells", "delete_cells"} \subseteq JobTypes
  BY DEF JobTypes
<1>7. CopyFits /\ DeleteFits
  BY <1>2, <1>6 DEF CopyFits, DeleteFits, Work, Resting, ToSet
<1>8. \A c \in Cancellers: CancelFits(c)
  BY DEF BulkInit, CancelFits
<1> QED
  BY <1>3, <1>4, <1>5, <1>7, <1>8 DEF BulkInv

\* A step of one job: its row and its worker go on, the others rest.
LEMMA JobMoves ==
  ASSUME BulkInv, NEW j \in JobTypes, NEW w, WorkerIs(w), NEW entry \in JobRow,
         workers' = [workers EXCEPT ![j] = w], jobs' = [jobs EXCEPT ![j] = entry], sealed' = sealed,
         cancels' \in [Cancellers -> Cancellation],
         \A c \in Cancellers: cancels'[c] = cancels[c] \/ (cancels'[c].job \in JobTypes /\ jobs'[cancels'[c].job].status # "none"),
         IsFiniteSet(DOMAIN bulkCells'), \A k \in DOMAIN bulkCells': k = <<k[1], k[2]>>,
         entry.status # "none" \/ jobs[j].status = "none",
         RowFits(j)', WorkerFits(j)', CopyFits', DeleteFits'
  PROVE  BulkInv'
<1>1. /\ jobs'[j] = entry /\ workers'[j] = w
      /\ \A i \in JobTypes: i # j => jobs'[i] = jobs[i] /\ workers'[i] = workers[i]
  BY DEF BulkInv, BulkTyped
<1>2. BulkTyped'
  BY <1>1 DEF BulkInv, BulkTyped
<1>3. ASSUME NEW i \in JobTypes PROVE RowFits(i)' /\ WorkerFits(i)'
  <2>1. CASE i = j
    BY <2>1
  <2>2. CASE i # j
    <3>1. RowFits(i) /\ WorkerFits(i) /\ jobs'[i] = jobs[i] /\ workers'[i] = workers[i]
      BY <1>1, <2>2 DEF BulkInv
    <3>2. RowFits(i)'
      BY <3>1 DEF RowFits, Work
    <3>3. WorkerFits(i)'
      BY <3>1 DEF WorkerFits, HasCounted
    <3> QED
      BY <3>2, <3>3
  <2> QED
    BY <2>1, <2>2
<1>4. ASSUME NEW c \in Cancellers PROVE CancelFits(c)'
  <2>1. CASE cancels'[c] = cancels[c]
    BY <1>1, <2>1 DEF BulkInv, CancelFits
  <2>2. CASE cancels'[c].job \in JobTypes /\ jobs'[cancels'[c].job].status # "none"
    BY <2>2 DEF CancelFits
  <2> QED
    BY <2>1, <2>2
<1> QED
  BY <1>2, <1>3, <1>4 DEF BulkInv

LEMMA NobodyBack ==
  ASSUME BulkInv, NEW j \in JobTypes, NEW entry \in JobRow, jobs' = [jobs EXCEPT ![j] = entry], entry.status # "none" \/ jobs[j].status = "none"
  PROVE  (CopyAlone' => CopyAlone) /\ (DeleteAlone' => DeleteAlone)
<1>1. \A i \in JobTypes: jobs'[i] = NoJob => jobs[i] = NoJob
  <2>1. jobs'[j] = entry /\ \A i \in JobTypes: i # j => jobs'[i] = jobs[i]
    BY DEF BulkInv, BulkTyped
  <2>2. jobs[j].status = "none" => jobs[j] = NoJob
    BY DEF BulkInv, RowFits
  <2> QED
    BY <2>1, <2>2 DEF NoJob
<1> QED
  BY <1>1 DEF CopyAlone, DeleteAlone, JobTypes

\* The copy where its worker's lists rest and nobody else writes cells.
LEMMA CopyRests ==
  ASSUME BulkInv, CopyAlone' => CopyAlone /\ bulkCells' = bulkCells, sealed' = sealed,
         workers'["copy_cells"].items = workers["copy_cells"].items, workers'["copy_cells"].left = workers["copy_cells"].left,
         workers'["copy_cells"].took = workers["copy_cells"].took, workers'["copy_cells"].failed = workers["copy_cells"].failed
  PROVE  CopyFits'
BY DEF BulkInv, CopyFits, Arrived

LEMMA DeleteRests ==
  ASSUME BulkInv, DeleteAlone' => DeleteAlone /\ bulkCells' = bulkCells,
         Work("delete_cells", "found")' => Work("delete_cells", "found") /\ workers'["delete_cells"].took = workers["delete_cells"].took,
         workers'["delete_cells"].at \in {"deleted", "done"} => workers["delete_cells"].at \in {"deleted", "done"}
  PROVE  DeleteFits'
BY DEF BulkInv, DeleteFits, TargetCells, Work

LEMMA CreateKeeps ==
  ASSUME BulkInv, NEW j \in JobTypes, create_bulk_job(j) PROVE BulkInv'
<1>1. jobs[j] = NoJob /\ UNCHANGED <<bulkCells, sealed, cancels>>
  BY DEF create_bulk_job
<1>2. PICK old, w, entry: /\ old = workers[j] /\ w = [old EXCEPT !.at = "created"] /\ entry = [NoJob EXCEPT !.status = "pending"]
                        /\ workers' = [workers EXCEPT ![j] = w] /\ jobs' = [jobs EXCEPT ![j] = entry]
  BY Zenon DEF create_bulk_job
<1>3. WorkerIs(old) /\ old.at = "idle" /\ WorkerFits(j) /\ RowFits(j)
  BY <1>1, <1>2 DEF BulkInv, BulkTyped, RowFits, NoJob, Work
<1>4. /\ entry \in JobRow /\ entry.status = "pending" /\ entry.processed = 0 /\ entry.failed = 0
      /\ w.at = "created" /\ w.left = old.left /\ w.items = old.items /\ w.processed = old.processed /\ w.failed = old.failed
      /\ w.took = old.took /\ WorkerIs(w)
  BY <1>2, <1>3 DEF NoJob, JobRow, WorkerIs
<1>5. old.processed = 0 /\ old.failed = 0 /\ old.left = <<>> /\ old.items = {} /\ old.took = {}
  BY <1>2, <1>3 DEF WorkerFits, HasCounted
<1>6. jobs'[j] = entry /\ workers'[j] = w /\ \A i \in JobTypes \ {j}: workers'[i] = workers[i]
  BY <1>2 DEF BulkInv, BulkTyped
<1>7. RowFits(j)'
  BY <1>4, <1>5, <1>6 DEF RowFits, Work
<1>8. WorkerFits(j)'
  <2>1. Len(w.left) = 0 /\ IsFiniteSet(w.took) /\ Cardinality(w.took) = 0
    BY <1>4, <1>5, FS_EmptySet
  <2>2. HasCounted(j, w)
    BY <1>4, <1>5, <2>1 DEF HasCounted
  <2> QED
    BY <1>6, <2>2 DEF WorkerFits
<1>9. {"copy_cells", "delete_cells"} \subseteq JobTypes
  BY DEF JobTypes
<1>10. (CopyAlone' => CopyAlone) /\ (DeleteAlone' => DeleteAlone)
  BY <1>2, <1>4, NobodyBack
<1>11. CopyFits'
  BY <1>1, <1>2, <1>4, <1>6, <1>9, <1>10, CopyRests
<1>12. DeleteFits'
  BY <1>1, <1>4, <1>6, <1>9, <1>10, DeleteRests DEF Work
<1>13. IsFiniteSet(DOMAIN bulkCells') /\ \A k \in DOMAIN bulkCells': k = <<k[1], k[2]>>
  BY <1>1 DEF BulkInv, BulkTyped
<1>14. cancels' \in [Cancellers -> Cancellation] /\ \A c \in Cancellers: cancels'[c] = cancels[c]
  BY <1>1 DEF BulkInv, BulkTyped
<1> QED
  BY <1>1, <1>2, <1>4, <1>7, <1>8, <1>11, <1>12, <1>13, <1>14, JobMoves

LEMMA MarkRunningKeeps ==
  ASSUME BulkInv, NEW j \in JobTypes, MarkRunning(j) PROVE BulkInv'
<1> DEFINE left == IF j = "import_cells" THEN Rows ELSE <<>>
           items == IF j = "copy_cells" THEN Mapping ELSE {}
<1>1. Work(j, "created") /\ UNCHANGED <<bulkCells, sealed, cancels>>
  BY DEF MarkRunning
<1>2. PICK old, w, was, entry: /\ old = workers[j] /\ w = [old EXCEPT !.at = "rows", !.left = left, !.items = items]
                             /\ was = jobs[j] /\ entry = [was EXCEPT !.status = "running"]
                             /\ workers' = [workers EXCEPT ![j] = w] /\ jobs' = [jobs EXCEPT ![j] = entry]
  BY Zenon DEF MarkRunning
<1>3. WorkerIs(old) /\ old.at = "created" /\ WorkerFits(j) /\ RowFits(j) /\ was \in JobRow
  BY <1>1, <1>2 DEF BulkInv, BulkTyped, Work
<1>4. IsList(left)
  <2>1. <<>> \in Seq({})
    OBVIOUS
  <2>2. IsList(<<>>)
    BY <2>1, ListedIs
  <2>3. IsList(Rows)
    BY BulkAssumption, ListedIs DEF BulkAssumption
  <2> QED
    BY <2>2, <2>3
<1>5. /\ entry \in JobRow /\ entry.status = "running" /\ entry.processed = was.processed /\ entry.failed = was.failed
      /\ w.at = "rows" /\ w.left = left /\ w.items = items /\ w.processed = old.processed /\ w.failed = old.failed
      /\ w.took = old.took /\ WorkerIs(w)
  <2> HIDE DEF left, items
  <2> QED
    BY <1>2, <1>3, <1>4 DEF JobRow, WorkerIs
<1>6. old.processed = 0 /\ old.failed = 0 /\ old.left = <<>> /\ old.items = {} /\ old.took = {}
  BY <1>2, <1>3 DEF WorkerFits, HasCounted
<1>7. jobs'[j] = entry /\ workers'[j] = w /\ \A i \in JobTypes \ {j}: workers'[i] = workers[i]
  BY <1>2 DEF BulkInv, BulkTyped
<1>8. RowFits(j)'
  BY <1>2, <1>3, <1>5, <1>6, <1>7 DEF RowFits, Work
<1>9. WorkerFits(j)'
  <2>1. IsFiniteSet(w.took) /\ Cardinality(w.took) = 0 /\ Len(<<>>) = 0
    BY <1>5, <1>6, FS_EmptySet
  <2>2. Len(Rows) \in Nat
    BY BulkAssumption DEF BulkAssumption
  <2>3. HasCounted(j, w)
    <3>1. CASE j = "import_cells"
      BY <1>5, <1>6, <2>2, <3>1 DEF HasCounted
    <3>2. CASE j # "import_cells"
      <4>1. Len(w.left) = 0 /\ w.left = <<>>
        BY <1>5, <2>1, <3>2
      <4> QED
        BY <1>5, <1>6, <2>1, <3>2, <4>1 DEF HasCounted
    <3> QED
      BY <3>1, <3>2
  <2> QED
    BY <1>7, <2>3 DEF WorkerFits
<1>10. "copy_cells" \in JobTypes /\ "delete_cells" \in JobTypes
  BY DEF JobTypes
<1>11. was.status # "none"
  BY <1>2, <1>3 DEF RowFits, Work
<1>12. (CopyAlone' => CopyAlone) /\ (DeleteAlone' => DeleteAlone)
  BY <1>2, <1>5, NobodyBack
<1>13. CopyFits'
  <2>1. CASE j = "copy_cells"
    <3>1. w.took = {} /\ w.items = Mapping /\ w.left = <<>>
      BY <1>5, <1>6, <2>1
    <3> QED
      BY <1>7, <2>1, <3>1 DEF CopyFits, ToSet
  <2>2. CASE j # "copy_cells"
    BY <1>1, <1>7, <1>10, <1>12, <2>2, CopyRests
  <2> QED
    BY <2>1, <2>2
<1>14. DeleteFits'
  BY <1>1, <1>5, <1>7, <1>10, <1>12, DeleteRests DEF Work
<1>15. IsFiniteSet(DOMAIN bulkCells') /\ \A k \in DOMAIN bulkCells': k = <<k[1], k[2]>>
  BY <1>1 DEF BulkInv, BulkTyped
<1>16. cancels' \in [Cancellers -> Cancellation] /\ \A c \in Cancellers: cancels'[c] = cancels[c]
  BY <1>1 DEF BulkInv, BulkTyped
<1> QED
  BY <1>1, <1>2, <1>5, <1>8, <1>9, <1>13, <1>14, <1>15, <1>16, JobMoves

LEMMA CompleteJobKeeps ==
  ASSUME BulkInv, NEW j \in JobTypes, complete_job(j) PROVE BulkInv'
<1>1. AllHandled(j) /\ UNCHANGED <<bulkCells, sealed, cancels>>
  BY DEF complete_job
<1>2. PICK old, w, was, entry: /\ old = workers[j] /\ w = [old EXCEPT !.at = "done"]
                             /\ was = jobs[j]
                             /\ entry = [[was EXCEPT !.processed = old.processed, !.failed = old.failed] EXCEPT !.status = "completed", !.ended = TRUE]
                             /\ workers' = [workers EXCEPT ![j] = w] /\ jobs' = [jobs EXCEPT ![j] = entry]
  BY Zenon DEF complete_job, Counts
<1>3. WorkerIs(old) /\ WorkerFits(j) /\ RowFits(j) /\ was \in JobRow /\ old.at \in {"deleted", "rows"}
  BY <1>1, <1>2 DEF BulkInv, BulkTyped, AllHandled, Work
<1>4. old.left = <<>> /\ (j # "delete_cells" => old.at = "rows") /\ (j = "delete_cells" => old.at = "deleted")
  BY <1>1, <1>2, <1>3 DEF AllHandled, Work, WorkerFits, HasCounted
<1>5. /\ entry \in JobRow /\ entry.status = "completed" /\ entry.processed = old.processed /\ entry.failed = old.failed /\ entry.ended = TRUE
      /\ w.at = "done" /\ w.left = old.left /\ w.items = old.items /\ w.processed = old.processed /\ w.failed = old.failed
      /\ w.took = old.took /\ WorkerIs(w)
  BY <1>2, <1>3 DEF JobRow, WorkerIs
<1>6. jobs'[j] = entry /\ workers'[j] = w /\ \A i \in JobTypes \ {j}: workers'[i] = workers[i]
  BY <1>2 DEF BulkInv, BulkTyped
<1>7. RowFits(j)'
  BY <1>3, <1>5, <1>6 DEF RowFits, Work, WorkerIs
<1>8. WorkerFits(j)'
  BY <1>2, <1>3, <1>4, <1>5, <1>6 DEF WorkerFits, HasCounted
<1>9. "copy_cells" \in JobTypes /\ "delete_cells" \in JobTypes
  BY DEF JobTypes
<1>10. (CopyAlone' => CopyAlone) /\ (DeleteAlone' => DeleteAlone)
  BY <1>2, <1>5, NobodyBack
<1>11. CopyFits'
  <2>1. LET x == workers["copy_cells"] y == workers'["copy_cells"] IN y.items = x.items /\ y.left = x.left /\ y.took = x.took /\ y.failed = x.failed
    BY <1>2, <1>5, <1>6, <1>9
  <2> QED
    BY <1>1, <1>10, <2>1, CopyRests
<1>12. DeleteFits'
  <2>1. workers'["delete_cells"].at \in {"deleted", "done"} => workers["delete_cells"].at \in {"deleted", "done"}
    BY <1>2, <1>4, <1>5, <1>6, <1>9
  <2>2. workers'["delete_cells"].at = "found" => workers'["delete_cells"] = workers["delete_cells"]
    BY <1>5, <1>6, <1>9
  <2> QED
    BY <1>1, <1>10, <2>1, <2>2, DeleteRests DEF Work
<1>13. IsFiniteSet(DOMAIN bulkCells') /\ \A k \in DOMAIN bulkCells': k = <<k[1], k[2]>>
  BY <1>1 DEF BulkInv, BulkTyped
<1>14. cancels' \in [Cancellers -> Cancellation] /\ \A c \in Cancellers: cancels'[c] = cancels[c]
  BY <1>1 DEF BulkInv, BulkTyped
<1> QED
  BY <1>1, <1>2, <1>5, <1>7, <1>8, <1>11, <1>12, <1>13, <1>14, JobMoves

\* A worker on its way goes on: nobody's row changes.
LEMMA WorkerMoves ==
  ASSUME BulkInv, NEW j \in JobTypes, NEW w, WorkerIs(w), workers' = [workers EXCEPT ![j] = w], UNCHANGED <<jobs, sealed, cancels>>,
         workers[j].at \notin {"idle", "done"}, w.at \notin {"idle", "done"},
         workers[j].processed <= w.processed, workers[j].failed <= w.failed, HasCounted(j, w),
         IsFiniteSet(DOMAIN bulkCells'), \A k \in DOMAIN bulkCells': k = <<k[1], k[2]>>, CopyFits', DeleteFits'
  PROVE  BulkInv'
<1>1. PICK entry \in JobRow: entry = jobs[j]
  BY DEF BulkInv, BulkTyped
<1>2. jobs' = [jobs EXCEPT ![j] = entry] /\ workers'[j] = w
  BY <1>1 DEF BulkInv, BulkTyped
<1>3. RowFits(j) /\ WorkerIs(workers[j])
  BY DEF BulkInv, BulkTyped
<1>4. RowFits(j)'
  BY <1>1, <1>2, <1>3 DEF RowFits, Work, JobRow, WorkerIs
<1>5. WorkerFits(j)'
  BY <1>2 DEF WorkerFits
<1>6. entry.status # "none"
  BY <1>1, <1>3 DEF RowFits, Work
<1>7. cancels' \in [Cancellers -> Cancellation] /\ \A c \in Cancellers: cancels'[c] = cancels[c]
  BY DEF BulkInv, BulkTyped
<1> QED
  BY <1>2, <1>4, <1>5, <1>6, <1>7, JobMoves

\* Whoever works has a job, so that nobody else is alone.
LEMMA AtWork ==
  ASSUME BulkInv, NEW j \in JobTypes, ~Work(j, "idle")
  PROVE  jobs[j] # NoJob /\ (j # "copy_cells" => ~CopyAlone) /\ (j # "delete_cells" => ~DeleteAlone)
<1>1. jobs[j] # NoJob
  BY DEF BulkInv, RowFits, NoJob
<1> QED
  BY <1>1 DEF CopyAlone, DeleteAlone, JobTypes

\* A row that is copied: everything a sole source had stays, or arrives.
LEMMA CopyArrives ==
  ASSUME BulkInv, CopyAlone, ~sealed, workers["copy_cells"].failed = 0,
         NEW r, r \in ToSet(workers["copy_cells"].left), bulkCells' = Written(<<r.item, r.key>>, r.value),
         NEW t \in workers["copy_cells"].took, SoleSource(t[1]), Arrived(t) \/ RowOf(t) = r
  PROVE  Arrived(t)'
<1> DEFINE to == <<t[1][2], t[2][2]>>
<1>1. /\ DOMAIN bulkCells' = DOMAIN bulkCells \cup {<<r.item, r.key>>} /\ bulkCells'[<<r.item, r.key>>] = r.value
      /\ \A k \in DOMAIN bulkCells: k # <<r.item, r.key>> => bulkCells'[k] = bulkCells[k]
  BY DEF Written
<1>2. CASE RowOf(t) = r
  <2>1. r.item = t[1][2] /\ r.key = t[2][2] /\ r.value = t[3]
    BY <1>2 DEF RowOf
  <2> QED
    BY <1>1, <2>1 DEF Arrived
<1>3. CASE Arrived(t) /\ to # <<r.item, r.key>>
  BY <1>1, <1>3 DEF Arrived
<1>4. CASE Arrived(t) /\ to = <<r.item, r.key>>
  <2>1. PICK u \in workers["copy_cells"].took: r = RowOf(u)
    BY DEF BulkInv, CopyFits
  <2>2. r.item = u[1][2] /\ r.key = u[2][2] /\ r.value = u[3]
    BY <2>1 DEF RowOf
  <2>3. u[1][2] = t[1][2] /\ u[2][2] = t[2][2]
    BY <1>4, <2>2
  <2>4. u[1] \in Mapping /\ t[1] \in Mapping /\ u[2] = <<u[1][1], u[2][2]>> /\ t[2] = <<t[1][1], t[2][2]>>
    BY DEF BulkInv, CopyFits
  <2>5. u[1] = t[1]
    BY <2>3, <2>4 DEF SoleSource
  <2>6. u[2] = t[2]
    BY <2>3, <2>4, <2>5
  <2>7. u[3] = t[3]
    BY <2>5, <2>6 DEF BulkInv, CopyFits
  <2> QED
    BY <1>1, <1>4, <2>2, <2>7 DEF Arrived
<1> QED
  BY <1>2, <1>3, <1>4

LEMMA HandleRowKeeps ==
  ASSUME BulkInv, NEW j \in JobTypes, HandleRow(j) PROVE BulkInv'
<1>1. Work(j, "rows") /\ workers[j].left # <<>> /\ UNCHANGED <<jobs, sealed, cancels>>
  BY DEF HandleRow
<1>2. PICK ok, old, w, r:
        /\ ok \in BOOLEAN /\ old = workers[j] /\ r = Head(old.left) /\ workers' = [workers EXCEPT ![j] = w]
        /\ w = [old EXCEPT !.left = Tail(old.left), !.processed = old.processed + (IF ok THEN 1 ELSE 0),
                           !.failed = old.failed + (IF ok THEN 0 ELSE 1)]
        /\ bulkCells' = IF ok THEN Written(<<r.item, r.key>>, r.value) ELSE bulkCells
  <2> DEFINE new(ok) == [workers[j] EXCEPT !.left = Tail(workers[j].left), !.processed = workers[j].processed + (IF ok THEN 1 ELSE 0),
                                      !.failed = workers[j].failed + (IF ok THEN 0 ELSE 1)]
  <2>1. PICK r: r = Head(workers[j].left)
    OBVIOUS
  <2>2. \/ workers' = [workers EXCEPT ![j] = new(TRUE)] /\ bulkCells' = Written(<<r.item, r.key>>, r.value)
        \/ workers' = [workers EXCEPT ![j] = new(FALSE)] /\ bulkCells' = bulkCells
    BY <2>1 DEF HandleRow, Handled
  <2>3. \E ok \in BOOLEAN: /\ workers' = [workers EXCEPT ![j] = new(ok)]
                           /\ bulkCells' = IF ok THEN Written(<<r.item, r.key>>, r.value) ELSE bulkCells
    <3> HIDE DEF new
    <3> QED
      BY <2>2, Zenon
  <2> QED
    BY <2>1, <2>3, Zenon
<1>3. WorkerIs(old) /\ old.at = "rows" /\ HasCounted(j, old) /\ old.left # <<>>
  BY <1>1, <1>2 DEF BulkInv, BulkTyped, Work, WorkerFits
<1>4. PICK rest, n:
        /\ n \in Nat /\ rest = Tail(old.left) /\ IsList(rest) /\ Len(rest) = n /\ Len(old.left) = n + 1 /\ ToSet(old.left) = ToSet(rest) \cup {r}
  <2>1. PICK rest: rest = Tail(old.left)
    OBVIOUS
  <2>2. IsList(rest) /\ Len(rest) = Len(old.left) - 1 /\ ToSet(old.left) = ToSet(rest) \cup {r}
    BY <1>2, <1>3, <2>1, TailOf DEF WorkerIs
  <2>3. Len(old.left) \in Nat
    BY <1>2, <1>3, TailOf DEF WorkerIs
  <2>4. Len(rest) \in Nat
    BY <2>2 DEF IsList
  <2>5. Len(old.left) = Len(rest) + 1
    BY <2>2, <2>3
  <2> QED
    BY <2>1, <2>2, <2>4, <2>5, Zenon
<1>5. /\ w.at = "rows" /\ w.left = rest /\ w.items = old.items /\ w.took = old.took
      /\ w.processed = old.processed + (IF ok THEN 1 ELSE 0) /\ w.failed = old.failed + (IF ok THEN 0 ELSE 1)
      /\ DOMAIN w = DOMAIN old /\ old.processed \in Nat /\ old.failed \in Nat
  BY <1>2, <1>3, <1>4 DEF WorkerIs
<1>6. /\ w.processed \in Nat /\ w.failed \in Nat /\ old.processed <= w.processed /\ old.failed <= w.failed
      /\ w.processed + w.failed + Len(w.left) = old.processed + old.failed + Len(old.left) /\ j # "delete_cells"
  <2>1. j # "delete_cells"
    BY <1>3 DEF HasCounted
  <2>2. Len(w.left) = n /\ Len(old.left) = n + 1
    BY <1>4, <1>5
  <2>3. PICK a \in Nat, b \in Nat: a = old.processed /\ b = old.failed
    BY <1>5
  <2>4. CASE ok
    <3>1. w.processed = a + 1 /\ w.failed = b
      BY <1>5, <2>3, <2>4
    <3> QED
      <4>1. (a + 1) + b + n = a + b + (n + 1)
        BY <1>4
      <4>2. w.processed + w.failed + Len(w.left) = old.processed + old.failed + Len(old.left)
        BY <2>2, <2>3, <3>1, <4>1, Zenon
      <4>3. w.processed \in Nat /\ w.failed \in Nat /\ old.processed <= w.processed /\ old.failed <= w.failed
        BY <2>3, <3>1
      <4> QED
        BY <2>1, <4>2, <4>3
  <2>5. CASE ~ok
    <3>1. w.processed = a /\ w.failed = b + 1
      BY <1>5, <2>3, <2>5
    <3> QED
      <4>1. a + (b + 1) + n = a + b + (n + 1)
        BY <1>4
      <4>2. w.processed + w.failed + Len(w.left) = old.processed + old.failed + Len(old.left)
        BY <2>2, <2>3, <3>1, <4>1, Zenon
      <4>3. w.processed \in Nat /\ w.failed \in Nat /\ old.processed <= w.processed /\ old.failed <= w.failed
        BY <2>3, <3>1
      <4> QED
        BY <2>1, <4>2, <4>3
  <2> QED
    BY <2>4, <2>5
<1>7. WorkerIs(w)
  BY <1>3, <1>4, <1>5, <1>6 DEF WorkerIs
<1>8. HasCounted(j, w)
  BY <1>3, <1>5, <1>6 DEF HasCounted
<1>9. IsFiniteSet(DOMAIN bulkCells') /\ \A k \in DOMAIN bulkCells': k = <<k[1], k[2]>>
  <2>1. IsFiniteSet(DOMAIN bulkCells) /\ \A k \in DOMAIN bulkCells: k = <<k[1], k[2]>>
    BY DEF BulkInv, BulkTyped
  <2>2. CASE ok
    <3>1. DOMAIN bulkCells' = DOMAIN bulkCells \cup {<<r.item, r.key>>}
      BY <1>2, <2>2 DEF Written
    <3>2. IsFiniteSet(DOMAIN bulkCells')
      BY <2>1, <3>1, FS_AddElement
    <3> QED
      BY <2>1, <3>1, <3>2
  <2>3. CASE ~ok
    BY <1>2, <2>1, <2>3
  <2> QED
    BY <2>2, <2>3
<1>10. ~Work(j, "idle") /\ workers'[j] = w /\ \A i \in JobTypes: i # j => workers'[i] = workers[i]
  BY <1>1, <1>2 DEF BulkInv, BulkTyped, Work
<1>11. (CopyAlone' => CopyAlone) /\ (DeleteAlone' => DeleteAlone) /\ {"copy_cells", "delete_cells"} \subseteq JobTypes
  BY <1>1 DEF CopyAlone, DeleteAlone, JobTypes
<1>12. DeleteFits'
  BY <1>6, <1>10, <1>11, AtWork DEF DeleteFits
<1>13. CopyFits'
  <2>1. CASE j # "copy_cells"
    BY <1>1, <1>10, <1>11, <2>1, AtWork, CopyRests
  <2>2. CASE j = "copy_cells"
    <3>1. CopyFits /\ workers["copy_cells"] = old /\ workers'["copy_cells"] = w /\ r \in ToSet(old.left)
      BY <1>2, <1>4, <1>10, <2>2 DEF BulkInv
    <3>2. ASSUME CopyAlone, w.failed = 0, ~sealed, NEW t \in old.took, SoleSource(t[1]), ~(RowOf(t) \in ToSet(w.left)) PROVE Arrived(t)'
      <4>1. old.failed = 0 /\ ok
        BY <1>5, <3>2
      <4>2. Arrived(t) \/ RowOf(t) = r
        BY <1>4, <1>5, <3>1, <3>2, <4>1 DEF CopyFits
      <4> QED
        BY <1>2, <3>1, <3>2, <4>1, <4>2, CopyArrives
    <3>3. ~sealed => \A x \in ToSet(w.left): \E t \in w.took: x = RowOf(t)
      BY <1>4, <1>5, <3>1 DEF CopyFits
    <3>4. /\ w.items \subseteq Mapping
          /\ \A t \in w.took: t[1] \in Mapping \ w.items /\ t[2] = <<t[1][1], t[2][2]>>
          /\ \A t, u \in w.took: t[1] = u[1] /\ t[2] = u[2] => t[3] = u[3]
      BY <1>5, <3>1 DEF CopyFits
    <3>5. CopyAlone' /\ w.failed = 0 /\ ~sealed => \A t \in w.took: SoleSource(t[1]) => RowOf(t) \in ToSet(w.left) \/ Arrived(t)'
      BY <1>5, <1>11, <3>2
    <3> QED
      BY <1>1, <3>1, <3>3, <3>4, <3>5 DEF CopyFits
  <2> QED
    BY <2>1, <2>2
<1> QED
  BY <1>1, <1>2, <1>3, <1>5, <1>6, <1>7, <1>8, <1>9, <1>12, <1>13, WorkerMoves

LEMMA UpdateProgressKeeps == ASSUME BulkInv, update_job_progress PROVE BulkInv'
<1> DEFINE j == "import_cells"
<1>1. Work(j, "rows") /\ UNCHANGED <<workers, bulkCells, sealed, cancels>> /\ j \in JobTypes
  BY DEF update_job_progress, JobTypes
<1>2. PICK w, was, entry: /\ w = workers[j] /\ was = jobs[j] /\ entry = [was EXCEPT !.processed = w.processed, !.failed = w.failed]
                        /\ jobs' = [jobs EXCEPT ![j] = entry]
  BY Zenon DEF update_job_progress, Counts
<1>3. WorkerIs(w) /\ RowFits(j) /\ WorkerFits(j) /\ was \in JobRow /\ w.at = "rows"
  BY <1>1, <1>2 DEF BulkInv, BulkTyped, Work
<1>4. entry \in JobRow /\ entry.status = was.status /\ entry.processed = w.processed /\ entry.failed = w.failed
  BY <1>2, <1>3 DEF JobRow, WorkerIs
<1>5. was.status # "none" /\ was.status # "completed"
  BY <1>2, <1>3 DEF RowFits, Work
<1>6. jobs'[j] = entry /\ workers' = [workers EXCEPT ![j] = w]
  BY <1>1, <1>2 DEF BulkInv, BulkTyped
<1>7. RowFits(j)'
  BY <1>1, <1>2, <1>3, <1>4, <1>5, <1>6 DEF RowFits, Work, WorkerIs
<1>8. WorkerFits(j)'
  BY <1>1, <1>3 DEF WorkerFits
<1>9. (CopyAlone' => CopyAlone) /\ (DeleteAlone' => DeleteAlone)
  BY <1>1, <1>2, <1>4, <1>5, NobodyBack
<1>10. CopyFits'
  BY <1>1, <1>9, CopyRests
<1>11. DeleteFits'
  BY <1>1, <1>9, DeleteRests DEF Work
<1>12. IsFiniteSet(DOMAIN bulkCells') /\ \A k \in DOMAIN bulkCells': k = <<k[1], k[2]>>
  BY <1>1 DEF BulkInv, BulkTyped
<1>13. cancels' \in [Cancellers -> Cancellation] /\ \A c \in Cancellers: cancels'[c] = cancels[c]
  BY <1>1 DEF BulkInv, BulkTyped
<1> QED
  BY <1>1, <1>2, <1>3, <1>4, <1>5, <1>6, <1>7, <1>8, <1>10, <1>11, <1>12, <1>13, JobMoves

LEMMA FindCellsKeeps == ASSUME BulkInv, FindCells PROVE BulkInv'
<1> DEFINE j == "delete_cells"
<1>1. Work(j, "rows") /\ UNCHANGED <<jobs, bulkCells, sealed, cancels>> /\ j \in JobTypes /\ "copy_cells" \in JobTypes
  BY DEF FindCells, JobTypes
<1>2. PICK old, w: old = workers[j] /\ w = [old EXCEPT !.at = "found", !.took = TargetCells] /\ workers' = [workers EXCEPT ![j] = w]
  BY Zenon DEF FindCells, TargetCells
<1>3. WorkerIs(old) /\ old.at = "rows" /\ HasCounted(j, old)
  BY <1>1, <1>2 DEF BulkInv, BulkTyped, Work, WorkerFits
<1>4. /\ w.at = "found" /\ w.left = old.left /\ w.items = old.items /\ w.took = TargetCells
      /\ w.processed = old.processed /\ w.failed = old.failed /\ WorkerIs(w) /\ old.processed \in Nat /\ old.failed \in Nat
  BY <1>2, <1>3 DEF WorkerIs
<1>5. IsFiniteSet(DOMAIN bulkCells) /\ \A k \in DOMAIN bulkCells: k = <<k[1], k[2]>>
  BY DEF BulkInv, BulkTyped
<1>6. IsFiniteSet(TargetCells)
  BY <1>5, FS_Subset DEF TargetCells
<1>7. HasCounted(j, w)
  BY <1>3, <1>4, <1>6 DEF HasCounted
<1>8. workers'[j] = w /\ \A i \in JobTypes: i # j => workers'[i] = workers[i]
  BY <1>1, <1>2 DEF BulkInv, BulkTyped
<1>9. (CopyAlone' => CopyAlone) /\ TargetCells' = TargetCells
  BY <1>1 DEF CopyAlone, TargetCells
<1>10. CopyFits'
  BY <1>1, <1>8, <1>9, CopyRests
<1>11. DeleteFits'
  BY <1>4, <1>8, <1>9 DEF DeleteFits, Work
<1>12. old.processed <= w.processed /\ old.failed <= w.failed
  BY <1>4
<1> QED
  BY <1>1, <1>2, <1>3, <1>4, <1>5, <1>7, <1>10, <1>11, <1>12, WorkerMoves

LEMMA DeleteCellsKeeps == ASSUME BulkInv, DeleteCells PROVE BulkInv'
<1> DEFINE j == "delete_cells"
<1>1. Work(j, "found") /\ UNCHANGED <<jobs, sealed, cancels>> /\ j \in JobTypes /\ "copy_cells" \in JobTypes
  BY DEF DeleteCells, JobTypes
<1>2. PICK old, w: /\ old = workers[j] /\ w = [old EXCEPT !.at = "deleted", !.processed = Cardinality(old.took)]
                   /\ workers' = [workers EXCEPT ![j] = w] /\ bulkCells' = [k \in DOMAIN bulkCells \ old.took |-> bulkCells[k]]
  BY Zenon DEF DeleteCells
<1>3. WorkerIs(old) /\ old.at = "found" /\ HasCounted(j, old)
  BY <1>1, <1>2 DEF BulkInv, BulkTyped, Work, WorkerFits
<1>4. IsFiniteSet(old.took) /\ old.processed = 0 /\ old.left = <<>> /\ old.failed \in Nat
  BY <1>3 DEF HasCounted, WorkerIs
<1>5. Cardinality(old.took) \in Nat
  BY <1>4, FS_CardinalityType
<1>6. /\ w.at = "deleted" /\ w.left = old.left /\ w.items = old.items /\ w.took = old.took
      /\ w.processed = Cardinality(old.took) /\ w.failed = old.failed /\ WorkerIs(w)
  BY <1>2, <1>3, <1>5 DEF WorkerIs
<1>7. HasCounted(j, w)
  BY <1>4, <1>6 DEF HasCounted
<1>8. workers'[j] = w /\ \A i \in JobTypes: i # j => workers'[i] = workers[i]
  BY <1>1, <1>2 DEF BulkInv, BulkTyped
<1>9. IsFiniteSet(DOMAIN bulkCells') /\ \A k \in DOMAIN bulkCells': k = <<k[1], k[2]>>
  <2>1. IsFiniteSet(DOMAIN bulkCells) /\ \A k \in DOMAIN bulkCells: k = <<k[1], k[2]>>
    BY DEF BulkInv, BulkTyped
  <2>2. DOMAIN bulkCells' \subseteq DOMAIN bulkCells
    BY <1>2
  <2>3. IsFiniteSet(DOMAIN bulkCells')
    BY <2>1, <2>2, FS_Subset, Zenon
  <2> QED
    BY <2>1, <2>2, <2>3
<1>10. ~CopyAlone /\ ~CopyAlone'
  <2>1. ~CopyAlone
    BY <1>1, <1>2, <1>3, AtWork DEF Work
  <2> QED
    BY <1>1, <2>1 DEF CopyAlone
<1>11. CopyFits'
  BY <1>1, <1>8, <1>10, CopyRests
<1>12. DeleteFits'
  <2>1. DeleteAlone' => DeleteAlone
    BY <1>1 DEF DeleteAlone
  <2>2. DeleteAlone => TargetCells \subseteq old.took
    BY <1>1, <1>2 DEF BulkInv, DeleteFits
  <2>3. TargetCells' = TargetCells \ old.took
    BY <1>2 DEF TargetCells
  <2> QED
    BY <1>6, <1>8, <2>1, <2>2, <2>3 DEF DeleteFits, Work
<1>13. old.processed <= w.processed /\ old.failed <= w.failed
  BY <1>4, <1>5, <1>6
<1> QED
  BY <1>1, <1>2, <1>3, <1>6, <1>7, <1>9, <1>11, <1>12, <1>13, WorkerMoves

LEMMA SessionFailsKeeps ==
  ASSUME BulkInv, NEW j \in JobTypes, SessionFails(j) PROVE BulkInv'
<1>1. workers[j].at \in {"created", "rows", "found", "deleted"} /\ UNCHANGED <<jobs, bulkCells, sealed, cancels>>
  BY DEF SessionFails
<1>2. PICK old, w: old = workers[j] /\ w = [old EXCEPT !.at = "broken"] /\ workers' = [workers EXCEPT ![j] = w]
  BY Zenon DEF SessionFails
<1>3. WorkerIs(old) /\ HasCounted(j, old)
  BY <1>2 DEF BulkInv, BulkTyped, WorkerFits
<1>4. /\ w.at = "broken" /\ w.left = old.left /\ w.items = old.items /\ w.took = old.took
      /\ w.processed = old.processed /\ w.failed = old.failed /\ WorkerIs(w) /\ old.processed \in Nat /\ old.failed \in Nat
  BY <1>2, <1>3 DEF WorkerIs
<1>5. HasCounted(j, w)
  BY <1>3, <1>4 DEF HasCounted
<1>6. workers'[j] = w /\ (\A i \in JobTypes: i # j => workers'[i] = workers[i]) /\ {"copy_cells", "delete_cells"} \subseteq JobTypes
  BY <1>2 DEF BulkInv, BulkTyped, JobTypes
<1>7. CopyFits'
  <2>1. LET x == workers["copy_cells"] y == workers'["copy_cells"] IN y.items = x.items /\ y.left = x.left /\ y.took = x.took /\ y.failed = x.failed
    BY <1>2, <1>4, <1>6
  <2> QED
    BY <1>1, <2>1, CopyRests DEF CopyAlone
<1>8. DeleteFits'
  <2>1. workers'["delete_cells"].at \in {"found", "deleted", "done"} => workers'["delete_cells"] = workers["delete_cells"]
    BY <1>4, <1>6
  <2> QED
    BY <1>1, <2>1, DeleteRests DEF DeleteAlone, Work
<1>9. IsFiniteSet(DOMAIN bulkCells') /\ \A k \in DOMAIN bulkCells': k = <<k[1], k[2]>>
  BY <1>1 DEF BulkInv, BulkTyped
<1>10. old.processed <= w.processed /\ old.failed <= w.failed
  BY <1>4
<1> QED
  BY <1>1, <1>2, <1>4, <1>5, <1>7, <1>8, <1>9, <1>10, WorkerMoves

LEMMA LoadJobKeeps ==
  ASSUME BulkInv, NEW c \in Cancellers, NEW j \in JobTypes, LoadJob(c, j) PROVE BulkInv'
<1>1. UNCHANGED <<jobs, workers, bulkCells, sealed>> /\ jobs[j].status \in {"pending", "running"}
  BY DEF LoadJob
<1>2. PICK load: load = [job |-> j, status |-> jobs[j].status] /\ cancels' = [cancels EXCEPT ![c] = load]
  BY Zenon DEF LoadJob
<1>3. load \in Cancellation /\ load.job = j
  BY <1>1, <1>2 DEF Cancellation
<1>4. cancels' \in [Cancellers -> Cancellation] /\ \A d \in Cancellers: cancels'[d] = IF d = c THEN load ELSE cancels[d]
  BY <1>2, <1>3 DEF BulkInv, BulkTyped
<1>5. BulkTyped'
  BY <1>1, <1>4 DEF BulkInv, BulkTyped
<1>6. \A d \in Cancellers: CancelFits(d)'
  BY <1>1, <1>3, <1>4 DEF BulkInv, CancelFits
<1>7. CopyFits'
  BY <1>1, CopyRests DEF CopyAlone
<1>8. DeleteFits'
  BY <1>1, DeleteRests DEF DeleteAlone, Work
<1>9. \A i \in JobTypes: RowFits(i)' /\ WorkerFits(i)'
  BY <1>1 DEF BulkInv, RowFits, WorkerFits, Work
<1> QED
  BY <1>5, <1>6, <1>7, <1>8, <1>9 DEF BulkInv

LEMMA CancelKeeps == ASSUME BulkInv, NEW c \in Cancellers, cancel_bulk_job(c) PROVE BulkInv'
<1>1. cancels[c] # NoCancel /\ UNCHANGED <<workers, bulkCells, sealed>>
  BY DEF cancel_bulk_job
<1>2. PICK j, w, was, entry: /\ j = cancels[c].job /\ w = workers[j] /\ was = jobs[j]
                           /\ entry = [was EXCEPT !.status = "cancelled", !.ended = TRUE] /\ jobs' = [jobs EXCEPT ![j] = entry]
  BY Zenon DEF cancel_bulk_job
<1>3. PICK load, done: /\ load = cancels[c] /\ done = [load EXCEPT !.status = "done"] /\ cancels' = [cancels EXCEPT ![c] = done]
  BY Zenon DEF cancel_bulk_job
<1>4. j \in JobTypes /\ was.status # "none" /\ load \in Cancellation
  BY <1>1, <1>2, <1>3 DEF BulkInv, BulkTyped, CancelFits
<1>5. WorkerIs(w) /\ RowFits(j) /\ WorkerFits(j) /\ was \in JobRow
  BY <1>2, <1>4 DEF BulkInv, BulkTyped
<1>6. entry \in JobRow /\ entry.status = "cancelled" /\ entry.ended = TRUE /\ entry.processed = was.processed /\ entry.failed = was.failed
  BY <1>2, <1>5 DEF JobRow
<1>7. done \in Cancellation /\ done.job = j
  BY <1>2, <1>3, <1>4 DEF Cancellation
<1>8. jobs'[j] = entry /\ workers' = [workers EXCEPT ![j] = w]
  BY <1>1, <1>2, <1>4 DEF BulkInv, BulkTyped
<1>9. RowFits(j)'
  BY <1>1, <1>2, <1>4, <1>5, <1>6, <1>8 DEF RowFits, Work
<1>10. WorkerFits(j)'
  BY <1>1, <1>5 DEF WorkerFits
<1>11. (CopyAlone' => CopyAlone) /\ (DeleteAlone' => DeleteAlone)
  BY <1>2, <1>4, <1>6, NobodyBack
<1>12. CopyFits'
  BY <1>1, <1>11, CopyRests
<1>13. DeleteFits'
  BY <1>1, <1>11, DeleteRests DEF Work
<1>14. IsFiniteSet(DOMAIN bulkCells') /\ \A k \in DOMAIN bulkCells': k = <<k[1], k[2]>>
  BY <1>1 DEF BulkInv, BulkTyped
<1>15. cancels' \in [Cancellers -> Cancellation] /\ \A d \in Cancellers: cancels'[d] = IF d = c THEN done ELSE cancels[d]
  BY <1>3, <1>7 DEF BulkInv, BulkTyped
<1>16. \A d \in Cancellers: cancels'[d] = cancels[d] \/ (cancels'[d].job \in JobTypes /\ jobs'[cancels'[d].job].status # "none")
  BY <1>4, <1>6, <1>7, <1>8, <1>15
<1>17. sealed' = sealed /\ entry.status # "none"
  BY <1>1, <1>6
<1> QED
  BY <1>2, <1>4, <1>5, <1>6, <1>8, <1>9, <1>10, <1>12, <1>13, <1>14, <1>15, <1>16, <1>17, JobMoves

LEMMA ReadSourceKeeps == ASSUME BulkInv, ReadSource PROVE BulkInv'
<1> DEFINE j == "copy_cells"
<1>1. Work(j, "rows") /\ workers[j].left = <<>> /\ UNCHANGED <<jobs, bulkCells, sealed, cancels>> /\ j \in JobTypes
  BY DEF ReadSource, JobTypes
<1>2. PICK m, found, list, read, old, w:
        /\ m \in workers[j].items /\ old = workers[j] /\ found = {k \in DOMAIN bulkCells: k[1] = m[1]}
        /\ list = {[item |-> m[2], key |-> k[2], value |-> ReadValue(k)]: k \in found}
        /\ read = {<<m, k, bulkCells[k]>>: k \in found}
        /\ w = [old EXCEPT !.items = old.items \ {m}, !.left = SetToSeq(list), !.took = old.took \cup read]
        /\ workers' = [workers EXCEPT ![j] = w]
  <2> DEFINE Found(m) == {k \in DOMAIN bulkCells: k[1] = m[1]}
             Rest(m) == [workers[j] EXCEPT !.items = workers[j].items \ {m},
                          !.left = SetToSeq({[item |-> m[2], key |-> k[2], value |-> ReadValue(k)]: k \in Found(m)}),
                          !.took = workers[j].took \cup {<<m, k, bulkCells[k]>>: k \in Found(m)}]
  <2>1. PICK m \in workers[j].items: workers' = [workers EXCEPT ![j] = Rest(m)]
    BY Zenon DEF ReadSource
  <2> QED
    BY <2>1, Zenon
<1>3. WorkerIs(old) /\ old.at = "rows" /\ HasCounted(j, old) /\ CopyFits /\ old.left = <<>>
  BY <1>1, <1>2 DEF BulkInv, BulkTyped, Work, WorkerFits
<1>4. IsFiniteSet(DOMAIN bulkCells) /\ \A k \in DOMAIN bulkCells: k = <<k[1], k[2]>>
  BY DEF BulkInv, BulkTyped
<1>5. IsFiniteSet(found) /\ \A k \in found: k \in DOMAIN bulkCells /\ k = <<m[1], k[2]>>
  <2>1. found \subseteq DOMAIN bulkCells
    BY <1>2
  <2> QED
    BY <1>2, <1>4, <2>1, FS_Subset
<1>6. IsFiniteSet(list) /\ Cardinality(list) = Cardinality(found)
  <2> DEFINE f == [k \in found |-> [item |-> m[2], key |-> k[2], value |-> ReadValue(k)]]
  <2>1. \A x, y \in found: f[x] = f[y] => x = y
    <3>1. ASSUME NEW x \in found, NEW y \in found, f[x] = f[y] PROVE x = y
      <4>1. f[x].key = x[2] /\ f[y].key = y[2]
        OBVIOUS
      <4>2. x[2] = y[2]
        BY <3>1, <4>1
      <4> QED
        BY <1>5, <4>2
    <3> QED
      BY <3>1
  <2>2. DOMAIN f = found
    OBVIOUS
  <2>3. list = {f[k]: k \in found}
    BY <1>2
  <2> HIDE DEF f
  <2> QED
    BY <1>5, <2>1, <2>2, <2>3, AsMany
<1>7. IsFiniteSet(read) /\ Cardinality(read) = Cardinality(found)
  <2> DEFINE f == [k \in found |-> <<m, k, bulkCells[k]>>]
  <2>1. \A x, y \in found: f[x] = f[y] => x = y
    OBVIOUS
  <2>2. DOMAIN f = found
    OBVIOUS
  <2>3. read = {f[k]: k \in found}
    BY <1>2
  <2> HIDE DEF f
  <2> QED
    BY <1>5, <2>1, <2>2, <2>3, AsMany
<1>8. PICK left: left = SetToSeq(list) /\ IsList(left) /\ Len(left) = Cardinality(list) /\ ToSet(left) = list
  BY <1>6, ListOfSet, ListedIs
<1>9. /\ w.at = "rows" /\ w.left = left /\ w.items = old.items \ {m} /\ w.took = old.took \cup read
      /\ w.processed = old.processed /\ w.failed = old.failed /\ WorkerIs(w)
  BY <1>2, <1>3, <1>8 DEF WorkerIs
<1>10. workers'[j] = w /\ \A i \in JobTypes: i # j => workers'[i] = workers[i]
  BY <1>1, <1>2 DEF BulkInv, BulkTyped
<1>11. /\ old.items \subseteq Mapping /\ m \in old.items
       /\ \A t \in old.took: t[1] \in Mapping \ old.items /\ t[2] = <<t[1][1], t[2][2]>>
       /\ \A t, u \in old.took: t[1] = u[1] /\ t[2] = u[2] => t[3] = u[3]
       /\ CopyAlone /\ old.failed = 0 /\ ~sealed => \A t \in old.took: SoleSource(t[1]) => RowOf(t) \in ToSet(<<>>) \/ Arrived(t)
  BY <1>2, <1>3 DEF CopyFits
<1>12. \A t \in read: t[1] = m /\ t[2] \in found /\ t[3] = bulkCells[t[2]]
  BY <1>2
<1>13. HasCounted(j, w)
  <2>1. old.took \cap read = {}
    BY <1>11, <1>12
  <2>2. IsFiniteSet(old.took) /\ old.processed + old.failed + Len(<<>>) = Cardinality(old.took)
    BY <1>3 DEF HasCounted
  <2>3. Cardinality({}) = 0 /\ Len(<<>>) = 0
    BY FS_EmptySet
  <2>4. /\ IsFiniteSet(old.took \cup read)
        /\ Cardinality(old.took \cup read) = Cardinality(old.took) + Cardinality(read) - Cardinality(old.took \cap read)
    BY <1>7, <2>2, FS_Union
  <2>5. PICK a \in Nat, b \in Nat, n \in Nat, p \in Nat:
          a = old.processed /\ b = old.failed /\ n = Cardinality(found) /\ p = Cardinality(old.took)
    <3>1. Cardinality(found) \in Nat /\ Cardinality(old.took) \in Nat
      BY <1>5, <2>2, FS_CardinalityType
    <3> QED
      BY <1>3, <3>1 DEF WorkerIs
  <2>6. a + b = p
    BY <2>2, <2>3, <2>5
  <2>7. Cardinality(w.took) = p + n
    <3>1. Cardinality(read) = n /\ Cardinality(old.took) = p /\ Cardinality(old.took \cap read) = 0
      BY <1>7, <2>1, <2>3, <2>5, Zenon
    <3>2. Cardinality(w.took) = p + n - 0
      BY <1>9, <2>4, <3>1, Zenon
    <3> QED
      BY <3>2
  <2>8. Len(w.left) = n /\ w.processed = a /\ w.failed = b
    BY <1>6, <1>8, <1>9, <2>5
  <2>9. w.processed + w.failed + Len(w.left) = Cardinality(w.took)
    BY <2>6, <2>7, <2>8
  <2> QED
    BY <1>9, <2>4, <2>9 DEF HasCounted
<1>14. CopyFits'
  <2>1. w.items \subseteq Mapping
    BY <1>9, <1>11
  <2>2. ASSUME NEW t \in w.took PROVE t[1] \in Mapping \ w.items /\ t[2] = <<t[1][1], t[2][2]>>
    <3>1. CASE t \in old.took
      BY <1>9, <1>11, <3>1
    <3>2. CASE t \in read
      BY <1>5, <1>9, <1>11, <1>12, <3>2
    <3> QED
      BY <1>9, <3>1, <3>2
  <2>3. ASSUME NEW t \in w.took, NEW u \in w.took, t[1] = u[1], t[2] = u[2] PROVE t[3] = u[3]
    BY <1>9, <1>11, <1>12, <2>3
  <2>4. ASSUME ~sealed, NEW k \in found
        PROVE  RowOf(<<m, k, bulkCells[k]>>) = [item |-> m[2], key |-> k[2], value |-> ReadValue(k)]
    BY <2>4 DEF RowOf, ReadValue
  <2>5. ~sealed => \A r \in ToSet(w.left): \E t \in w.took: r = RowOf(t)
    <3>1. ASSUME ~sealed, NEW r \in list PROVE \E t \in w.took: r = RowOf(t)
      <4>1. PICK k \in found: r = [item |-> m[2], key |-> k[2], value |-> ReadValue(k)]
        BY <1>2
      <4>2. <<m, k, bulkCells[k]>> \in w.took
        BY <1>2, <1>9
      <4>3. r = RowOf(<<m, k, bulkCells[k]>>)
        BY <2>4, <3>1, <4>1
      <4> QED
        BY <4>2, <4>3
    <3> QED
      BY <1>8, <1>9, <3>1
  <2>6. ASSUME CopyAlone, w.failed = 0, ~sealed, NEW t \in w.took, SoleSource(t[1]) PROVE RowOf(t) \in ToSet(w.left) \/ Arrived(t)
    <3>1. CASE t \in old.took
      <4>1. ToSet(<<>>) = {}
        BY DEF ToSet
      <4> QED
        BY <1>9, <1>11, <2>6, <3>1, <4>1
    <3>2. CASE t \in read
      <4>1. PICK k \in found: t = <<m, k, bulkCells[k]>>
        BY <1>2, <3>2
      <4>2. RowOf(t) \in list
        BY <1>2, <2>4, <2>6, <4>1
      <4> QED
        BY <1>8, <1>9, <4>2
    <3> QED
      BY <1>9, <3>1, <3>2
  <2>7. (CopyAlone' <=> CopyAlone) /\ \A t: Arrived(t)' <=> Arrived(t)
    BY <1>1 DEF CopyAlone, Arrived
  <2> QED
    BY <1>1, <1>10, <2>1, <2>2, <2>3, <2>5, <2>6, <2>7 DEF CopyFits
<1>15. DeleteFits'
  BY <1>1, <1>10, DeleteRests DEF DeleteAlone, Work, JobTypes
<1>16. old.processed <= w.processed /\ old.failed <= w.failed
  BY <1>3, <1>9 DEF WorkerIs
<1> QED
  BY <1>1, <1>2, <1>3, <1>4, <1>9, <1>13, <1>14, <1>15, <1>16, WorkerMoves

LEMMA BulkStepKeeps == BulkInv /\ [BulkNext]_bulkVars => BulkInv'
<1> SUFFICES ASSUME BulkInv, [BulkNext]_bulkVars PROVE BulkInv'
  OBVIOUS
<1>1. CASE UNCHANGED bulkVars
  <2>1. UNCHANGED <<jobs, workers, bulkCells, sealed, cancels>>
    BY <1>1 DEF bulkVars
  <2>2. BulkTyped' /\ \A c \in Cancellers: CancelFits(c)'
    BY <2>1 DEF BulkInv, BulkTyped, CancelFits
  <2>3. CopyFits'
    BY <2>1, CopyRests DEF CopyAlone
  <2>4. DeleteFits'
    BY <2>1, DeleteRests DEF DeleteAlone, Work
  <2>5. \A i \in JobTypes: RowFits(i)' /\ WorkerFits(i)'
    BY <2>1 DEF BulkInv, RowFits, WorkerFits, Work
  <2> QED
    BY <2>2, <2>3, <2>4, <2>5 DEF BulkInv
<1>2. ASSUME NEW j \in JobTypes, create_bulk_job(j) \/ MarkRunning(j) \/ HandleRow(j) \/ SessionFails(j) \/ complete_job(j) PROVE BulkInv'
  BY <1>2, CreateKeeps, MarkRunningKeeps, HandleRowKeeps, SessionFailsKeeps, CompleteJobKeeps
<1>3. CASE update_job_progress \/ ReadSource \/ FindCells \/ DeleteCells
  BY <1>3, UpdateProgressKeeps, ReadSourceKeeps, FindCellsKeeps, DeleteCellsKeeps
<1>4. ASSUME NEW c \in Cancellers, cancel_bulk_job(c) \/ \E j \in JobTypes: LoadJob(c, j) PROVE BulkInv'
  BY <1>4, CancelKeeps, LoadJobKeeps
<1> QED
  BY <1>1, <1>2, <1>3, <1>4 DEF BulkNext

-------------------------------------------------------------------------------
(* What holds of every request MCRequests explores.                         *)

\* A step of the composition is a step or a stutter of each component.
LEMMA OneAtATime ==
  ASSUME [ReqNext]_<<focus, vars, wfVars, batchVars, bulkVars, presenceVars, scVars, ccVars>>
  PROVE  [WorkflowNext]_wfVars /\ [ScalingNext]_scVars /\ [CacheNext]_ccVars /\ [PresenceNext]_presenceVars
         /\ [BatchNext]_batchVars /\ [BulkNext]_bulkVars
BY DEF ReqNext

\* However sets, invalidations, recalculations and clearings of cached values
\* overlap (set_cached_value, invalidate_dependents, recalculate_stale,
\* clear_cache), a row is served with the value and hash one caller computed,
\* unless two of its sets overlapped, and an invalidated row is not served
\* before a set that loaded it invalid or a recalculation.
THEOREM ServesWhatWasSetAlways == ReqSpec => []ServesWhatWasSet
<1>1. ReqInit => CacheInv
  BY CacheInvInit DEF ReqInit
<1>2. CacheInv /\ [ReqNext]_<<focus, vars, wfVars, batchVars, bulkVars, presenceVars, scVars, ccVars>> => CacheInv'
  BY OneAtATime, CacheStepKeeps
<1> QED
  BY <1>1, <1>2, CacheInvServes, PTL DEF ReqSpec

\* However requests on a workflow overlap (approve_task, reject_task,
\* delete_stage, get_workflow_progress), a task tells the story of its
\* decisions, no task outlives its stage and no stage its workflow, and the
\* gates counted as completed are those that are.
THEOREM WorkflowsAgreeAlways == ReqSpec => []WorkflowsAgree
<1>1. ReqInit => WfInv
  BY WfInvInit DEF ReqInit
<1>2. WfInv /\ [ReqNext]_<<focus, vars, wfVars, batchVars, bulkVars, presenceVars, scVars, ccVars>> => WfInv'
  BY OneAtATime, WfStepKeeps
<1>3. WfInv => WorkflowsAgree
  BY WfInvAgrees DEF WorkflowsAgree
<1> QED
  BY <1>1, <1>2, <1>3, PTL DEF ReqSpec

\* Whatever calls of Redis fail and whatever expires (assign_model,
\* get_model_assignment, set_cache_entry, publish_event), nodes use what they
\* remember alone after a fault or a lost assignment only, Redis names one
\* node between forced or expired assignments, and its list holds the newest
\* events and no more than the cap and the pushes not yet trimmed.
THEOREM NodesAgreeAlways == ReqSpec => []NodesAgree
<1>1. ReqInit => ScInv
  BY ScInvInit DEF ReqInit
<1>2. ScInv /\ [ReqNext]_<<focus, vars, wfVars, batchVars, bulkVars, presenceVars, scVars, ccVars>> => ScInv'
  BY OneAtATime, ScStepKeeps
<1> QED
  BY <1>1, <1>2, ScInvAgrees, PTL DEF ReqSpec

\* However sockets open, speak, vanish and leave (register_presence, connect,
\* broadcast, disconnect, remove_presence), a user with one connection stays
\* listed and has its row as long as it is served, has two rows only if
\* registrations overlapped, and what stays behind is a connection whose join
\* broadcast failed.
THEOREM PresenceFollowsSocketsAlways == ReqSpec => []PresenceFollowsSockets
<1>1. ReqInit => PresInv
  BY PresInvInit DEF ReqInit
<1>2. PresInv /\ [ReqNext]_<<focus, vars, wfVars, batchVars, bulkVars, presenceVars, scVars, ccVars>> => PresInv'
  BY OneAtATime, PresStepKeeps
<1> QED
  BY <1>1, <1>2, PresInvFollows, PTL DEF ReqSpec

\* However additions to a batch and its closings overlap (add_batch_operation,
\* commit_batch, rollback_batch), the batch holds every addition that nobody
\* overwrote; however bulk jobs and their cancellations overlap
\* (bulk_write_cells, bulk_copy_cells, bulk_delete_cells, cancel_bulk_job), a
\* job that is done accounts for every row and has ended, an undisturbed copy
\* without failures has arrived in each target of a single source, and a
\* deletion leaves none of the cells it found.
THEOREM BulkWorkAddsUpAlways == ReqSpec => []BulkWorkAddsUp
<1>1. ReqInit => BtInv /\ BulkInv
  BY BtInvInit, BulkInvInit DEF ReqInit
<1>2. BtInv /\ BulkInv /\ [ReqNext]_<<focus, vars, wfVars, batchVars, bulkVars, presenceVars, scVars, ccVars>> => BtInv' /\ BulkInv'
  BY OneAtATime, BtStepKeeps, BulkStepKeeps
<1>3. BtInv /\ BulkInv => BulkWorkAddsUp
  BY BulkInvAddsUp DEF BtInv, BulkWorkAddsUp
<1> QED
  BY <1>1, <1>2, <1>3, PTL DEF ReqSpec
===============================================================================
