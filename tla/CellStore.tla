------------------------------- MODULE CellStore -------------------------------
(***************************************************************************)
(* Cell values of one planning model: single and bulk upserts, deletion,   *)
(* the cell quota, encryption at rest with key rotation, and the mirror in *)
(* the calculation engine (services/cell.py, services/model_encryption.py, *)
(* services/workspace_quota.py, engine/rust_bridge.py).                    *)
(*                                                                         *)
(* Writers and Admins are concurrent HTTP requests.  Each has a database   *)
(* session of its own (READ COMMITTED) and gives way at every query.  The  *)
(* ORM sends an UPDATE of exactly the columns whose new value differs from *)
(* the value the session loaded, addressed by the primary key of the row   *)
(* it loaded: Merge is that UPDATE, and Gone stands for a loaded row that  *)
(* was deleted since, whose UPDATE matches nothing (StaleDataError).       *)
(***************************************************************************)
EXTENDS Integers, Sequences, FiniteSets

CONSTANTS Cells,     \* (line item, dimension key) pairs of the model
          Writers, Admins,
          Requests,  \* what writers ask for: sequences of [cell, value], cells distinct
          MaxCells,  \* WorkspaceQuota.max_cells_per_model
          MaxKeys,   \* bound on the key versions
          Deletable, \* line items whose cells may be deleted: sets of cells
          WritesDuringKeyChange, \* may writes and key changes overlap?
          Absent, Gone, NoPayload  \* no row; a loaded row that was deleted; no ciphertext

Columns == {"boolean", "number", "text"}
Null    == [type |-> "null", of |-> 0]

\* What a cell can be set to, and what its row can hold.
Values    == {Null} \union [type : Columns, of : Int]
StoredRow == [plain : [Columns -> Values], key : 0 .. MaxKeys,
              payload : {NoPayload} \union [key : 1 .. MaxKeys, value : Values]]

ASSUME CellStoreAssumption ==
    /\ MaxCells \in Nat /\ MaxKeys \in Nat
    /\ IsFiniteSet(Cells) /\ IsFiniteSet(Writers) /\ Writers # {}
    /\ Deletable \subseteq SUBSET Cells /\ WritesDuringKeyChange \in BOOLEAN
    /\ Requests \subseteq Seq([cell : Cells, value : Values]) \ {<<>>}
    /\ \A req \in Requests : \A i, j \in DOMAIN req : req[i].cell = req[j].cell => i = j
    /\ \E longest \in Requests : \A req \in Requests : Len(req) <= Len(longest)
    /\ Absent # Gone /\ {Absent, Gone} \intersect StoredRow = {}
    /\ NoPayload \notin [key : 1 .. MaxKeys, value : Values]

VARIABLES
    row,       \* cell_values: the row of each cell, or Absent
    keys,      \* model_encryption_keys: version -> "none", "active" or "inactive"
    engine,    \* the engine handle's copy of each cell's value, or Absent
    writer,    \* the state of each write request
    admin,     \* the state of each request that changes the key
    allowed,   \* history: the values a reader may find in a cell
    since      \* history: per writer and cell, the values committed since it began

data    == <<row, keys, engine>>
history == <<allowed, since>>
vars    == <<row, keys, engine, writer, admin, allowed, since>>

NoKey == 0

ActiveKey == LET active == {k \in 1 .. MaxKeys : keys[k] = "active"} IN
             IF active = {} THEN NoKey ELSE CHOOSE k \in active : \A j \in active : j <= k

\* _extract_value_and_type and _assign_cell_storage_values
Stored(v, key) ==
    IF key = NoKey
    THEN [plain |-> [col \in Columns |-> IF v.type = col THEN v ELSE Null],
          payload |-> NoPayload, key |-> NoKey]
    ELSE [plain |-> [col \in Columns |-> Null],
          payload |-> [key |-> key, value |-> v], key |-> key]

\* _resolve_key_for_cell and the decryption
Readable(r) ==
    r.payload # NoPayload => r.payload.key = (IF r.key # NoKey THEN r.key ELSE ActiveKey)

\* get_cell_scalar_value of a readable row, _legacy_cell_scalar for a plain one
Value(r) ==
    IF r.payload # NoPayload THEN r.payload.value
    ELSE IF r.plain["boolean"] # Null THEN r.plain["boolean"]
    ELSE IF r.plain["number"] # Null THEN r.plain["number"]
    ELSE r.plain["text"]

\* Mutant: a column is not cleared.
Merge_SkipsNull(db, loaded, new) ==
    IF loaded = Absent THEN new
    ELSE [new EXCEPT !.plain = [col \in Columns |-> IF new.plain[col] # Null
                                                     THEN new.plain[col] ELSE db.plain[col]]]

\* The INSERT or UPDATE that a flush sends.  Ciphertexts of equal values differ, so
\* that a payload is always sent.
Merge(db, loaded, new) ==
    IF loaded = Absent THEN new
    ELSE [plain |-> [col \in Columns |-> IF new.plain[col] # loaded.plain[col]
                                          THEN new.plain[col] ELSE db.plain[col]],
          payload |-> IF new.payload = NoPayload /\ loaded.payload = NoPayload
                      THEN db.payload ELSE new.payload,
          key |-> IF new.key # loaded.key THEN new.key ELSE db.key]

Rows == {c \in Cells : row[c] # Absent}
Nothing == [c \in {} |-> Absent]

IdleWriter == [at |-> "idle", req |-> <<>>, i |-> 0, phase |-> "first", tries |-> 0,
               loaded |-> Absent, batch |-> Nothing]
IdleAdmin  == [at |-> "idle", kind |-> "enable", version |-> 0, loaded |-> Nothing]

Init ==
    /\ row = [c \in Cells |-> Absent]
    /\ keys = [k \in 1 .. MaxKeys |-> "none"]
    /\ engine = [c \in Cells |-> Absent]
    /\ writer = [w \in Writers |-> IdleWriter]
    /\ admin = [a \in Admins |-> IdleAdmin]
    /\ allowed = [c \in Cells |-> {Absent}]
    /\ since = [w \in Writers |-> [c \in Cells |-> {}]]

Becomes(w, state) == writer' = [writer EXCEPT ![w] = state]
Ends(w) == Becomes(w, IdleWriter)
This(w) == writer[w].req[writer[w].i]

-------------------------------------------------------------------------------
(* write_cell (a request of one cell) and write_cells_bulk (of several).    *)

Begin(w, req) ==
    /\ writer[w].at = "idle"
    /\ WritesDuringKeyChange \/ \A a \in Admins : admin[a].at = "idle"
    /\ Becomes(w, [IdleWriter EXCEPT !.at = "load", !.req = req, !.i = 1])
    /\ since' = [since EXCEPT ![w] = [c \in Cells |-> {}]]
    /\ UNCHANGED <<data, admin, allowed>>

LoadRow(w) ==
    /\ writer[w].at = "load"
    /\ Becomes(w, [writer[w] EXCEPT !.at = "quota", !.loaded = row[This(w).cell]])
    /\ UNCHANGED <<data, admin, history>>

OwnInserts(w) == {c \in DOMAIN writer[w].batch : writer[w].batch[c].loaded = Absent}

WithinQuota_OffByOne(w) ==    \* Mutant.
    writer[w].loaded # Absent \/ Cardinality(Rows) + Cardinality(OwnInserts(w)) <= MaxCells
\* enforce_cell_write_quota: the count sees what the session has flushed itself.
WithinQuota(w) ==
    writer[w].loaded # Absent \/ Cardinality(Rows) + Cardinality(OwnInserts(w)) < MaxCells

CheckQuota(w) ==
    /\ writer[w].at = "quota" /\ WithinQuota(w)
    /\ Becomes(w, [writer[w] EXCEPT !.at = "key"])
    /\ UNCHANGED <<data, admin, history>>

\* The cell quota or, for whatever reason of size, the storage quota is exceeded.
QuotaRefuses(w) ==
    /\ writer[w].at = "quota"
    /\ Ends(w)
    /\ UNCHANGED <<data, admin, history>>

\* The active key is read and the row's new columns are set.
AssignValues(w) ==
    /\ writer[w].at = "key"
    /\ LET s     == writer[w]
           entry == [loaded |-> s.loaded, new |-> Stored(This(w).value, ActiveKey)]
           batch == [c \in DOMAIN s.batch \union {This(w).cell} |->
                        IF c = This(w).cell THEN entry ELSE s.batch[c]]
       IN IF s.i = Len(s.req)
          THEN Becomes(w, [s EXCEPT !.at = "commit", !.batch = batch])
          ELSE Becomes(w, [s EXCEPT !.at = "load", !.batch = batch, !.i = s.i + 1])
    /\ UNCHANGED <<data, admin, history>>

Batch(w) == DOMAIN writer[w].batch
Conflict(w) == \E c \in Batch(w) : writer[w].batch[c].loaded = Absent /\ row[c] # Absent
Stale(w) == \E c \in Batch(w) : writer[w].batch[c].loaded = Gone

Commit(w) ==
    /\ writer[w].at = "commit" /\ ~Conflict(w) /\ ~Stale(w)
    /\ LET b   == writer[w].batch
           new(c) == {Value(b[c].new)} IN
       /\ row' = [c \in Cells |-> IF c \in Batch(w)
                                  THEN Merge(row[c], b[c].loaded, b[c].new) ELSE row[c]]
       /\ Becomes(w, [writer[w] EXCEPT !.at = "refresh",
                        !.batch = [c \in Batch(w) |-> [b[c] EXCEPT !.loaded = b[c].new]]])
       /\ allowed' = [c \in Cells |-> IF c \in Batch(w) THEN new(c) \union since[w][c]
                                      ELSE allowed[c]]
       /\ since' = [x \in Writers |-> [c \in Cells |->
                       IF x # w /\ writer[x].at # "idle" /\ c \in Batch(w)
                       THEN since[x][c] \union new(c) ELSE since[x][c]]]
    /\ UNCHANGED <<keys, engine, admin>>

\* IntegrityError: another session inserted the row.  A single write goes on as an
\* update of that row, once; anything else, a deadlock victim too, is rolled back.
InsertLost(w) ==
    /\ writer[w].at = "commit" /\ Conflict(w)
    /\ Len(writer[w].req) = 1 /\ writer[w].phase = "first"
    /\ Becomes(w, [writer[w] EXCEPT !.at = "reload", !.batch = Nothing])
    /\ UNCHANGED <<data, admin, history>>

CommitFails(w) ==
    /\ writer[w].at = "commit"
    /\ ~(Conflict(w) /\ Len(writer[w].req) = 1 /\ writer[w].phase = "first")
    /\ Ends(w)
    /\ UNCHANGED <<data, admin, history>>

\* Up to three looks for the winner's row; after them the write starts from scratch.
Reload(w) ==
    /\ writer[w].at = "reload"
    /\ LET found == row[This(w).cell] IN
       Becomes(w,
         IF found # Absent
         THEN [writer[w] EXCEPT !.at = "key", !.phase = "reloaded", !.loaded = found]
         ELSE IF writer[w].tries < 2
         THEN [writer[w] EXCEPT !.tries = @ + 1]
         ELSE [writer[w] EXCEPT !.at = "load", !.phase = "scratch"])
    /\ UNCHANGED <<data, admin, history>>

\* refresh of what was written, and the values a client is answered; where a row was
\* deleted or cannot be decrypted the request ends in an error, after its commit.
Refresh(w) ==
    /\ writer[w].at = "refresh"
    /\ IF ~Stale(w) /\ \A c \in Batch(w) : Readable(row[c])
       THEN Becomes(w, [writer[w] EXCEPT !.at = "sync",
                          !.batch = [c \in Batch(w) |-> [@[c] EXCEPT !.new = row[c]]]])
       ELSE Ends(w)
    /\ UNCHANGED <<data, admin, history>>

\* _sync_engine_after_commit: what the refresh read goes to the engine's handle.
SyncEngine(w) ==
    /\ writer[w].at = "sync"
    /\ engine' = [c \in Cells |-> IF c \in Batch(w) THEN Value(writer[w].batch[c].new)
                                  ELSE engine[c]]
    /\ Ends(w)
    /\ UNCHANGED <<row, keys, admin, history>>

\* delete_cells_for_line_item, for a line item with the cells C.  The engine keeps them.
DeleteCells(w, item) ==
    LET C == item \intersect Rows
        orphaned(c, loaded) == IF c \in C /\ loaded # Absent THEN Gone ELSE loaded IN
    /\ writer[w].at = "idle" /\ C # {}
    /\ row' = [c \in Cells |-> IF c \in C THEN Absent ELSE row[c]]
    /\ writer' = [x \in Writers |->
          LET s == writer[x] IN
          [s EXCEPT !.loaded = IF s.at \in {"quota", "key"} THEN orphaned(This(x).cell, @)
                               ELSE @,
                    !.batch = [c \in DOMAIN s.batch |->
                                 [s.batch[c] EXCEPT !.loaded = orphaned(c, @)]]]]
    /\ admin' = [a \in Admins |->
          [admin[a] EXCEPT !.loaded = [c \in DOMAIN @ |-> orphaned(c, @[c])]]]
    /\ allowed' = [c \in Cells |-> IF c \in C THEN {Absent} ELSE allowed[c]]
    /\ since' = [x \in Writers |-> [c \in Cells |->
                    IF writer[x].at # "idle" /\ c \in C
                    THEN since[x][c] \union {Absent} ELSE since[x][c]]]
    /\ UNCHANGED <<keys, engine>>

-------------------------------------------------------------------------------
(* enable_model_encryption and rotate_model_encryption_key.                 *)

Step(a, state) == admin' = [admin EXCEPT ![a] = state]

BeginKeyChange(a, kind) ==
    /\ admin[a].at = "idle"
    /\ (kind = "enable") <=> (ActiveKey = NoKey)
    /\ WritesDuringKeyChange \/ \A w \in Writers : writer[w].at = "idle"
    /\ Step(a, [IdleAdmin EXCEPT !.at = "version", !.kind = kind])
    /\ UNCHANGED <<data, writer, history>>

\* _next_key_version
NextKeyVersion(a) ==
    /\ admin[a].at = "version"
    /\ LET version == Cardinality({k \in 1 .. MaxKeys : keys[k] # "none"}) + 1 IN
       /\ version <= MaxKeys
       /\ Step(a, [admin[a] EXCEPT !.at = "insert", !.version = version])
    /\ UNCHANGED <<data, writer, history>>

\* The flush of the new key: the unique constraint on (model, version) makes it wait
\* for another session's uncommitted key of that version, and fail if it is committed.
InsertKey(a) ==
    /\ admin[a].at = "insert"
    /\ \A b \in Admins \ {a} : ~(admin[b].at \in {"select", "commit"}
                                 /\ admin[b].version = admin[a].version)
    /\ Step(a, IF keys[admin[a].version] = "none"
               THEN [admin[a] EXCEPT !.at = "select"] ELSE IdleAdmin)
    /\ UNCHANGED <<data, writer, history>>

\* _reencrypt_model_cells reads every cell, and raises if it cannot decrypt one.
SelectCells(a) ==
    /\ admin[a].at = "select"
    /\ Step(a, IF \A c \in Rows : Readable(row[c])
               THEN [admin[a] EXCEPT !.at = "commit", !.loaded = [c \in Rows |-> row[c]]]
               ELSE IdleAdmin)
    /\ UNCHANGED <<data, writer, history>>

Reencrypted(a, c) == Stored(Value(admin[a].loaded[c]), admin[a].version)

\* Mutant: the cells' key ids are not moved to the new key.
CommitKey_KeyIdKept(a) ==
    LET loaded == admin[a].loaded IN
    /\ admin[a].at = "commit" /\ \A c \in DOMAIN loaded : loaded[c] # Gone
    /\ row' = [c \in Cells |-> IF c \in DOMAIN loaded
                 THEN [Merge(row[c], loaded[c], Reencrypted(a, c)) EXCEPT !.key = row[c].key]
                 ELSE row[c]]
    /\ keys' = [k \in 1 .. MaxKeys |-> IF k = admin[a].version THEN "active"
                                       ELSE IF keys[k] = "none" THEN "none" ELSE "inactive"]
    /\ Step(a, IdleAdmin)
    /\ UNCHANGED <<engine, writer, history>>

\* The commit; a rotation leaves only its own key active, enabling touches no other.
CommitKey(a) ==
    LET loaded == admin[a].loaded IN
    /\ admin[a].at = "commit" /\ \A c \in DOMAIN loaded : loaded[c] # Gone
    /\ row' = [c \in Cells |-> IF c \in DOMAIN loaded
                               THEN Merge(row[c], loaded[c], Reencrypted(a, c)) ELSE row[c]]
    /\ keys' = [k \in 1 .. MaxKeys |->
                  IF k = admin[a].version THEN "active"
                  ELSE IF admin[a].kind = "rotate" /\ keys[k] # "none" THEN "inactive"
                  ELSE keys[k]]
    /\ Step(a, IdleAdmin)
    /\ UNCHANGED <<engine, writer, history>>

CommitKeyFails(a) ==
    /\ admin[a].at = "commit" /\ \E c \in DOMAIN admin[a].loaded : admin[a].loaded[c] = Gone
    /\ Step(a, IdleAdmin)
    /\ UNCHANGED <<data, writer, history>>

-------------------------------------------------------------------------------

Continues(w) ==
    \/ LoadRow(w) \/ CheckQuota(w) \/ QuotaRefuses(w) \/ AssignValues(w)
    \/ Commit(w) \/ InsertLost(w) \/ CommitFails(w) \/ Reload(w)
    \/ Refresh(w) \/ SyncEngine(w)

WriterNext(w, requests, deletable) ==
    \/ \E req \in requests : Begin(w, req)
    \/ Continues(w)
    \/ \E item \in deletable : DeleteCells(w, item)

AdminNext(a) ==
    \/ \E kind \in {"enable", "rotate"} : BeginKeyChange(a, kind)
    \/ NextKeyVersion(a) \/ InsertKey(a) \/ SelectCells(a)
    \/ CommitKey(a) \/ CommitKeyFails(a)

Next == (\E w \in Writers : WriterNext(w, Requests, Deletable)) \/ (\E a \in Admins : AdminNext(a))

Spec == Init /\ [][Next]_vars

-------------------------------------------------------------------------------
(* Properties.                                                              *)

Idle == /\ \A w \in Writers : writer[w].at = "idle"
        /\ \A a \in Admins : admin[a].at = "idle"

\* A committed write is what a reader finds until a later or overlapping write or a
\* deletion replaces it: no lost update, no value nobody wrote, although sessions race
\* to insert the row and send only the columns they believe changed (write_cell,
\* write_cells_bulk).  For requests whose values
\* are numbers or null: with values of two types this fails.
WritesSurvive ==
    \A c \in Cells :
        IF row[c] = Absent THEN Absent \in allowed[c]
        ELSE Readable(row[c]) /\ Value(row[c]) \in allowed[c]

LongestRequest == CHOOSE n \in {Len(req) : req \in Requests} :
                     \A req \in Requests : Len(req) <= n

\* However writers race past the quota's check, they exceed it by no more than what
\* all but one of them can insert in one request (enforce_cell_write_quota).
QuotaOverrunBounded ==
    Cardinality(Rows) <= MaxCells + (Cardinality(Writers) - 1) * LongestRequest

\* While nobody works, the engine mirrors the committed values, also those that were
\* written over a deleted cell, as long as requests came one at a time
\* (_sync_engine_after_commit).
EngineMirrors == Idle => \A c \in Rows : engine[c] = Value(row[c])

\* Where key changes and writes do not overlap, every stored cell can be decrypted and
\* is encrypted with the newest active key as soon as encryption is enabled, through
\* concurrent enables, rotations and deletions (_reencrypt_model_cells).
AllUnderActiveKey ==
    ~WritesDuringKeyChange =>
        \A c \in Rows : /\ Readable(row[c])
                        /\ row[c].key = ActiveKey
                        /\ ActiveKey # NoKey => row[c].payload # NoPayload

-------------------------------------------------------------------------------
(* A claim of the repository that the code does not meet.                   *)

\* ROADMAP.md, F070: "Encrypt cell values before DB write, decrypt on read": every
\* stored cell can be read.
EveryCellReadable == \A c \in Rows : Readable(row[c])
===============================================================================
