---------------------------- MODULE CellStoreProofs -----------------------------
(***************************************************************************)
(* Theorems about CellStore, for every set of cells, writers, requests and *)
(* administrators: how far the quota can be overrun, that every row is     *)
(* under the newest key, that committed writes survive, and that the       *)
(* engine mirrors the cells of a client that is alone.                     *)
(***************************************************************************)
EXTENDS MCCellStore, FiniteSetTheorems, TLAPS

-------------------------------------------------------------------------------
(* The invariant that all the others rest on.                               *)

Steps   == {"idle", "load", "quota", "key", "commit", "reload", "refresh", "sync"}
Working == {"load", "quota", "key", "commit"}
Holding == Working \union {"refresh"}

Copies  == {Absent, Gone} \union StoredRow
Entry   == [loaded : Copies, new : StoredRow]
Batches == UNION {[D -> Entry] : D \in SUBSET Cells}

WriterState ==
    [at : Steps, req : Requests \union {<<>>}, i : Nat, phase : {"first", "reloaded", "scratch"},
     tries : Nat, loaded : Copies, batch : Batches]

CellsOf(req) == {req[j].cell : j \in DOMAIN req}

\* A request that has begun is at one of its cells and writes no others; when its insert
\* was lost it starts again, and after its commit it has loaded what it wrote.
Fits(s) ==
    /\ s.at # "idle" => /\ s.req \in Requests /\ s.i \in 1 .. Len(s.req)
                        /\ DOMAIN s.batch \subseteq CellsOf(s.req)
    /\ s.at = "reload" => DOMAIN s.batch = {}
    /\ s.at = "refresh" => \A c \in DOMAIN s.batch : s.batch[c].loaded # Absent

Types ==
    /\ row \in [Cells -> {Absent} \union StoredRow]
    /\ engine \in [Cells -> {Absent} \union Values]
    /\ allowed \in [Cells -> SUBSET ({Absent} \union Values)]
    /\ since \in [Writers -> [Cells -> SUBSET ({Absent} \union Values)]]
    /\ writer \in [Writers -> WriterState] /\ \A w \in Writers : Fits(writer[w])

AdminState ==
    [at : {"idle", "version", "insert", "select", "commit"}, kind : {"enable", "rotate"},
     version : 0 .. MaxKeys, loaded : UNION {[D -> {Gone} \union StoredRow] : D \in SUBSET Cells}]

\* The versions of the keys that are there are 1, 2, ... without a gap, and the last of
\* them is active.
KeysInOrder ==
    /\ keys \in [1 .. MaxKeys -> {"none", "active", "inactive"}]
    /\ ActiveKey \in 0 .. MaxKeys
    /\ \A k \in 1 .. MaxKeys : keys[k] # "none" <=> k <= ActiveKey

\* At most one key is about to be added, and it is the next one.
AdminsInOrder ==
    /\ admin \in [Admins -> AdminState]
    /\ \A a \in Admins :
          /\ admin[a].at = "insert" => admin[a].version \in 1 .. (ActiveKey + 1)
          /\ admin[a].at \in {"select", "commit"} => admin[a].version = ActiveKey + 1
    /\ \A a, b \in Admins : {admin[a].at, admin[b].at} \subseteq {"select", "commit"} => a = b

\* Writer state s has x as what it loaded of cell c.
Has(s, c, x) ==
    \/ s.at \in {"quota", "key"} /\ c = s.req[s.i].cell /\ x = s.loaded
    \/ s.at \in Holding /\ c \in DOMAIN s.batch /\ x = s.batch[c].loaded

\* A row that somebody has loaded is there, or he knows that it is gone.
LoadedIsThere ==
    /\ \A w \in Writers, c \in Cells : \A x \in StoredRow : Has(writer[w], c, x) => row[c] # Absent
    /\ \A a \in Admins : \A c \in DOMAIN admin[a].loaded :
          admin[a].at = "commit" /\ admin[a].loaded[c] # Gone => row[c] # Absent

Base == Types /\ KeysInOrder /\ AdminsInOrder /\ LoadedIsThere

-------------------------------------------------------------------------------
(* The quota.                                                               *)

\* The cells that a writer is going to insert a row for.
Adds(s) ==
    {c \in Cells : \/ s.at \in Working /\ c \in DOMAIN s.batch /\ s.batch[c].loaded = Absent
                   \/ s.at = "key" /\ c = s.req[s.i].cell /\ s.loaded = Absent}

Pending == {p \in Writers \X Cells : p[2] \in Adds(writer[p[1]])}

QuotaInv ==
    Cardinality(Rows) + Cardinality(Pending)
        <= MaxCells + (Cardinality(Writers) - 1) * LongestRequest

-------------------------------------------------------------------------------
(* The keys.                                                                *)

\* The values that are ever stored, and the columns as one of them is stored in plain.
Scalars == {Null} \union UNION {{req[j].value : j \in DOMAIN req} : req \in Requests}
Plain   == {p \in [Columns -> Scalars] : \A col \in Columns : p[col] = Null \/ p[col].type = col}

\* The rows that are stored under key n.
Under(n) ==
    IF n = NoKey THEN [plain : Plain, key : {NoKey}, payload : {NoPayload}]
    ELSE [plain : Plain, key : {n}, payload : [key : {n}, value : Scalars]]

\* While a key changes nobody writes.
Apart == \A a \in Admins, w \in Writers : admin[a].at = "idle" \/ writer[w].at = "idle"

\* What is stored, what was loaded and what will be stored is under the newest key.
AllUnder ==
    /\ \A c \in Cells : row[c] \in {Absent} \union Under(ActiveKey)
    /\ \A w \in Writers, c \in Cells :
          /\ \A x \in StoredRow : Has(writer[w], c, x) => x \in Under(ActiveKey)
          /\ writer[w].at \in Working /\ c \in DOMAIN writer[w].batch
                => writer[w].batch[c].new \in Under(ActiveKey)

\* Between the reading of the cells and the commit of a key, rows only go.
AllReencrypted ==
    \A a \in Admins : admin[a].at = "commit" =>
        /\ Rows \subseteq DOMAIN admin[a].loaded
        /\ \A c \in DOMAIN admin[a].loaded :
              admin[a].loaded[c] = Gone \/ (c \in Rows /\ admin[a].loaded[c] = row[c])

KeyInv == Apart /\ AllUnder /\ AllReencrypted

-------------------------------------------------------------------------------
(* The writes.                                                              *)

NumbersOnly == \A req \in Requests : \A j \in DOMAIN req : req[j].value.type \in {"null", "number"}

\* The value of a row that a writer has loaded is the one he loaded, or one that was
\* committed since he began.
ChangesAreNoticed ==
    \A w \in Writers, c \in Cells : \A x \in StoredRow : Has(writer[w], c, x) =>
        Value(row[c]) = Value(x) \/ Value(row[c]) \in since[w][c]

-------------------------------------------------------------------------------
(* The engine's mirror of the cells of one client.                          *)

Alone == \A w \in Writers : w # Client => writer[w].at = "idle"

Told ==
    /\ writer[Client].at = "refresh" => ~Stale(Client)
    /\ writer[Client].at = "sync" =>
          \A c \in Batch(Client) : c \in Rows /\ writer[Client].batch[c].new = row[c]

Mirrored ==
    \A c \in Rows : \/ engine[c] = Value(row[c])
                    \/ writer[Client].at \in {"refresh", "sync"} /\ c \in Batch(Client)

-------------------------------------------------------------------------------
(* What is stored, and what is read.                                        *)

LEMMA RequestType ==
    ASSUME NEW req \in Requests
    PROVE  /\ Len(req) \in Nat \ {0} /\ DOMAIN req = 1 .. Len(req)
           /\ \A j \in DOMAIN req : req[j].cell \in Cells /\ req[j].value \in Values
<1> DEFINE Part == [cell : Cells, value : Values]
<1>1. req \in Seq(Part) /\ req # <<>>
  BY CellStoreAssumption
<1>2. \A p \in Part : p.cell \in Cells /\ p.value \in Values
  OBVIOUS
<1> HIDE DEF Part
<1>3. Len(req) \in Nat \ {0} /\ DOMAIN req = 1 .. Len(req)
  BY <1>1
<1>4. \A j \in DOMAIN req : req[j] \in Part
  BY <1>1, <1>3
<1> QED
  BY <1>2, <1>3, <1>4

LEMMA StoredType ==
    ASSUME NEW v \in Values, NEW n \in 0 .. MaxKeys
    PROVE  Stored(v, n) \in StoredRow
<1>1. CASE n = NoKey
  <2>1. [col \in Columns |-> IF v.type = col THEN v ELSE Null] \in [Columns -> Values]
    BY DEF Values
  <2> QED
    BY <1>1, <2>1 DEF Stored, StoredRow, NoKey
<1>2. CASE n # NoKey
  <2>1. n \in 1 .. MaxKeys
    BY <1>2, CellStoreAssumption DEF NoKey
  <2>2. [col \in Columns |-> Null] \in [Columns -> Values]
    BY DEF Values
  <2> QED
    BY <1>2, <2>1, <2>2 DEF Stored, StoredRow
<1> QED
  BY <1>1, <1>2

LEMMA ValueType ==
    ASSUME NEW r \in StoredRow
    PROVE  Value(r) \in Values
<1>1. /\ r.plain \in [Columns -> Values]
      /\ r.payload # NoPayload => r.payload \in [key : 1 .. MaxKeys, value : Values]
  BY DEF StoredRow
<1>2. r.plain["boolean"] \in Values /\ r.plain["number"] \in Values /\ r.plain["text"] \in Values
  BY <1>1 DEF Columns
<1>3. r.payload # NoPayload => r.payload.value \in Values
  BY <1>1
<1> QED
  BY <1>2, <1>3 DEF Value

LEMMA MergeType ==
    ASSUME NEW db \in {Absent} \union StoredRow, NEW loaded \in {Absent} \union StoredRow,
           NEW new \in StoredRow, loaded # Absent => db # Absent
    PROVE  Merge(db, loaded, new) \in StoredRow
<1>1. CASE loaded = Absent
  BY <1>1 DEF Merge
<1>2. CASE loaded # Absent
  <2>1. db \in StoredRow
    BY <1>2
  <2> DEFINE p == [col \in Columns |-> IF new.plain[col] # loaded.plain[col]
                                         THEN new.plain[col] ELSE db.plain[col]]
             y == IF new.payload = NoPayload /\ loaded.payload = NoPayload
                  THEN db.payload ELSE new.payload
             k == IF new.key # loaded.key THEN new.key ELSE db.key
  <2>2. p \in [Columns -> Values]
    BY <2>1 DEF StoredRow
  <2>3. y \in {NoPayload} \union [key : 1 .. MaxKeys, value : Values] /\ k \in 0 .. MaxKeys
    BY <2>1 DEF StoredRow
  <2>4. Merge(db, loaded, new) = [plain |-> p, payload |-> y, key |-> k]
    BY <1>2 DEF Merge
  <2> HIDE DEF p, y, k
  <2> QED
    BY <2>2, <2>3, <2>4 DEF StoredRow
<1> QED
  BY <1>1, <1>2

LEMMA Distinct == /\ Absent # Gone /\ Absent \notin StoredRow /\ Gone \notin StoredRow
                  /\ NoPayload \notin [key : 1 .. MaxKeys, value : Values]
  BY CellStoreAssumption
-------------------------------------------------------------------------------
(* The steps of a writer that leave the rows alone.                         *)

\* Writer w goes on as s: s has loaded nothing but what w had and the present rows, and
\* the new rows in s are w's, or were made now of a value that is asked for.
Follows(w, s) ==
    /\ s \in WriterState /\ Fits(s) /\ writer' = [writer EXCEPT ![w] = s]
    /\ \A c \in Cells : \A x \in Copies : Has(s, c, x) => Has(writer[w], c, x) \/ x = row[c]
    /\ \A c \in DOMAIN s.batch : s.at \in Working =>
          \/ /\ writer[w].at \in Working /\ c \in DOMAIN writer[w].batch
             /\ s.batch[c].new = writer[w].batch[c].new
          \/ \E req \in Requests : \E j \in DOMAIN req : s.batch[c].new = Stored(req[j].value, ActiveKey)

\* The steps between the beginning and the commit, and after the commit.
Goes(w) == \/ LoadRow(w) \/ CheckQuota(w) \/ QuotaRefuses(w) \/ AssignValues(w)
           \/ InsertLost(w) \/ CommitFails(w) \/ Reload(w) \/ Refresh(w) \/ SyncEngine(w)

LEMMA WriterType ==
    ASSUME Types, NEW w \in Writers
    PROVE  /\ writer[w] \in WriterState /\ Fits(writer[w])
           /\ writer[w].at \in Steps /\ writer[w].req \in Requests \union {<<>>} /\ writer[w].i \in Nat
           /\ writer[w].phase \in {"first", "reloaded", "scratch"} /\ writer[w].tries \in Nat
           /\ writer[w].loaded \in Copies /\ writer[w].batch \in Batches
           /\ DOMAIN writer[w].batch \subseteq Cells
           /\ \A c \in DOMAIN writer[w].batch : writer[w].batch[c] \in Entry
<1>1. writer[w] \in WriterState /\ Fits(writer[w])
  BY DEF Types
<1>2. writer[w].batch \in Batches
  BY <1>1 DEF WriterState
<1>3. PICK D \in SUBSET Cells : writer[w].batch \in [D -> Entry]
  BY <1>2 DEF Batches
<1> QED
  BY <1>1, <1>2, <1>3 DEF WriterState

LEMMA ThisIsACell ==
    ASSUME Types, NEW w \in Writers, writer[w].at # "idle"
    PROVE  /\ writer[w].req \in Requests /\ writer[w].i \in DOMAIN writer[w].req
           /\ writer[w].i \in 1 .. Len(writer[w].req) /\ Len(writer[w].req) \in Nat
           /\ DOMAIN writer[w].batch \subseteq CellsOf(writer[w].req)
           /\ This(w).cell \in Cells /\ This(w).value \in Values
           /\ This(w).cell \in CellsOf(writer[w].req)
<1>1. /\ writer[w].req \in Requests /\ writer[w].i \in 1 .. Len(writer[w].req)
      /\ DOMAIN writer[w].batch \subseteq CellsOf(writer[w].req)
  BY WriterType DEF Fits
<1> QED
  BY <1>1, RequestType DEF This, CellsOf

LEMMA NothingType == Nothing \in Batches /\ DOMAIN Nothing = {}
<1>1. Nothing \in [{} -> Entry] /\ DOMAIN Nothing = {}
  BY DEF Nothing
<1> QED
  BY <1>1 DEF Batches

\* A step that changes of the writer's state only where it is.
LEMMA Ending ==
    ASSUME Types, NEW w \in Writers, Ends(w)
    PROVE  Follows(w, IdleWriter)
<1>1. IdleWriter \in WriterState /\ Fits(IdleWriter) /\ IdleWriter.at = "idle" /\ DOMAIN IdleWriter.batch = {}
  BY NothingType DEF IdleWriter, WriterState, Steps, Copies, Fits
<1>2. \A c \in Cells : \A x \in Copies : ~Has(IdleWriter, c, x)
  BY <1>1 DEF Has, Holding, Working
<1> QED
  BY <1>1, <1>2 DEF Ends, Becomes, Follows, Working

LEMMA Beginning ==
    ASSUME Types, NEW w \in Writers, NEW req \in Requests, Begin(w, req)
    PROVE  \E s : Follows(w, s) /\ Adds(s) = {} /\ \A c \in Cells : \A x \in Copies : ~Has(s, c, x)
<1> DEFINE s == [IdleWriter EXCEPT !.at = "load", !.req = req, !.i = 1]
<1>1. s \in WriterState /\ s.at = "load" /\ s.req = req /\ s.i = 1 /\ DOMAIN s.batch = {}
  BY NothingType DEF IdleWriter, WriterState, Steps, Copies
<1>2. writer' = [writer EXCEPT ![w] = s]
  BY DEF Begin, Becomes
<1> HIDE DEF s
<1>3. \A c \in Cells : (\A x \in Copies : ~Has(s, c, x)) /\ c \notin Adds(s)
  BY <1>1 DEF Has, Holding, Working, Adds
<1>4. Fits(s)
  <2>1. 1 \in 1 .. Len(req)
    BY RequestType
  <2> QED
    BY <1>1, <2>1 DEF Fits
<1>5. Follows(w, s) /\ Adds(s) = {}
  BY <1>1, <1>2, <1>3, <1>4 DEF Follows, Adds
<1> QED
  BY <1>3, <1>5

LEMMA Loading ==
    ASSUME Types, NEW w \in Writers, LoadRow(w)
    PROVE  \E s : Follows(w, s) /\ Adds(s) \subseteq Adds(writer[w])
<1> DEFINE o == writer[w]
           s == [o EXCEPT !.at = "quota", !.loaded = row[This(w).cell]]
<1>1. o \in WriterState /\ o.at = "load" /\ row[This(w).cell] \in Copies
  BY WriterType, ThisIsACell DEF LoadRow, Types, Copies
<1>2. s \in WriterState
  BY <1>1 DEF WriterState, Steps
<1>3. /\ s.at = "quota" /\ s.loaded = row[This(w).cell] /\ s.req = o.req /\ s.i = o.i
      /\ s.batch = o.batch /\ s.phase = o.phase
  BY <1>1 DEF WriterState
<1>4. This(w) = s.req[s.i] /\ writer' = [writer EXCEPT ![w] = s]
  BY <1>3 DEF LoadRow, Becomes, This
<1>5. Fits(s)
  BY <1>1, <1>3, WriterType DEF Fits
<1> HIDE DEF s
<1>6. \A c \in Cells : \A x \in Copies : Has(s, c, x) => Has(o, c, x) \/ x = row[c]
  BY <1>1, <1>3, <1>4 DEF Has, Holding, Working
<1>7. Adds(s) \subseteq Adds(o)
  BY <1>1, <1>3 DEF Adds, Working
<1>8. Follows(w, s)
  BY <1>1, <1>2, <1>3, <1>4, <1>5, <1>6 DEF Follows, Working
<1> QED
  BY <1>7, <1>8

LEMMA Checking ==
    ASSUME Types, NEW w \in Writers, CheckQuota(w)
    PROVE  \E s : /\ Follows(w, s)
                  /\ s.loaded = writer[w].loaded
                  /\ Adds(s) \subseteq IF writer[w].loaded = Absent
                                       THEN OwnInserts(w) \union {This(w).cell} ELSE Adds(writer[w])
<1> DEFINE o == writer[w]
           s == [o EXCEPT !.at = "key"]
<1>1. o \in WriterState /\ o.at = "quota"
  BY WriterType DEF CheckQuota
<1>2. s \in WriterState
  BY <1>1 DEF WriterState, Steps
<1>3. /\ s.at = "key" /\ s.loaded = o.loaded /\ s.req = o.req /\ s.i = o.i
      /\ s.batch = o.batch /\ s.phase = o.phase
  BY <1>1 DEF WriterState
<1>4. This(w) = s.req[s.i] /\ writer' = [writer EXCEPT ![w] = s]
  BY <1>3 DEF CheckQuota, Becomes, This
<1>5. Fits(s)
  BY <1>1, <1>3, WriterType DEF Fits
<1> HIDE DEF s
<1>6. \A c \in Cells : \A x \in Copies : Has(s, c, x) => Has(o, c, x) \/ x = row[c]
  BY <1>1, <1>3, <1>4 DEF Has, Holding, Working
<1>7. Adds(s) \subseteq IF o.loaded = Absent THEN OwnInserts(w) \union {This(w).cell} ELSE Adds(o)
  BY <1>1, <1>3, <1>4 DEF Adds, Working, OwnInserts
<1>8. Follows(w, s)
  BY <1>1, <1>2, <1>3, <1>4, <1>5, <1>6 DEF Follows, Working
<1> QED
  BY <1>3, <1>7, <1>8

LEMMA Assigning ==
    ASSUME Types, KeysInOrder, NEW w \in Writers, AssignValues(w)
    PROVE  \E s : Follows(w, s) /\ Adds(s) \subseteq Adds(writer[w])
<1> DEFINE o == writer[w]
           C == This(w).cell
           new == Stored(This(w).value, ActiveKey)
           entry == [loaded |-> o.loaded, new |-> new]
           batch == [c \in DOMAIN o.batch \union {C} |-> IF c = C THEN entry ELSE o.batch[c]]
           s == IF o.i = Len(o.req) THEN [o EXCEPT !.at = "commit", !.batch = batch]
                ELSE [o EXCEPT !.at = "load", !.batch = batch, !.i = o.i + 1]
<1>1. /\ o \in WriterState /\ o.at = "key" /\ C \in Cells /\ This(w).value \in Values
      /\ o.req \in Requests /\ o.i \in 1 .. Len(o.req) /\ Len(o.req) \in Nat
      /\ C \in CellsOf(o.req) /\ DOMAIN o.batch \subseteq CellsOf(o.req) /\ o.i \in Nat
      /\ o.i \in DOMAIN o.req
  BY WriterType, ThisIsACell DEF AssignValues
<1>2. new \in StoredRow
  BY <1>1, StoredType DEF KeysInOrder
<1>3. entry \in Entry /\ entry.loaded = o.loaded /\ entry.new = new
  BY <1>2, WriterType DEF Entry
<1>4. writer' = [writer EXCEPT ![w] = s]
  BY DEF AssignValues, Becomes
<1>5. \E req \in Requests : \E j \in DOMAIN req : new = Stored(req[j].value, ActiveKey)
  BY <1>1 DEF This
<1>6. C = o.req[o.i].cell
  BY DEF This
<1> HIDE DEF entry, new, C
<1>7. /\ DOMAIN batch = DOMAIN o.batch \union {C} /\ batch[C] = entry
      /\ \A c \in DOMAIN o.batch : c # C => batch[c] = o.batch[c]
  OBVIOUS
<1>8. batch \in Batches
  <2>1. DOMAIN o.batch \union {C} \in SUBSET Cells
    BY <1>1, WriterType
  <2>2. batch \in [DOMAIN o.batch \union {C} -> Entry]
    BY <1>3, WriterType
  <2> HIDE DEF batch
  <2> QED
    BY <2>1, <2>2 DEF Batches
<1> HIDE DEF batch
<1>9. /\ s \in WriterState /\ s.at \in {"commit", "load"} /\ s.req = o.req /\ s.batch = batch
      /\ s.i \in 1 .. Len(o.req)
  <2>1. CASE o.i = Len(o.req)
    BY <1>1, <1>8, <2>1 DEF WriterState, Steps
  <2>2. CASE o.i # Len(o.req)
    <3> DEFINE n == o.i + 1
    <3>1. n \in Nat /\ n \in 1 .. Len(o.req)
      BY <1>1, <2>2
    <3>2. s = [o EXCEPT !.at = "load", !.batch = batch, !.i = n]
      BY <2>2
    <3> HIDE DEF n, s
    <3> QED
      BY <1>1, <1>8, <3>1, <3>2 DEF WriterState, Steps
  <2> QED
    BY <2>1, <2>2
<1> HIDE DEF s
<1>10. Fits(s)
  BY <1>1, <1>7, <1>9 DEF Fits
<1>11. \A c \in Cells : \A x \in Copies : Has(s, c, x) => Has(o, c, x) \/ x = row[c]
  BY <1>1, <1>3, <1>6, <1>7, <1>9 DEF Has, Holding, Working
<1>12. Adds(s) \subseteq Adds(o)
  BY <1>1, <1>3, <1>6, <1>7, <1>9 DEF Adds, Working
<1>13. \A c \in DOMAIN s.batch :
          \/ o.at \in Working /\ c \in DOMAIN o.batch /\ s.batch[c].new = o.batch[c].new
          \/ \E req \in Requests : \E j \in DOMAIN req : s.batch[c].new = Stored(req[j].value, ActiveKey)
  BY <1>1, <1>3, <1>5, <1>7, <1>9 DEF Working
<1>14. Follows(w, s)
  BY <1>4, <1>9, <1>10, <1>11, <1>13 DEF Follows
<1> QED
  BY <1>12, <1>14
LEMMA Losing ==
    ASSUME Types, NEW w \in Writers, InsertLost(w)
    PROVE  \E s : Follows(w, s) /\ Adds(s) \subseteq Adds(writer[w])
<1> DEFINE o == writer[w]
           s == [o EXCEPT !.at = "reload", !.batch = Nothing]
<1>1. o \in WriterState /\ o.at = "commit"
  BY WriterType DEF InsertLost
<1>2. s \in WriterState /\ s.at = "reload" /\ s.req = o.req /\ s.i = o.i /\ s.batch = Nothing
  BY <1>1, NothingType DEF WriterState, Steps
<1>3. writer' = [writer EXCEPT ![w] = s]
  BY DEF InsertLost, Becomes
<1> HIDE DEF s
<1>4. Fits(s)
  BY <1>1, <1>2, NothingType, WriterType DEF Fits
<1>5. \A c \in Cells : (\A x \in Copies : ~Has(s, c, x)) /\ c \notin Adds(s)
  BY <1>2 DEF Has, Holding, Working, Adds
<1>6. Follows(w, s) /\ Adds(s) \subseteq Adds(o)
  BY <1>2, <1>3, <1>4, <1>5 DEF Follows, Adds, Working
<1> QED
  BY <1>6

LEMMA Reloading ==
    ASSUME Types, NEW w \in Writers, Reload(w)
    PROVE  \E s : Follows(w, s) /\ Adds(s) \subseteq Adds(writer[w])
<1> DEFINE o == writer[w]
           found == row[This(w).cell]
<1>1. /\ o \in WriterState /\ o.at = "reload" /\ found \in Copies /\ o.tries \in Nat
      /\ o.tries + 1 \in Nat /\ DOMAIN o.batch = {}
  BY WriterType, ThisIsACell DEF Reload, Types, Copies, Fits
<1> SUFFICES ASSUME NEW s \in WriterState, writer' = [writer EXCEPT ![w] = s],
                    s.at \in {"key", "reload", "load"}, s.req = o.req, s.i = o.i, s.batch = o.batch,
                    s.at = "key" => found # Absent /\ s.loaded = found
             PROVE  Follows(w, s) /\ Adds(s) \subseteq Adds(o)
  <2>1. CASE found # Absent
    <3> DEFINE s == [o EXCEPT !.at = "key", !.phase = "reloaded", !.loaded = found]
    <3>1. s \in WriterState /\ s.at = "key" /\ s.req = o.req /\ s.i = o.i /\ s.batch = o.batch /\ s.loaded = found
      BY <1>1 DEF WriterState, Steps
    <3>2. writer' = [writer EXCEPT ![w] = s]
      BY <2>1 DEF Reload, Becomes
    <3> HIDE DEF s
    <3> QED
      BY <2>1, <3>1, <3>2
  <2>2. CASE found = Absent /\ o.tries < 2
    <3> DEFINE n == o.tries + 1
               s == [o EXCEPT !.tries = n]
    <3>1. writer' = [writer EXCEPT ![w] = s]
      BY <2>2 DEF Reload, Becomes
    <3>2. n \in Nat
      BY <1>1
    <3> HIDE DEF n
    <3>3. s \in WriterState /\ s.at = "reload" /\ s.req = o.req /\ s.i = o.i /\ s.batch = o.batch
      BY <1>1, <3>2 DEF WriterState
    <3> HIDE DEF s
    <3> QED
      BY <3>1, <3>3
  <2>3. CASE found = Absent /\ ~(o.tries < 2)
    <3> DEFINE s == [o EXCEPT !.at = "load", !.phase = "scratch"]
    <3>1. writer' = [writer EXCEPT ![w] = s]
      BY <2>3 DEF Reload, Becomes
    <3>2. s \in WriterState /\ s.at = "load" /\ s.req = o.req /\ s.i = o.i /\ s.batch = o.batch
      BY <1>1 DEF WriterState, Steps
    <3> HIDE DEF s
    <3> QED
      BY <3>1, <3>2
  <2> QED
    BY <2>1, <2>2, <2>3
<1>2. Fits(s)
  BY <1>1, WriterType DEF Fits
<1>3. This(w) = s.req[s.i]
  BY DEF This
<1>4. \A c \in Cells : \A x \in Copies : Has(s, c, x) => x = row[c]
  BY <1>1, <1>3 DEF Has, Holding, Working
<1>5. \A c \in Cells : c \notin Adds(s)
  BY <1>1, <1>3 DEF Adds
<1> QED
  BY <1>1, <1>2, <1>4, <1>5 DEF Follows, Adds

\* After the commit a writer has nothing to write any more.
LEMMA Answering ==
    ASSUME Types, LoadedIsThere, NEW w \in Writers, Refresh(w)
    PROVE  \E s : Follows(w, s) /\ Adds(s) \subseteq Adds(writer[w])
<1> DEFINE o == writer[w]
           batch == [c \in Batch(w) |-> [o.batch[c] EXCEPT !.new = row[c]]]
           s == [o EXCEPT !.at = "sync", !.batch = batch]
<1>1. CASE Ends(w)
  <2>1. Adds(IdleWriter) = {}
    BY DEF Adds, IdleWriter, Working
  <2> QED
    BY <1>1, <2>1, Ending
<1>2. CASE ~Ends(w)
  <2>1. /\ writer' = [writer EXCEPT ![w] = s] /\ o \in WriterState /\ o.at = "refresh" /\ ~Stale(w)
    BY <1>2, WriterType DEF Refresh, Becomes
  <2>2. \A c \in Batch(w) : c \in Cells /\ o.batch[c] \in Entry
    BY WriterType DEF Batch
  <2>3. \A c \in Batch(w) : row[c] \in StoredRow
    <3> SUFFICES ASSUME NEW c \in Batch(w) PROVE row[c] \in StoredRow
      OBVIOUS
    <3>1. CASE o.batch[c].loaded \in StoredRow
      BY <2>1, <2>2, <3>1 DEF LoadedIsThere, Has, Holding, Types, Batch
    <3>2. CASE o.batch[c].loaded = Absent
      BY <2>1, <3>2, WriterType DEF Fits, Batch
    <3> QED
      BY <2>1, <2>2, <3>1, <3>2 DEF Stale, Entry, Copies
  <2>4. \A c \in Batch(w) : [o.batch[c] EXCEPT !.new = row[c]] \in Entry
    BY <2>2, <2>3 DEF Entry
  <2>5. batch \in Batches /\ DOMAIN batch = Batch(w)
    <3>1. batch \in [Batch(w) -> Entry] /\ Batch(w) \in SUBSET Cells
      BY <2>2, <2>4
    <3> QED
      BY <3>1 DEF Batches
  <2> HIDE DEF batch
  <2>6. s \in WriterState /\ s.at = "sync" /\ s.req = o.req /\ s.i = o.i /\ DOMAIN s.batch = Batch(w)
    BY <2>1, <2>5 DEF WriterState, Steps
  <2> HIDE DEF s
  <2>7. Fits(s)
    BY <2>1, <2>6, WriterType DEF Fits, Batch
  <2>8. \A c \in Cells : (\A x \in Copies : ~Has(s, c, x)) /\ c \notin Adds(s)
    BY <2>6 DEF Has, Holding, Working, Adds
  <2> QED
    BY <2>1, <2>6, <2>7, <2>8 DEF Follows, Adds, Working
<1> QED
  BY <1>1, <1>2

\* What the steps between beginning and commit, and after the commit, do to a writer.
LEMMA GoesFollows ==
    ASSUME Base, NEW w \in Writers, Goes(w)
    PROVE  /\ \E s : /\ Follows(w, s)
                     /\ ~CheckQuota(w) => Adds(s) \subseteq Adds(writer[w])
           /\ writer[w].at # "idle"
           /\ UNCHANGED <<row, keys, admin, allowed, since>>
<1> USE DEF Base
<1>1. /\ writer[w].at # "idle"
      /\ UNCHANGED <<row, keys, admin, allowed, since>>
  BY DEF Goes, LoadRow, CheckQuota, QuotaRefuses, AssignValues, InsertLost, CommitFails, Reload, Refresh,
         SyncEngine, data, history
<1>2. CASE Ends(w)
  <2>1. Adds(IdleWriter) = {}
    BY DEF Adds, IdleWriter, Working
  <2> QED
    BY <1>1, <1>2, <2>1, Ending
<1>3. CASE ~Ends(w)
  BY <1>1, <1>3, Loading, Checking, Assigning, Losing, Reloading, Answering
     DEF Goes, QuotaRefuses, CommitFails, SyncEngine
<1> QED
  BY <1>2, <1>3

\* Base holds on, as far as the writers go, when they follow.
LEMMA FollowingKeeps ==
    ASSUME Base, NEW w \in Writers, NEW s, Follows(w, s), UNCHANGED <<row, keys, admin>>,
           engine' \in [Cells -> {Absent} \union Values],
           allowed' \in [Cells -> SUBSET ({Absent} \union Values)],
           since' \in [Writers -> [Cells -> SUBSET ({Absent} \union Values)]]
    PROVE  Base'
<1>1. /\ s \in WriterState /\ Fits(s) /\ writer'[w] = s
      /\ \A x \in Writers \ {w} : writer'[x] = writer[x]
      /\ writer' \in [Writers -> WriterState]
  BY DEF Follows, Base, Types
<1>2. Types'
  BY <1>1 DEF Base, Types
<1>3. ActiveKey' = ActiveKey
  BY DEF ActiveKey
<1>4. KeysInOrder' /\ AdminsInOrder'
  BY <1>3 DEF Base, KeysInOrder, AdminsInOrder
<1>5. ASSUME NEW v \in Writers, NEW c \in Cells, NEW x \in StoredRow, Has(writer'[v], c, x)
      PROVE  row[c] # Absent
  <2>1. CASE v = w
    BY <1>1, <1>5, <2>1, Distinct DEF Follows, Base, LoadedIsThere, Copies
  <2>2. CASE v # w
    BY <1>1, <1>5, <2>2 DEF Base, LoadedIsThere
  <2> QED
    BY <2>1, <2>2
<1>6. LoadedIsThere'
  BY <1>5 DEF Base, LoadedIsThere
<1> QED
  BY <1>2, <1>4, <1>6 DEF Base
-------------------------------------------------------------------------------
(* A writer's commit.                                                       *)

\* What a commit does to a cell of its request, of its loaded and new rows.
LEMMA CommitMerges ==
    ASSUME Base, NEW w \in Writers, Commit(w), NEW c \in Batch(w)
    PROVE  /\ c \in Cells /\ writer[w].at = "commit"
           /\ writer[w].batch[c].new \in StoredRow
           /\ writer[w].batch[c].loaded \in {Absent} \union StoredRow
           /\ Has(writer[w], c, writer[w].batch[c].loaded)
           /\ writer[w].batch[c].loaded = Absent <=> row[c] = Absent
           /\ row'[c] = Merge(row[c], writer[w].batch[c].loaded, writer[w].batch[c].new)
           /\ row'[c] \in StoredRow
<1> DEFINE e == writer[w].batch[c]
<1>1. c \in Cells /\ e \in Entry /\ writer[w].at = "commit"
  BY WriterType DEF Batch, Base, Commit
<1>2. e.new \in StoredRow /\ e.loaded \in {Absent} \union StoredRow
  BY <1>1 DEF Entry, Copies, Commit, Stale
<1>3. Has(writer[w], c, e.loaded)
  BY <1>1 DEF Has, Holding, Working, Batch
<1>4. e.loaded = Absent <=> row[c] = Absent
  BY <1>1, <1>2, <1>3 DEF Base, LoadedIsThere, Commit, Conflict
<1>5. row'[c] = Merge(row[c], e.loaded, e.new)
  BY <1>1 DEF Commit
<1>6. row'[c] \in StoredRow
  <2>1. row[c] \in {Absent} \union StoredRow
    BY <1>1 DEF Base, Types
  <2> QED
    BY <1>2, <1>4, <1>5, <2>1, MergeType
<1> QED
  BY <1>1, <1>2, <1>3, <1>4, <1>5, <1>6

LEMMA CommitWrites ==
    ASSUME Base, NEW w \in Writers, Commit(w)
    PROVE  /\ row' \in [Cells -> {Absent} \union StoredRow]
           /\ \A c \in Cells : /\ c \notin Batch(w) => row'[c] = row[c]
                               /\ row[c] # Absent => row'[c] # Absent
           /\ \A c \in Batch(w) : c \in Cells /\ row'[c] \in StoredRow
           /\ UNCHANGED <<keys, engine, admin>>
<1>1. /\ row' = [c \in Cells |-> IF c \in Batch(w)
                                 THEN Merge(row[c], writer[w].batch[c].loaded, writer[w].batch[c].new)
                                 ELSE row[c]]
      /\ UNCHANGED <<keys, engine, admin>>
  BY DEF Commit
<1>2. \A c \in Batch(w) : c \in Cells /\ row'[c] \in StoredRow
  BY CommitMerges
<1>3. \A c \in Cells : c \notin Batch(w) => row'[c] = row[c]
  BY <1>1
<1>4. \A c \in Cells : row[c] \in {Absent} \union StoredRow
  BY DEF Base, Types
<1>5. \A c \in Cells : row'[c] \in {Absent} \union StoredRow /\ (row[c] # Absent => row'[c] # Absent)
  BY <1>2, <1>3, <1>4, Distinct
<1>6. row' \in [Cells -> {Absent} \union StoredRow]
  BY <1>1, <1>5
<1> QED
  BY <1>1, <1>2, <1>3, <1>5, <1>6

\* What the writer is after its commit: it has loaded what it wrote.
LEMMA CommitFollows ==
    ASSUME Base, NEW w \in Writers, Commit(w)
    PROVE  \E s : /\ s \in WriterState /\ Fits(s) /\ writer' = [writer EXCEPT ![w] = s]
                  /\ s.at = "refresh" /\ Adds(s) = {} /\ DOMAIN s.batch = Batch(w)
                  /\ \A c \in Cells : \A x \in Copies : Has(s, c, x) =>
                        c \in Batch(w) /\ x = writer[w].batch[c].new
                  /\ \A c \in Batch(w) : s.batch[c].loaded \in StoredRow
<1> DEFINE o == writer[w]
           b == o.batch
           batch == [c \in Batch(w) |-> [b[c] EXCEPT !.loaded = b[c].new]]
           s == [o EXCEPT !.at = "refresh", !.batch = batch]
<1>1. o \in WriterState /\ o.at = "commit" /\ Fits(o)
  BY WriterType DEF Commit, Base
<1>2. writer' = [writer EXCEPT ![w] = s]
  BY DEF Commit, Becomes
<1>3. \A c \in Batch(w) : c \in Cells /\ b[c] \in Entry
  BY WriterType DEF Base, Batch
<1>4. \A c \in Batch(w) : /\ [b[c] EXCEPT !.loaded = b[c].new] \in Entry
                          /\ [b[c] EXCEPT !.loaded = b[c].new].loaded = b[c].new
                          /\ b[c].new \in StoredRow
  BY <1>3 DEF Entry, Copies
<1>5. batch \in Batches /\ DOMAIN batch = Batch(w) /\ \A c \in Batch(w) : batch[c].loaded = b[c].new
  <2>1. batch \in [Batch(w) -> Entry] /\ Batch(w) \in SUBSET Cells
    BY <1>3, <1>4
  <2> QED
    BY <1>4, <2>1 DEF Batches
<1> HIDE DEF batch
<1>6. s \in WriterState /\ s.at = "refresh" /\ s.req = o.req /\ s.i = o.i /\ s.batch = batch
  BY <1>1, <1>5 DEF WriterState, Steps
<1> HIDE DEF s
<1>7. \A c \in Batch(w) : s.batch[c].loaded = b[c].new /\ b[c].new \in StoredRow
  BY <1>4, <1>5, <1>6
<1>8. Fits(s)
  BY <1>1, <1>5, <1>6, <1>7, Distinct DEF Fits, Batch
<1>9. \A c \in Cells : \A x \in Copies : Has(s, c, x) => c \in Batch(w) /\ x = b[c].new
  BY <1>5, <1>6, <1>7 DEF Has
<1>10. \A c \in Cells : c \notin Adds(s)
  BY <1>6 DEF Adds, Working
<1> QED
  BY <1>2, <1>5, <1>6, <1>7, <1>8, <1>9, <1>10 DEF Adds

LEMMA CommitKeeps ==
    ASSUME Base, NEW w \in Writers, Commit(w)
    PROVE  Base'
<1>1. PICK s : /\ s \in WriterState /\ Fits(s) /\ writer' = [writer EXCEPT ![w] = s]
               /\ \A c \in Cells : \A x \in Copies : Has(s, c, x) =>
                        c \in Batch(w) /\ x = writer[w].batch[c].new
  BY CommitFollows
<1>2. /\ writer'[w] = s /\ \A x \in Writers \ {w} : writer'[x] = writer[x]
      /\ writer' \in [Writers -> WriterState]
  BY <1>1 DEF Base, Types
<1>3. allowed' \in [Cells -> SUBSET ({Absent} \union Values)]
      /\ since' \in [Writers -> [Cells -> SUBSET ({Absent} \union Values)]]
  <2>1. \A c \in Batch(w) : Value(writer[w].batch[c].new) \in Values
    BY CommitMerges, ValueType
  <2> DEFINE X == {Absent} \union Values
             new(c) == {Value(writer[w].batch[c].new)}
  <2>2. \A c \in Batch(w) : new(c) \in SUBSET X
    BY <2>1
  <2>3. allowed \in [Cells -> SUBSET X] /\ since \in [Writers -> [Cells -> SUBSET X]]
    BY DEF Base, Types
  <2>4. /\ allowed' = [c \in Cells |-> IF c \in Batch(w) THEN new(c) \union since[w][c] ELSE allowed[c]]
        /\ since' = [x \in Writers |-> [c \in Cells |->
                       IF x # w /\ writer[x].at # "idle" /\ c \in Batch(w)
                       THEN since[x][c] \union new(c) ELSE since[x][c]]]
    BY DEF Commit
  <2> HIDE DEF X, new
  <2>5. \A c \in Cells : (IF c \in Batch(w) THEN new(c) \union since[w][c] ELSE allowed[c]) \in SUBSET X
    BY <2>2, <2>3
  <2>6. \A x \in Writers, c \in Cells :
           (IF x # w /\ writer[x].at # "idle" /\ c \in Batch(w)
            THEN since[x][c] \union new(c) ELSE since[x][c]) \in SUBSET X
    BY <2>2, <2>3
  <2>7. allowed' \in [Cells -> SUBSET X] /\ since' \in [Writers -> [Cells -> SUBSET X]]
    BY <2>4, <2>5, <2>6
  <2> QED
    BY <2>7 DEF X
<1>4. Types'
  BY <1>1, <1>2, <1>3, CommitWrites DEF Base, Types
<1>5. ActiveKey' = ActiveKey /\ UNCHANGED <<keys, admin>>
  BY DEF ActiveKey, Commit
<1>6. KeysInOrder' /\ AdminsInOrder'
  BY <1>5 DEF Base, KeysInOrder, AdminsInOrder
<1>7. ASSUME NEW v \in Writers, NEW c \in Cells, NEW x \in StoredRow, Has(writer'[v], c, x)
      PROVE  row'[c] # Absent
  <2>1. CASE v = w
    BY <1>1, <1>2, <1>7, <2>1, Distinct, CommitWrites DEF Copies
  <2>2. CASE v # w
    BY <1>2, <1>7, <2>2, CommitWrites DEF Base, LoadedIsThere
  <2> QED
    BY <2>1, <2>2
<1>8. \A a \in Admins : \A c \in DOMAIN admin[a].loaded :
          admin[a].at = "commit" /\ admin[a].loaded[c] # Gone => row'[c] # Absent
  <2>1. \A a \in Admins : DOMAIN admin[a].loaded \subseteq Cells
    BY DEF Base, AdminsInOrder, AdminState
  <2> QED
    BY <2>1, CommitWrites DEF Base, LoadedIsThere
<1>9. LoadedIsThere'
  BY <1>5, <1>7, <1>8 DEF LoadedIsThere
<1> QED
  BY <1>4, <1>6, <1>9 DEF Base
-------------------------------------------------------------------------------
(* A deletion.                                                              *)

\* What a deletion of the cells C does to the state of a writer.
Deprived(s, C) ==
    [s EXCEPT !.loaded = IF s.at \in {"quota", "key"}
                         THEN IF s.req[s.i].cell \in C /\ @ # Absent THEN Gone ELSE @ ELSE @,
              !.batch = [c \in DOMAIN s.batch |->
                           [s.batch[c] EXCEPT !.loaded = IF c \in C /\ @ # Absent THEN Gone ELSE @]]]

\* Such a state d is as s was, but has no row of C any more.
IsDeprived(d, s, C) ==
    /\ d \in WriterState /\ Fits(d)
    /\ d.at = s.at /\ DOMAIN d.batch = DOMAIN s.batch
    /\ \A c \in DOMAIN s.batch : d.batch[c].new = s.batch[c].new
    /\ \A c \in Cells : \A x \in StoredRow : Has(d, c, x) => c \notin C /\ Has(s, c, x)
    /\ Adds(d) \subseteq Adds(s)

LEMMA DeprivedType ==
    ASSUME Base, NEW w \in Writers, NEW C
    PROVE  IsDeprived(Deprived(writer[w], C), writer[w], C)
<1> DEFINE s == writer[w]
           copy == IF s.at \in {"quota", "key"}
                   THEN IF s.req[s.i].cell \in C /\ s.loaded # Absent THEN Gone ELSE s.loaded ELSE s.loaded
           entry(c) == [s.batch[c] EXCEPT !.loaded = IF c \in C /\ @ # Absent THEN Gone ELSE @]
           batch == [c \in DOMAIN s.batch |-> entry(c)]
           d == [s EXCEPT !.loaded = copy, !.batch = batch]
<1>1. Deprived(s, C) = d
  BY DEF Deprived
<1>2. /\ s \in WriterState /\ Fits(s) /\ s.loaded \in Copies /\ DOMAIN s.batch \subseteq Cells
      /\ \A c \in DOMAIN s.batch : s.batch[c] \in Entry
  BY WriterType DEF Base
<1>3. copy \in Copies
  BY <1>2 DEF Copies
<1>4. \A c \in DOMAIN s.batch : /\ entry(c) \in Entry /\ entry(c).new = s.batch[c].new
        /\ entry(c).loaded = IF c \in C /\ s.batch[c].loaded # Absent THEN Gone ELSE s.batch[c].loaded
  BY <1>2 DEF Entry, Copies
<1> HIDE DEF entry
<1>5. batch \in Batches /\ DOMAIN batch = DOMAIN s.batch /\ \A c \in DOMAIN s.batch : batch[c] = entry(c)
  <2>1. batch \in [DOMAIN s.batch -> Entry] /\ DOMAIN s.batch \in SUBSET Cells
    BY <1>2, <1>4
  <2> QED
    BY <2>1 DEF Batches
<1> HIDE DEF copy, batch
<1>6. /\ d \in WriterState /\ d.at = s.at /\ d.req = s.req /\ d.i = s.i /\ d.loaded = copy /\ d.batch = batch
  BY <1>2, <1>3, <1>5 DEF WriterState
<1> HIDE DEF d
<1>7. \A c \in DOMAIN s.batch : /\ d.batch[c].new = s.batch[c].new
        /\ d.batch[c].loaded = IF c \in C /\ s.batch[c].loaded # Absent THEN Gone ELSE s.batch[c].loaded
  BY <1>4, <1>5, <1>6
<1>8. Fits(d)
  BY <1>2, <1>5, <1>6, <1>7, Distinct DEF Fits
<1>9. \A c \in Cells : \A x \in StoredRow : Has(d, c, x) => c \notin C /\ Has(s, c, x)
  BY <1>2, <1>5, <1>6, <1>7, Distinct DEF Has, copy
<1>10. Adds(d) \subseteq Adds(s)
  BY <1>5, <1>6, <1>7, Distinct DEF Adds, copy
<1> QED
  BY <1>1, <1>5, <1>6, <1>7, <1>8, <1>9, <1>10 DEF IsDeprived

LEMMA DeletionDeprives ==
    ASSUME Base, NEW w \in Writers, NEW item, DeleteCells(w, item)
    PROVE  LET C == item \intersect Rows IN
           /\ \A x \in Writers : writer'[x] = Deprived(writer[x], C)
           /\ writer' = [x \in Writers |-> Deprived(writer[x], C)]
           /\ row' = [c \in Cells |-> IF c \in C THEN Absent ELSE row[c]]
           /\ \A a \in Admins : /\ admin'[a] \in AdminState
                 /\ admin'[a].at = admin[a].at /\ admin'[a].version = admin[a].version
                 /\ DOMAIN admin'[a].loaded = DOMAIN admin[a].loaded
                 /\ DOMAIN admin[a].loaded \subseteq Cells
                 /\ \A c \in DOMAIN admin[a].loaded :
                       admin'[a].loaded[c] = IF c \in C THEN Gone ELSE admin[a].loaded[c]
           /\ admin' \in [Admins -> AdminState]
           /\ UNCHANGED <<keys, engine>>
<1> DEFINE C == item \intersect Rows
           orphaned(c, loaded) == IF c \in C /\ loaded # Absent THEN Gone ELSE loaded
           lost(f) == [c \in DOMAIN f |-> orphaned(c, f[c])]
<1>1. writer' = [x \in Writers |-> Deprived(writer[x], C)]
  BY DEF DeleteCells, Deprived, This
<1>2. /\ admin' = [a \in Admins |-> [admin[a] EXCEPT !.loaded = lost(admin[a].loaded)]]
      /\ row' = [c \in Cells |-> IF c \in C THEN Absent ELSE row[c]]
      /\ UNCHANGED <<keys, engine>>
  BY DEF DeleteCells
<1>3. ASSUME NEW a \in Admins
      PROVE  LET f == lost(admin[a].loaded)
                 e == [admin[a] EXCEPT !.loaded = f] IN
             /\ e \in AdminState /\ e.at = admin[a].at /\ e.version = admin[a].version
             /\ DOMAIN e.loaded = DOMAIN admin[a].loaded /\ DOMAIN admin[a].loaded \subseteq Cells
             /\ \A c \in DOMAIN admin[a].loaded : e.loaded[c] = IF c \in C THEN Gone ELSE admin[a].loaded[c]
  <2>1. admin[a] \in AdminState
    BY DEF Base, AdminsInOrder
  <2>2. PICK D \in SUBSET Cells : admin[a].loaded \in [D -> {Gone} \union StoredRow]
    BY <2>1 DEF AdminState
  <2> DEFINE f == lost(admin[a].loaded)
  <2>3. /\ f \in [D -> {Gone} \union StoredRow] /\ DOMAIN f = DOMAIN admin[a].loaded
        /\ \A c \in D : f[c] = IF c \in C THEN Gone ELSE admin[a].loaded[c]
    BY <2>2, Distinct
  <2> HIDE DEF f
  <2>4. f \in UNION {[E -> {Gone} \union StoredRow] : E \in SUBSET Cells}
    BY <2>3
  <2>5. [admin[a] EXCEPT !.loaded = f] \in AdminState
    BY <2>1, <2>4 DEF AdminState
  <2>6. /\ [admin[a] EXCEPT !.loaded = f].loaded = f /\ [admin[a] EXCEPT !.loaded = f].at = admin[a].at
        /\ [admin[a] EXCEPT !.loaded = f].version = admin[a].version
    BY <2>1 DEF AdminState
  <2> QED
    BY <2>2, <2>3, <2>5, <2>6 DEF f
<1> HIDE DEF lost
<1>4. /\ admin' \in [Admins -> AdminState]
      /\ \A a \in Admins : admin'[a] = [admin[a] EXCEPT !.loaded = lost(admin[a].loaded)]
  BY <1>2, <1>3
<1> QED
  BY <1>1, <1>2, <1>3, <1>4

\* A deletion in one view: the cells that go, what writers and administrators are after it.
LEMMA DeletionLeaves ==
    ASSUME Base, NEW w \in Writers, NEW item, DeleteCells(w, item)
    PROVE  \E C \in SUBSET Rows :
           /\ row' = [c \in Cells |-> IF c \in C THEN Absent ELSE row[c]]
           /\ writer' \in [Writers -> WriterState]
           /\ \A x \in Writers : IsDeprived(writer'[x], writer[x], C)
           /\ admin' \in [Admins -> AdminState]
           /\ \A a \in Admins :
                 /\ admin'[a].at = admin[a].at /\ admin'[a].version = admin[a].version
                 /\ DOMAIN admin'[a].loaded = DOMAIN admin[a].loaded
                 /\ DOMAIN admin[a].loaded \subseteq Cells
                 /\ \A c \in DOMAIN admin[a].loaded :
                       admin'[a].loaded[c] = IF c \in C THEN Gone ELSE admin[a].loaded[c]
           /\ allowed' = [c \in Cells |-> IF c \in C THEN {Absent} ELSE allowed[c]]
           /\ since' = [x \in Writers |-> [c \in Cells |->
                          IF writer[x].at # "idle" /\ c \in C THEN since[x][c] \union {Absent} ELSE since[x][c]]]
           /\ writer[w].at = "idle" /\ UNCHANGED <<keys, engine>>
<1> DEFINE C == item \intersect Rows
<1>1. /\ writer' = [x \in Writers |-> Deprived(writer[x], C)]
      /\ row' = [c \in Cells |-> IF c \in C THEN Absent ELSE row[c]]
      /\ admin' \in [Admins -> AdminState] /\ UNCHANGED <<keys, engine>>
      /\ \A a \in Admins :
                 /\ admin'[a].at = admin[a].at /\ admin'[a].version = admin[a].version
                 /\ DOMAIN admin'[a].loaded = DOMAIN admin[a].loaded
                 /\ DOMAIN admin[a].loaded \subseteq Cells
                 /\ \A c \in DOMAIN admin[a].loaded :
                       admin'[a].loaded[c] = IF c \in C THEN Gone ELSE admin[a].loaded[c]
  BY ZenonT(40), DeletionDeprives
<1>2. /\ allowed' = [c \in Cells |-> IF c \in C THEN {Absent} ELSE allowed[c]]
      /\ since' = [x \in Writers |-> [c \in Cells |->
                     IF writer[x].at # "idle" /\ c \in C THEN since[x][c] \union {Absent} ELSE since[x][c]]]
      /\ writer[w].at = "idle" /\ C \in SUBSET Rows
  BY DEF DeleteCells
<1> HIDE DEF C
<1>3. \A x \in Writers : writer'[x] = Deprived(writer[x], C) /\ IsDeprived(writer'[x], writer[x], C)
  BY <1>1, DeprivedType
<1>4. writer' \in [Writers -> WriterState]
  BY <1>1, <1>3 DEF IsDeprived
<1> QED
  BY <1>1, <1>2, <1>3, <1>4

LEMMA DeletionKeeps ==
    ASSUME Base, NEW w \in Writers, NEW item, DeleteCells(w, item)
    PROVE  Base'
<1>1. PICK C \in SUBSET Rows :
           /\ row' = [c \in Cells |-> IF c \in C THEN Absent ELSE row[c]]
           /\ writer' \in [Writers -> WriterState]
           /\ \A x \in Writers : IsDeprived(writer'[x], writer[x], C)
           /\ admin' \in [Admins -> AdminState]
           /\ \A a \in Admins :
                 /\ admin'[a].at = admin[a].at /\ admin'[a].version = admin[a].version
                 /\ DOMAIN admin'[a].loaded = DOMAIN admin[a].loaded
                 /\ DOMAIN admin[a].loaded \subseteq Cells
                 /\ \A c \in DOMAIN admin[a].loaded :
                       admin'[a].loaded[c] = IF c \in C THEN Gone ELSE admin[a].loaded[c]
           /\ UNCHANGED <<keys, engine>>
  BY DeletionLeaves
<1>2. row' \in [Cells -> {Absent} \union StoredRow] /\ \A c \in Cells : c \notin C => row'[c] = row[c]
  BY <1>1 DEF Base, Types
<1>3. allowed' \in [Cells -> SUBSET ({Absent} \union Values)]
      /\ since' \in [Writers -> [Cells -> SUBSET ({Absent} \union Values)]]
  BY DEF DeleteCells, Base, Types
<1>4. Types'
  BY <1>1, <1>2, <1>3 DEF Base, Types, IsDeprived
<1>5. ActiveKey' = ActiveKey /\ keys' = keys
  BY <1>1 DEF ActiveKey
<1>6. KeysInOrder'
  BY <1>5 DEF Base, KeysInOrder
<1>7. AdminsInOrder'
  BY <1>1, <1>5 DEF Base, AdminsInOrder
<1>8. \A v \in Writers, c \in Cells : \A x \in StoredRow : Has(writer'[v], c, x) => row'[c] # Absent
  BY <1>1, <1>2 DEF Base, LoadedIsThere, IsDeprived
<1>9. \A a \in Admins : \A c \in DOMAIN admin'[a].loaded :
          admin'[a].at = "commit" /\ admin'[a].loaded[c] # Gone => row'[c] # Absent
  BY <1>1, <1>2 DEF Base, LoadedIsThere
<1>10. LoadedIsThere'
  BY <1>8, <1>9 DEF LoadedIsThere
<1> QED
  BY <1>4, <1>6, <1>7, <1>10 DEF Base
-------------------------------------------------------------------------------
(* The steps of an administrator.                                           *)

LEMMA AdminType ==
    ASSUME Base, NEW a \in Admins
    PROVE  /\ admin[a] \in AdminState /\ admin[a].version \in 0 .. MaxKeys
           /\ DOMAIN admin[a].loaded \subseteq Cells
           /\ \A c \in DOMAIN admin[a].loaded : admin[a].loaded[c] \in {Gone} \union StoredRow
<1>1. admin[a] \in AdminState
  BY DEF Base, AdminsInOrder
<1>2. PICK D \in SUBSET Cells : admin[a].loaded \in [D -> {Gone} \union StoredRow]
  BY <1>1 DEF AdminState
<1> QED
  BY <1>1, <1>2 DEF AdminState

\* The next version is one more than the newest key's.
LEMMA NextVersion ==
    ASSUME KeysInOrder
    PROVE  Cardinality({k \in 1 .. MaxKeys : keys[k] # "none"}) + 1 = ActiveKey + 1
<1>1. {k \in 1 .. MaxKeys : keys[k] # "none"} = 1 .. ActiveKey
  BY CellStoreAssumption DEF KeysInOrder
<1>2. ActiveKey \in Nat
  BY CellStoreAssumption DEF KeysInOrder
<1>3. Cardinality(1 .. ActiveKey) = ActiveKey
  <2> DEFINE n == ActiveKey
  <2>1. n \in Nat
    BY <1>2
  <2> HIDE DEF n
  <2>2. Cardinality(1 .. n) = IF 1 > n THEN 0 ELSE n - 1 + 1
    BY <2>1, FS_Interval
  <2>3. Cardinality(1 .. n) = n
    BY <2>1, <2>2
  <2> QED
    BY <2>3 DEF n
<1> QED
  BY <1>1, <1>3

LEMMA AdminGoesOn ==
    ASSUME Base, NEW a \in Admins, NEW s \in AdminState, admin' = [admin EXCEPT ![a] = s],
           UNCHANGED <<row, keys, engine, writer, allowed, since>>,
           s.at = "insert" => s.version \in 1 .. (ActiveKey + 1),
           s.at \in {"select", "commit"} =>
              /\ s.version = ActiveKey + 1
              /\ \A b \in Admins \ {a} : admin[b].at \notin {"select", "commit"},
           s.at = "commit" => \A c \in DOMAIN s.loaded : row[c] # Absent
    PROVE  Base'
<1>1. /\ admin'[a] = s /\ admin' \in [Admins -> AdminState]
      /\ \A b \in Admins \ {a} : admin'[b] = admin[b]
  BY DEF Base, AdminsInOrder
<1>2. ActiveKey' = ActiveKey
  BY DEF ActiveKey
<1>3. Types'
  BY DEF Base, Types
<1>4. KeysInOrder'
  BY <1>2 DEF Base, KeysInOrder
<1>5. AdminsInOrder'
  BY <1>1, <1>2 DEF Base, AdminsInOrder
<1>6. LoadedIsThere'
  BY <1>1 DEF Base, LoadedIsThere
<1> QED
  BY <1>3, <1>4, <1>5, <1>6 DEF Base

LEMMA IdleAdminType == IdleAdmin \in AdminState /\ IdleAdmin.at = "idle"
<1>1. Nothing \in [{} -> {Gone} \union StoredRow] /\ {} \in SUBSET Cells
  BY DEF Nothing
<1>2. Nothing \in UNION {[D -> {Gone} \union StoredRow] : D \in SUBSET Cells}
  BY <1>1
<1> QED
  BY <1>2, CellStoreAssumption DEF IdleAdmin, AdminState

\* The steps before the commit, and a commit that fails, in one view.
LEMMA AdminFollows ==
    ASSUME Base, NEW a \in Admins,
           \/ \E kind \in {"enable", "rotate"} : BeginKeyChange(a, kind)
           \/ NextKeyVersion(a) \/ InsertKey(a) \/ SelectCells(a) \/ CommitKeyFails(a)
    PROVE  \E s \in AdminState :
              /\ admin' = [admin EXCEPT ![a] = s]
              /\ s.at = "insert" => s.version \in 1 .. (ActiveKey + 1)
              /\ s.at \in {"select", "commit"} =>
                    /\ s.version = ActiveKey + 1
                    /\ \A b \in Admins \ {a} : admin[b].at \notin {"select", "commit"}
              /\ s.at = "commit" => s.loaded = [c \in Rows |-> row[c]]
<1> DEFINE o == admin[a]
<1>1. o \in AdminState /\ ActiveKey \in 0 .. MaxKeys /\ ActiveKey \in Nat /\ MaxKeys \in Nat
  BY AdminType, CellStoreAssumption DEF Base, KeysInOrder
<1>2. CASE Step(a, IdleAdmin)
  BY <1>2, IdleAdminType DEF Step
<1>3. CASE \E kind \in {"enable", "rotate"} : BeginKeyChange(a, kind)
  <2>1. PICK kind \in {"enable", "rotate"} : BeginKeyChange(a, kind)
    BY <1>3
  <2> DEFINE s == [IdleAdmin EXCEPT !.at = "version", !.kind = kind]
  <2>2. s \in AdminState /\ s.at = "version"
    BY IdleAdminType DEF AdminState
  <2>3. admin' = [admin EXCEPT ![a] = s]
    BY <2>1 DEF BeginKeyChange, Step
  <2> HIDE DEF s
  <2> QED
    BY <2>2, <2>3
<1>4. CASE NextKeyVersion(a)
  <2> DEFINE n == Cardinality({k \in 1 .. MaxKeys : keys[k] # "none"}) + 1
             s == [o EXCEPT !.at = "insert", !.version = n]
  <2>1. n = ActiveKey + 1
    BY NextVersion DEF Base
  <2>2. n <= MaxKeys /\ admin' = [admin EXCEPT ![a] = s]
    BY <1>4 DEF NextKeyVersion, Step
  <2> HIDE DEF n
  <2>3. n \in 0 .. MaxKeys /\ n \in 1 .. (ActiveKey + 1)
    BY <1>1, <2>1, <2>2
  <2>4. s \in AdminState /\ s.at = "insert" /\ s.version = n
    BY <1>1, <2>3 DEF AdminState
  <2> HIDE DEF s
  <2> QED
    BY <2>2, <2>3, <2>4
<1>5. CASE InsertKey(a) /\ ~Step(a, IdleAdmin)
  <2> DEFINE s == [o EXCEPT !.at = "select"]
  <2>1. /\ admin' = [admin EXCEPT ![a] = s] /\ keys[o.version] = "none" /\ o.at = "insert"
        /\ \A b \in Admins \ {a} : ~(admin[b].at \in {"select", "commit"} /\ admin[b].version = o.version)
    BY <1>5 DEF InsertKey, Step
  <2>2. o.version \in 1 .. (ActiveKey + 1) /\ o.version \in 1 .. MaxKeys
    BY <1>1, <2>1, AdminType DEF Base, AdminsInOrder
  <2>3. o.version = ActiveKey + 1
    <3>1. ~(o.version <= ActiveKey)
      BY <2>1, <2>2 DEF Base, KeysInOrder
    <3> QED
      BY <1>1, <2>2, <3>1
  <2>4. \A b \in Admins \ {a} : admin[b].at \notin {"select", "commit"}
    BY <2>1, <2>3 DEF Base, AdminsInOrder
  <2>5. s \in AdminState /\ s.at = "select" /\ s.version = o.version
    BY <1>1 DEF AdminState
  <2> HIDE DEF s
  <2> QED
    BY <2>1, <2>3, <2>4, <2>5
<1>6. CASE SelectCells(a) /\ ~Step(a, IdleAdmin)
  <2> DEFINE f == [c \in Rows |-> row[c]]
             s == [o EXCEPT !.at = "commit", !.loaded = f]
  <2>1. admin' = [admin EXCEPT ![a] = s] /\ o.at = "select"
    BY <1>6 DEF SelectCells, Step
  <2>2. o.version = ActiveKey + 1 /\ \A b \in Admins \ {a} : admin[b].at \notin {"select", "commit"}
    BY <2>1 DEF Base, AdminsInOrder
  <2>3. f \in [Rows -> {Gone} \union StoredRow] /\ Rows \in SUBSET Cells
    BY DEF Base, Types, Rows
  <2> HIDE DEF f
  <2>4. f \in UNION {[D -> {Gone} \union StoredRow] : D \in SUBSET Cells}
    BY <2>3
  <2>5. s \in AdminState /\ s.at = "commit" /\ s.version = o.version /\ s.loaded = f
    BY <1>1, <2>4 DEF AdminState
  <2> HIDE DEF s
  <2> QED
    BY <2>1, <2>2, <2>5 DEF f
<1> QED
  BY <1>2, <1>3, <1>4, <1>5, <1>6 DEF CommitKeyFails

LEMMA AdminFollowsKeeps ==
    ASSUME Base, NEW a \in Admins,
           \/ \E kind \in {"enable", "rotate"} : BeginKeyChange(a, kind)
           \/ NextKeyVersion(a) \/ InsertKey(a) \/ SelectCells(a) \/ CommitKeyFails(a)
    PROVE  Base' /\ UNCHANGED <<row, keys, engine, writer, allowed, since>>
<1>1. UNCHANGED <<row, keys, engine, writer, allowed, since>>
  BY DEF BeginKeyChange, NextKeyVersion, InsertKey, SelectCells, CommitKeyFails, data, history
<1>2. PICK s \in AdminState :
              /\ admin' = [admin EXCEPT ![a] = s]
              /\ s.at = "insert" => s.version \in 1 .. (ActiveKey + 1)
              /\ s.at \in {"select", "commit"} =>
                    /\ s.version = ActiveKey + 1
                    /\ \A b \in Admins \ {a} : admin[b].at \notin {"select", "commit"}
              /\ s.at = "commit" => s.loaded = [c \in Rows |-> row[c]]
  BY AdminFollows
<1>3. s.at = "commit" => \A c \in DOMAIN s.loaded : row[c] # Absent
  BY <1>2 DEF Rows
<1> QED
  BY <1>1, <1>2, <1>3, AdminGoesOn

\* What the commit of a key does to the rows: those that were read are encrypted anew.
LEMMA KeyReplaces ==
    ASSUME Base, NEW a \in Admins, CommitKey(a)
    PROVE  /\ ActiveKey' = ActiveKey + 1 /\ KeysInOrder'
           /\ admin[a].at = "commit" /\ admin[a].version = ActiveKey + 1
           /\ admin' = [admin EXCEPT ![a] = IdleAdmin]
           /\ row' \in [Cells -> {Absent} \union StoredRow]
           /\ \A c \in Cells : /\ c \notin DOMAIN admin[a].loaded => row'[c] = row[c]
                               /\ row'[c] = Absent <=> row[c] = Absent
           /\ \A c \in DOMAIN admin[a].loaded :
                 /\ row[c] \in StoredRow /\ admin[a].loaded[c] \in StoredRow
                 /\ row'[c] = Merge(row[c], admin[a].loaded[c], Reencrypted(a, c))
           /\ UNCHANGED <<engine, writer, allowed, since>>
<1> DEFINE loaded == admin[a].loaded
           v == admin[a].version
<1>1. /\ admin[a].at = "commit" /\ \A c \in DOMAIN loaded : loaded[c] # Gone
      /\ row' = [c \in Cells |-> IF c \in DOMAIN loaded
                                 THEN Merge(row[c], loaded[c], Reencrypted(a, c)) ELSE row[c]]
      /\ keys' = [k \in 1 .. MaxKeys |->
                    IF k = v THEN "active"
                    ELSE IF admin[a].kind = "rotate" /\ keys[k] # "none" THEN "inactive"
                    ELSE keys[k]]
      /\ admin' = [admin EXCEPT ![a] = IdleAdmin] /\ UNCHANGED <<engine, writer, allowed, since>>
  BY DEF CommitKey, Step, history
<1>2. v = ActiveKey + 1 /\ v \in 0 .. MaxKeys
  BY <1>1, AdminType DEF Base, AdminsInOrder
<1>3. ActiveKey \in Nat /\ v \in 1 .. MaxKeys /\ MaxKeys \in Nat
  BY <1>2, CellStoreAssumption DEF Base, KeysInOrder
<1>4. /\ keys' \in [1 .. MaxKeys -> {"none", "active", "inactive"}]
      /\ keys'[v] = "active"
      /\ \A k \in 1 .. MaxKeys : keys'[k] # "none" <=> k <= v
  <2>1. keys \in [1 .. MaxKeys -> {"none", "active", "inactive"}]
        /\ \A k \in 1 .. MaxKeys : keys[k] # "none" <=> k <= ActiveKey
    BY DEF Base, KeysInOrder
  <2>2. \A k \in 1 .. MaxKeys : k <= v <=> k <= ActiveKey \/ k = v
    BY <1>2, <1>3
  <2> HIDE DEF v
  <2> QED
    BY <1>1, <1>3, <2>1, <2>2
<1>5. ActiveKey' = v
  <2> HIDE DEF v
  <2> DEFINE active == {k \in 1 .. MaxKeys : keys'[k] = "active"}
  <2>1. v \in active /\ \A j \in active : j <= v
    BY <1>3, <1>4
  <2>2. ActiveKey' = CHOOSE k \in active : \A j \in active : j <= k
    BY <2>1 DEF ActiveKey
  <2>3. \A k \in active : (\A j \in active : j <= k) => k = v
    BY <1>3, <2>1
  <2> QED
    BY <2>1, <2>2, <2>3
<1>6. KeysInOrder'
  BY <1>3, <1>4, <1>5 DEF KeysInOrder
<1>7. ASSUME NEW c \in DOMAIN loaded
      PROVE  /\ c \in Cells /\ row[c] \in StoredRow /\ loaded[c] \in StoredRow
             /\ row'[c] = Merge(row[c], loaded[c], Reencrypted(a, c)) /\ row'[c] \in StoredRow
  <2>1. c \in Cells /\ loaded[c] \in StoredRow
    BY <1>1, AdminType
  <2>2. row[c] \in StoredRow
    BY <1>1, <2>1 DEF Base, LoadedIsThere, Types
  <2>3. Reencrypted(a, c) \in StoredRow
    BY <1>2, <2>1, ValueType, StoredType DEF Reencrypted
  <2>4. row'[c] = Merge(row[c], loaded[c], Reencrypted(a, c))
    BY <1>1, <2>1
  <2> QED
    BY <2>1, <2>2, <2>3, <2>4, MergeType, Distinct
<1>8. \A c \in Cells : c \notin DOMAIN loaded => row'[c] = row[c]
  BY <1>1
<1>9. \A c \in Cells : row'[c] \in {Absent} \union StoredRow /\ (row'[c] = Absent <=> row[c] = Absent)
  BY <1>7, <1>8, Distinct DEF Base, Types
<1>10. row' \in [Cells -> {Absent} \union StoredRow]
  BY <1>1, <1>9
<1> QED
  BY <1>1, <1>2, <1>5, <1>6, <1>7, <1>8, <1>9, <1>10

LEMMA KeyKeeps ==
    ASSUME Base, NEW a \in Admins, CommitKey(a)
    PROVE  Base'
<1>1. Types'
  BY KeyReplaces DEF Base, Types
<1>2. /\ admin' \in [Admins -> AdminState] /\ admin'[a].at = "idle"
      /\ \A b \in Admins \ {a} : admin'[b] = admin[b]
  BY KeyReplaces, IdleAdminType DEF Base, AdminsInOrder
<1>3. \A b \in Admins \ {a} : admin[b].at \notin {"select", "commit"}
  BY KeyReplaces DEF Base, AdminsInOrder
<1>4. AdminsInOrder'
  <2>1. ActiveKey \in Nat /\ ActiveKey' = ActiveKey + 1
    BY KeyReplaces, CellStoreAssumption DEF Base, KeysInOrder
  <2>2. \A b \in Admins : admin'[b].at = "insert" => admin'[b].version \in 1 .. (ActiveKey' + 1)
    <3> SUFFICES ASSUME NEW b \in Admins, admin'[b].at = "insert"
                 PROVE  admin'[b].version \in 1 .. (ActiveKey' + 1)
      OBVIOUS
    <3>1. admin'[b].version \in 1 .. (ActiveKey + 1)
      BY <1>2 DEF Base, AdminsInOrder
    <3> DEFINE n == ActiveKey
               v == admin'[b].version
    <3>2. n \in Nat /\ v \in 1 .. (n + 1) /\ ActiveKey' = n + 1
      BY <2>1, <3>1
    <3> HIDE DEF n, v
    <3>3. v \in 1 .. (n + 1 + 1)
      BY <3>2
    <3> QED
      BY <3>2, <3>3 DEF v
  <2> QED
    BY <1>2, <1>3, <2>2 DEF AdminsInOrder
<1>5. LoadedIsThere'
  BY <1>2, KeyReplaces, AdminType DEF Base, LoadedIsThere
<1> QED
  BY <1>1, <1>4, <1>5, KeyReplaces DEF Base
-------------------------------------------------------------------------------
(* The base is inductive.                                                   *)

LEMMA BaseInitially == Init => Base
<1> SUFFICES ASSUME Init PROVE Base
  OBVIOUS
<1>1. IdleWriter \in WriterState /\ Fits(IdleWriter) /\ IdleWriter.at = "idle"
  BY NothingType DEF IdleWriter, WriterState, Steps, Copies, Fits
<1>2. Types
  BY <1>1 DEF Init, Types
<1>3. ActiveKey = 0 /\ MaxKeys \in Nat
  BY CellStoreAssumption DEF Init, ActiveKey, NoKey
<1>4. KeysInOrder
  BY <1>3 DEF Init, KeysInOrder
<1>5. AdminsInOrder
  BY IdleAdminType DEF Init, AdminsInOrder
<1>6. LoadedIsThere
  BY <1>1, IdleAdminType DEF Init, LoadedIsThere, Has, Holding, Working
<1> QED
  BY <1>2, <1>4, <1>5, <1>6 DEF Base

LEMMA GoesKeeps ==
    ASSUME Base, NEW w \in Writers, Goes(w)
    PROVE  Base'
<1>1. PICK s : Follows(w, s)
  BY GoesFollows
<1>2. engine' \in [Cells -> {Absent} \union Values]
  <2>1. CASE SyncEngine(w)
    <3>1. \A c \in Batch(w) : Value(writer[w].batch[c].new) \in Values
      BY WriterType, ValueType DEF Base, Batch, Entry
    <3> QED
      BY <2>1, <3>1 DEF SyncEngine, Base, Types
  <2>2. CASE ~SyncEngine(w)
    BY <2>2 DEF Goes, LoadRow, CheckQuota, QuotaRefuses, AssignValues, InsertLost, CommitFails, Reload,
                Refresh, data, Base, Types
  <2> QED
    BY <2>1, <2>2
<1> QED
  BY <1>1, <1>2, GoesFollows, FollowingKeeps DEF Base, Types

LEMMA BeginKeeps ==
    ASSUME Base, NEW w \in Writers, NEW req \in Requests, Begin(w, req)
    PROVE  Base'
<1>1. PICK s : Follows(w, s)
  BY Beginning DEF Base
<1>2. UNCHANGED <<row, keys, engine, admin, allowed>>
      /\ since' \in [Writers -> [Cells -> SUBSET ({Absent} \union Values)]]
  BY DEF Begin, data, Base, Types
<1> QED
  BY <1>1, <1>2, FollowingKeeps DEF Base, Types

LEMMA BaseKeeps == Base /\ [Next]_vars => Base'
<1> SUFFICES ASSUME Base, [Next]_vars PROVE Base'
  OBVIOUS
<1>1. ASSUME NEW w \in Writers, WriterNext(w, Requests, Deletable) PROVE Base'
  BY <1>1, BeginKeeps, GoesKeeps, CommitKeeps, DeletionKeeps DEF WriterNext, Continues, Goes
<1>2. ASSUME NEW a \in Admins, AdminNext(a) PROVE Base'
  BY <1>2, AdminFollowsKeeps, KeyKeeps DEF AdminNext
<1>3. CASE UNCHANGED vars
  BY ZenonT(40), <1>3 DEF vars, Base, Types, KeysInOrder, ActiveKey, AdminsInOrder, LoadedIsThere
<1> QED
  BY <1>1, <1>2, <1>3 DEF Next

LEMMA BaseAlways == Spec => []Base
  BY BaseInitially, BaseKeeps, PTL DEF Spec
-------------------------------------------------------------------------------
(* The overrun of the quota.                                                *)

LEMMA LongestType ==
    /\ LongestRequest \in Nat
    /\ \A req \in Requests : Len(req) <= LongestRequest
<1> DEFINE lengths == {Len(req) : req \in Requests}
           Longest(n) == \A req \in Requests : Len(req) <= n
<1>1. \E n \in lengths : Longest(n)
  BY CellStoreAssumption
<1>2. LongestRequest = CHOOSE n \in lengths : Longest(n)
  BY DEF LongestRequest
<1> HIDE DEF Longest
<1>3. LongestRequest \in lengths /\ Longest(LongestRequest)
  BY <1>1, <1>2
<1>4. \A n \in lengths : n \in Nat
  BY RequestType
<1> QED
  BY <1>3, <1>4 DEF Longest

LEMMA AddsAreAskedFor ==
    ASSUME Base, NEW w \in Writers, NEW c \in Adds(writer[w])
    PROVE  /\ writer[w].req \in Requests
           /\ \E j \in DOMAIN writer[w].req : writer[w].req[j].cell = c
<1>1. writer[w].at # "idle"
  BY DEF Adds, Working
<1>2. writer[w].req \in Requests /\ c \in CellsOf(writer[w].req)
  BY <1>1, ThisIsACell DEF Adds, Base, This
<1> QED
  BY <1>2 DEF CellsOf

Overrun == (Cardinality(Writers) - 1) * LongestRequest

\* What the writers other than w are going to insert is bounded.
LEMMA OthersAdd ==
    ASSUME Base, NEW w \in Writers
    PROVE  /\ IsFiniteSet({p \in Pending : p[1] # w})
           /\ Cardinality({p \in Pending : p[1] # w}) <= Overrun
           /\ Overrun \in Nat
<1> DEFINE P == {p \in Pending : p[1] # w}
           W == Writers \ {w}
           L == LongestRequest
           T == W \X (1 .. L)
           at(p, j) == writer[p[1]].req[j].cell = p[2]
           index(p) == CHOOSE j \in DOMAIN writer[p[1]].req : at(p, j)
           f == [p \in P |-> <<p[1], index(p)>>]
<1>1. ASSUME NEW p \in P
      PROVE  p[1] \in W /\ index(p) \in 1 .. L /\ writer[p[1]].req[index(p)].cell = p[2] /\ p = <<p[1], p[2]>>
  <2>1. p[1] \in W /\ p[2] \in Adds(writer[p[1]]) /\ p = <<p[1], p[2]>>
    BY DEF Pending
  <2>2. /\ writer[p[1]].req \in Requests
        /\ \E j \in DOMAIN writer[p[1]].req : at(p, j)
    BY <2>1, AddsAreAskedFor
  <2> HIDE DEF at
  <2>3. index(p) \in DOMAIN writer[p[1]].req /\ at(p, index(p))
    BY <2>2
  <2> HIDE DEF index
  <2>4. index(p) \in 1 .. L
    BY <2>2, <2>3, RequestType, LongestType
  <2> QED
    BY <2>1, <2>3, <2>4 DEF at
<1> HIDE DEF index, W, L
<1>2. f \in [P -> T]
  BY <1>1
<1>3. \A p, q \in P : f[p] = f[q] => p = q
  BY <1>1
<1>4. f \in Injection(P, T)
  BY <1>2, <1>3 DEF Injection, IsInjective
<1>5. IsFiniteSet(W) /\ Cardinality(W) = Cardinality(Writers) - 1 /\ Cardinality(Writers) \in Nat
      /\ Cardinality(W) \in Nat
  BY CellStoreAssumption, FS_RemoveElement, FS_CardinalityType DEF W
<1>6. IsFiniteSet(1 .. L) /\ Cardinality(1 .. L) = L
  <2>1. L \in Nat
    BY LongestType DEF L
  <2>2. IsFiniteSet(1 .. L) /\ Cardinality(1 .. L) = IF 1 > L THEN 0 ELSE L - 1 + 1
    BY <2>1, FS_Interval
  <2> QED
    BY <2>1, <2>2
<1>7. IsFiniteSet(T) /\ Cardinality(T) = Cardinality(W) * L
  BY <1>5, <1>6, FS_Product
<1>8. Cardinality(T) = Overrun
  BY <1>5, <1>7 DEF Overrun, L
<1>9. Overrun \in Nat
  BY <1>7, <1>8, FS_CardinalityType
<1> HIDE DEF f, T, P
<1>10. IsFiniteSet(P) /\ Cardinality(P) <= Cardinality(T)
  BY <1>4, <1>7, FS_Injection
<1> QED
  BY <1>8, <1>9, <1>10 DEF P

LEMMA CountTypes ==
    /\ IsFiniteSet(Rows) /\ Cardinality(Rows) \in Nat
    /\ IsFiniteSet(Pending) /\ Cardinality(Pending) \in Nat
<1>1. IsFiniteSet(Cells) /\ IsFiniteSet(Writers)
  BY CellStoreAssumption
<1>2. IsFiniteSet(Writers \X Cells)
  BY <1>1, FS_Product
<1>3. Rows \in SUBSET Cells /\ Pending \in SUBSET (Writers \X Cells)
  BY DEF Rows, Pending
<1> QED
  BY <1>1, <1>2, <1>3, FS_Subset, FS_CardinalityType
LEMMA OwnType ==
    ASSUME Base, NEW w \in Writers
    PROVE  /\ OwnInserts(w) \subseteq Cells /\ IsFiniteSet(OwnInserts(w))
           /\ Cardinality(OwnInserts(w)) \in Nat
<1>1. OwnInserts(w) \in SUBSET Cells
  BY WriterType DEF OwnInserts, Base
<1> QED
  BY <1>1, CellStoreAssumption, FS_Subset, FS_CardinalityType

\* A step after which there are no more rows, and nobody is going to insert more.
LEMMA NoMoreThanBefore ==
    ASSUME QuotaInv, Base, Rows' \subseteq Rows,
           \A x \in Writers : Adds(writer'[x]) \subseteq Adds(writer[x])
    PROVE  QuotaInv'
<1>1. Pending' \subseteq Pending
  BY DEF Pending
<1>2. /\ Cardinality(Pending') <= Cardinality(Pending) /\ Cardinality(Pending') \in Nat
      /\ Cardinality(Rows') <= Cardinality(Rows) /\ Cardinality(Rows') \in Nat
  BY <1>1, CountTypes, FS_Subset, FS_CardinalityType
<1>3. Cardinality(Rows) + Cardinality(Pending) <= MaxCells + Overrun
  BY DEF QuotaInv, Overrun
<1>4. PICK w \in Writers : TRUE
  BY CellStoreAssumption
<1>5. Overrun \in Nat /\ MaxCells \in Nat
  BY <1>4, OthersAdd, CellStoreAssumption
<1>6. Cardinality(Rows') + Cardinality(Pending') <= MaxCells + Overrun
  BY <1>2, <1>3, <1>5, CountTypes
<1> QED
  BY <1>6 DEF QuotaInv, Overrun

\* A writer whose insert passes the check: with what it is going to insert itself the
\* rows are within the quota, and the others are bounded.
LEMMA CheckKeepsQuota ==
    ASSUME QuotaInv, Base, NEW w \in Writers, CheckQuota(w)
    PROVE  QuotaInv'
<1>1. PICK s : /\ Follows(w, s)
               /\ Adds(s) \subseteq IF writer[w].loaded = Absent
                                    THEN OwnInserts(w) \union {This(w).cell} ELSE Adds(writer[w])
  BY Checking DEF Base
<1>2. writer'[w] = s /\ \A x \in Writers \ {w} : writer'[x] = writer[x]
  BY <1>1 DEF Follows, Base, Types
<1>3. row' = row /\ Rows' = Rows
  BY DEF CheckQuota, data, Rows
<1>4. CASE writer[w].loaded # Absent
  BY <1>1, <1>2, <1>3, <1>4, NoMoreThanBefore
<1>5. CASE writer[w].loaded = Absent
  <2> DEFINE A == OwnInserts(w) \union {This(w).cell}
             Own == {w} \X A
             Others == {p \in Pending : p[1] # w}
  <2>1. Pending' \subseteq Own \union Others
    BY <1>1, <1>2, <1>5 DEF Pending
  <2>2. /\ IsFiniteSet(A) /\ Cardinality(A) <= Cardinality(OwnInserts(w)) + 1
        /\ Cardinality(A) \in Nat
    <3> DEFINE O == OwnInserts(w)
               c == This(w).cell
    <3>1. IsFiniteSet(O) /\ Cardinality(O) \in Nat
      BY OwnType
    <3> HIDE DEF O, c
    <3>2. /\ IsFiniteSet(O \union {c})
          /\ Cardinality(O \union {c}) = IF c \in O THEN Cardinality(O) ELSE Cardinality(O) + 1
      BY <3>1, FS_AddElement
    <3>3. /\ IsFiniteSet(O \union {c}) /\ Cardinality(O \union {c}) <= Cardinality(O) + 1
          /\ Cardinality(O \union {c}) \in Nat
      BY <3>1, <3>2
    <3> QED
      BY <3>3 DEF O, c
  <2> HIDE DEF A
  <2>3. IsFiniteSet({w}) /\ Cardinality({w}) = 1
    BY FS_Singleton
  <2>4. IsFiniteSet(Own) /\ Cardinality(Own) = Cardinality(A)
    <3>1. IsFiniteSet(Own) /\ Cardinality(Own) = Cardinality({w}) * Cardinality(A)
      BY <2>2, <2>3, FS_Product
    <3> QED
      BY <2>2, <2>3, <3>1
  <2>5. IsFiniteSet(Others) /\ Cardinality(Others) <= Overrun /\ Overrun \in Nat /\ Cardinality(Others) \in Nat
    BY OthersAdd, FS_CardinalityType
  <2> HIDE DEF Own, Others
  <2>6. IsFiniteSet(Own \union Others) /\ Cardinality(Own \union Others) <= Cardinality(Own) + Cardinality(Others)
    <3>1. Cardinality(Own \cap Others) \in Nat
      BY <2>4, FS_Intersection, FS_CardinalityType
    <3>2. IsFiniteSet(Own \union Others) /\ Cardinality(Own \union Others) =
             Cardinality(Own) + Cardinality(Others) - Cardinality(Own \cap Others)
      BY <2>4, <2>5, FS_Union
    <3> QED
      BY <2>2, <2>4, <2>5, <3>1, <3>2
  <2>7. Cardinality(Pending') <= Cardinality(Own \union Others) /\ Cardinality(Pending') \in Nat
        /\ Cardinality(Own \union Others) \in Nat
    BY <2>1, <2>6, FS_Subset, FS_CardinalityType
  <2>8. Cardinality(Rows) + Cardinality(OwnInserts(w)) < MaxCells
    BY <1>5 DEF CheckQuota, WithinQuota
  <2>9. Cardinality(Rows') + Cardinality(Pending') <= MaxCells + Overrun
    BY <1>3, <2>2, <2>4, <2>5, <2>6, <2>7, <2>8, OwnType, CountTypes, CellStoreAssumption
  <2> QED
    BY <2>9 DEF QuotaInv, Overrun
<1> QED
  BY <1>4, <1>5

\* A commit inserts rows that were pending.
LEMMA CommitKeepsQuota ==
    ASSUME QuotaInv, Base, NEW w \in Writers, Commit(w)
    PROVE  QuotaInv'
<1> DEFINE I == OwnInserts(w)
           Own == {w} \X I
<1>1. PICK s : writer' = [writer EXCEPT ![w] = s] /\ Adds(s) = {}
  BY CommitFollows
<1>2. writer'[w] = s /\ \A x \in Writers \ {w} : writer'[x] = writer[x]
  BY <1>1 DEF Base, Types
<1>3. Rows' \subseteq Rows \union I
  <2> SUFFICES ASSUME NEW c \in Cells, row'[c] # Absent, row[c] = Absent PROVE c \in I
    BY DEF Rows
  <2>1. c \in Batch(w)
    BY CommitWrites
  <2> QED
    BY <2>1, CommitMerges DEF OwnInserts, Batch
<1>4. Own \subseteq Pending
  BY OwnType DEF Pending, Adds, OwnInserts, Working, Commit
<1>5. Pending' \subseteq Pending \ Own
  BY <1>1, <1>2 DEF Pending
<1>6. IsFiniteSet(I) /\ Cardinality(I) \in Nat
  BY OwnType
<1> HIDE DEF I
<1>7. IsFiniteSet(Own) /\ Cardinality(Own) = Cardinality(I)
  <2>1. IsFiniteSet({w}) /\ Cardinality({w}) = 1
    BY FS_Singleton
  <2>2. IsFiniteSet(Own) /\ Cardinality(Own) = Cardinality({w}) * Cardinality(I)
    BY <1>6, <2>1, FS_Product
  <2> QED
    BY <1>6, <2>1, <2>2
<1> HIDE DEF Own
<1>8. Cardinality(Pending') <= Cardinality(Pending) - Cardinality(I) /\ Cardinality(Pending') \in Nat
  <2>1. Pending \cap Own = Own
    BY <1>4
  <2>2. IsFiniteSet(Pending \ Own) /\ Cardinality(Pending \ Own) = Cardinality(Pending) - Cardinality(Own)
    BY <2>1, CountTypes, FS_Difference
  <2>3. Cardinality(Pending') <= Cardinality(Pending \ Own) /\ Cardinality(Pending') \in Nat
    BY <1>5, <2>2, FS_Subset, FS_CardinalityType
  <2> QED
    BY <1>7, <2>2, <2>3
<1>9. Cardinality(Rows') <= Cardinality(Rows) + Cardinality(I) /\ Cardinality(Rows') \in Nat
  <2>1. Cardinality(Rows \cap I) \in Nat
    BY CountTypes, FS_Intersection, FS_CardinalityType
  <2>2. IsFiniteSet(Rows \union I) /\ Cardinality(Rows \union I) =
           Cardinality(Rows) + Cardinality(I) - Cardinality(Rows \cap I)
    BY <1>6, CountTypes, FS_Union
  <2>3. Cardinality(Rows') <= Cardinality(Rows \union I) /\ Cardinality(Rows') \in Nat
    BY <1>3, <2>2, FS_Subset, FS_CardinalityType
  <2> QED
    BY <1>6, <2>1, <2>2, <2>3, CountTypes
<1>10. Overrun \in Nat /\ MaxCells \in Nat
  BY OthersAdd, CellStoreAssumption
<1>11. Cardinality(Rows) + Cardinality(Pending) <= MaxCells + Overrun
  BY DEF QuotaInv, Overrun
<1>12. Cardinality(Rows') + Cardinality(Pending') <= MaxCells + Overrun
  BY <1>6, <1>8, <1>9, <1>10, <1>11, CountTypes
<1> QED
  BY <1>12 DEF QuotaInv, Overrun

LEMMA QuotaKept == Base /\ QuotaInv /\ [Next]_vars => QuotaInv'
<1> SUFFICES ASSUME Base, QuotaInv, [Next]_vars PROVE QuotaInv'
  OBVIOUS
<1>1. ASSUME NEW w \in Writers, NEW s, Follows(w, s), Adds(s) \subseteq Adds(writer[w]), row' = row
      PROVE  QuotaInv'
  <2>1. \A x \in Writers : Adds(writer'[x]) \subseteq Adds(writer[x])
    BY <1>1 DEF Follows, Base, Types
  <2> QED
    BY <1>1, <2>1, NoMoreThanBefore DEF Rows
<1>2. ASSUME NEW w \in Writers, NEW req \in Requests, Begin(w, req) PROVE QuotaInv'
  BY <1>1, <1>2, Beginning DEF Begin, data, Base
<1>3. ASSUME NEW w \in Writers, Goes(w) PROVE QuotaInv'
  BY <1>1, <1>3, GoesFollows, CheckKeepsQuota
<1>4. ASSUME NEW w \in Writers, NEW item, DeleteCells(w, item) PROVE QuotaInv'
  <2>1. PICK C \in SUBSET Rows : /\ row' = [c \in Cells |-> IF c \in C THEN Absent ELSE row[c]]
                                 /\ \A x \in Writers : IsDeprived(writer'[x], writer[x], C)
    BY <1>4, DeletionLeaves
  <2>2. Rows' \subseteq Rows
    BY <2>1 DEF Rows
  <2>3. \A x \in Writers : Adds(writer'[x]) \subseteq Adds(writer[x])
    BY <2>1 DEF IsDeprived
  <2> QED
    BY <2>2, <2>3, NoMoreThanBefore
<1>5. ASSUME NEW w \in Writers, WriterNext(w, Requests, Deletable) PROVE QuotaInv'
  BY <1>2, <1>3, <1>4, <1>5, CommitKeepsQuota DEF WriterNext, Continues, Goes
<1>6. ASSUME NEW a \in Admins, AdminNext(a) PROVE QuotaInv'
  <2>1. Rows' \subseteq Rows /\ writer' = writer
    BY <1>6, AdminFollowsKeeps, KeyReplaces DEF AdminNext, Rows
  <2> QED
    BY <2>1, NoMoreThanBefore
<1>7. CASE UNCHANGED vars
  BY <1>7, NoMoreThanBefore DEF vars, Rows
<1> QED
  BY <1>5, <1>6, <1>7 DEF Next

\* For every number of writers and every set of requests: however writers race past the
\* quota's check, the rows exceed it by no more than all but one of them can insert in
\* one request (enforce_cell_write_quota).
THEOREM QuotaOverrunBoundedAlways == Spec => []QuotaOverrunBounded
<1>1. Init => QuotaInv
  <2> SUFFICES ASSUME Init PROVE QuotaInv
    OBVIOUS
  <2>1. Rows = {} /\ Pending = {}
    BY DEF Init, Rows, Pending, Adds, IdleWriter, Working
  <2>2. Cardinality(Rows) = 0 /\ Cardinality(Pending) = 0
    BY <2>1, FS_EmptySet
  <2>3. PICK w \in Writers : TRUE
    BY CellStoreAssumption
  <2>4. Overrun \in Nat /\ MaxCells \in Nat
    BY <2>3, BaseInitially, OthersAdd, CellStoreAssumption
  <2> QED
    BY <2>2, <2>4 DEF QuotaInv, Overrun
<1>2. Base /\ QuotaInv => QuotaOverrunBounded
  <2> SUFFICES ASSUME Base, QuotaInv PROVE QuotaOverrunBounded
    OBVIOUS
  <2>1. Cardinality(Rows) + Cardinality(Pending) <= MaxCells + Overrun
    BY DEF QuotaInv, Overrun
  <2>2. PICK w \in Writers : TRUE
    BY CellStoreAssumption
  <2>3. Overrun \in Nat /\ MaxCells \in Nat
    BY <2>2, OthersAdd, CellStoreAssumption
  <2>4. Cardinality(Rows) <= MaxCells + Overrun
    BY <2>1, <2>3, CountTypes
  <2> QED
    BY <2>4 DEF QuotaOverrunBounded, Overrun
<1> QED
  BY <1>1, <1>2, QuotaKept, BaseAlways, PTL DEF Spec
-------------------------------------------------------------------------------
(* The keys.                                                                *)

LEMMA ScalarsAreValues == Scalars \subseteq Values /\ Null \in Scalars
  BY RequestType DEF Scalars, Values

LEMMA UnderType ==
    ASSUME NEW n \in 0 .. MaxKeys, NEW r \in Under(n)
    PROVE  /\ r \in StoredRow /\ r.key = n /\ r.plain \in Plain
           /\ n = NoKey => r.payload = NoPayload
           /\ n # NoKey => r.payload # NoPayload /\ r.payload.key = n /\ r.payload.value \in Scalars
<1>1. Plain \subseteq [Columns -> Values]
  BY ScalarsAreValues DEF Plain
<1>2. CASE n = NoKey
  BY <1>1, <1>2 DEF Under, StoredRow
<1>3. CASE n # NoKey
  <2>1. n \in 1 .. MaxKeys
    BY <1>3, CellStoreAssumption DEF NoKey
  <2>2. r \in [plain : Plain, key : {n}, payload : [key : {n}, value : Scalars]]
    BY <1>3 DEF Under
  <2>3. [key : {n}, value : Scalars] \subseteq [key : 1 .. MaxKeys, value : Values]
    BY <2>1, ScalarsAreValues
  <2> HIDE DEF Plain
  <2>4. /\ r.plain \in Plain /\ r.key = n /\ r.payload \in [key : {n}, value : Scalars]
        /\ r = [plain |-> r.plain, key |-> r.key, payload |-> r.payload]
    BY <2>2
  <2>5. r.payload.key = n /\ r.payload.value \in Scalars
    BY <2>4
  <2> QED
    BY <1>1, <1>3, <2>1, <2>2, <2>3, <2>4, <2>5, Distinct DEF StoredRow
<1> QED
  BY <1>2, <1>3

LEMMA PlainNull == [col \in Columns |-> Null] \in Plain
  BY ScalarsAreValues DEF Plain

LEMMA StoredUnder ==
    ASSUME NEW v \in Scalars, NEW n
    PROVE  Stored(v, n) \in Under(n)
<1>1. CASE n = NoKey
  <2>1. [col \in Columns |-> IF v.type = col THEN v ELSE Null] \in Plain
    BY ScalarsAreValues DEF Plain
  <2> QED
    BY <1>1, <2>1 DEF Stored, Under
<1>2. CASE n # NoKey
  BY <1>2, PlainNull DEF Stored, Under
<1> QED
  BY <1>1, <1>2

LEMMA ValueOfUnder ==
    ASSUME NEW n \in 0 .. MaxKeys, NEW r \in Under(n)
    PROVE  Value(r) \in Scalars
<1>1. r.plain["boolean"] \in Scalars /\ r.plain["number"] \in Scalars /\ r.plain["text"] \in Scalars
  BY UnderType DEF Plain, Columns
<1>2. r.payload # NoPayload => r.payload.value \in Scalars
  BY UnderType
<1> QED
  BY <1>1, <1>2 DEF Value

\* A value is read as it was stored.
LEMMA ValueOfStored ==
    ASSUME NEW v \in Scalars, NEW n \in 0 .. MaxKeys
    PROVE  Value(Stored(v, n)) = v
<1>1. CASE n # NoKey
  <2> DEFINE p == [key |-> n, value |-> v]
  <2>1. p \in [key : 1 .. MaxKeys, value : Values] /\ p.value = v
    BY <1>1, ScalarsAreValues, CellStoreAssumption DEF NoKey
  <2>2. p # NoPayload
    BY <2>1, Distinct
  <2>3. Stored(v, n).payload = p
    BY <1>1 DEF Stored
  <2> QED
    BY <2>1, <2>2, <2>3 DEF Value
<1>2. CASE n = NoKey
  <2>1. v = Null \/ (v # Null /\ v.type \in Columns)
    BY ScalarsAreValues DEF Values, Null, Columns
  <2>2. Stored(v, n).payload = NoPayload
    BY <1>2 DEF Stored
  <2>3. \A col \in Columns : Stored(v, n).plain[col] = IF v.type = col THEN v ELSE Null
    BY <1>2 DEF Stored
  <2>4. Null.type \notin Columns
    BY DEF Null, Columns
  <2>5. Value(Stored(v, n)) = IF Stored(v, n).plain["boolean"] # Null THEN Stored(v, n).plain["boolean"]
                              ELSE IF Stored(v, n).plain["number"] # Null THEN Stored(v, n).plain["number"]
                              ELSE Stored(v, n).plain["text"]
    BY <2>2 DEF Value
  <2>6. Value(Stored(v, n)) = IF v.type = "boolean" /\ v # Null THEN v
                              ELSE IF v.type = "number" /\ v # Null THEN v
                              ELSE IF v.type = "text" THEN v ELSE Null
    BY <2>3, <2>5 DEF Columns
  <2> QED
    BY <2>1, <2>4, <2>6 DEF Columns
<1> QED
  BY <1>1, <1>2

LEMMA MergeUnder ==
    ASSUME NEW n \in 0 .. MaxKeys, NEW db \in {Absent} \union Under(n),
           NEW loaded \in {Absent} \union Under(n), NEW new \in Under(n),
           loaded # Absent => db # Absent
    PROVE  Merge(db, loaded, new) \in Under(n)
<1>1. CASE loaded = Absent
  BY <1>1 DEF Merge
<1>2. CASE loaded # Absent
  <2>1. db \in Under(n) /\ loaded \in Under(n)
    BY <1>2
  <2> DEFINE p == [col \in Columns |-> IF new.plain[col] # loaded.plain[col]
                                         THEN new.plain[col] ELSE db.plain[col]]
             y == IF new.payload = NoPayload /\ loaded.payload = NoPayload
                  THEN db.payload ELSE new.payload
             k == IF new.key # loaded.key THEN new.key ELSE db.key
  <2>2. p \in Plain
    <3>1. new.plain \in Plain /\ db.plain \in Plain
      BY <2>1, UnderType
    <3> QED
      BY <3>1 DEF Plain
  <2>3. k = n
    BY <2>1, UnderType
  <2>4. n = NoKey => y = NoPayload
    BY <2>1, UnderType
  <2>5. n # NoKey => y = new.payload /\ new.payload \in [key : {n}, value : Scalars]
    BY <2>1, UnderType DEF Under
  <2>6. Merge(db, loaded, new) = [plain |-> p, payload |-> y, key |-> k]
    BY <1>2 DEF Merge
  <2> HIDE DEF p, y, k
  <2>7. CASE n = NoKey
    BY <2>2, <2>3, <2>4, <2>6, <2>7 DEF Under
  <2>8. CASE n # NoKey
    <3>1. y \in [key : {n}, value : Scalars]
      BY <2>5, <2>8
    <3> DEFINE payloads == [key : {n}, value : Scalars]
    <3>2. Under(n) = [plain : Plain, key : {n}, payload : payloads] /\ y \in payloads
      BY <2>8, <3>1 DEF Under
    <3> HIDE DEF payloads
    <3> QED
      BY <2>2, <2>3, <2>6, <3>2
  <2> QED
    BY <2>7, <2>8
<1> QED
  BY <1>1, <1>2

\* A row that is encrypted anew, and has not changed since it was read, is under the new
\* key and reads as before.
LEMMA ReencryptedUnder ==
    ASSUME NEW n \in 0 .. MaxKeys, n + 1 \in 0 .. MaxKeys, NEW r \in Under(n)
    PROVE  /\ Merge(r, r, Stored(Value(r), n + 1)) \in Under(n + 1)
           /\ Value(Merge(r, r, Stored(Value(r), n + 1))) = Value(r)
<1> DEFINE m == n + 1
           v == Value(r)
           new == Stored(v, m)
           p == [col \in Columns |-> IF new.plain[col] # r.plain[col] THEN new.plain[col] ELSE r.plain[col]]
           y == IF new.payload = NoPayload /\ r.payload = NoPayload THEN r.payload ELSE new.payload
           k == IF new.key # r.key THEN new.key ELSE r.key
<1>1. m \in 0 .. MaxKeys /\ m # NoKey /\ m # n /\ v \in Scalars
  BY ValueOfUnder DEF NoKey
<1>2. r \in StoredRow /\ r # Absent /\ r.key = n
  BY UnderType, Distinct
<1>3. Merge(r, r, new) = [plain |-> p, payload |-> y, key |-> k]
  BY <1>2 DEF Merge
<1> HIDE DEF m, v
<1>4. /\ new.plain = [col \in Columns |-> Null] /\ new.key = m
      /\ new.payload = [key |-> m, value |-> v]
  BY <1>1 DEF Stored
<1> HIDE DEF new
<1>5. new.payload # NoPayload
  <2>1. m \in 1 .. MaxKeys
    BY <1>1, CellStoreAssumption DEF NoKey
  <2>2. new.payload \in [key : 1 .. MaxKeys, value : Values]
    BY <1>1, <1>4, <2>1, ScalarsAreValues
  <2> QED
    BY <2>2, Distinct
<1>6. y = [key |-> m, value |-> v] /\ k = m /\ p \in Plain
  BY <1>1, <1>2, <1>4, <1>5, PlainNull
<1> HIDE DEF p, y, k
<1>7. Merge(r, r, new) \in Under(m)
  BY <1>1, <1>3, <1>6 DEF Under
<1>8. Merge(r, r, new).payload = y /\ y # NoPayload /\ y.value = v
  BY <1>3, <1>4, <1>5, <1>6
<1>9. Value(Merge(r, r, new)) = v
  BY <1>8 DEF Value
<1> QED
  BY <1>7, <1>9 DEF m, v, new
\* A writer that follows keeps what is stored, loaded and to be stored under the key.
LEMMA FollowingUnder ==
    ASSUME Base, AllUnder, NEW w \in Writers, NEW s, Follows(w, s), row' = row, keys' = keys
    PROVE  AllUnder'
<1> DEFINE n == ActiveKey
<1>1. n \in 0 .. MaxKeys /\ ActiveKey' = n
  BY DEF Base, KeysInOrder, ActiveKey
<1>2. /\ writer'[w] = s /\ \A x \in Writers \ {w} : writer'[x] = writer[x]
  BY DEF Follows, Base, Types
<1>3. ASSUME NEW c \in Cells, NEW x \in StoredRow, Has(s, c, x)
      PROVE  x \in Under(n)
  BY <1>3, Distinct DEF Follows, AllUnder, Copies
<1>4. ASSUME NEW c \in DOMAIN s.batch, s.at \in Working, c \in Cells
      PROVE  s.batch[c].new \in Under(n)
  <2>1. CASE writer[w].at \in Working /\ c \in DOMAIN writer[w].batch /\ s.batch[c].new = writer[w].batch[c].new
    BY <1>4, <2>1 DEF AllUnder
  <2>2. CASE \E req \in Requests : \E j \in DOMAIN req : s.batch[c].new = Stored(req[j].value, n)
    <3>1. PICK req \in Requests : \E j \in DOMAIN req : s.batch[c].new = Stored(req[j].value, n)
      BY <2>2
    <3>2. PICK j \in DOMAIN req : s.batch[c].new = Stored(req[j].value, n)
      BY <3>1
    <3>3. req[j].value \in Scalars
      BY DEF Scalars
    <3> QED
      BY <3>2, <3>3, StoredUnder
  <2> QED
    BY <1>4, <2>1, <2>2 DEF Follows
<1>5. \A c \in Cells : row'[c] \in {Absent} \union Under(ActiveKey')
  BY <1>1 DEF AllUnder
<1>6. ASSUME NEW v \in Writers, NEW c \in Cells
      PROVE  /\ \A x \in StoredRow : Has(writer'[v], c, x) => x \in Under(ActiveKey')
             /\ writer'[v].at \in Working /\ c \in DOMAIN writer'[v].batch
                  => writer'[v].batch[c].new \in Under(ActiveKey')
  <2>1. CASE v = w
    BY <1>1, <1>2, <1>3, <1>4, <2>1
  <2>2. CASE v # w
    BY <1>1, <1>2, <2>2 DEF AllUnder
  <2> QED
    BY <2>1, <2>2
<1> QED
  BY <1>5, <1>6 DEF AllUnder

LEMMA CommitUnder ==
    ASSUME Base, AllUnder, NEW w \in Writers, Commit(w)
    PROVE  AllUnder'
<1> DEFINE n == ActiveKey
<1>1. n \in 0 .. MaxKeys /\ ActiveKey' = n
  <2>1. keys' = keys
    BY DEF Commit
  <2>2. ActiveKey' = ActiveKey
    BY <2>1 DEF ActiveKey
  <2> QED
    BY <2>2 DEF Base, KeysInOrder
<1>2. PICK s : /\ writer' = [writer EXCEPT ![w] = s] /\ s.at = "refresh"
               /\ \A c \in Cells : \A x \in Copies : Has(s, c, x) =>
                     c \in Batch(w) /\ x = writer[w].batch[c].new
  BY CommitFollows
<1>3. /\ writer'[w] = s /\ \A x \in Writers \ {w} : writer'[x] = writer[x]
  BY <1>2 DEF Base, Types
<1>4. ASSUME NEW c \in Batch(w)
      PROVE  writer[w].batch[c].new \in Under(n) /\ row'[c] \in Under(n)
  <2>1. /\ c \in Cells /\ writer[w].at = "commit" /\ writer[w].batch[c].loaded \in {Absent} \union StoredRow
        /\ Has(writer[w], c, writer[w].batch[c].loaded)
        /\ writer[w].batch[c].loaded = Absent <=> row[c] = Absent
        /\ row'[c] = Merge(row[c], writer[w].batch[c].loaded, writer[w].batch[c].new)
    BY CommitMerges
  <2>2. writer[w].batch[c].new \in Under(n)
    BY <2>1 DEF AllUnder, Working, Batch
  <2>3. writer[w].batch[c].loaded \in {Absent} \union Under(n) /\ row[c] \in {Absent} \union Under(n)
    BY <2>1 DEF AllUnder
  <2> QED
    BY <1>1, <2>1, <2>2, <2>3, MergeUnder
<1>5. \A c \in Cells : row'[c] \in {Absent} \union Under(ActiveKey')
  BY <1>1, <1>4, CommitWrites DEF AllUnder
<1>6. ASSUME NEW v \in Writers, NEW c \in Cells
      PROVE  /\ \A x \in StoredRow : Has(writer'[v], c, x) => x \in Under(ActiveKey')
             /\ writer'[v].at \in Working /\ c \in DOMAIN writer'[v].batch
                  => writer'[v].batch[c].new \in Under(ActiveKey')
  <2>1. CASE v = w
    BY <1>1, <1>2, <1>3, <1>4, <2>1 DEF Working, Copies
  <2>2. CASE v # w
    BY <1>1, <1>3, <2>2 DEF AllUnder
  <2> QED
    BY <2>1, <2>2
<1> QED
  BY <1>5, <1>6 DEF AllUnder

LEMMA DeletionUnder ==
    ASSUME Base, KeyInv, NEW w \in Writers, NEW item, DeleteCells(w, item)
    PROVE  KeyInv'
<1>1. PICK C \in SUBSET Rows :
           /\ row' = [c \in Cells |-> IF c \in C THEN Absent ELSE row[c]]
           /\ \A x \in Writers : IsDeprived(writer'[x], writer[x], C)
           /\ \A a \in Admins :
                 /\ admin'[a].at = admin[a].at /\ admin'[a].version = admin[a].version
                 /\ DOMAIN admin'[a].loaded = DOMAIN admin[a].loaded
                 /\ DOMAIN admin[a].loaded \subseteq Cells
                 /\ \A c \in DOMAIN admin[a].loaded :
                       admin'[a].loaded[c] = IF c \in C THEN Gone ELSE admin[a].loaded[c]
           /\ keys' = keys
  BY DeletionLeaves
<1>2. ActiveKey' = ActiveKey
  BY <1>1 DEF ActiveKey
<1>3. Apart'
  BY <1>1 DEF KeyInv, Apart, IsDeprived
<1>4. AllUnder'
  <2>1. \A c \in Cells : row'[c] \in {Absent} \union Under(ActiveKey')
    BY <1>1, <1>2 DEF KeyInv, AllUnder
  <2>2. \A v \in Writers, c \in Cells :
          /\ \A x \in StoredRow : Has(writer'[v], c, x) => x \in Under(ActiveKey')
          /\ writer'[v].at \in Working /\ c \in DOMAIN writer'[v].batch
                => writer'[v].batch[c].new \in Under(ActiveKey')
    BY <1>1, <1>2 DEF KeyInv, AllUnder, IsDeprived
  <2> QED
    BY <2>1, <2>2 DEF AllUnder
<1>5. AllReencrypted'
  <2>1. Rows' = Rows \ C /\ \A c \in Rows' : row'[c] = row[c]
    BY <1>1 DEF Rows
  <2> QED
    BY <1>1, <2>1 DEF KeyInv, AllReencrypted
<1> QED
  BY <1>3, <1>4, <1>5 DEF KeyInv

\* A new key's commit encrypts every row anew, and none reads differently.
LEMMA KeyReencrypts ==
    ASSUME Base, KeyInv, NEW a \in Admins, CommitKey(a)
    PROVE  \A c \in Rows : row'[c] \in Under(ActiveKey') /\ Value(row'[c]) = Value(row[c])
<1>1. ActiveKey \in 0 .. MaxKeys /\ ActiveKey' \in 0 .. MaxKeys /\ ActiveKey' = ActiveKey + 1
  BY KeyReplaces DEF Base, KeysInOrder
<1> SUFFICES ASSUME NEW c \in Rows PROVE row'[c] \in Under(ActiveKey') /\ Value(row'[c]) = Value(row[c])
  OBVIOUS
<1>2. c \in DOMAIN admin[a].loaded /\ admin[a].loaded[c] = row[c]
      /\ row'[c] = Merge(row[c], row[c], Reencrypted(a, c))
  BY KeyReplaces, Distinct DEF KeyInv, AllReencrypted
<1>3. Reencrypted(a, c) = Stored(Value(row[c]), ActiveKey + 1)
  BY <1>2, KeyReplaces DEF Reencrypted
<1>4. row[c] \in Under(ActiveKey)
  BY DEF KeyInv, AllUnder, Rows
<1> QED
  BY <1>1, <1>2, <1>3, <1>4, ReencryptedUnder

\* Whoever changes the key does so while nobody writes.
LEMMA AdminsWorkAlone ==
    ASSUME KeyInv, ~WritesDuringKeyChange, NEW a \in Admins, AdminNext(a)
    PROVE  \A w \in Writers : writer[w].at = "idle"
  BY DEF AdminNext, BeginKeyChange, NextKeyVersion, InsertKey, SelectCells, CommitKey, CommitKeyFails,
         KeyInv, Apart

LEMMA AdminUnder ==
    ASSUME Base, KeyInv, ~WritesDuringKeyChange, NEW a \in Admins, AdminNext(a)
    PROVE  KeyInv'
<1>1. CASE CommitKey(a)
  <2>1. \A x \in Writers : writer[x].at = "idle" /\ writer'[x] = writer[x]
    BY <1>1, KeyReplaces DEF KeyInv, Apart
  <2>2. \A b \in Admins \ {a} : admin'[b] = admin[b] /\ admin[b].at # "commit"
    BY <1>1, KeyReplaces DEF Base, AdminsInOrder
  <2>3. admin'[a].at = "idle"
    BY <1>1, KeyReplaces, IdleAdminType DEF Base, AdminsInOrder
  <2>4. Apart' /\ AllReencrypted'
    BY <2>1, <2>2, <2>3 DEF Apart, AllReencrypted
  <2>5. \A c \in Rows : row'[c] \in Under(ActiveKey')
    BY <1>1, KeyReencrypts
  <2>6. \A c \in Cells : row'[c] \in {Absent} \union Under(ActiveKey')
    BY <1>1, <2>5, KeyReplaces DEF Rows
  <2>7. AllUnder'
    BY <2>1, <2>6 DEF AllUnder, Has, Holding, Working
  <2> QED
    BY <2>4, <2>7 DEF KeyInv
<1>2. CASE ~CommitKey(a)
  <2>1. /\ \/ \E kind \in {"enable", "rotate"} : BeginKeyChange(a, kind)
           \/ NextKeyVersion(a) \/ InsertKey(a) \/ SelectCells(a) \/ CommitKeyFails(a)
        /\ UNCHANGED <<row, keys, writer>>
    BY <1>2, AdminFollowsKeeps DEF AdminNext
  <2>2. PICK s \in AdminState :
              /\ admin' = [admin EXCEPT ![a] = s]
              /\ s.at = "commit" => s.loaded = [c \in Rows |-> row[c]]
    BY <2>1, AdminFollows
  <2>3. admin'[a] = s /\ \A b \in Admins \ {a} : admin'[b] = admin[b]
    BY <2>2 DEF Base, AdminsInOrder
  <2>4. \A w \in Writers : writer[w].at = "idle"
    BY AdminsWorkAlone
  <2>5. Apart'
    BY <2>1, <2>4 DEF Apart
  <2>6. AllUnder'
    BY <2>1 DEF KeyInv, AllUnder, ActiveKey
  <2>7. AllReencrypted'
    BY <2>1, <2>2, <2>3 DEF KeyInv, AllReencrypted, Rows
  <2> QED
    BY <2>5, <2>6, <2>7 DEF KeyInv
<1> QED
  BY <1>1, <1>2

LEMMA WriterUnder ==
    ASSUME Base, KeyInv, ~WritesDuringKeyChange, NEW w \in Writers, WriterNext(w, Requests, Deletable)
    PROVE  KeyInv'
<1>1. CASE \E item \in Deletable : DeleteCells(w, item)
  BY <1>1, DeletionUnder
<1>2. CASE ~\E item \in Deletable : DeleteCells(w, item)
  <2>1. (\E req \in Requests : Begin(w, req)) \/ Goes(w) \/ Commit(w)
    BY <1>2 DEF WriterNext, Continues, Goes
  <2>2. \A a \in Admins : admin[a].at = "idle"
    BY <2>1, GoesFollows DEF Begin, Commit, KeyInv, Apart
  <2>3. admin' = admin /\ keys' = keys
    BY <2>1, GoesFollows, CommitWrites DEF Begin, data
  <2>4. Apart' /\ AllReencrypted'
    BY <2>2, <2>3 DEF Apart, AllReencrypted
  <2>5. CASE Commit(w)
    BY <2>4, <2>5, CommitUnder DEF KeyInv
  <2>6. CASE Goes(w)
    BY <2>3, <2>4, <2>6, GoesFollows, FollowingUnder DEF KeyInv
  <2>7. CASE \E req \in Requests : Begin(w, req)
    BY <2>3, <2>4, <2>7, Beginning, FollowingUnder DEF KeyInv, Base, Begin, data
  <2> QED
    BY <2>1, <2>5, <2>6, <2>7
<1> QED
  BY <1>1, <1>2

LEMMA KeysKept ==
    ASSUME ~WritesDuringKeyChange
    PROVE  Base /\ KeyInv /\ [Next]_vars => KeyInv'
<1> SUFFICES ASSUME Base, KeyInv, [Next]_vars PROVE KeyInv'
  OBVIOUS
<1>1. CASE UNCHANGED vars
  BY <1>1 DEF vars, KeyInv, Apart, AllUnder, AllReencrypted, ActiveKey, Rows
<1> QED
  BY <1>1, WriterUnder, AdminUnder DEF Next

LEMMA KeysInitially == Init => KeyInv
  BY IdleAdminType DEF Init, KeyInv, Apart, AllUnder, AllReencrypted, IdleWriter, Has, Holding, Working

LEMMA UnderIsReadable == Base /\ KeyInv => AllUnderActiveKey
<1> SUFFICES ASSUME Base, KeyInv, NEW c \in Rows
             PROVE  /\ Readable(row[c]) /\ row[c].key = ActiveKey
                    /\ ActiveKey # NoKey => row[c].payload # NoPayload
  BY DEF AllUnderActiveKey
<1>1. row[c] \in Under(ActiveKey) /\ ActiveKey \in 0 .. MaxKeys
  BY DEF KeyInv, AllUnder, Rows, Base, KeysInOrder
<1> QED
  BY <1>1, UnderType DEF Readable

\* Where key changes and writes do not overlap every row can be decrypted and is under
\* the newest key, for every number of administrators who enable and rotate at once and
\* every number of writers who write and delete (_reencrypt_model_cells).
THEOREM AllUnderActiveKeyAlways == Spec => []AllUnderActiveKey
<1>1. CASE WritesDuringKeyChange
  <2>1. AllUnderActiveKey
    BY <1>1 DEF AllUnderActiveKey
  <2> QED
    BY <2>1, PTL
<1>2. CASE ~WritesDuringKeyChange
  BY <1>2, KeysInitially, KeysKept, UnderIsReadable, BaseAlways, PTL DEF Spec
<1> QED
  BY <1>1, <1>2
-------------------------------------------------------------------------------
(* The writes.                                                              *)

\* Where only numbers are written, it is one column or the payload that is read.
LEMMA NumbersAreRead ==
    ASSUME NumbersOnly, NEW n \in 0 .. MaxKeys, NEW r \in Under(n)
    PROVE  Value(r) = IF n = NoKey THEN r.plain["number"] ELSE r.payload.value
<1>1. /\ r.plain \in Plain
      /\ n = NoKey => r.payload = NoPayload
      /\ n # NoKey => r.payload # NoPayload
  BY UnderType
<1>2. \A v \in Scalars : v = Null \/ (v.type # "boolean" /\ v.type # "text")
  BY DEF NumbersOnly, Scalars
<1>3. r.plain["boolean"] = Null /\ r.plain["text"] = Null
  BY <1>1, <1>2 DEF Plain, Columns
<1> QED
  BY <1>1, <1>3 DEF Value

\* What a merge leaves to read: the new value or, when that is what the writer had
\* loaded, the value that the row already has.
LEMMA MergeReads ==
    ASSUME NumbersOnly, NEW n \in 0 .. MaxKeys, NEW db \in {Absent} \union Under(n),
           NEW loaded \in {Absent} \union Under(n), NEW new \in Under(n),
           loaded # Absent => db # Absent
    PROVE  LET m == Merge(db, loaded, new) IN
           \/ Value(m) = Value(new)
           \/ loaded \in Under(n) /\ Value(loaded) = Value(new) /\ Value(m) = Value(db)
<1> DEFINE m == Merge(db, loaded, new)
<1>1. CASE loaded = Absent
  BY <1>1 DEF Merge
<1>2. CASE loaded # Absent
  <2>1. db \in Under(n) /\ loaded \in Under(n)
    BY <1>2
  <2>2. m \in Under(n)
    BY MergeUnder
  <2>3. /\ m.plain = [col \in Columns |-> IF new.plain[col] # loaded.plain[col]
                                         THEN new.plain[col] ELSE db.plain[col]]
        /\ m.payload = IF new.payload = NoPayload /\ loaded.payload = NoPayload
                       THEN db.payload ELSE new.payload
    BY <1>2 DEF Merge
  <2> HIDE DEF m
  <2>4. CASE n = NoKey
    <3>1. /\ Value(m) = m.plain["number"] /\ Value(db) = db.plain["number"]
          /\ Value(loaded) = loaded.plain["number"] /\ Value(new) = new.plain["number"]
      BY <2>1, <2>2, <2>4, NumbersAreRead
    <3> QED
      BY <2>1, <2>3, <3>1 DEF Columns, m
  <2>5. CASE n # NoKey
    <3>1. new.payload # NoPayload
      BY <2>5, UnderType
    <3> QED
      BY <2>2, <2>3, <2>5, <3>1, NumbersAreRead DEF m
  <2> QED
    BY <2>4, <2>5
<1> QED
  BY <1>1, <1>2

SurviveInv == ChangesAreNoticed /\ WritesSurvive

\* What a commit leaves to read of a cell of its request: its own value, or what was
\* already there, and then his own value too or one that was committed since he began.
LEMMA CommitReads ==
    ASSUME NumbersOnly, Base, KeyInv, ChangesAreNoticed, NEW w \in Writers, Commit(w), NEW c \in Batch(w)
    PROVE  LET own == Value(writer[w].batch[c].new) IN
           /\ Value(row'[c]) = own \/ (row[c] # Absent /\ Value(row'[c]) = Value(row[c]))
           /\ Value(row'[c]) = own \/ Value(row'[c]) \in since[w][c]
<1> DEFINE e == writer[w].batch[c]
<1>1. /\ c \in Cells /\ writer[w].at = "commit" /\ e.loaded \in {Absent} \union StoredRow
      /\ Has(writer[w], c, e.loaded) /\ (e.loaded = Absent <=> row[c] = Absent)
      /\ row'[c] = Merge(row[c], e.loaded, e.new)
  BY CommitMerges
<1>2. /\ ActiveKey \in 0 .. MaxKeys /\ e.new \in Under(ActiveKey)
      /\ e.loaded \in {Absent} \union Under(ActiveKey) /\ row[c] \in {Absent} \union Under(ActiveKey)
  BY <1>1 DEF KeyInv, AllUnder, Working, Batch, Base, KeysInOrder
<1>3. \/ Value(row'[c]) = Value(e.new)
      \/ e.loaded \in Under(ActiveKey) /\ Value(e.loaded) = Value(e.new) /\ Value(row'[c]) = Value(row[c])
  BY <1>1, <1>2, MergeReads
<1>4. e.loaded \in Under(ActiveKey) => e.loaded \in StoredRow /\ e.loaded # Absent
  BY <1>2, UnderType, Distinct
<1>5. e.loaded \in StoredRow => Value(row[c]) = Value(e.loaded) \/ Value(row[c]) \in since[w][c]
  BY <1>1 DEF ChangesAreNoticed
<1> QED
  BY <1>1, <1>3, <1>4, <1>5

LEMMA CommitSurvives ==
    ASSUME NumbersOnly, ~WritesDuringKeyChange, Base, KeyInv, SurviveInv, NEW w \in Writers, Commit(w)
    PROVE  SurviveInv'
<1> DEFINE own(c) == Value(writer[w].batch[c].new)
<1>1. /\ allowed' = [c \in Cells |-> IF c \in Batch(w) THEN {own(c)} \union since[w][c] ELSE allowed[c]]
      /\ since' = [x \in Writers |-> [c \in Cells |->
                     IF x # w /\ writer[x].at # "idle" /\ c \in Batch(w)
                     THEN since[x][c] \union {own(c)} ELSE since[x][c]]]
  BY DEF Commit
<1>2. \A c \in Batch(w) : /\ Value(row'[c]) = own(c) \/ (row[c] # Absent /\ Value(row'[c]) = Value(row[c]))
                          /\ Value(row'[c]) = own(c) \/ Value(row'[c]) \in since[w][c]
  BY CommitReads DEF SurviveInv
<1> HIDE DEF own
<1>3. /\ \A c \in Cells : c \notin Batch(w) => row'[c] = row[c]
      /\ \A c \in Batch(w) : c \in Cells /\ row'[c] \in StoredRow /\ row'[c] # Absent
  BY CommitWrites, Distinct
<1>4. AllUnderActiveKey'
  <2>1. Base' /\ KeyInv'
    BY CommitKeeps, WriterUnder DEF WriterNext, Continues
  <2> QED
    BY <2>1, UnderIsReadable, PTL
<1>5. WritesSurvive'
  <2> SUFFICES ASSUME NEW c \in Cells
               PROVE  IF row'[c] = Absent THEN Absent \in allowed'[c]
                      ELSE Readable(row[c])' /\ Value(row'[c]) \in allowed'[c]
    BY DEF WritesSurvive, Value
  <2>1. row'[c] # Absent => Readable(row[c])'
    BY <1>4 DEF AllUnderActiveKey, Rows
  <2>2. CASE c \in Batch(w)
    BY <1>1, <1>2, <1>3, <2>1, <2>2
  <2>3. CASE c \notin Batch(w)
    BY <1>1, <1>3, <2>1, <2>3 DEF SurviveInv, WritesSurvive
  <2> QED
    BY <2>2, <2>3
<1>6. ChangesAreNoticed'
  <2>1. PICK s : /\ writer' = [writer EXCEPT ![w] = s]
                 /\ \A c \in Cells : \A x \in Copies : Has(s, c, x) =>
                       c \in Batch(w) /\ x = writer[w].batch[c].new
    BY CommitFollows
  <2>2. writer'[w] = s /\ \A v \in Writers \ {w} : writer'[v] = writer[v]
    BY <2>1 DEF Base, Types
  <2> SUFFICES ASSUME NEW v \in Writers, NEW c \in Cells, NEW x \in StoredRow, Has(writer'[v], c, x)
               PROVE  Value(row'[c]) = Value(x) \/ Value(row'[c]) \in since'[v][c]
    BY DEF ChangesAreNoticed, Value
  <2>3. CASE v = w
    <3>1. c \in Batch(w) /\ Value(x) = own(c)
      BY <2>1, <2>2, <2>3 DEF Copies, own
    <3> QED
      BY <1>1, <1>2, <2>3, <3>1
  <2>4. CASE v # w
    <3>1. Has(writer[v], c, x) /\ writer[v].at # "idle"
      BY <2>2, <2>4 DEF Has, Holding, Working
    <3>2. Value(row[c]) = Value(x) \/ Value(row[c]) \in since[v][c]
      BY <3>1 DEF SurviveInv, ChangesAreNoticed
    <3>3. CASE c \in Batch(w)
      BY <1>1, <1>2, <2>4, <3>1, <3>2, <3>3
    <3>4. CASE c \notin Batch(w)
      BY <1>1, <1>3, <3>2, <3>4
    <3> QED
      BY <3>3, <3>4
  <2> QED
    BY <2>3, <2>4
<1> QED
  BY <1>5, <1>6 DEF SurviveInv

\* Whatever the writers do between the beginning and the commit, they notice changes.
LEMMA FollowingSurvives ==
    ASSUME Base, SurviveInv, NEW w \in Writers, NEW s, Follows(w, s), UNCHANGED <<row, keys, allowed>>,
           \A v \in Writers \ {w} : since'[v] = since[v],
           since'[w] = since[w] \/ \A c \in Cells : \A x \in Copies : ~Has(s, c, x)
    PROVE  SurviveInv'
<1>1. writer'[w] = s /\ \A v \in Writers \ {w} : writer'[v] = writer[v]
  BY DEF Follows, Base, Types
<1>2. WritesSurvive'
  <2>1. \A c \in Cells : Readable(row[c])' = Readable(row[c]) /\ Value(row[c])' = Value(row[c])
    BY DEF Readable, Value, ActiveKey
  <2> QED
    BY <2>1 DEF SurviveInv, WritesSurvive
<1>3. ASSUME NEW v \in Writers, NEW c \in Cells, NEW x \in StoredRow, Has(writer'[v], c, x)
      PROVE  Value(row[c]) = Value(x) \/ Value(row[c]) \in since'[v][c]
  <2>1. CASE v = w
    BY <1>1, <1>3, <2>1 DEF Follows, Copies, SurviveInv, ChangesAreNoticed
  <2>2. CASE v # w
    BY <1>1, <1>3, <2>2 DEF SurviveInv, ChangesAreNoticed
  <2> QED
    BY <2>1, <2>2
<1>4. ChangesAreNoticed'
  BY <1>3 DEF ChangesAreNoticed, Value
<1> QED
  BY <1>2, <1>4 DEF SurviveInv

LEMMA DeletionSurvives ==
    ASSUME Base, SurviveInv, NEW w \in Writers, NEW item, DeleteCells(w, item)
    PROVE  SurviveInv'
<1>1. PICK C \in SUBSET Rows :
           /\ row' = [c \in Cells |-> IF c \in C THEN Absent ELSE row[c]]
           /\ \A x \in Writers : IsDeprived(writer'[x], writer[x], C)
           /\ allowed' = [c \in Cells |-> IF c \in C THEN {Absent} ELSE allowed[c]]
           /\ since' = [x \in Writers |-> [c \in Cells |->
                          IF writer[x].at # "idle" /\ c \in C THEN since[x][c] \union {Absent} ELSE since[x][c]]]
           /\ UNCHANGED <<keys, engine>>
  <2> HIDE DEF IsDeprived
  <2> QED
    BY DeletionLeaves
<1>2. WritesSurvive'
  <2>1. \A c \in Cells : row'[c] = row[c] => Readable(row[c])' = Readable(row[c]) /\ Value(row[c])' = Value(row[c])
    BY <1>1 DEF Readable, Value, ActiveKey
  <2> QED
    BY <1>1, <2>1 DEF SurviveInv, WritesSurvive
<1>3. ASSUME NEW v \in Writers, NEW c \in Cells, NEW x \in StoredRow, Has(writer'[v], c, x)
      PROVE  Value(row'[c]) = Value(x) \/ Value(row'[c]) \in since'[v][c]
  <2>1. c \notin C /\ Has(writer[v], c, x)
    BY <1>1, <1>3 DEF IsDeprived
  <2> QED
    BY <1>1, <2>1 DEF SurviveInv, ChangesAreNoticed
<1>4. ChangesAreNoticed'
  BY <1>3 DEF ChangesAreNoticed, Value
<1> QED
  BY <1>2, <1>4 DEF SurviveInv

LEMMA AdminSurvives ==
    ASSUME ~WritesDuringKeyChange, Base, KeyInv, SurviveInv, NEW a \in Admins, AdminNext(a)
    PROVE  SurviveInv'
<1>1. writer' = writer /\ allowed' = allowed /\ \A w \in Writers : writer[w].at = "idle"
  BY AdminFollowsKeeps, KeyReplaces, AdminsWorkAlone DEF AdminNext
<1>2. ChangesAreNoticed'
  BY <1>1 DEF ChangesAreNoticed, Has, Holding, Working
<1>3. \A c \in Cells : /\ row'[c] = Absent <=> row[c] = Absent
                       /\ row[c] # Absent => Value(row'[c]) = Value(row[c])
  BY AdminFollowsKeeps, KeyReplaces, KeyReencrypts DEF AdminNext, Rows
<1>4. AllUnderActiveKey'
  <2>1. Base' /\ KeyInv'
    BY AdminFollowsKeeps, KeyKeeps, AdminUnder DEF AdminNext
  <2> QED
    BY <2>1, UnderIsReadable, PTL
<1>5. \A c \in Cells : row'[c] # Absent => Readable(row[c])'
  BY <1>4 DEF AllUnderActiveKey, Rows
<1>6. \A c \in Cells : IF row'[c] = Absent THEN Absent \in allowed'[c]
                       ELSE Readable(row[c])' /\ Value(row'[c]) \in allowed'[c]
  BY <1>1, <1>3, <1>5 DEF SurviveInv, WritesSurvive
<1>7. WritesSurvive'
  BY <1>6 DEF WritesSurvive, Value
<1> QED
  BY <1>2, <1>7 DEF SurviveInv

LEMMA SurvivalKept ==
    ASSUME NumbersOnly, ~WritesDuringKeyChange
    PROVE  Base /\ KeyInv /\ SurviveInv /\ [Next]_vars => SurviveInv'
<1> SUFFICES ASSUME Base, KeyInv, SurviveInv, [Next]_vars PROVE SurviveInv'
  OBVIOUS
<1>1. ASSUME NEW w \in Writers, NEW req \in Requests, Begin(w, req) PROVE SurviveInv'
  <2>1. PICK s : Follows(w, s) /\ \A c \in Cells : \A x \in Copies : ~Has(s, c, x)
    BY <1>1, Beginning DEF Base
  <2>2. UNCHANGED <<row, keys, allowed>> /\ \A v \in Writers \ {w} : since'[v] = since[v]
    BY <1>1 DEF Begin, data, Base, Types
  <2> QED
    BY <2>1, <2>2, FollowingSurvives
<1>2. ASSUME NEW w \in Writers, Goes(w) PROVE SurviveInv'
  <2>1. PICK s : Follows(w, s)
    BY <1>2, GoesFollows
  <2>2. UNCHANGED <<row, keys, allowed, since>>
    BY <1>2, GoesFollows
  <2> QED
    BY <2>1, <2>2, FollowingSurvives
<1>3. ASSUME NEW w \in Writers, WriterNext(w, Requests, Deletable) PROVE SurviveInv'
  BY <1>1, <1>2, <1>3, CommitSurvives, DeletionSurvives DEF WriterNext, Continues, Goes
<1>4. ASSUME NEW a \in Admins, AdminNext(a) PROVE SurviveInv'
  BY <1>4, AdminSurvives
<1>5. CASE UNCHANGED vars
  BY <1>5 DEF vars, SurviveInv, ChangesAreNoticed, WritesSurvive, Readable, Value, ActiveKey, Has
<1> QED
  BY <1>3, <1>4, <1>5 DEF Next

\* Where numbers are written, and no key changes during a write, a reader finds in every
\* cell a value that was committed last or overlapped that commit, for every number of
\* writers and whatever they insert, update and delete at once (write_cell,
\* write_cells_bulk).
THEOREM WritesSurviveAlways ==
    ASSUME NumbersOnly, ~WritesDuringKeyChange
    PROVE  Spec => []WritesSurvive
<1>1. Init => SurviveInv
  BY DEF Init, SurviveInv, ChangesAreNoticed, WritesSurvive, IdleWriter, Has, Holding, Working
<1>2. SurviveInv => WritesSurvive
  BY DEF SurviveInv
<1> QED
  BY <1>1, <1>2, SurvivalKept, KeysInitially, KeysKept, BaseAlways, PTL DEF Spec
-------------------------------------------------------------------------------
(* The engine's mirror of the cells of one client.                          *)

MirrorInv == focus = "keys" => Base /\ KeyInv /\ Alone /\ Told /\ Mirrored

\* The steps before the commit do not go beyond it.
LEMMA NotYetWritten ==
    ASSUME Types, NEW w \in Writers, Goes(w), ~Refresh(w)
    PROVE  writer'[w].at \notin {"refresh", "sync"}
<1>1. writer[w] \in WriterState /\ writer \in [Writers -> WriterState]
  BY DEF Types
<1>2. CASE Ends(w)
  <2>1. IdleWriter.at = "idle"
    BY DEF IdleWriter
  <2> QED
    BY <1>1, <1>2, <2>1 DEF Ends, Becomes
<1>3. CASE LoadRow(w) \/ CheckQuota(w) \/ InsertLost(w)
  BY <1>1, <1>3 DEF LoadRow, CheckQuota, InsertLost, Becomes, WriterState
<1>4. CASE AssignValues(w)
  BY <1>1, <1>4 DEF AssignValues, Becomes, WriterState
<1>5. CASE Reload(w)
  BY <1>1, <1>5 DEF Reload, Becomes, WriterState
<1> QED
  BY <1>2, <1>3, <1>4, <1>5 DEF Goes, QuotaRefuses, CommitFails, SyncEngine

LEMMA ClientIsAWriter == Client \in Writers
  BY CellStoreAssumption DEF Client

\* After its commit a client that is alone finds what it wrote.
LEMMA ClientReads ==
    ASSUME ~WritesDuringKeyChange, Base, KeyInv, Alone, Told, Mirrored, Refresh(Client)
    PROVE  Told' /\ Mirrored'
<1> DEFINE w == Client
           o == writer[w]
           batch == [c \in Batch(w) |-> [o.batch[c] EXCEPT !.new = row[c]]]
<1>1. w \in Writers /\ o \in WriterState /\ o.at = "refresh" /\ ~Stale(w)
      /\ UNCHANGED <<row, engine>> /\ \A c \in Batch(w) : c \in Cells /\ o.batch[c] \in Entry
  BY ClientIsAWriter, WriterType DEF Refresh, Told, Base, data, Batch
<1>2. \A c \in Batch(w) : c \in Rows
  <2> SUFFICES ASSUME NEW c \in Batch(w) PROVE row[c] # Absent
    BY <1>1 DEF Rows
  <2>1. o.batch[c].loaded \in StoredRow /\ Has(o, c, o.batch[c].loaded)
    BY <1>1, WriterType DEF Stale, Batch, Entry, Copies, Fits, Base, Has, Holding
  <2> QED
    BY <1>1, <2>1 DEF Base, LoadedIsThere
<1>3. \A c \in Batch(w) : Readable(row[c])
  BY <1>2, UnderIsReadable DEF AllUnderActiveKey
<1>4. writer' = [writer EXCEPT ![w] = [o EXCEPT !.at = "sync", !.batch = batch]]
  BY <1>1, <1>3 DEF Refresh, Becomes
<1>5. DOMAIN batch = Batch(w) /\ \A c \in Batch(w) : batch[c].new = row[c]
  BY <1>1 DEF Entry
<1> HIDE DEF batch
<1>6. writer'[w].at = "sync" /\ writer'[w].batch = batch
  BY <1>1, <1>4 DEF Base, Types, WriterState
<1>7. Batch(w)' = Batch(w) /\ Rows' = Rows
  BY <1>1, <1>5, <1>6 DEF Batch, Rows
<1>8. Told'
  BY <1>1, <1>2, <1>5, <1>6, <1>7 DEF Told
<1>9. Mirrored'
  BY <1>1, <1>6, <1>7 DEF Mirrored, Value
<1> QED
  BY <1>8, <1>9

\* The steps of the client keep the mirror.
LEMMA ClientMirrors ==
    ASSUME ~WritesDuringKeyChange, Base, KeyInv, Alone, Told, Mirrored,
           WriterNext(Client, Requests, Deletable)
    PROVE  Alone' /\ Told' /\ Mirrored'
<1> DEFINE w == Client
<1>1. w \in Writers
  BY ClientIsAWriter
<1>2. ASSUME \A c \in Rows : engine[c] = Value(row[c]), engine' = engine,
             \A c \in Rows' : c \in Rows /\ row'[c] = row[c]
      PROVE  Mirrored'
  BY <1>2 DEF Mirrored, Value
<1>3. CASE \E req \in Requests : Begin(w, req)
  <2>1. PICK req \in Requests : Begin(w, req)
    BY <1>3
  <2>2. UNCHANGED <<row, engine>> /\ writer[w].at = "idle"
    BY <2>1 DEF Begin, data
  <2>3. \A v \in Writers \ {w} : writer'[v] = writer[v]
    BY <2>1 DEF Begin, Becomes, Base, Types
  <2>4. writer'[w].at = "load"
    BY <1>1, <2>1 DEF Begin, Becomes, Base, Types, IdleWriter
  <2>5. Mirrored'
    BY <1>2, <2>2 DEF Mirrored, Rows
  <2> QED
    BY <2>3, <2>4, <2>5 DEF Alone, Told
<1>4. CASE Goes(w)
  <2>1. PICK s : Follows(w, s)
    BY <1>1, <1>4, GoesFollows
  <2>2. \A v \in Writers \ {w} : writer'[v] = writer[v]
    BY <2>1 DEF Follows, Base, Types
  <2>3. Alone'
    BY <2>2 DEF Alone
  <2>4. CASE Refresh(w)
    BY <2>3, <2>4, ClientReads
  <2>5. CASE SyncEngine(w)
    <3>1. /\ writer[w].at = "sync" /\ row' = row
          /\ engine' = [c \in Cells |-> IF c \in Batch(w) THEN Value(writer[w].batch[c].new) ELSE engine[c]]
      BY <2>5 DEF SyncEngine
    <3>2. \A c \in Rows : engine'[c] = Value(row[c])
      BY <3>1 DEF Told, Mirrored, Rows
    <3>3. Mirrored'
      BY <3>1, <3>2 DEF Mirrored, Rows, Value
    <3>4. Told'
      BY <1>1, <1>4, <3>1, NotYetWritten DEF Told, Base, Refresh
    <3> QED
      BY <2>3, <3>3, <3>4
  <2>6. CASE ~Refresh(w) /\ ~SyncEngine(w)
    <3>1. UNCHANGED <<row, engine>> /\ writer[w].at \notin {"refresh", "sync"}
      BY <1>4, <2>6 DEF Goes, LoadRow, CheckQuota, QuotaRefuses, AssignValues, InsertLost,
                        CommitFails, Reload, data
    <3>2. Mirrored'
      BY <1>2, <3>1 DEF Mirrored, Rows
    <3>3. Told'
      BY <1>1, <1>4, <2>6, NotYetWritten DEF Told, Base
    <3> QED
      BY <2>3, <3>2, <3>3
  <2> QED
    BY <2>4, <2>5, <2>6
<1>5. CASE Commit(w)
  <2>1. PICK s : /\ writer' = [writer EXCEPT ![w] = s] /\ s.at = "refresh"
                 /\ DOMAIN s.batch = Batch(w) /\ \A c \in Batch(w) : s.batch[c].loaded \in StoredRow
    BY <1>1, <1>5, CommitFollows
  <2>2. writer'[w] = s /\ \A v \in Writers \ {w} : writer'[v] = writer[v]
    BY <1>1, <2>1 DEF Base, Types
  <2>3. Batch(w)' = Batch(w) /\ ~Stale(w)'
    BY <2>1, <2>2, Distinct DEF Batch, Stale
  <2>4. /\ writer[w].at = "commit" /\ engine' = engine
        /\ \A c \in Cells : c \notin Batch(w) => row'[c] = row[c]
    BY <1>1, <1>5, CommitWrites DEF Commit
  <2>5. Mirrored'
    BY <2>1, <2>2, <2>3, <2>4 DEF Mirrored, Rows, Value
  <2>6. Alone' /\ Told'
    BY <2>1, <2>2, <2>3 DEF Alone, Told
  <2> QED
    BY <2>5, <2>6
<1>6. CASE \E item \in Deletable : DeleteCells(w, item)
  <2>1. PICK item \in Deletable : DeleteCells(w, item)
    BY <1>6
  <2>2. PICK C \in SUBSET Rows :
           /\ row' = [c \in Cells |-> IF c \in C THEN Absent ELSE row[c]]
           /\ \A x \in Writers : IsDeprived(writer'[x], writer[x], C)
           /\ writer[w].at = "idle" /\ UNCHANGED <<keys, engine>>
    <3> HIDE DEF IsDeprived
    <3> QED
      BY <1>1, <2>1, DeletionLeaves
  <2>3. \A x \in Writers : writer'[x].at = writer[x].at
    BY <2>2 DEF IsDeprived
  <2>4. Mirrored'
    BY <1>2, <2>2 DEF Mirrored, Rows
  <2> QED
    BY <1>1, <2>2, <2>3, <2>4 DEF Alone, Told
<1> QED
  BY <1>3, <1>4, <1>5, <1>6 DEF WriterNext, Continues, Goes

\* A key changes while the client rests, and no value changes with it.
LEMMA AdminMirrors ==
    ASSUME ~WritesDuringKeyChange, Base, KeyInv, Alone, Told, Mirrored, NEW a \in Admins, AdminNext(a)
    PROVE  Alone' /\ Told' /\ Mirrored'
<1>1. writer' = writer /\ engine' = engine /\ \A w \in Writers : writer[w].at = "idle"
  BY AdminFollowsKeeps, KeyReplaces, AdminsWorkAlone DEF AdminNext
<1>2. \A c \in Cells : /\ row'[c] = Absent <=> row[c] = Absent
                       /\ row[c] # Absent => Value(row'[c]) = Value(row[c])
  BY AdminFollowsKeeps, KeyReplaces, KeyReencrypts DEF AdminNext, Rows
<1>3. \A c \in Rows' : engine'[c] = Value(row'[c])
  BY <1>1, <1>2, ClientIsAWriter DEF Mirrored, Rows
<1>4. Mirrored'
  BY <1>3 DEF Mirrored, Value
<1> QED
  BY <1>1, <1>4, ClientIsAWriter DEF Alone, Told

LEMMA MirrorKept ==
    ASSUME ~WritesDuringKeyChange
    PROVE  MirrorInv /\ [FocusNext]_<<focus, vars>> => MirrorInv'
<1> SUFFICES ASSUME MirrorInv, [FocusNext]_<<focus, vars>>, focus' = "keys"
             PROVE  Base' /\ KeyInv' /\ Alone' /\ Told' /\ Mirrored'
  BY DEF MirrorInv
<1>1. focus = "keys" /\ Base /\ KeyInv /\ Alone /\ Told /\ Mirrored
  BY DEF MirrorInv, FocusNext
<1>2. \/ WriterNext(Client, Requests, Deletable) \/ (\E a \in Admins : AdminNext(a))
      \/ UNCHANGED vars
  BY <1>1 DEF FocusNext
<1>3. [Next]_vars
  BY <1>2, ClientIsAWriter DEF Next
<1>4. Base' /\ KeyInv'
  BY <1>1, <1>3, BaseKeeps, KeysKept
<1>5. CASE UNCHANGED vars
  BY <1>1, <1>4, <1>5 DEF vars, Alone, Told, Mirrored, Stale, Batch, Rows, Value
<1> QED
  BY <1>1, <1>2, <1>4, <1>5, ClientMirrors, AdminMirrors

\* Between the writes of one client keys change and cells go without harm, for every set
\* of cells, requests and administrators: what is stored is under the newest key, and at
\* rest the engine computes with what is stored (_sync_engine_after_commit).
THEOREM ClientKeepsItsCellsAlways ==
    ASSUME ~WritesDuringKeyChange
    PROVE  FocusSpec => []ClientKeepsItsCells
<1>1. FocusInit => MirrorInv
  <2>1. Init => Alone /\ Told /\ Mirrored
    BY ClientIsAWriter DEF Init, Alone, Told, Mirrored, IdleWriter, Rows
  <2> QED
    BY <2>1, BaseInitially, KeysInitially DEF FocusInit, MirrorInv
<1>2. MirrorInv => ClientKeepsItsCells
  <2> SUFFICES ASSUME MirrorInv, focus = "keys" PROVE AllUnderActiveKey /\ EngineMirrors
    BY DEF ClientKeepsItsCells
  <2>1. EngineMirrors
    BY ClientIsAWriter DEF MirrorInv, EngineMirrors, Idle, Mirrored
  <2> QED
    BY <2>1, UnderIsReadable DEF MirrorInv
<1> QED
  BY <1>1, <1>2, MirrorKept, PTL DEF FocusSpec
===============================================================================
