-------------------------------- MODULE DataHub --------------------------------
(***************************************************************************)
(* A staging table, its rows, and its publication as cells:                  *)
(* services/data_hub.py.                                                    *)
(*                                                                         *)
(* Every request loads the table with its rows (an import then awaits its      *)
(* connector), works on what it loaded, and commits; a replacement deletes     *)
(* the rows in a statement of its own, which locks them until it commits.      *)
(* SQLAlchemy sends the columns that differ, by Python's equality, from those  *)
(* that were loaded.  A publication commits its cells in batches.             *)
(***************************************************************************)
EXTENDS Frames

CONSTANTS Uploads,     \* sequences of rows a client may send
          Columns,     \* schemas a client may define
          Transforms,  \* [keep, replace]: a filter and where its result goes
          MemberMap,   \* printed value of column k -> member
          HubClients,
          BatchSize,
          MaxRowsEver, \* bound on the rows ever stored
          MaxHubOps

NoSchema == <<>>
NoHubRequest == [kind |-> "none"]
NoLineage == [exists |-> FALSE]

VARIABLES table,       \* [exists, schema, row_count]
          rows,        \* row id -> [sort_order, row_data]
          nextRow,     \* row ids given out so far
          lineage,     \* NoLineage or [exists, records_published]
          published,   \* member -> value: the cells of the module
          hubRequests, \* client -> what it loaded and has done
          hubOps

hubVars == <<table, rows, nextRow, lineage, published, hubRequests, hubOps>>

InOrder(stored) == SetToSortSeq(DOMAIN stored, LAMBDA i, j : stored[i].sort_order < stored[j].sort_order)
RowData(stored) == [i \in DOMAIN InOrder(stored) |-> stored[InOrder(stored)[i]].row_data]

HubInit ==
  /\ \E schema \in Columns \cup {NoSchema} : table = [exists |-> TRUE, schema |-> schema, row_count |-> 0]
  /\ rows = <<>> /\ nextRow = 0 /\ lineage = NoLineage /\ published = <<>>
  /\ hubRequests = [c \in HubClients |-> NoHubRequest] /\ hubOps = 0

(* What the request has loaded, and alone: nothing was committed since. *)
Load(c, request) ==
  /\ hubOps < MaxHubOps /\ hubOps' = hubOps + 1
  /\ hubRequests[c] = NoHubRequest /\ table.exists
  /\ hubRequests' = [hubRequests EXCEPT ![c] =
       request @@ [stage |-> "loaded", table |-> table, rows |-> rows, alone |-> TRUE, gone |-> {}, after |-> {}]]
  /\ UNCHANGED <<table, rows, nextRow, lineage, published>>

Disturbed(by) ==
  [d \in HubClients |-> IF d = by \/ hubRequests[d] = NoHubRequest THEN hubRequests[d] ELSE [hubRequests[d] EXCEPT !.alone = FALSE]]
Committed(c) ==
  hubRequests' = [d \in HubClients |->
    IF d = c THEN NoHubRequest
    ELSE IF hubRequests[d] = NoHubRequest THEN NoHubRequest
    ELSE [hubRequests[d] EXCEPT !.alone = FALSE, !.after = @ \ {c}]]
Refused(c) ==
  /\ hubRequests' = [d \in HubClients |->
       IF d = c \/ hubRequests[d] = NoHubRequest THEN NoHubRequest ELSE [hubRequests[d] EXCEPT !.after = @ \ {c}]]
  /\ UNCHANGED <<table, rows, nextRow, lineage, published>>

(* The rows a request means to store, the schema they are stored under, and    *)
(* whether they replace those that are there.                                *)
Rewritten(r) ==
  LET source == ensure_dataframe(RowData(r.rows))
      result == apply_filter_step(source, r.transform.keep)
      inferred == _infer_schema_definition_from_frame(result)
      ofUpload == IF r.table.schema = NoSchema THEN _infer_schema_definition_from_records(r.upload) ELSE r.table.schema
      ofTransform == IF r.transform.replace \/ r.table.schema = NoSchema THEN inferred ELSE r.table.schema
  IN IF r.kind = "transform" THEN [schema |-> ofTransform, data |-> result.rows, replace |-> r.transform.replace]
     ELSE [schema |-> ofUpload, data |-> r.upload, replace |-> r.kind = "replace"]

WriteRaises(r) ==
  IF r.kind = "transform" /\ FilterRaises(ensure_dataframe(RowData(r.rows)), r.transform.keep) THEN TRUE
  ELSE \/ r.kind # "transform" /\ r.table.schema = NoSchema /\ r.upload # <<>> /\ ~r.infer_schema
       \/ SchemaRaises(Rewritten(r).data, Rewritten(r).schema)

IsWrite(r) == r.kind \in {"replace", "append", "transform"}

replace_table_rows(c, upload, infer) == Load(c, [kind |-> "replace", upload |-> upload, infer_schema |-> infer])
append_table_rows(c, upload, infer) == upload # <<>> /\ Load(c, [kind |-> "append", upload |-> upload, infer_schema |-> infer])
import_table_rows_from_connector(c, upload, replace, infer) ==
  IF replace THEN replace_table_rows(c, upload, infer) ELSE append_table_rows(c, upload, infer)
transform_table_rows(c, transform) == Load(c, [kind |-> "transform", transform |-> transform])

Refuse(c) ==
  /\ IsWrite(hubRequests[c]) /\ hubRequests[c].stage = "loaded" /\ WriteRaises(hubRequests[c])
  /\ Refused(c) /\ UNCHANGED hubOps

(* DELETE FROM data_hub_rows: it waits for those who deleted the same rows.     *)
DeleteRows(c) ==
  LET r == hubRequests[c]
  IN /\ IsWrite(r) /\ r.stage = "loaded" /\ ~WriteRaises(r) /\ Rewritten(r).replace
     /\ hubRequests' = [hubRequests EXCEPT
          ![c].stage = "deleted", ![c].gone = DOMAIN rows,
          ![c].after = {d \in HubClients \ {c} : hubRequests[d] # NoHubRequest /\ hubRequests[d].gone \cap DOMAIN rows # {}}]
     /\ UNCHANGED <<table, rows, nextRow, lineage, published, hubOps>>

Stored(r, from, start) ==
  LET data == _normalize_rows_against_schema(Rewritten(r).data, Rewritten(r).schema)
  IN [id \in (from + 1)..(from + Len(data)) |-> [sort_order |-> start + (id - from) - 1, row_data |-> data[id - from]]]

Sent(old, new, stored) == IF old = new THEN stored ELSE new
Restrict1(f, S) == [x \in S |-> f[x]]

_replace_rows_CountForgotten(r) == r.table.row_count   \* mutant: row_count is not set
_replace_rows(r) == Len(Rewritten(r).data)
_append_rows(r) == r.table.row_count + Len(Rewritten(r).data)

(* PostgreSQL's JSON has no NaN: what stores one fails there.                  *)
ReadsNan(data, schema) ==
  \E i \in DOMAIN data, column \in DOMAIN schema : schema[column].data_type = "number" /\ IsNan(Get(data[i], column))
NanIsNoJson(c) ==
  LET r == hubRequests[c]
  IN /\ \/ IsWrite(r) /\ ~WriteRaises(r) /\ r.stage = (IF Rewritten(r).replace THEN "deleted" ELSE "loaded") /\ ReadsNan(Rewritten(r).data, Rewritten(r).schema)
        \/ r.kind = "schema" /\ ~SchemaRaises(RowData(r.rows), r.schema) /\ ReadsNan(RowData(r.rows), r.schema)
     /\ Refused(c) /\ UNCHANGED hubOps

CommitRows(c) ==
  LET r == hubRequests[c]
  IN /\ IsWrite(r) /\ ~WriteRaises(r)
     /\ LET replace == Rewritten(r).replace
            start == IF replace THEN 0 ELSE r.table.row_count
            kept == DOMAIN rows \ r.gone
            new == Stored(r, nextRow, start)
            clash == \E i \in kept, id \in DOMAIN new : rows[i].sort_order = new[id].sort_order
            count == IF replace THEN _replace_rows(r) ELSE _append_rows(r)
        IN /\ r.stage = IF replace THEN "deleted" ELSE "loaded"
           /\ r.after = {} /\ Cardinality(DOMAIN new) + nextRow <= MaxRowsEver
           /\ IF clash \/ ~table.exists THEN Refused(c)
              ELSE /\ rows' = Restrict1(rows, kept) @@ new
                   /\ nextRow' = nextRow + Cardinality(DOMAIN new)
                   /\ table' = [table EXCEPT !.schema = Sent(r.table.schema, Rewritten(r).schema, @),
                                             !.row_count = Sent(r.table.row_count, count, @)]
                   /\ Committed(c) /\ UNCHANGED <<lineage, published>>
     /\ UNCHANGED hubOps
-----------------------------------------------------------------------------
(* Another schema: the rows that were loaded are coerced to it. *)
update_table(c, schema) == Load(c, [kind |-> "schema", schema |-> schema])

Same(a, b) == DOMAIN a = DOMAIN b /\ \A column \in DOMAIN a : PyEqual(a[column], b[column])
CommitSchema(c) ==
  LET r == hubRequests[c]
      data == _normalize_rows_against_schema(RowData(r.rows), r.schema)
      NewData(id) == data[CHOOSE i \in DOMAIN data : InOrder(r.rows)[i] = id]
      changed == {id \in DOMAIN r.rows : ~Same(NewData(id), r.rows[id].row_data)}
  IN /\ r.kind = "schema"
     /\ IF SchemaRaises(RowData(r.rows), r.schema) \/ ~table.exists \/ ~(changed \subseteq DOMAIN rows) THEN Refused(c)
        ELSE /\ rows' = [id \in DOMAIN rows |-> IF id \in changed THEN [rows[id] EXCEPT !.row_data = NewData(id)] ELSE rows[id]]
             /\ table' = [table EXCEPT !.schema = Sent(r.table.schema, r.schema, @)]
             /\ Committed(c) /\ UNCHANGED <<nextRow, lineage, published>>
     /\ UNCHANGED hubOps

delete_table(c) ==
  /\ hubOps < MaxHubOps /\ hubOps' = hubOps + 1
  /\ hubRequests[c] = NoHubRequest /\ table.exists
  /\ table' = [exists |-> FALSE, schema |-> NoSchema, row_count |-> 0] /\ rows' = <<>> /\ lineage' = NoLineage
  /\ hubRequests' = Disturbed(c)
  /\ UNCHANGED <<nextRow, published>>
-----------------------------------------------------------------------------
(* Publishing: all writes are built first; a member that is no id raises.      *)
MemberOf(v) == IF Str(v) \in DOMAIN MemberMap THEN MemberMap[Str(v)] ELSE "none"
PublishRaises(data) == \E i \in DOMAIN data : Get(data[i], "k") = Null \/ MemberOf(Get(data[i], "k")) = "none"

CellWritesOf(data, nulls) ==
  LET wanted == SelectSeq(data, LAMBDA row : nulls \/ Get(row, "x") # Null)
  IN [i \in DOMAIN wanted |-> [member |-> MemberOf(wanted[i]["k"]), value |-> Get(wanted[i], "x")]]

Publication(data, nulls) ==
  [todo |-> IF PublishRaises(data) THEN <<>> ELSE CellWritesOf(data, nulls), raises |-> PublishRaises(data)]
publish_table_to_module(c, nulls) ==
  Load(c, [kind |-> "publish", nulls |-> nulls, written |-> 0, seen |-> lineage] @@ Publication(RowData(rows), nulls))

(* Those that take what is stored read the rows after the table: what is       *)
(* committed in between shows in the rows alone.                               *)
_get_table_with_rows_by_id(c) ==
  LET r == hubRequests[c]
  IN /\ r.kind \in {"transform", "schema", "publish"} /\ r.stage = "loaded" /\ table.exists
     /\ r.kind = "publish" => r.written = 0
     /\ r.rows # rows
     /\ hubRequests' = [hubRequests EXCEPT ![c] =
          [rows |-> rows] @@ (IF r.kind = "publish" THEN Publication(RowData(rows), r.nulls) ELSE <<>>) @@ r]
     /\ UNCHANGED <<table, rows, nextRow, lineage, published, hubOps>>

write_cells_bulk(batch, cells) ==
  FoldLeft(LAMBDA stored, write : (write.member :> write.value) @@ stored, cells, batch)

(* One batch after the other; the first that fails ends the request.           *)
WriteBatch(c) ==
  LET r == hubRequests[c]
      n == Min({BatchSize, Len(r.todo)})
  IN /\ r.kind = "publish" /\ r.todo # <<>>
     /\ published' = write_cells_bulk(SubSeq(r.todo, 1, n), published)
     /\ hubRequests' = [Disturbed(c) EXCEPT ![c].todo = SubSeq(@, n + 1, Len(@)), ![c].written = @ + n]
     /\ UNCHANGED <<table, rows, nextRow, lineage, hubOps>>

PublishFails(c) ==
  /\ hubRequests[c].kind = "publish" /\ (hubRequests[c].raises \/ hubRequests[c].todo # <<>>)
  /\ Refused(c) /\ UNCHANGED hubOps

(* The lineage is selected, then inserted or updated. *)
SelectLineage(c) ==
  /\ hubRequests[c].kind = "publish" /\ hubRequests[c].stage = "loaded"
  /\ hubRequests[c].todo = <<>> /\ ~hubRequests[c].raises
  /\ hubRequests' = [hubRequests EXCEPT ![c].stage = "lineage", ![c].seen = lineage]
  /\ UNCHANGED <<table, rows, nextRow, lineage, published, hubOps>>
_upsert_lineage(c) ==
  LET r == hubRequests[c]
  IN /\ r.kind = "publish" /\ r.stage = "lineage"
     /\ IF ~table.exists \/ (lineage.exists /\ ~r.seen.exists) THEN Refused(c)
        ELSE lineage' = [exists |-> TRUE, records_published |-> r.written] /\ Committed(c) /\ UNCHANGED <<table, rows, nextRow, published>>
     /\ UNCHANGED hubOps

HubNext ==
  \E c \in HubClients :
    \/ \E upload \in Uploads, infer \in BOOLEAN :
         \/ replace_table_rows(c, upload, infer) \/ append_table_rows(c, upload, infer)
         \/ \E replace \in BOOLEAN : import_table_rows_from_connector(c, upload, replace, infer)
    \/ \E transform \in Transforms : transform_table_rows(c, transform)
    \/ \E schema \in Columns : update_table(c, schema)
    \/ \E nulls \in BOOLEAN : publish_table_to_module(c, nulls)
    \/ Refuse(c) \/ DeleteRows(c) \/ CommitRows(c) \/ CommitSchema(c) \/ delete_table(c)
    \/ _get_table_with_rows_by_id(c) \/ NanIsNoJson(c)
    \/ WriteBatch(c) \/ PublishFails(c) \/ SelectLineage(c) \/ _upsert_lineage(c)
-----------------------------------------------------------------------------
(* A request that committed alone - nothing was committed between its load and *)
(* its commit - leaves a table that agrees with itself if it did before: as     *)
(* many rows as row_count says, in places 0, 1, ..., and every value one that   *)
(* its column's type takes, up to Python's equality of numbers and booleans,    *)
(* or a null that a NaN in a column of numbers is read as                       *)
(* (_replace_rows, _append_rows, update_table).                             *)
TableAgrees(t, stored) ==
  /\ Cardinality(DOMAIN stored) = t.row_count
  /\ {stored[i].sort_order : i \in DOMAIN stored} = 0..(t.row_count - 1)
  /\ \A i \in DOMAIN stored :
       LET row == stored[i].row_data
       IN /\ DOMAIN row = DOMAIN t.schema
          /\ \A column \in DOMAIN row :
               \/ row[column] = Null /\ t.schema[column].data_type = "number"
               \/ PyEqual(_coerce_value_for_column(t.schema[column], row[column]), row[column])
LoneCommitAgrees ==
  \A c \in HubClients :
       (hubRequests[c] # NoHubRequest /\ hubRequests[c].alone /\ hubRequests'[c] = NoHubRequest /\ TableAgrees(table, rows))
       => TableAgrees(table', rows')

(* When a publication that was alone ends, the module shows for every member   *)
(* the last row of the table that names it, and the lineage counts the rows    *)
(* (publish_table_to_module).                                              *)
LonePublicationIsShown ==
  \A c \in HubClients :
       (hubRequests[c].kind = "publish" /\ hubRequests[c].alone /\ table.exists /\ _upsert_lineage(c)) =>
         LET data == RowData(rows)
             Shown(i) == Get(data[i], "x") # Null \/ hubRequests[c].nulls
         IN /\ \A i \in DOMAIN data :
                 (Shown(i) /\ \A j \in (i + 1)..Len(data) : ~Shown(j) \/ MemberOf(data[j]["k"]) # MemberOf(data[i]["k"]))
                   => published[MemberOf(data[i]["k"])] = Get(data[i], "x")
            /\ lineage'.records_published = Cardinality({i \in DOMAIN data : Shown(i)})

(* What a request that nothing overlapped leaves: a table that agrees with    *)
(* itself, and a module that shows what was published (data_hub.py).          *)
HubKeepsTable == [][LoneCommitAgrees /\ LonePublicationIsShown]_hubVars
=============================================================================
