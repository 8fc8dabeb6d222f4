--------------------------------- MODULE Frames ---------------------------------
(***************************************************************************)
(* What the steps of a pipeline and the transformations of a staging table    *)
(* do to a data frame: engine/pipeline_runtime/transforms.py, and how          *)
(* services/data_hub.py infers a schema and coerces values to it.             *)
(*                                                                         *)
(* A value is headed by its kind; floats are counted in halves.  A frame has   *)
(* the dtypes of its columns and its rows.  pandas is modelled by what it      *)
(* does here: ints beside nulls or floats become floats, a column without      *)
(* rows keeps its dtype, group keys that are null drop out, and keys that are   *)
(* null join each other.                                                   *)
(***************************************************************************)
EXTENDS Integers, Sequences, SequencesExt, FiniteSets, FiniteSetsExt, Functions, TLC

CONSTANTS RawValues,    \* values a row may have in column x
          KeyValues,    \* and in column k
          MaxFrameRows, \* bound on the rows of a frame
          TextNumber,   \* text -> the number Python reads in it, in halves
          NanTexts,     \* texts it reads as NaN
          TextBool,     \* text -> the boolean it stands for
          TextDate,     \* text -> the date it is, printed
          TextInstant   \* text -> the datetime it is, printed

Null == <<"null">>
Error == <<"error">>
FrameValues == {Null} \cup ({"int", "float"} \X Int) \cup ({"bool"} \X BOOLEAN) \cup ({"text"} \X STRING)

ASSUME FramesAssumption == RawValues \subseteq FrameValues /\ KeyValues \subseteq FrameValues /\ MaxFrameRows \in Nat

(* A date or datetime that was printed is read as itself. *)
ASSUME TextsAssumption ==
  /\ NanTexts \cap DOMAIN TextNumber = {}
  /\ \A t \in DOMAIN TextNumber : TextNumber[t] \in Int
  /\ \A t \in DOMAIN TextBool : TextBool[t] \in BOOLEAN
  /\ \A t \in DOMAIN TextDate : TextDate[t] \in DOMAIN TextDate /\ TextDate[TextDate[t]] = TextDate[t]
  /\ \A t \in DOMAIN TextInstant : TextInstant[t] \in DOMAIN TextInstant /\ TextInstant[TextInstant[t]] = TextInstant[t]

IsNumber(v) == v[1] \in {"int", "float"}
Num(v) == CASE v[1] = "int" -> 2 * v[2] [] v[1] = "float" -> v[2] [] v[1] = "bool" -> IF v[2] THEN 2 ELSE 0
PyEqual(v, w) == v = w \/ (v[1] \in {"int", "float", "bool"} /\ w[1] \in {"int", "float", "bool"} /\ Num(v) = Num(w))
Str(v) ==
  CASE v[1] = "int" -> ToString(v[2])
    [] v[1] = "float" -> ToString(v[2] \div 2) \o (IF v[2] % 2 = 0 THEN ".0" ELSE ".5")
    [] v[1] = "bool" -> IF v[2] THEN "True" ELSE "False"
    [] OTHER -> v[2]

IsText(v, meaning) == v[1] = "text" /\ v[2] \in DOMAIN meaning
IsNan(v) == v[1] = "text" /\ v[2] \in NanTexts

(* Values as text, boolean, integer, number, date or datetime.  Null is None    *)
(* and NaN alike: _is_nullish does not tell them apart.                      *)
Coerce(type, v) ==
  CASE type = "text" -> <<"text", Str(v)>>
    [] type = "boolean" ->
         CASE v[1] = "bool" -> v
           [] IsNumber(v) /\ Num(v) \in {0, 2} -> <<"bool", Num(v) = 2>>
           [] IsText(v, TextBool) -> <<"bool", TextBool[v[2]]>>
           [] OTHER -> Error
    [] type = "integer" ->
         CASE IsNumber(v) /\ Num(v) % 2 = 0 -> <<"int", Num(v) \div 2>>
           [] IsText(v, TextNumber) /\ TextNumber[v[2]] % 2 = 0 -> <<"int", TextNumber[v[2]] \div 2>>
           [] OTHER -> Error
    [] type = "number" ->
         CASE IsNumber(v) -> <<"float", Num(v)>>
           [] IsText(v, TextNumber) -> <<"float", TextNumber[v[2]]>>
           [] IsNan(v) -> Null
           [] OTHER -> Error
    [] type = "date" -> IF IsText(v, TextDate) THEN <<"text", TextDate[v[2]]>> ELSE Error
    [] type = "datetime" -> IF IsText(v, TextInstant) THEN <<"text", TextInstant[v[2]]>> ELSE Error

_coerce_value_for_column(column, v) ==
  IF v = Null THEN IF column.nullable THEN Null ELSE Error ELSE Coerce(column.data_type, v)

_looks_like_boolean(v) == v[1] = "bool" \/ IsText(v, TextBool) \/ (IsNumber(v) /\ Num(v) \in {0, 2})
_looks_like_integer(v) == (IsNumber(v) /\ Num(v) % 2 = 0) \/ (IsText(v, TextNumber) /\ TextNumber[v[2]] % 2 = 0)
_looks_like_number(v) == IsNumber(v) \/ IsText(v, TextNumber) \/ IsNan(v)
_looks_like_datetime(v) == IsText(v, TextInstant)
_looks_like_date(v) == IsText(v, TextDate)

_infer_column_type_AnyBoolean(values) ==   \* mutant: one value that looks boolean is enough
  IF \E v \in values : _looks_like_boolean(v) THEN "boolean"
  ELSE IF \A v \in values : _looks_like_number(v) THEN "number" ELSE "text"
_infer_column_type(values) ==
  IF values = {} THEN "text"
  ELSE IF \A v \in values : _looks_like_boolean(v) THEN "boolean"
  ELSE IF \A v \in values : _looks_like_integer(v) THEN "integer"
  ELSE IF \A v \in values : _looks_like_number(v) THEN "number"
  ELSE IF \A v \in values : _looks_like_datetime(v) THEN "datetime"
  ELSE IF \A v \in values : _looks_like_date(v) THEN "date" ELSE "text"

ColumnsOf(rows) == UNION {DOMAIN rows[i] : i \in DOMAIN rows}
Get(row, column) == IF column \in DOMAIN row THEN row[column] ELSE Null
ValuesIn(rows, column) == {Get(rows[i], column) : i \in DOMAIN rows}

_infer_schema_definition_from_records(rows) ==
  [column \in ColumnsOf(rows) |->
     [data_type |-> _infer_column_type(ValuesIn(rows, column) \ {Null}), nullable |-> Null \in ValuesIn(rows, column)]]

_normalize_rows_against_schema(rows, schema) ==
  [i \in DOMAIN rows |-> [column \in DOMAIN schema |-> _coerce_value_for_column(schema[column], Get(rows[i], column))]]
SchemaRaises(rows, schema) ==
  \/ ~(ColumnsOf(rows) \subseteq DOMAIN schema)
  \/ \E i \in DOMAIN rows, column \in DOMAIN schema : _coerce_value_for_column(schema[column], Get(rows[i], column)) = Error
-----------------------------------------------------------------------------
(* Frames. *)
DtypeOf(values) ==
  IF values \ {Null} = {} THEN "object"
  ELSE IF \A v \in values : v[1] = "bool" THEN "bool"
  ELSE IF \A v \in values : v[1] = "int" THEN "int64"
  ELSE IF \A v \in values : v = Null \/ IsNumber(v) THEN "float64" ELSE "object"

Promoted(v, dtype) == IF dtype = "float64" /\ v[1] = "int" THEN <<"float", Num(v)>> ELSE v

(* Of a column that was cast to Int64 the integers stay what they are.         *)
Framed(rows, dtypes) ==
  LET Dtype(column) == IF column \in DOMAIN dtypes /\ dtypes[column] = "Int64" THEN "Int64" ELSE DtypeOf(ValuesIn(rows, column))
      new == IF rows = <<>> THEN dtypes ELSE [column \in ColumnsOf(rows) |-> Dtype(column)]
  IN [dtypes |-> new, rows |-> [i \in DOMAIN rows |-> [column \in DOMAIN new |-> Promoted(Get(rows[i], column), new[column])]]]
ensure_dataframe(rows) == Framed(rows, <<>>)
_require_columns(frame, columns) == columns \subseteq DOMAIN frame.dtypes

(* The columns of a frame without rows, and of one with rows. *)
_infer_schema_definition_from_frame(frame) ==
  IF frame.rows # <<>> THEN _infer_schema_definition_from_records(frame.rows)
  ELSE [column \in DOMAIN frame.dtypes |->
          [nullable |-> TRUE,
           data_type |-> CASE frame.dtypes[column] = "bool" -> "boolean"
                           [] frame.dtypes[column] \in {"int64", "Int64"} -> "integer"
                           [] frame.dtypes[column] = "float64" -> "number"
                           [] OTHER -> "text"]]

(* A filter [column, least]: comparing texts with a number raises. *)
FilterRaises(frame, config) ==
  \/ ~_require_columns(frame, {config.column})
  \/ \E v \in ValuesIn(frame.rows, config.column) : v[1] = "text"
apply_filter_step(frame, config) ==
  [frame EXCEPT !.rows = SelectSeq(@, LAMBDA row : row[config.column] # Null /\ Num(row[config.column]) >= config.least)]

(* A mapping [column, mapping, target, preserve, defaults]: defaults is the    *)
(* empty sequence or holds the default.                                     *)
apply_map_step(frame, config) ==
  LET Image(v) ==
        LET mapped == IF v \in DOMAIN config.mapping THEN config.mapping[v] ELSE Null
            kept == IF mapped = Null /\ config.preserve THEN v ELSE mapped
        IN IF kept = Null /\ config.defaults # <<>> THEN config.defaults[1] ELSE kept
  IN Framed([i \in DOMAIN frame.rows |-> (config.target :> Image(frame.rows[i][config.column])) @@ frame.rows[i]], (config.target :> "object") @@ frame.dtypes)

(* Casts to numbers make null of what is no number; booleans are numbers. *)
Cast(type, v) ==
  LET x == IF v[1] = "bool" THEN <<"float", Num(v)>> ELSE Coerce("number", v)
      down == x[2] \div 2
  IN CASE type = "string" -> <<"text", Str(v)>>
       [] type # "string" /\ x \in {Null, Error} -> Null
       [] type = "number" /\ x \notin {Null, Error} -> x
       [] type = "integer" /\ x \notin {Null, Error} ->   \* rounds half to even
            <<"int", IF x[2] % 2 = 1 /\ down % 2 = 1 THEN down + 1 ELSE down>>
CastValue(type, v) == IF v = Null THEN Null ELSE Cast(type, v)
resolve_pandas_dtype == [string |-> "object", number |-> "float64", integer |-> "Int64"]
_apply_casts(frame, casts) ==
  LET Now(f, New(_)) == [column \in DOMAIN f |-> IF column \in DOMAIN casts THEN New(column) ELSE f[column]]
  IN [dtypes |-> Now(frame.dtypes, LAMBDA column : resolve_pandas_dtype[casts[column]]),
      rows |-> [i \in DOMAIN frame.rows |-> Now(frame.rows[i], LAMBDA column : CastValue(casts[column], frame.rows[i][column]))]]

(* The sum of two columns as a new one. *)
_apply_expressions(frame, target, a, b) ==
  LET Sum2(v, w) == IF Null \in {v, w} THEN Null ELSE IF v[1] = "int" /\ w[1] = "int" THEN <<"int", v[2] + w[2]>> ELSE <<"float", Num(v) + Num(w)>>
      of == {frame.dtypes[a], frame.dtypes[b]}
      dtype == IF of \subseteq {"int64", "Int64"} THEN IF "Int64" \in of THEN "Int64" ELSE "int64" ELSE "float64"
  IN Framed([i \in DOMAIN frame.rows |-> (target :> Sum2(frame.rows[i][a], frame.rows[i][b])) @@ frame.rows[i]], (target :> dtype) @@ frame.dtypes)

RenameColumns(frame, rename) ==
  LET New(column) == IF column \in DOMAIN rename THEN rename[column] ELSE column
      Renamed(f) == [column \in {New(old) : old \in DOMAIN f} |-> f[CHOOSE old \in DOMAIN f : New(old) = column]]
  IN [dtypes |-> Renamed(frame.dtypes), rows |-> [i \in DOMAIN frame.rows |-> Renamed(frame.rows[i])]]

(* A join on one column that both have; an empty right side joins nothing,     *)
(* whatever kind of join was asked for.                                      *)
_apply_join(frame, right, how, on) ==
  LET Blank(f) == [column \in DOMAIN f.dtypes |-> Null]
      Joined(l, r, key) == [column \in DOMAIN frame.dtypes \cup DOMAIN right.dtypes |->
                              IF column = on THEN key ELSE IF column \in DOMAIN l THEN l[column] ELSE r[column]]
      Right(l) == SelectSeq(right.rows, LAMBDA r : r[on] = l[on])
      Left(r) == SelectSeq(frame.rows, LAMBDA l : l[on] = r[on])
      Both(l) == [j \in DOMAIN Right(l) |-> Joined(l, Right(l)[j], l[on])]
      OfLeft(l) == IF Right(l) = <<>> /\ how \in {"left", "outer"} THEN <<Joined(l, Blank(right), l[on])>> ELSE Both(l)
      OfRight(r) == IF Left(r) = <<>> /\ how \in {"right", "outer"} THEN <<Joined(Blank(frame), r, r[on])>> ELSE <<>>
      rows == FlattenSeq([i \in DOMAIN frame.rows |-> OfLeft(frame.rows[i])])
              \o FlattenSeq([j \in DOMAIN right.rows |-> OfRight(right.rows[j])])
  IN IF right.rows = <<>> THEN frame ELSE Framed(rows, frame.dtypes @@ right.dtypes)

(* Renaming, casts, an expression and a join, in this order, as far as asked.  *)
apply_transform_step(frame, config) ==
  LET renamed == RenameColumns(frame, config.rename)
      cast == _apply_casts(renamed, config.casts)
      computed == IF config.target = "" THEN cast ELSE _apply_expressions(cast, config.target, config.of[1], config.of[2])
  IN IF config.how = "" THEN computed ELSE _apply_join(computed, config.right, config.how, config.on)

_aggregate_series(rows, column, method) ==
  LET here == {i \in DOMAIN rows : rows[i][column] # Null}
      total == FoldSet(LAMBDA i, sum : sum + Num(rows[i][column]), 0, here)
      nums == {Num(rows[i][column]) : i \in here}
  IN IF here = {} /\ method \notin {"sum", "count"} THEN Null
     ELSE CASE method = "sum" -> <<"float", total>>
            [] method = "count" -> <<"int", Cardinality(here)>>
            [] method = "mean" -> <<"ratio", total, Cardinality(here)>>
            [] method = "min" -> <<"float", Min(nums)>>
            [] method = "max" -> <<"float", Max(nums)>>

(* Grouped by one column, or not at all. *)
apply_aggregate_step(frame, group_by, column, method) ==
  LET Row(rows) == column :> _aggregate_series(rows, column, method)
      keys == ValuesIn(frame.rows, group_by) \ {Null}
      Group(key) == SelectSeq(frame.rows, LAMBDA row : row[group_by] = key)
  IN IF group_by = "" THEN {Row(frame.rows)}
     ELSE {(group_by :> key) @@ Row(Group(key)) : key \in keys}
(* What a join is given: a list of records, an object with such a list as its    *)
(* data, or one record.                                                     *)
_resolve_join_frame(payload) ==
  ensure_dataframe(CASE payload.kind = "records" -> payload.records
                     [] payload.kind = "object" /\ "data" \in DOMAIN payload.object -> payload.object["data"]
                     [] OTHER -> <<payload.object>>)

(* A publication [items, dims, members, static, nulls, batch_size]: the line    *)
(* items of the columns with values, in their order; the columns of members,   *)
(* with look-ups of texts for some; members of every cell; whether nulls are    *)
(* written.  What is looked up in vain is None, which is no id.                 *)
ResolvedMember(config, column, v) ==
  IF column \notin DOMAIN config.members THEN Str(v)
  ELSE IF Str(v) \in DOMAIN config.members[column] THEN config.members[column][Str(v)] ELSE "None"

BuildRaises(f, config, ids) ==
  \/ ~_require_columns(f, {i[1] : i \in Range(config.items)} \cup Range(config.dims))
  \/ \E row \in Range(f.rows), column \in Range(config.dims) :
       row[column] = Null \/ ResolvedMember(config, column, row[column]) \notin ids

_build_cell_writes(f, config) ==
  LET Members(row) == config.static \o [d \in DOMAIN config.dims |-> ResolvedMember(config, config.dims[d], row[config.dims[d]])]
      Written(row) == SelectSeq(config.items, LAMBDA i : config.nulls \/ row[i[1]] # Null)
      Writes(row) == [j \in DOMAIN Written(row) |-> [item |-> Written(row)[j][2], members |-> Members(row), value |-> row[Written(row)[j][1]]]]
  IN FlattenSeq([i \in DOMAIN f.rows |-> Writes(f.rows[i])])

_chunked(s, size) ==
  [b \in 1..((Len(s) + size - 1) \div size) |-> SubSeq(s, (b - 1) * size + 1, Min({b * size, Len(s)}))]

(* The batches of a frame's publication, each committed by write_cells_bulk;   *)
(* a frame without rows is not looked at, nor is the size of no batch.         *)
PublishStepRaises(f, config, ids) ==
  f.rows # <<>> /\ (BuildRaises(f, config, ids) \/ (_build_cell_writes(f, config) # <<>> /\ config.batch_size <= 0))
_execute_publish(f, config) == IF f.rows = <<>> THEN <<>> ELSE _chunked(_build_cell_writes(f, config), config.batch_size)
-----------------------------------------------------------------------------
VARIABLE frame

FrameRows == [{"k", "x"} -> RawValues \cup KeyValues]
FrameInit ==
  \E n \in 0..MaxFrameRows, rows \in [1..MaxFrameRows -> {r \in FrameRows : r["k"] \in KeyValues /\ r["x"] \in RawValues}] :
    frame = ensure_dataframe(SubSeq(rows, 1, n))

(* Rows fit the schema that is inferred from them, of whatever kinds their     *)
(* values are.  What was coerced is a value where there was one, stays as it    *)
(* is when it is coerced again, and a text that is published is found by the    *)
(* text it was mapped from.  The one exception is a text that reads as NaN in   *)
(* a column of numbers: it becomes null, and in a column that was inferred to   *)
(* have no nulls it is refused when it is written again                        *)
(* (_infer_column_type, _coerce_value_for_column, _is_nullish).                *)
InferredFits ==
  LET schema == _infer_schema_definition_from_frame(frame)
      once == _normalize_rows_against_schema(frame.rows, schema)
      Lost(i, column) == frame.rows[i][column] # Null /\ once[i][column] = Null
  IN /\ ~SchemaRaises(frame.rows, schema)
     /\ \A i \in DOMAIN once, column \in DOMAIN schema :
          /\ Lost(i, column) <=> schema[column].data_type = "number" /\ IsNan(frame.rows[i][column])
          /\ ~Lost(i, column) => _coerce_value_for_column(schema[column], once[i][column]) = once[i][column]
          /\ (schema[column].data_type = "text" /\ once[i][column] # Null) => Str(once[i][column]) = Str(frame.rows[i][column])
     /\ SchemaRaises(once, schema) <=> \E i \in DOMAIN once, column \in DOMAIN schema : Lost(i, column) /\ ~schema[column].nullable

(* Steps agree with each other: groups add up to the whole for the rows with   *)
(* a key, a filter may come before or after a mapping of another column, a      *)
(* left join keeps every row while an inner one keeps those that match, outer   *)
(* adds what right has more, mapping with a default leaves no null, and what    *)
(* is cast to a number stays one beside nulls                                   *)
(* (apply_aggregate_step, apply_filter_step, apply_map_step, _apply_join,       *)
(* _apply_casts).                                                           *)
StepsAgree ==
  LET numeric == "x" \in DOMAIN frame.dtypes /\ frame.dtypes["x"] \in {"int64", "float64"}
      right == ensure_dataframe(<<[k |-> <<"text", "a">>, z |-> <<"int", 1>>], [k |-> Null, z |-> <<"int", 2>>],
                                  [k |-> <<"text", "a">>, z |-> <<"int", 3>>], [k |-> <<"text", "z">>, z |-> <<"int", 4>>]>>)
      Join(how) == _apply_join(frame, right, how, "k").rows
      Matched(rows) == {<<row["k"], Num(row["z"])>> : row \in {r \in Range(rows) : r["z"] # Null}}
      keyed == SelectSeq(frame.rows, LAMBDA row : row["k"] # Null)
      renaming == [column |-> "k", mapping |-> (<<"text", "a">> :> <<"text", "c">>), target |-> "k", preserve |-> TRUE, defaults |-> <<>>]
      filling == [renaming EXCEPT !.defaults = <<<<"text", "c">>>>]
      least == [column |-> "x", least |-> 3]
      transforming(type) == [rename |-> ("x" :> "y"), casts |-> ("y" :> type), target |-> "y2", of |-> <<"y", "y">>, how |-> "left", right |-> right, on |-> "k"]
  IN frame.rows # <<>> =>
     /\ numeric => \A method \in {"sum", "count"} :
          LET groups == apply_aggregate_step(frame, "k", "x", method)
          IN /\ Cardinality(groups) = Cardinality(ValuesIn(keyed, "k"))
             /\ FoldSet(LAMBDA row, sum : sum + row["x"][2], 0, groups) = _aggregate_series(keyed, "x", method)[2]
     /\ numeric => \A g \in apply_aggregate_step(frame, "k", "x", "max") : \E row \in Range(frame.rows) :
          row["k"] = g["k"] /\ (g["x"] = Null \/ (row["x"] # Null /\ Num(row["x"]) = Num(g["x"])))
     /\ (numeric /\ ~FilterRaises(frame, least)) =>
          apply_filter_step(apply_map_step(frame, renaming), least).rows = apply_map_step(apply_filter_step(frame, least), renaming).rows
     /\ \A i \in DOMAIN frame.rows :
          LET new == apply_map_step(frame, renaming).rows[i]["k"] IN frame.rows[i]["k"] = <<"text", "a">> \/ new = frame.rows[i]["k"]
     /\ Null \notin ValuesIn(apply_map_step(frame, filling).rows, "k")
     /\ {[k |-> row["k"], x |-> row["x"]] : row \in Range(Join("left"))} = Range(ensure_dataframe(frame.rows).rows)
     /\ Len(Join("outer")) + Len(Join("inner")) = Len(Join("left")) + Len(Join("right"))
     /\ Matched(Join("left")) = Matched(Join("inner")) /\ Matched(Join("right")) = Matched(Join("outer"))
     /\ _apply_join(frame, ensure_dataframe(<<>>), "inner", "k") = frame
     /\ LET records == [kind |-> "records", records |-> frame.rows]
            nested == [kind |-> "object", object |-> ("data" :> frame.rows)]
            single(i) == [kind |-> "object", object |-> frame.rows[i]]
        IN /\ _resolve_join_frame(records) = frame /\ _resolve_join_frame(nested) = frame
           /\ \A i \in DOMAIN frame.rows :
                Len(_apply_join(frame, _resolve_join_frame(single(i)), "inner", "k").rows) = Cardinality({j \in DOMAIN frame.rows : frame.rows[j]["k"] = frame.rows[i]["k"]})
     /\ \A row \in Range(apply_transform_step(frame, transforming("number")).rows) :
          IF row["y"] = Null THEN row["y2"] = Null ELSE row["y2"] = <<"float", 2 * row["y"][2]>>
     /\ \A row \in Range(apply_transform_step(frame, transforming("integer")).rows) :
          IF row["y"] = Null THEN row["y2"] = Null ELSE row["y2"] = <<"int", 2 * row["y"][2]>>

(* Publishing a frame writes, batch by batch, each value at the member that its *)
(* key is mapped to, in the order of the rows: nothing raises as long as every *)
(* key is one that is mapped, and then as many cells are written as there are   *)
(* values, or rows where nulls are written.  Publishing what a filter left      *)
(* writes part of it, and a mapping with a default before a publication         *)
(* leaves no key that it stumbles over                                        *)
(* (_build_cell_writes, _execute_publish, apply_map_step, apply_filter_step).   *)
PublishingAgrees ==
  LET publishing(nulls, size) ==
        [items |-> <<<<"x", "i1">>, <<"k", "i2">>>>, dims |-> <<"k">>, members |-> ("k" :> (("a" :> "m1") @@ ("c" :> "m2"))),
         static |-> <<"m0">>, nulls |-> nulls, batch_size |-> size]
      ids == {"m0", "m1", "m2"}
      filling == [column |-> "k", mapping |-> (<<"text", "a">> :> <<"text", "a">>), target |-> "k", preserve |-> FALSE, defaults |-> <<<<"text", "c">>>>]
      least == [column |-> "x", least |-> 3]
      filled == apply_map_step(frame, filling)
      Mapped(rows) == \A row \in Range(rows) : row["k"] \in {<<"text", "a">>, <<"text", "c">>}
      values == {i \in DOMAIN filled.rows : filled.rows[i]["x"] # Null}
      Part(f) == Range(_build_cell_writes(f, publishing(FALSE, 1)))
  IN /\ PublishStepRaises(frame, publishing(FALSE, 2), ids) <=> ~Mapped(frame.rows)
     /\ frame.rows # <<>> => PublishStepRaises(filled, publishing(TRUE, 0), ids)
     /\ \A nulls \in BOOLEAN, size \in {1, 2, 3} :
          LET batches == _execute_publish(filled, publishing(nulls, size))
              writes == FlattenSeq(batches)
          IN /\ ~PublishStepRaises(filled, publishing(nulls, size), ids)
             /\ \A b \in DOMAIN batches : Len(batches[b]) = size \/ (b = Len(batches) /\ Len(batches[b]) \in 1..size)
             /\ Len(writes) = Len(filled.rows) + (IF nulls THEN Len(filled.rows) ELSE Cardinality(values))
             /\ SelectSeq(writes, LAMBDA w : w.item = "i2")
                  = [i \in DOMAIN filled.rows |->
                       [item |-> "i2", value |-> filled.rows[i]["k"],
                        members |-> <<"m0", IF frame.rows[i]["k"] = <<"text", "a">> THEN "m1" ELSE "m2">>]]
     /\ (frame.rows # <<>> /\ ~FilterRaises(filled, least)) => Part(apply_filter_step(filled, least)) \subseteq Part(filled)

(* Together: schemas fit the rows they are inferred from, and steps agree     *)
(* (data_hub.py, transforms.py, executor.py).                                *)
FramesAgree == InferredFits /\ StepsAgree /\ PublishingAgrees

FrameSpec == FrameInit /\ [][UNCHANGED frame]_frame
=============================================================================
