------------------------------- MODULE Snapshots -------------------------------
(***************************************************************************)
(* Model snapshots (services/snapshot.py): a model's rows and cells are    *)
(* read by one query after the other, stored, and restored later under     *)
(* new ids.  Restoring is one transaction; its deletions lock the rows of  *)
(* the model, so that writers of these rows wait for its commit.           *)
(***************************************************************************)
EXTENDS ModelRows

CONSTANTS MaxSnapshots, Snapshotted    \* the models of which snapshots are taken

ASSUME SnapshotsAssumption == Snapshotted \subseteq Models

VARIABLES
    snaps,    \* model_snapshots: [model, rows, cells, versions]
    taking    \* a create_snapshot between its queries, or Nobody

Nobody == [model |-> "nobody", rows |-> {}, read |-> 0]
snapshotVars == <<snaps, taking>>

SnapshotsInit == snaps = <<>> /\ taking = Nobody

\* _serialize_model reads one table after the other: dimensions, their items, modules, and
\* their line items ...
Tables == <<"dimension", "item", "module", "line">>
Read(m, kind) == {r \in rows[m] : Kind(r) = kind}

BeginSnapshot(m) ==
    /\ taking = Nobody /\ Len(snaps) < MaxSnapshots
    /\ taking' = [model |-> m, rows |-> {}, read |-> 0]
    /\ UNCHANGED <<modelVars, snaps>>

ReadTable ==
    /\ taking # Nobody /\ taking.read < Len(Tables)
    /\ taking' = [taking EXCEPT !.read = @ + 1,
                     !.rows = @ \union {r \in Read(taking.model, Tables[taking.read + 1]) :
                                           r.up \in IdsOf(@) \union {NoId}}]
    /\ UNCHANGED <<modelVars, snaps>>

\* ... the cells of these line items, only their plain columns ...
ReadCells(m, lines) == {[c EXCEPT !.secret = Null] : c \in {d \in cells[m] : d.li \in lines}}

\* ... and the versions; create_snapshot commits what was read.
FinishSnapshot ==
    /\ taking # Nobody /\ taking.read = Len(Tables)
    /\ snaps' = Append(snaps, [model |-> taking.model,
                               rows  |-> taking.rows \union Read(taking.model, "version"),
                               cells |-> ReadCells(taking.model, IdsOf(taking.rows))])
    /\ taking' = Nobody
    /\ UNCHANGED modelVars

\* The new id of everything the snapshot lists.
IdMap(S, g) == [i \in IdsOf(S.rows) |-> [name |-> i.name, gen |-> g]]
Remap(S, g, i) == IF i \in IdsOf(S.rows) THEN IdMap(S, g)[i] ELSE i

\* Mutant: the parents of items are not set in a second pass.
RestoredRows_NoParents(S, g) ==
    {[id |-> IdMap(S, g)[r.id], attr |-> r.attr,
      up |-> IF r.up = NoId THEN NoId ELSE IdMap(S, g)[r.up],
      refs |-> IF Kind(r) = "item" THEN {} ELSE {IdMap(S, g)[i] : i \in r.refs \cap IdsOf(S.rows)}] :
     r \in S.rows}
\* Links and parents that were not read are left out.
RestoredRows(S, g) ==
    {[id |-> IdMap(S, g)[r.id], attr |-> r.attr,
      up |-> IF r.up = NoId THEN NoId ELSE IdMap(S, g)[r.up],
      refs |-> {IdMap(S, g)[i] : i \in r.refs \cap IdsOf(S.rows)}] :
     r \in S.rows}

\* The segments of a key are replaced where they stand; what is no row of the snapshot
\* stays in the key, and in the version column becomes null.
RestoredCells(S, g) ==
    {[c EXCEPT !.li = IdMap(S, g)[c.li],
               !.key = [k \in DOMAIN c.key |-> Remap(S, g, c.key[k])],
               !.version = IF c.version \in IdsOf(S.rows) THEN IdMap(S, g)[c.version] ELSE NoId] :
     c \in {d \in S.cells : d.li \in IdsOf(S.rows)}}

\* restore_snapshot.
RestoreSnapshot(s, g) ==
    /\ gen' = g
    /\ rows' = [rows EXCEPT ![snaps[s].model] = RestoredRows(snaps[s], g)]
    /\ cells' = [cells EXCEPT ![snaps[s].model] = RestoredCells(snaps[s], g)]
    /\ UNCHANGED <<edits, snapshotVars>>

\* delete_snapshot.
DeleteSnapshot(s) ==
    /\ snaps' = RemoveAt(snaps, s)
    /\ UNCHANGED <<modelVars, taking>>

SnapshotsNext ==
    \/ \E m \in Snapshotted : BeginSnapshot(m)
    \/ ReadTable \/ FinishSnapshot
    \/ \E s \in DOMAIN snaps :
        \/ DeleteSnapshot(s)
        \/ gen < MaxGeneration /\ RestoreSnapshot(s, gen + 1)

\* _diff_entity_lists: what two lists of rows do not share, by ids; compare_snapshots takes
\* the entities kind by kind.
Diff(A, B) == [added |-> Cardinality(IdsOf(B) \ IdsOf(A)),
               removed |-> Cardinality(IdsOf(A) \ IdsOf(B)),
               changed |-> Cardinality({r \in A : r \notin B /\ r.id \in IdsOf(B)})]
compare_snapshots(R, T) ==
    [kind \in Range(Tables) \union {"version"} |->
        Diff({r \in R : Kind(r) = kind}, {r \in T : Kind(r) = kind})]

-------------------------------------------------------------------------------
(* Properties.                                                              *)

\* The rows a snapshot holds, by names, with parents and links among them only.
Faces(S) == RowFaces({[r EXCEPT !.refs = r.refs \cap IdsOf(S.rows)] : r \in S.rows})

\* Restoring brings back what the snapshot holds, ids apart, and nothing else survives it:
\* rows with parents and links, and cells with members, version and plain value - also when
\* the model was edited between the queries that made the snapshot, and however often it
\* is restored (restore_snapshot: "Recreate from snapshot_data with new UUIDs").
RestoreBringsBack ==
    [][\A s \in DOMAIN snaps :
        gen' # gen /\ RestoreSnapshot(s, gen') =>
            LET m == snaps[s].model
                kept == {c \in snaps[s].cells : c.version \in IdsOf(snaps[s].rows) \union {NoId}} IN
            /\ RowFaces(rows[m])' = Faces(snaps[s])
            /\ CellFaces(kept) \subseteq CellFaces(cells[m])'
            /\ Cardinality(cells'[m]) = Cardinality(snaps[s].cells)
            /\ \A kind \in Range(Tables) \union {"version"} :
                LET diff == compare_snapshots(snaps[s].rows, rows'[m])[kind] IN
                diff.added = diff.removed /\ diff.changed = 0]_<<modelVars, snaps>>

===============================================================================
