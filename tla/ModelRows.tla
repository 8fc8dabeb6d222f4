------------------------------- MODULE ModelRows -------------------------------
(***************************************************************************)
(* The rows of planning models that revisions, promotions and snapshots    *)
(* copy (models/dimension.py, models/module.py, models/version.py,         *)
(* models/cell.py): dimensions with their items, modules with their line   *)
(* items, versions, and cells.                                             *)
(*                                                                         *)
(* Ids are random UUIDs.  An id here is the entity's name and the copy     *)
(* ("generation") that created the row, so that rows of different models   *)
(* never share one.  The order of two UUIDs is arbitrary: it is the order  *)
(* of the names or its reverse, depending on the generation.  A dimension  *)
(* key is the sequence of the ids it joins with "|".                       *)
(***************************************************************************)
EXTENDS Integers, Sequences, FiniteSets, SequencesExt, TLC

CONSTANTS Models,      \* planning models, each one the model of one environment
          Catalogue,   \* name -> [kind, up, refs]: the entities there may be; names are numbers
          Attributes,  \* the other columns of a row: type, format, formula, ...
          Keys,        \* what cells may be written: [li, members] in names
          InitialRows, \* model -> the names it has at the start
          InitialKeys, \* model -> the cells it has at the start
          Touched,     \* the names of the rows that users alter or delete
          MaxEdits, MaxGeneration

NoId == [name |-> 0, gen |-> 0]
Null == "null"

\* Items are in a dimension and line items in a module, nothing else is in anything; versions
\* take part in no links.
EntryAssumption(n) ==
    LET entry == Catalogue[n] IN
    /\ entry.up # 0 => /\ entry.up \in DOMAIN Catalogue /\ Catalogue[entry.up].up = 0
                       /\ Catalogue[entry.up].kind # "version"
    /\ \A k \in entry.refs : k \in DOMAIN Catalogue /\ Catalogue[k].kind # "version"
    /\ entry.kind = "version" => entry.up = 0 /\ entry.refs = {}
InitialAssumption(m) ==
    /\ InitialRows[m] \subseteq DOMAIN Catalogue /\ IsFiniteSet(InitialRows[m])
    /\ \A n \in InitialRows[m] : Catalogue[n].refs \union {Catalogue[n].up} \subseteq InitialRows[m] \union {0}
    /\ \A k \in InitialKeys[m] : k.li \in InitialRows[m] /\ k.members \subseteq InitialRows[m]
ASSUME ModelsAssumption ==
    /\ IsFiniteSet(Models) /\ 0 \notin DOMAIN Catalogue
    /\ \A n \in DOMAIN Catalogue : EntryAssumption(n)
    /\ \A m \in Models : InitialAssumption(m)

VARIABLES rows,   \* model -> its rows
          cells,  \* model -> its cell rows
          gen,    \* the last generation
          edits   \* changes made so far by users

modelVars == <<rows, cells, gen, edits>>

Kind(r)   == Catalogue[r.id.name].kind
IdsOf(R)  == {r.id : r \in R}
Named(R, n) == {r \in R : r.id.name = n}

\* The arbitrary but fixed order of UUIDs.
Before(a, b) == IF a.gen # b.gen THEN a.gen < b.gen
                ELSE IF a.gen % 2 = 0 THEN a.name < b.name ELSE a.name > b.name
JoinKey(ids) == SetToSortSeq(ids, Before)

\* A row of entity n whose relations are those of the catalogue.
FreshRow(n, g, attr) ==
    [id |-> [name |-> n, gen |-> g], attr |-> attr,
     up |-> IF Catalogue[n].up = 0 THEN NoId ELSE [name |-> Catalogue[n].up, gen |-> g],
     refs |-> {[name |-> k, gen |-> g] : k \in Catalogue[n].refs}]

FirstGen == CHOOSE f \in [Models -> 1 .. Cardinality(Models)] : \A a, b \in Models : f[a] = f[b] => a = b

\* A cell as write_cell leaves it: an encrypted value leaves the plain columns empty.
Cell(li, ids, secret) ==
    LET versions == {i \in ids : Catalogue[i.name].kind = "version"} IN
    [li |-> li, key |-> JoinKey(ids),
     version |-> IF versions = {} THEN NoId ELSE CHOOSE v \in versions : TRUE,
     plain |-> IF secret THEN Null ELSE "value", secret |-> IF secret THEN "value" ELSE Null]

ModelRowsInit ==
    /\ rows = [m \in Models |-> {FreshRow(n, FirstGen[m], CHOOSE a \in Attributes : TRUE) :
                                 n \in InitialRows[m]}]
    /\ cells = [m \in Models |-> {Cell([name |-> k.li, gen |-> FirstGen[m]],
                                      {[name |-> n, gen |-> FirstGen[m]] : n \in k.members}, FALSE) :
                                  k \in InitialKeys[m]}]
    /\ gen = Cardinality(Models) /\ edits = 0

\* Rows and whatever the foreign keys remove or clear with them: items of a dimension,
\* line items of a module (CASCADE), links of a line item, parents (SET NULL).
Without(R, ids) ==
    LET left == {q \in R : q.id \notin ids /\ q.up \notin ids} IN
    {[r EXCEPT !.refs = r.refs \intersect IdsOf(left)] : r \in left}
CellsOn(C, R) == {[c EXCEPT !.version = IF c.version \in IdsOf(R) THEN c.version ELSE NoId] :
                  c \in {d \in C : d.li \in IdsOf(R)}}

-------------------------------------------------------------------------------
(* What the users of a model do meanwhile.                                  *)

Change(m, newRows, newCells) ==
    /\ edits < MaxEdits /\ edits' = edits + 1
    /\ rows' = [rows EXCEPT ![m] = newRows]
    /\ cells' = [cells EXCEPT ![m] = newCells]
    /\ UNCHANGED gen

AlterRow(m, r, attr) ==
    /\ attr # r.attr
    /\ Change(m, (rows[m] \ {r}) \union {[r EXCEPT !.attr = attr]}, cells[m])

DeleteRow(m, r) ==
    LET left == Without(rows[m], {r.id}) IN Change(m, left, CellsOn(cells[m], left))

\* write_cell to a position all of whose members exist.
WriteCell(m, key, secret) ==
    LET members == {r \in rows[m] : r.id.name \in key.members} IN
    /\ Cardinality(members) = Cardinality(key.members)
    /\ \E li \in Named(rows[m], key.li) :
        LET cell == Cell(li.id, IdsOf(members), secret) IN
        Change(m, rows[m], {c \in cells[m] : c.li # cell.li \/ c.key # cell.key} \union {cell})

UserEdits ==
    \E m \in Models :
        \/ \E r \in {q \in rows[m] : q.id.name \in Touched} : DeleteRow(m, r) \/ \E a \in Attributes : AlterRow(m, r, a)
        \/ \E key \in Keys, secret \in BOOLEAN : WriteCell(m, key, secret)

-------------------------------------------------------------------------------
(* What two sets of rows have in common up to the ids.                      *)

NamesOf(ids) == {i.name : i \in ids}
RowFace(r)  == [name |-> r.id.name, attr |-> r.attr, up |-> r.up.name, refs |-> NamesOf(r.refs)]
RowFaces(R) == {RowFace(r) : r \in R}
CellFace(c) == [li |-> c.li.name, key |-> NamesOf(Range(c.key)), version |-> c.version.name,
                plain |-> c.plain]
CellFaces(C) == {CellFace(c) : c \in C}

===============================================================================
