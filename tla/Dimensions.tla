------------------------------ MODULE Dimensions ------------------------------
(***************************************************************************)
(* Dimensions of one model and their items: services/dimension.py,            *)
(* composite_dimension.py and the import of items (import_export.py), behind  *)
(* api/dimension.py and api/composite_dimension.py.                          *)
(*                                                                         *)
(* Creating an item of a numbered list, importing a file and ensuring an       *)
(* intersection read first and write later, so that requests of two clients    *)
(* interleave there.  Items are numbered in the order they are inserted; the   *)
(* order in which items are shown is left out.                               *)
(***************************************************************************)
EXTENDS Integers, Sequences, SequencesExt, FiniteSets, FiniteSetsExt

CONSTANTS Dims,        \* dimensions
          TypeOf,      \* dimension -> what it is created as: "standard", "numbered" or "composite"
          SourcesOf,   \* composite dimension -> the sources it is created with
          Names,       \* names of items
          Files,       \* what may be imported: sequences of [name, parent]
          Limits,      \* values of max_items
          DimClients,
          MaxItems,    \* bound on the items ever inserted
          MaxDimOps    \* bound on the requests

(* Composites are made of dimensions that are none themselves.                *)
ASSUME DimensionsAssumption ==
  /\ MaxItems \in Nat /\ Limits \subseteq Nat
  /\ \A file \in Files : file \in Seq(Range(file))
  /\ \A c \in Dims : TypeOf[c] = "composite" =>
       IsFiniteSet(SourcesOf[c]) /\ SourcesOf[c] \subseteq {d \in Dims : TypeOf[d] # "composite"}

NoLimit == 0
NoParent == 0
Free == [kind |-> "free"]

VARIABLES dims,      \* dimension -> [exists, type, max_items, sources]: the sources a composite has left
          items,     \* id -> [dim, name, code, parent]
          nextId,    \* ids given out so far
          members,   \* rows of composite_dimension_members: [dim, key, item], the key the set of its source members
          dimRequests, \* client -> what its request has read
          dimOps

dimVars == <<dims, items, nextId, members, dimRequests, dimOps>>

ItemsIn(rows, d) == {i \in DOMAIN rows : rows[i].dim = d}
ItemsOf(d) == ItemsIn(items, d)
CodesIn(rows, d) == {rows[i].code : i \in ItemsIn(rows, d)}
DimCounted == dimOps < MaxDimOps /\ dimOps' = dimOps + 1

_validate_dimension_config(type, max_items) ==
  type # "composite" /\ (max_items # NoLimit => type = "numbered")

_next_numbered_item_code_Count(d) == Cardinality(ItemsOf(d)) + 1   \* mutant: counts instead of taking the maximum
_next_numbered_item_code(d) == Max(CodesIn(items, d) \cup {0}) + 1

(* The tree is built from the items without a parent downwards. *)
TreeLevels(d) ==
  LET level[n \in 0..MaxItems] ==
        IF n = 0 THEN {i \in ItemsOf(d) : items[i].parent = NoParent}
        ELSE {i \in ItemsOf(d) : items[i].parent \in level[n - 1]}
  IN level
_build_tree(d) == UNION Range(TreeLevels(d))

(* Nothing, or one member in each source of a composite dimension. *)
Created(d, max_items, sources) == [exists |-> TRUE, type |-> TypeOf[d], max_items |-> max_items, sources |-> sources]
SourcesAtFirst(d) == IF TypeOf[d] = "composite" THEN SourcesOf[d] ELSE {}
DimInit ==
  /\ dims = [d \in Dims |-> Created(d, NoLimit, SourcesAtFirst(d))]
  /\ \E filled \in {{}} \cup {SourcesAtFirst(c) : c \in Dims} :
       \E order \in SetToSeqs(filled) :
         /\ nextId = Len(order)
         /\ items = [i \in DOMAIN order |->
                       [dim |-> order[i], name |-> CHOOSE x \in Names : TRUE,
                        code |-> IF TypeOf[order[i]] = "numbered" THEN 1 ELSE 0, parent |-> NoParent]]
  /\ members = {}
  /\ dimRequests = [c \in DimClients |-> Free] /\ dimOps = 0
-----------------------------------------------------------------------------
(* A new dimension takes the name of a deleted one only when no request means  *)
(* the old one any more.                                                      *)
Unnamed(d) == ~dims[d].exists /\ \A c \in DimClients : dimRequests[c] # Free => dimRequests[c].dim # d

create_dimension(d, max_items) ==
  /\ DimCounted /\ Unnamed(d) /\ _validate_dimension_config(TypeOf[d], max_items)
  /\ dims' = [dims EXCEPT ![d] = Created(d, max_items, {})]
  /\ UNCHANGED <<items, nextId, members, dimRequests>>

(* Type and limit as they will be: a limit that the request leaves out stays,  *)
(* and goes when the request names another type than numbered.                *)
update_dimension(d, type, max_items) ==
  /\ DimCounted /\ dims[d].exists /\ _validate_dimension_config(type, max_items)
  /\ dims' = [dims EXCEPT ![d].type = type, ![d].max_items = max_items]
  /\ UNCHANGED <<items, nextId, members, dimRequests>>

(* Rows below go with it: its items, and intersections whose item went. *)
Without(gone) ==
  /\ items' = [i \in DOMAIN items \ gone |-> IF items[i].parent \in gone THEN [items[i] EXCEPT !.parent = NoParent] ELSE items[i]]
  /\ members' = {m \in members : m.item \notin gone}

delete_dimension(d) ==
  /\ DimCounted /\ dims[d].exists
  /\ dims' = [e \in Dims |-> IF e = d THEN [dims[e] EXCEPT !.exists = FALSE]
                            ELSE [dims[e] EXCEPT !.sources = @ \ {d}]]
  /\ Without(ItemsOf(d))
  /\ UNCHANGED <<nextId, dimRequests>>

create_composite_dimension(c) ==
  /\ DimCounted /\ TypeOf[c] = "composite" /\ Unnamed(c)
  /\ Cardinality(SourcesOf[c]) >= 2 /\ \A d \in SourcesOf[c] : dims[d].exists
  /\ dims' = [dims EXCEPT ![c] = Created(c, NoLimit, SourcesOf[c])]
  /\ UNCHANGED <<items, nextId, members, dimRequests>>

delete_dimension_item(i) ==
  /\ DimCounted /\ i \in DOMAIN items /\ Without({i})
  /\ UNCHANGED <<dims, nextId, dimRequests>>

(* The endpoint has checked that a new parent is another item of the list. *)
ParentAllowed(i, parent) == parent = NoParent \/ (parent \in ItemsOf(items[i].dim) /\ parent # i)
update_dimension_item(i, parent) ==
  /\ DimCounted /\ i \in DOMAIN items /\ ParentAllowed(i, parent)
  /\ items' = [items EXCEPT ![i].parent = parent]
  /\ UNCHANGED <<dims, nextId, members, dimRequests>>
-----------------------------------------------------------------------------
(* Inserting rows: a sequence of items, the ids in order. *)
InsertAll(rows) ==
  /\ nextId + Len(rows) <= MaxItems
  /\ nextId' = nextId + Len(rows)
  /\ items' = [i \in DOMAIN items \cup (nextId + 1)..(nextId + Len(rows)) |->
                 IF i > nextId THEN rows[i - nextId] ELSE items[i]]

ParentsExist(rows) == \A k \in DOMAIN rows : rows[k].parent = NoParent \/ rows[k].parent \in DOMAIN items
InsertAllowed(d, rows) == dims[d].exists /\ ParentsExist(rows)
Item(d, name, code, parent) == [dim |-> d, name |-> name, code |-> code, parent |-> parent]

(* create_dimension_item: the count and the next code are read ... *)
IsNumbered(d) == dims[d].type = "numbered"
Full(d, count) == dims[d].max_items # NoLimit /\ count >= dims[d].max_items
ReadNumbered(c, d, name, parent) ==
  /\ DimCounted /\ dimRequests[c] = Free /\ dims[d].exists
  /\ parent \in ItemsOf(d) \cup {NoParent}
  /\ IsNumbered(d) => ~Full(d, Cardinality(ItemsOf(d)))
  /\ LET code == IF IsNumbered(d) THEN _next_numbered_item_code(d) ELSE 0
     IN dimRequests' = [dimRequests EXCEPT ![c] =
          [kind |-> "create", dim |-> d, rows |-> <<Item(d, name, code, parent)>>,
           seen |-> items, numbered |-> IsNumbered(d), limit |-> dims[d].max_items]]
  /\ UNCHANGED <<dims, items, nextId, members>>

(* ... and an import reads all items, then makes its rows in memory.  A row   *)
(* that was added has no id yet when a later row names it as its parent.      *)
Known(made, name, d) ==
  LET inFile == {k \in DOMAIN made : made[k].name = name}
      stored == {i \in ItemsOf(d) : items[i].name = name}
  IN [found |-> inFile \cup stored # {}, id |-> IF inFile # {} \/ stored = {} THEN NoParent ELSE Max(stored)]

Imported(d, file) ==
  LET firstCode == _next_numbered_item_code(d)
      numbered == IsNumbered(d)
      Take(made, row) ==
        IF numbered THEN ~Full(d, Cardinality(ItemsOf(d)) + Len(made)) ELSE ~Known(made, row.name, d).found
      Row(made, row) == Item(d, row.name, IF numbered THEN firstCode + Len(made) ELSE 0,
                             IF row.parent = "" THEN NoParent ELSE Known(made, row.parent, d).id)
      made[k \in 0..Len(file)] ==
        IF k = 0 THEN <<>>
        ELSE IF Take(made[k - 1], file[k]) THEN Append(made[k - 1], Row(made[k - 1], file[k])) ELSE made[k - 1]
  IN made[Len(file)]

import_to_dimension(c, d, file) ==
  /\ DimCounted /\ dimRequests[c] = Free /\ dims[d].exists
  /\ dimRequests' = [dimRequests EXCEPT ![c] =
       [kind |-> "import", dim |-> d, rows |-> Imported(d, file), seen |-> items,
        numbered |-> IsNumbered(d), limit |-> dims[d].max_items]]
  /\ UNCHANGED <<dims, items, nextId, members>>

CommitItems(c) ==
  /\ dimRequests[c].kind \in {"create", "import"}
  /\ IF InsertAllowed(dimRequests[c].dim, dimRequests[c].rows) THEN InsertAll(dimRequests[c].rows)
     ELSE UNCHANGED <<items, nextId>>
  /\ dimRequests' = [dimRequests EXCEPT ![c] = Free]
  /\ UNCHANGED <<dims, members, dimOps>>
-----------------------------------------------------------------------------
(* Intersections of a composite dimension: one source member per source it    *)
(* has left.                                                                 *)
FitsSources(c, ids) ==
  /\ ids \subseteq DOMAIN items /\ Cardinality(ids) = Cardinality(dims[c].sources)
  /\ {items[i].dim : i \in ids} = dims[c].sources

ensure_composite_intersection_member(c, d, ids) ==
  /\ DimCounted /\ dimRequests[c] = Free
  /\ dims[d].exists /\ TypeOf[d] = "composite" /\ Cardinality(dims[d].sources) >= 2 /\ FitsSources(d, ids)
  /\ ~\E m \in members : m.dim = d /\ m.key = ids
  /\ dimRequests' = [dimRequests EXCEPT ![c] = [kind |-> "ensure", dim |-> d, key |-> ids]]
  /\ UNCHANGED <<dims, items, nextId, members>>

Conflicts(d, key) == \E m \in members : m.dim = d /\ m.key = key
CommitIntersection(c) ==
  /\ dimRequests[c].kind = "ensure"
  /\ LET d == dimRequests[c].dim
     IN IF ~dims[d].exists \/ Conflicts(d, dimRequests[c].key) THEN UNCHANGED <<items, nextId, members>>
        ELSE /\ InsertAll(<<Item(d, "intersection", 0, NoParent)>>)
             /\ members' = members \cup {[dim |-> d, key |-> dimRequests[c].key, item |-> nextId + 1]}
  /\ dimRequests' = [dimRequests EXCEPT ![c] = Free]
  /\ UNCHANGED <<dims, dimOps>>

(* The members under which a cell of a line item of composite dimension d is  *)
(* kept (services/cell.py): the intersection instead of its sources.          *)
_normalize_dimension_members_for_composites(d, ids) ==
  LET direct == {i \in ids : i \in DOMAIN items /\ items[i].dim = d}
      existing == IF FitsSources(d, ids) THEN {m \in members : m.dim = d /\ m.key = ids} ELSE {}
  IN IF direct # {} \/ existing = {} THEN ids ELSE {m.item : m \in existing}
-----------------------------------------------------------------------------
DimNext ==
  \/ \E d \in Dims, x \in Limits : create_dimension(d, x) \/ \E type \in {"standard", "numbered"} : update_dimension(d, type, x)
  \/ \E d \in Dims : delete_dimension(d) \/ create_composite_dimension(d)
  \/ \E i \in DOMAIN items : delete_dimension_item(i) \/ \E p \in DOMAIN items \cup {NoParent} : update_dimension_item(i, p)
  \/ \E c \in DimClients :
       \/ \E d \in Dims :
            \/ \E name \in Names, p \in ItemsOf(d) \cup {NoParent} : ReadNumbered(c, d, name, p)
            \/ \E file \in Files : import_to_dimension(c, d, file)
            \/ \E ids \in SUBSET DOMAIN items : ensure_composite_intersection_member(c, d, ids)
       \/ CommitItems(c) \/ CommitIntersection(c)
DimSpec == DimInit /\ [][DimNext]_dimVars
-----------------------------------------------------------------------------
(* A combination of source members has one intersection, and every row of an  *)
(* intersection has an item of the composite dimension, whoever asks for it    *)
(* at the same time: the cell of the combination is the same whether it is     *)
(* named by its sources or by the intersection                                *)
(* (ensure_composite_intersection_member).                                  *)
IntersectionsUnique ==
  /\ \A m, n \in members : (m.dim = n.dim /\ m.key = n.key) \/ m.item = n.item => m = n
  /\ \A m \in members : m.item \in ItemsOf(m.dim)
  /\ \A m \in members : m.key \subseteq DOMAIN items =>
       _normalize_dimension_members_for_composites(m.dim, m.key)
         = _normalize_dimension_members_for_composites(m.dim, {m.item})

(* An insertion into a numbered list that no other insertion overlapped keeps  *)
(* the list within max_items and its codes distinct, however many rows were    *)
(* created, imported and deleted before (create_dimension_item).              *)
NumberedKeepsLimit(r) ==
  (r.kind \in {"create", "import"} /\ nextId' > nextId
   /\ r.numbered /\ r.seen = items) =>
     /\ r.limit # NoLimit => Cardinality(ItemsIn(items', r.dim)) <= r.limit
     /\ Cardinality(CodesIn(items', r.dim)) = Cardinality(CodesIn(items, r.dim)) + Len(r.rows)

(* What the tree of a list misses are items on or below a cycle of parents:   *)
(* no deletion, import or move hides another one (_build_tree).               *)
Ancestors ==
  LET up[n \in 0..MaxItems] ==
        IF n = 0 THEN [i \in DOMAIN items |-> i]
        ELSE [i \in DOMAIN items |-> IF items[i].parent = NoParent THEN i ELSE up[n - 1][items[i].parent]]
  IN up
TreeMissesOnlyCycles ==
  \A i \in DOMAIN items :
    i \in _build_tree(items[i].dim) <=> items[Ancestors[MaxItems][i]].parent = NoParent

(* Lists keep their items apart, within their limits and in sight.            *)
DimensionsAgree ==
  [][/\ IntersectionsUnique' /\ TreeMissesOnlyCycles'
     /\ \A c \in DimClients : CommitItems(c) => NumberedKeepsLimit(dimRequests[c])]_dimVars
=============================================================================
