--------------------------- MODULE ModelCopiesProofs ---------------------------
(***************************************************************************)
(* Theorems about ModelCopies, for every catalogue of entities, every set  *)
(* of models and of concurrent requests, and any number of edits, tags,    *)
(* promotions and snapshots.                                               *)
(***************************************************************************)
EXTENDS ModelCopies, FiniteSetTheorems, FunctionTheorems, SequenceTheorems, TLAPS

-------------------------------------------------------------------------------
(* The inductive invariant: the rows of a model, and those of every copy of *)
(* them that is kept or under way, refer to each other as the catalogue     *)
(* says.                                                                    *)

\* A row of an entity, whose parent and links are of the entities the catalogue names.
IsRow(r) ==
    /\ r = [id |-> r.id, attr |-> r.attr, up |-> r.up, refs |-> r.refs]
    /\ r.id.name \in DOMAIN Catalogue
    /\ IF Catalogue[r.id.name].up = 0 THEN r.up = NoId ELSE r.up.name = Catalogue[r.id.name].up
    /\ NamesOf(r.refs) \subseteq Catalogue[r.id.name].refs

IsCell(c) ==
    c = [li |-> c.li, key |-> c.key, version |-> c.version, plain |-> c.plain, secret |-> c.secret]

\* Rows whose parents are among them, and all of whose links are.
Parented(R) == \A r \in R : IsRow(r) /\ (r.up = NoId \/ r.up \in IdsOf(R))
Whole(R)    == Parented(R) /\ \A r \in R : r.refs \subseteq IdsOf(R)
OneOfEach(R) == IsFiniteSet(R) /\ \A q, r \in R : q.id.name = r.id.name => q = r
CellsOf(C, R) == \A c \in C : IsCell(c) /\ c.li \in IdsOf(R) /\ c.version \in IdsOf(R) \union {NoId}

Structural(R) == \A r \in R : Kind(r) # "version"
PlainOnly(C)  == \A c \in C : IsCell(c) /\ c.version = NoId

\* What _serialize_model_state returns of a model, and of the source's model.
Serialized(S)   == Whole(S.rows) /\ Structural(S.rows) /\ PlainOnly(S.cells)
SourceCopy(S) == Serialized(S) /\ OneOfEach(S.rows)

ModelsInv ==
    /\ rows = [m \in Models |-> rows[m]] /\ cells = [m \in Models |-> cells[m]] /\ gen \in Nat
    /\ \A m \in Models : Whole(rows[m]) /\ CellsOf(cells[m], rows[m])
    /\ OneOfEach(rows[Source])

\* A snapshot, or what has been read for it, has the parents of its rows, and of the
\* source's model one row of each entity.
Copied(m, R) == m \in Models /\ Parented(R) /\ (m = Source => OneOfEach(R))
SnapsInv ==
    /\ snaps \in Seq(Range(snaps))
    /\ \A s \in DOMAIN snaps : /\ Copied(snaps[s].model, snaps[s].rows)
                               /\ \A c \in snaps[s].cells : IsCell(c)
    /\ taking = [model |-> taking.model, rows |-> taking.rows, read |-> taking.read]
    /\ taking # Nobody =>
          /\ Copied(taking.model, taking.rows) /\ taking.read \in 0 .. Len(Tables)
          /\ \A r \in taking.rows : \E k \in 1 .. taking.read : Kind(r) = Tables[k]

IsPromo(p) ==
    /\ p = [status |-> p.status, tag |-> p.tag, strategy |-> p.strategy, expected |-> p.expected,
            after |-> p.after, when |-> p.when, conflicts |-> p.conflicts]
    /\ p.tag \in DOMAIN tags /\ p.strategy \in Strategies
RecordsInv ==
    /\ tags \in Seq(Range(tags)) /\ \A t \in DOMAIN tags : SourceCopy(tags[t])
    /\ promos \in Seq(Range(promos)) /\ \A p \in DOMAIN promos : IsPromo(promos[p])

\* What a request is about to insert refers to rows it inserts or the target has, and as
\* long as nobody else writes the target it is what makes the target carry the source.
Insertable(insert) ==
    /\ \A r \in insert.rows : IsRow(r)
    /\ \A c \in insert.cells : IsCell(c) /\ c.li \in IdsOf(insert.rows) /\ c.version = NoId
Ready(s) ==
    LET T == Structure(Target) IN
    /\ s.delete = Deleted(promos[s.promo].strategy, T)
    /\ \E g \in Nat : s.insert.rows = NewRows(s.source, {q \in T : q.id \notin s.delete}, g)
IsPromoter(s) ==
    /\ s = [at |-> s.at, promo |-> s.promo, source |-> s.source, before |-> s.before,
            conflicts |-> s.conflicts, delete |-> s.delete, insert |-> s.insert,
            alone |-> s.alone, outcome |-> s.outcome]
    /\ SourceCopy(s.source) /\ Serialized(s.before)
    /\ s.at # "idle" => s.promo \in DOMAIN promos
    /\ s.at = "commit" => /\ Insertable(s.insert) /\ NoId \notin s.delete
                          /\ promos[s.promo].strategy # "replace" => s.delete = {}
                          /\ s.alone => Ready(s)
RequestsInv ==
    /\ promoter = [r \in Promoters |-> promoter[r]]
    /\ \A r \in Promoters : IsPromoter(promoter[r])

CopiesInv == ModelsInv /\ SnapsInv /\ RecordsInv /\ RequestsInv

-------------------------------------------------------------------------------
(* What the catalogue says of a row, and what the operators of ModelRows    *)
(* preserve.                                                                *)

LEMMA CatalogueFacts ==
    ASSUME NEW n \in DOMAIN Catalogue
    PROVE  /\ n # 0
           /\ Catalogue[n].up # 0 =>
                 /\ Catalogue[n].up \in DOMAIN Catalogue /\ Catalogue[Catalogue[n].up].up = 0
                 /\ Catalogue[Catalogue[n].up].kind # "version"
           /\ \A k \in Catalogue[n].refs : k \in DOMAIN Catalogue /\ Catalogue[k].kind # "version"
           /\ Catalogue[n].kind = "version" => Catalogue[n].up = 0 /\ Catalogue[n].refs = {}
BY ModelsAssumption DEF ModelsAssumption, EntryAssumption

LEMMA RowFacts ==
    ASSUME NEW r, IsRow(r)
    PROVE  /\ r.id # NoId /\ r.id.name \in DOMAIN Catalogue
           /\ r.up # NoId => /\ Catalogue[r.id.name].up # 0 /\ r.up.name = Catalogue[r.id.name].up
                             /\ Catalogue[r.up.name].up = 0 /\ Catalogue[r.up.name].kind # "version"
           /\ \A i \in r.refs : i.name \in DOMAIN Catalogue /\ Catalogue[i.name].kind # "version"
           /\ Kind(r) = "version" => r.up = NoId /\ r.refs = {}
<1>1. r.id.name \in DOMAIN Catalogue /\ r.id.name # 0
  BY CatalogueFacts DEF IsRow
<1>2. r.id # NoId
  BY <1>1 DEF NoId
<1>3. r.up # NoId => /\ Catalogue[r.id.name].up # 0 /\ r.up.name = Catalogue[r.id.name].up
                     /\ Catalogue[r.up.name].up = 0 /\ Catalogue[r.up.name].kind # "version"
  BY <1>1, CatalogueFacts DEF IsRow
<1>4. ASSUME NEW i \in r.refs
      PROVE  i.name \in DOMAIN Catalogue /\ Catalogue[i.name].kind # "version"
  <2>1. i.name \in Catalogue[r.id.name].refs
    BY <1>4 DEF IsRow, NamesOf
  <2> QED
    BY <2>1, <1>1, CatalogueFacts
<1>5. ASSUME Kind(r) = "version" PROVE r.up = NoId /\ r.refs = {}
  <2>1. Catalogue[r.id.name].up = 0 /\ Catalogue[r.id.name].refs = {}
    BY <1>1, <1>5, CatalogueFacts DEF Kind
  <2>2. r.refs = {}
    BY <2>1 DEF IsRow, NamesOf
  <2> QED
    BY <2>1, <2>2 DEF IsRow
<1> QED
  BY <1>1, <1>2, <1>3, <1>4, <1>5

\* A row keeps being one when it loses links, and when another attribute is set.
LEMMA RowWithout ==
    ASSUME NEW r, IsRow(r), NEW refs \in SUBSET r.refs, NEW attr
    PROVE  /\ IsRow([r EXCEPT !.refs = refs])
           /\ [r EXCEPT !.refs = refs].id = r.id /\ [r EXCEPT !.refs = refs].up = r.up
           /\ [r EXCEPT !.refs = refs].attr = r.attr /\ [r EXCEPT !.refs = refs].refs = refs
           /\ IsRow([r EXCEPT !.attr = attr])
           /\ [r EXCEPT !.attr = attr].id = r.id /\ [r EXCEPT !.attr = attr].up = r.up
           /\ [r EXCEPT !.attr = attr].refs = r.refs
<1>1. r = [id |-> r.id, attr |-> r.attr, up |-> r.up, refs |-> r.refs]
  BY DEF IsRow
<1>2. [r EXCEPT !.refs = refs] = [id |-> r.id, attr |-> r.attr, up |-> r.up, refs |-> refs]
  BY <1>1
<1>3. [r EXCEPT !.attr = attr] = [id |-> r.id, attr |-> attr, up |-> r.up, refs |-> r.refs]
  BY <1>1
<1> QED
  BY <1>2, <1>3 DEF IsRow, NamesOf

-------------------------------------------------------------------------------
(* One row of each entity.                                                  *)

\* Rows of the same entities, however they are changed otherwise, are as many, and still
\* one of each.
LEMMA ImageOfEach ==
    ASSUME NEW R, OneOfEach(R), NEW f, DOMAIN f = R, \A r \in R : f[r].id.name = r.id.name
    PROVE  /\ OneOfEach({f[r] : r \in R})
           /\ Cardinality({f[r] : r \in R}) = Cardinality(R)
<1> DEFINE T == {f[r] : r \in R}
           g == [r \in R |-> f[r]]
<1>1. ASSUME NEW q \in R, NEW r \in R, f[q].id.name = f[r].id.name PROVE q = r
  BY <1>1 DEF OneOfEach
<1>2. g \in Bijection(R, T)
  BY <1>1 DEF Bijection, Injection, IsInjective, Surjection
<1>3. ExistsBijection(R, T)
  BY <1>2 DEF ExistsBijection
<1>4. \A s, t \in T : s.id.name = t.id.name => s = t
  BY <1>1
<1> HIDE DEF T
<1>5. IsFiniteSet(R)
  BY DEF OneOfEach
<1>6. IsFiniteSet(T) /\ Cardinality(T) = Cardinality(R)
  BY <1>3, <1>5, FS_Bijection
<1> QED
  BY <1>4, <1>6 DEF T, OneOfEach

LEMMA PartOfEach ==
    ASSUME NEW R, OneOfEach(R), NEW Q, Q \subseteq R
    PROVE  OneOfEach(Q)
<1>1. IsFiniteSet(Q)
  BY FS_Subset DEF OneOfEach
<1> QED
  BY <1>1 DEF OneOfEach

-------------------------------------------------------------------------------
(* What foreign keys leave of a model's rows and cells.                     *)

\* What is left of the rows of a model without some: rows of before, with parents and
\* links among each other.
LEMMA WithoutIs ==
    ASSUME NEW R, Whole(R), NEW ids, NoId \notin ids
    PROVE  /\ Whole(Without(R, ids))
           /\ IdsOf(Without(R, ids)) \subseteq IdsOf(R) \ ids
           /\ OneOfEach(R) => OneOfEach(Without(R, ids))
           /\ ids = {} => Without(R, ids) = R
<1> DEFINE left == {q \in R : q.id \notin ids /\ q.up \notin ids}
           Cut(r) == [r EXCEPT !.refs = r.refs \intersect IdsOf(left)]
<1>1. Without(R, ids) = {Cut(r) : r \in left}
  BY DEF Without
<1>2. ASSUME NEW r \in left
      PROVE  /\ IsRow(Cut(r)) /\ Cut(r).id = r.id /\ Cut(r).up = r.up /\ Cut(r).attr = r.attr
             /\ Cut(r).refs = r.refs \intersect IdsOf(left)
  <2>1. IsRow(r)
    BY DEF Whole, Parented
  <2> HIDE DEF left
  <2> QED
    BY <2>1, RowWithout
<1>3. IdsOf(Without(R, ids)) = IdsOf(left)
  <2> HIDE DEF left, Cut
  <2> QED
    BY <1>1, <1>2 DEF IdsOf
<1>4. IdsOf(left) \subseteq IdsOf(R) \ ids
  BY DEF IdsOf
<1>5. ASSUME NEW r \in left, r.up # NoId PROVE r.up \in IdsOf(left)
  <2>1. PICK p \in R : p.id = r.up
    BY <1>5 DEF Whole, Parented, IdsOf
  <2>2. IsRow(r) /\ IsRow(p)
    BY DEF Whole, Parented
  <2>3. Catalogue[p.id.name].up = 0
    BY <2>1, <2>2, <1>5, RowFacts
  <2>4. p.up = NoId
    BY <2>2, <2>3 DEF IsRow
  <2>5. p \in left
    BY <2>1, <2>4
  <2> QED
    BY <2>1, <2>5 DEF IdsOf
<1>6. Whole(Without(R, ids))
  <2> SUFFICES ASSUME NEW s \in Without(R, ids)
               PROVE  /\ IsRow(s) /\ (s.up = NoId \/ s.up \in IdsOf(left))
                      /\ s.refs \subseteq IdsOf(left)
    BY <1>3 DEF Whole, Parented
  <2>1. PICK r \in left : s = Cut(r)
    BY <1>1
  <2> HIDE DEF left, Cut
  <2> QED
    BY <2>1, <1>2, <1>5
<1>7. ASSUME OneOfEach(R) PROVE OneOfEach(Without(R, ids))
  <2> DEFINE f == [r \in left |-> Cut(r)]
  <2>1. left \subseteq R
    OBVIOUS
  <2> HIDE DEF left, Cut
  <2>2. OneOfEach(left)
    BY <1>7, <2>1, PartOfEach
  <2>3. DOMAIN f = left /\ \A r \in left : f[r].id.name = r.id.name
    BY <1>2
  <2>4. {f[r] : r \in left} = Without(R, ids)
    BY <1>1
  <2> HIDE DEF f
  <2>5. OneOfEach({f[r] : r \in left})
    BY <2>2, <2>3, ImageOfEach
  <2> QED
    BY <2>4, <2>5
<1>8. ASSUME ids = {} PROVE Without(R, ids) = R
  <2>1. left = R
    BY <1>8
  <2>2. ASSUME NEW r \in R PROVE Cut(r) = r
    <3>1. r.refs \intersect IdsOf(left) = r.refs
      BY <2>1 DEF Whole
    <3>2. r = [id |-> r.id, attr |-> r.attr, up |-> r.up, refs |-> r.refs]
      BY DEF Whole, Parented, IsRow
    <3> HIDE DEF left
    <3> QED
      BY <3>1, <3>2
  <2> HIDE DEF left, Cut
  <2> QED
    BY <1>1, <2>1, <2>2
<1> QED
  BY <1>3, <1>4, <1>6, <1>7, <1>8

\* The cells that are left with some rows are theirs; with the rows they had, all are left.
LEMMA CellsOnIs ==
    ASSUME NEW C, NEW R, \A c \in C : IsCell(c)
    PROVE  /\ CellsOf(CellsOn(C, R), R)
           /\ CellsOf(C, R) => CellsOn(C, R) = C
<1> DEFINE Kept(c) == [c EXCEPT !.version = IF c.version \in IdsOf(R) THEN c.version ELSE NoId]
<1>1. CellsOn(C, R) = {Kept(c) : c \in {d \in C : d.li \in IdsOf(R)}}
  BY DEF CellsOn
<1>2. ASSUME NEW c \in C
      PROVE  /\ IsCell(Kept(c)) /\ Kept(c).li = c.li
             /\ Kept(c).version \in IdsOf(R) \union {NoId}
             /\ c.version \in IdsOf(R) \union {NoId} => Kept(c) = c
  <2> DEFINE v == IF c.version \in IdsOf(R) THEN c.version ELSE NoId
  <2>1. c = [li |-> c.li, key |-> c.key, version |-> c.version, plain |-> c.plain, secret |-> c.secret]
    BY DEF IsCell
  <2>2. v \in IdsOf(R) \union {NoId} /\ (c.version \in IdsOf(R) \union {NoId} => v = c.version)
    OBVIOUS
  <2> HIDE DEF v
  <2>3. Kept(c) = [li |-> c.li, key |-> c.key, version |-> v, plain |-> c.plain, secret |-> c.secret]
    BY <2>1 DEF v
  <2> QED
    BY <2>1, <2>2, <2>3 DEF IsCell
<1> HIDE DEF Kept
<1>3. CellsOf(CellsOn(C, R), R)
  BY <1>1, <1>2 DEF CellsOf
<1>4. ASSUME CellsOf(C, R) PROVE CellsOn(C, R) = C
  BY <1>1, <1>2, <1>4 DEF CellsOf
<1> QED
  BY <1>3, <1>4

LEMMA WholeUnion ==
    ASSUME NEW Q, NEW R, Whole(Q), Whole(R)
    PROVE  Whole(Q \union R)
BY DEF Whole, Parented, IdsOf

LEMMA CellsOfMore ==
    ASSUME NEW C, NEW Q, NEW R, CellsOf(C, Q), IdsOf(Q) \subseteq IdsOf(R)
    PROVE  CellsOf(C, R)
BY DEF CellsOf

-------------------------------------------------------------------------------
(* Snapshots of _serialize_model_state.                                     *)

LEMMA StructureIs ==
    ASSUME ModelsInv, NEW m \in Models
    PROVE  /\ Whole(Structure(m)) /\ Structural(Structure(m)) /\ Structure(m) \subseteq rows[m]
           /\ m = Source => OneOfEach(Structure(m))
<1>1. Structure(m) \subseteq rows[m] /\ Structural(Structure(m))
  BY DEF Structure, Structural
<1>2. Whole(rows[m])
  BY DEF ModelsInv
<1>3. ASSUME NEW r \in Structure(m)
      PROVE  /\ IsRow(r) /\ (r.up = NoId \/ r.up \in IdsOf(Structure(m)))
             /\ r.refs \subseteq IdsOf(Structure(m))
  <2>1. IsRow(r) /\ (r.up = NoId \/ r.up \in IdsOf(rows[m])) /\ r.refs \subseteq IdsOf(rows[m])
    BY <1>1, <1>2 DEF Whole, Parented
  <2>2. ASSUME NEW i \in IdsOf(rows[m]), Catalogue[i.name].kind # "version"
        PROVE  i \in IdsOf(Structure(m))
    BY <2>2 DEF IdsOf, Structure, Kind
  <2> QED
    BY <2>1, <2>2, RowFacts
<1>4. Whole(Structure(m))
  BY <1>3 DEF Whole, Parented
<1>5. m = Source => OneOfEach(Structure(m))
  BY <1>1, PartOfEach DEF ModelsInv
<1> QED
  BY <1>1, <1>4, <1>5

LEMMA SerializeIs ==
    ASSUME ModelsInv, NEW m \in Models
    PROVE  /\ Serialized(Serialize(m)) /\ Serialize(m).rows = Structure(m)
           /\ m = Source => SourceCopy(Serialize(m))
<1> DEFINE plain(c) == [c EXCEPT !.version = NoId, !.secret = Null]
           C == {plain(c) : c \in cells[m]}
<1>1. Serialize(m).rows = Structure(m) /\ Serialize(m).cells = C
  BY DEF Serialize
<1>2. ASSUME NEW c \in cells[m] PROVE IsCell(plain(c)) /\ plain(c).version = NoId
  <2>1. c = [li |-> c.li, key |-> c.key, version |-> c.version, plain |-> c.plain, secret |-> c.secret]
    BY DEF ModelsInv, CellsOf, IsCell
  <2>2. PICK p : p = plain(c)
    OBVIOUS
  <2>3. p = [li |-> c.li, key |-> c.key, version |-> NoId, plain |-> c.plain, secret |-> Null]
    BY <2>1, <2>2
  <2> QED
    BY <2>2, <2>3 DEF IsCell
<1>3. PlainOnly(C)
  <2> HIDE DEF plain
  <2> QED
    BY <1>2 DEF PlainOnly
<1> HIDE DEF C
<1> QED
  BY <1>1, <1>3, StructureIs DEF Serialized, SourceCopy

-------------------------------------------------------------------------------
(* What a promotion inserts.                                                *)

LEMMA TargetIdName ==
    ASSUME NEW i, NEW T, NEW g
    PROVE  TargetId(i, T, g).name = i.name
<1>1. CASE Named(T, i.name) = {}
  BY <1>1 DEF TargetId
<1>2. CASE Named(T, i.name) # {}
  <2>1. (CHOOSE r \in Named(T, i.name) : TRUE) \in Named(T, i.name)
    BY <1>2
  <2> QED
    BY <1>2, <2>1 DEF TargetId, Named
<1> QED
  BY <1>1, <1>2

LEMMA RootedIsAll ==
    ASSUME NEW S, Serialized(S)
    PROVE  Rooted(S) = S.rows
BY DEF Rooted, Serialized, Whole, Parented

\* The row that is inserted for row r of a snapshot.
CopyOf(r, S, T, g) ==
    [id |-> TargetId(r.id, T, g), attr |-> r.attr,
     up |-> IF r.up = NoId THEN NoId ELSE TargetId(r.up, T, g), refs |-> Mapped(r.refs, S, T, g)]

\* It looks like r, up to ids.
LEMMA CopyLooksLike ==
    ASSUME NEW S, Serialized(S), NEW T, NEW g, NEW r \in S.rows
    PROVE  /\ IsRow(CopyOf(r, S, T, g)) /\ Kind(CopyOf(r, S, T, g)) = Kind(r)
           /\ CopyOf(r, S, T, g).id.name = r.id.name
           /\ RowFace(CopyOf(r, S, T, g)) = RowFace(r)
<1> DEFINE q == CopyOf(r, S, T, g)
<1>1. /\ q = [id |-> q.id, attr |-> q.attr, up |-> q.up, refs |-> q.refs]
      /\ q.id = TargetId(r.id, T, g) /\ q.attr = r.attr
      /\ q.up = (IF r.up = NoId THEN NoId ELSE TargetId(r.up, T, g))
      /\ q.refs = Mapped(r.refs, S, T, g)
  BY DEF CopyOf
<1> HIDE DEF q
<1>2. IsRow(r) /\ r.refs \subseteq IdsOf(S.rows)
  BY DEF Serialized, Whole, Parented
<1>3. q.id.name = r.id.name
  BY <1>1, TargetIdName
<1>4. q.up.name = r.up.name /\ (r.up = NoId => q.up = NoId)
  BY <1>1, TargetIdName
<1>5. NamesOf(q.refs) = NamesOf(r.refs)
  <2>1. q.refs = {TargetId(i, T, g) : i \in r.refs}
    BY <1>1, <1>2, RootedIsAll DEF Mapped
  <2> QED
    BY <2>1, TargetIdName DEF NamesOf
<1>6. IsRow(q)
  BY <1>1, <1>2, <1>3, <1>4, <1>5 DEF IsRow
<1>7. Kind(q) = Kind(r)
  BY <1>3 DEF Kind
<1>8. RowFace(q) = RowFace(r)
  BY <1>1, <1>3, <1>4, <1>5 DEF RowFace
<1> QED
  BY <1>3, <1>6, <1>7, <1>8 DEF q

LEMMA NewRowsAre ==
    ASSUME NEW S, Serialized(S), NEW T, NEW g
    PROVE  NewRows(S, T, g) =
               {CopyOf(r, S, T, g) : r \in {q \in S.rows : Named(T, q.id.name) = {}}}
<1> DEFINE new(r) == [r EXCEPT !.id = TargetId(r.id, T, g),
                               !.up = IF r.up = NoId THEN NoId ELSE TargetId(r.up, T, g),
                               !.refs = Mapped(r.refs, S, T, g)]
<1>1. ASSUME NEW r \in S.rows PROVE new(r) = CopyOf(r, S, T, g)
  <2>1. IsRow(r)
    BY DEF Serialized, Whole, Parented
  <2> DEFINE i == TargetId(r.id, T, g)
             u == IF r.up = NoId THEN NoId ELSE TargetId(r.up, T, g)
             l == Mapped(r.refs, S, T, g)
  <2>2. PICK p : p = [r EXCEPT !.id = i, !.up = u, !.refs = l]
    OBVIOUS
  <2>3. p = [id |-> i, attr |-> r.attr, up |-> u, refs |-> l]
    <3> HIDE DEF i, u, l
    <3> QED
      BY <2>1, <2>2 DEF IsRow
  <2> QED
    BY <2>2, <2>3 DEF CopyOf
<1>2. NewRows(S, T, g) = {new(r) : r \in {q \in S.rows : Named(T, q.id.name) = {}}}
  BY RootedIsAll DEF NewRows
<1> HIDE DEF new
<1> QED
  BY <1>1, <1>2

\* The cells that are inserted are those of line items that are.
LEMMA InsertionsInsertable ==
    ASSUME NEW S, Serialized(S), NEW T, NEW g
    PROVE  Insertable(Insertions(S, T, g)) /\ Structural(NewRows(S, T, g))
<1>1. Insertions(S, T, g).rows = NewRows(S, T, g) /\ Insertions(S, T, g).cells = NewCells(S, T, g)
  BY DEF Insertions
<1>2. ASSUME NEW r \in NewRows(S, T, g) PROVE IsRow(r) /\ Kind(r) # "version"
  <2>1. PICK q \in S.rows : r = CopyOf(q, S, T, g)
    BY NewRowsAre
  <2> QED
    BY <2>1, CopyLooksLike DEF Serialized, Structural
<1>3. ASSUME NEW c \in NewCells(S, T, g)
      PROVE  IsCell(c) /\ c.li \in IdsOf(NewRows(S, T, g)) /\ c.version = NoId
  <2> DEFINE key(d) == JoinKey({TargetId(i, T, g) : i \in Range(d.key)})
  <2>1. PICK d \in S.cells :
            /\ d.li \in IdsOf(Rooted(S)) /\ Named(T, d.li.name) = {}
            /\ c = [d EXCEPT !.li = TargetId(d.li, T, g), !.key = key(d)]
    BY <1>3 DEF NewCells
  <2> HIDE DEF key
  <2>2. IsCell(d) /\ d.version = NoId
    BY DEF Serialized, PlainOnly
  <2>3. c = [li |-> TargetId(d.li, T, g), key |-> key(d), version |-> d.version,
             plain |-> d.plain, secret |-> d.secret]
    BY <2>1, <2>2 DEF IsCell
  <2>4. PICK r \in S.rows : r.id = d.li
    BY <2>1, RootedIsAll DEF IdsOf
  <2>5. CopyOf(r, S, T, g) \in NewRows(S, T, g)
    BY <2>1, <2>4, NewRowsAre
  <2>6. CopyOf(r, S, T, g).id = TargetId(d.li, T, g)
    BY <2>4 DEF CopyOf
  <2>7. TargetId(d.li, T, g) \in IdsOf(NewRows(S, T, g))
    BY <2>5, <2>6 DEF IdsOf
  <2> QED
    BY <2>2, <2>3, <2>7 DEF IsCell
<1> QED
  BY <1>1, <1>2, <1>3 DEF Insertable, Structural

\* Inserted where nothing is, a snapshot is whole again.
LEMMA RebuiltWhole ==
    ASSUME NEW S, Serialized(S), NEW g
    PROVE  Whole(NewRows(S, {}, g))
<1>1. NewRows(S, {}, g) = {CopyOf(r, S, {}, g) : r \in S.rows}
  BY NewRowsAre DEF Named
<1>2. ASSUME NEW i \in IdsOf(S.rows) PROVE TargetId(i, {}, g) \in IdsOf(NewRows(S, {}, g))
  <2>1. PICK r \in S.rows : r.id = i
    BY DEF IdsOf
  <2>2. CopyOf(r, S, {}, g).id = TargetId(i, {}, g)
    BY <2>1 DEF CopyOf
  <2> QED
    BY <2>2, <1>1 DEF IdsOf
<1>3. ASSUME NEW r \in S.rows
      PROVE  LET q == CopyOf(r, S, {}, g) IN
             /\ q.up = NoId \/ q.up \in IdsOf(NewRows(S, {}, g))
             /\ q.refs \subseteq IdsOf(NewRows(S, {}, g))
  <2>1. (r.up = NoId \/ r.up \in IdsOf(S.rows)) /\ r.refs \subseteq IdsOf(S.rows)
    BY DEF Serialized, Whole, Parented
  <2>2. /\ CopyOf(r, S, {}, g).up = (IF r.up = NoId THEN NoId ELSE TargetId(r.up, {}, g))
        /\ CopyOf(r, S, {}, g).refs = {TargetId(i, {}, g) : i \in r.refs \intersect IdsOf(Rooted(S))}
    BY DEF CopyOf, Mapped
  <2> QED
    BY <2>1, <2>2, <1>2, RootedIsAll
<1>4. \A r \in S.rows : IsRow(CopyOf(r, S, {}, g))
  BY CopyLooksLike
<1> QED
  BY <1>1, <1>3, <1>4 DEF Whole, Parented

-------------------------------------------------------------------------------
(* The rows of the models.                                                  *)

LEMMA CellIs ==
    ASSUME NEW li, NEW ids, NEW secret
    PROVE  /\ IsCell(Cell(li, ids, secret)) /\ Cell(li, ids, secret).li = li
           /\ Cell(li, ids, secret).version \in ids \union {NoId}
<1> DEFINE versions == {i \in ids : Catalogue[i.name].kind = "version"}
           version == IF versions = {} THEN NoId ELSE CHOOSE v \in versions : TRUE
<1>1. version \in ids \union {NoId}
  <2>1. CASE versions = {}
    BY <2>1
  <2>2. CASE versions # {}
    <3>1. (CHOOSE v \in versions : TRUE) \in versions
      BY <2>2
    <3> QED
      BY <2>2, <3>1
  <2> QED
    BY <2>1, <2>2
<1> DEFINE plain == IF secret THEN Null ELSE "value"
           hidden == IF secret THEN "value" ELSE Null
           key == JoinKey(ids)
<1>2. Cell(li, ids, secret) = [li |-> li, key |-> key, version |-> version, plain |-> plain,
                               secret |-> hidden]
  BY DEF Cell
<1> HIDE DEF version, plain, hidden, key
<1> QED
  BY <1>1, <1>2 DEF IsCell

\* A model is given other rows and cells.
LEMMA ModelChanged ==
    ASSUME ModelsInv, NEW m \in Models, NEW R, NEW C, Whole(R), CellsOf(C, R),
           m = Source => OneOfEach(R),
           rows' = [rows EXCEPT ![m] = R], cells' = [cells EXCEPT ![m] = C], gen' \in Nat
    PROVE  ModelsInv'
<1>1. rows = [k \in Models |-> rows[k]] /\ cells = [k \in Models |-> cells[k]]
  BY DEF ModelsInv
<1>2. /\ rows' = [k \in Models |-> rows'[k]] /\ cells' = [k \in Models |-> cells'[k]]
      /\ rows'[m] = R /\ cells'[m] = C
      /\ \A k \in Models \ {m} : rows'[k] = rows[k] /\ cells'[k] = cells[k]
  BY <1>1
<1>3. \A k \in Models : Whole(rows'[k]) /\ CellsOf(cells'[k], rows'[k])
  BY <1>2 DEF ModelsInv
<1>4. OneOfEach(rows'[Source])
  BY <1>2, PromotionAssumption DEF ModelsInv, PromotionAssumption
<1> QED
  BY <1>2, <1>3, <1>4 DEF ModelsInv, Whole, Parented, CellsOf, OneOfEach, IdsOf, IsRow, IsCell, NamesOf

\* The row and the id an entity has at the start.
FirstId(n, m)  == [name |-> n, gen |-> FirstGen[m]]
FirstRow(n, m) == FreshRow(n, FirstGen[m], CHOOSE a \in Attributes : TRUE)

LEMMA FirstRowIs ==
    ASSUME NEW n, NEW m
    PROVE  /\ FirstRow(n, m).id = FirstId(n, m)
           /\ FirstRow(n, m).up = (IF Catalogue[n].up = 0 THEN NoId ELSE FirstId(Catalogue[n].up, m))
           /\ FirstRow(n, m).refs = {FirstId(k, m) : k \in Catalogue[n].refs}
           /\ FirstRow(n, m) = [id |-> FirstRow(n, m).id, attr |-> FirstRow(n, m).attr,
                                up |-> FirstRow(n, m).up, refs |-> FirstRow(n, m).refs]
           /\ FirstId(n, m).name = n
<1> DEFINE first == CHOOSE a \in Attributes : TRUE
<1> HIDE DEF first
<1>1. FirstRow(n, m) = FreshRow(n, FirstGen[m], first)
  BY DEF FirstRow, first
<1> QED
  BY <1>1 DEF FreshRow, FirstId

LEMMA InitModel ==
    ASSUME ModelRowsInit, NEW m \in Models
    PROVE  Whole(rows[m]) /\ CellsOf(cells[m], rows[m]) /\ OneOfEach(rows[m])
<1>1. /\ rows[m] = {FirstRow(n, m) : n \in InitialRows[m]}
      /\ cells[m] = {Cell(FirstId(k.li, m), {FirstId(n, m) : n \in k.members}, FALSE) :
                     k \in InitialKeys[m]}
  BY DEF ModelRowsInit, FirstRow, FirstId
<1>2. /\ InitialRows[m] \subseteq DOMAIN Catalogue /\ IsFiniteSet(InitialRows[m])
      /\ \A n \in InitialRows[m] :
             Catalogue[n].refs \union {Catalogue[n].up} \subseteq InitialRows[m] \union {0}
      /\ \A k \in InitialKeys[m] : k.li \in InitialRows[m] /\ k.members \subseteq InitialRows[m]
  BY ModelsAssumption DEF ModelsAssumption, InitialAssumption
<1>3. IdsOf(rows[m]) = {FirstId(n, m) : n \in InitialRows[m]}
  BY <1>1, FirstRowIs DEF IdsOf
<1>4. ASSUME NEW n \in InitialRows[m]
      PROVE  /\ IsRow(FirstRow(n, m))
             /\ FirstRow(n, m).up = NoId \/ FirstRow(n, m).up \in IdsOf(rows[m])
             /\ FirstRow(n, m).refs \subseteq IdsOf(rows[m])
  <2>1. n \in DOMAIN Catalogue /\ Catalogue[n].up \in InitialRows[m] \union {0}
        /\ Catalogue[n].refs \subseteq InitialRows[m] \union {0} /\ 0 \notin Catalogue[n].refs
    BY <1>2, CatalogueFacts
  <2>2. FirstRow(n, m).id.name = n
    BY FirstRowIs
  <2>3. NamesOf(FirstRow(n, m).refs) = Catalogue[n].refs
    BY FirstRowIs DEF NamesOf
  <2>4. FirstRow(n, m).up.name = Catalogue[n].up
    BY FirstRowIs DEF NoId
  <2>5. IsRow(FirstRow(n, m))
    <3>1. IF Catalogue[n].up = 0 THEN FirstRow(n, m).up = NoId ELSE FirstRow(n, m).up.name = Catalogue[n].up
      BY <2>4, FirstRowIs
    <3>2. FirstRow(n, m) = [id |-> FirstRow(n, m).id, attr |-> FirstRow(n, m).attr,
                            up |-> FirstRow(n, m).up, refs |-> FirstRow(n, m).refs]
      BY FirstRowIs
    <3> QED
      BY <3>1, <3>2, <2>1, <2>2, <2>3 DEF IsRow
  <2>6. FirstRow(n, m).up = NoId \/ FirstRow(n, m).up \in IdsOf(rows[m])
    BY FirstRowIs, <1>3, <2>1
  <2>7. FirstRow(n, m).refs \subseteq IdsOf(rows[m])
    BY FirstRowIs, <1>3, <2>1
  <2> QED
    BY <2>5, <2>6, <2>7
<1>5. Whole(rows[m])
  BY <1>1, <1>4 DEF Whole, Parented
<1>6. CellsOf(cells[m], rows[m])
  <2> SUFFICES ASSUME NEW c \in cells[m]
               PROVE  IsCell(c) /\ c.li \in IdsOf(rows[m]) /\ c.version \in IdsOf(rows[m]) \union {NoId}
    BY DEF CellsOf
  <2>1. PICK k \in InitialKeys[m] : c = Cell(FirstId(k.li, m), {FirstId(n, m) : n \in k.members}, FALSE)
    BY <1>1
  <2> DEFINE ids == {FirstId(n, m) : n \in k.members}
  <2>2. FirstId(k.li, m) \in IdsOf(rows[m]) /\ ids \subseteq IdsOf(rows[m])
    BY <1>2, <1>3
  <2>3. c = Cell(FirstId(k.li, m), ids, FALSE)
    BY <2>1
  <2> HIDE DEF ids
  <2>4. IsCell(c) /\ c.li = FirstId(k.li, m) /\ c.version \in ids \union {NoId}
    BY <2>3, CellIs, Zenon
  <2> QED
    BY <2>2, <2>4
<1>7. OneOfEach(rows[m])
  <2> DEFINE f == [n \in InitialRows[m] |-> FirstRow(n, m)]
  <2>1. f \in Surjection(InitialRows[m], rows[m])
    BY <1>1 DEF Surjection
  <2>2. IsFiniteSet(InitialRows[m])
    BY <1>2
  <2> HIDE DEF f
  <2>3. IsFiniteSet(rows[m])
    BY <2>1, <2>2, FS_Surjection
  <2>4. ASSUME NEW q \in rows[m], NEW r \in rows[m], q.id.name = r.id.name PROVE q = r
    <3>1. PICK n \in InitialRows[m] : q = FirstRow(n, m)
      BY <1>1
    <3>2. PICK k \in InitialRows[m] : r = FirstRow(k, m)
      BY <1>1
    <3>3. n = k
      BY <3>1, <3>2, <2>4, FirstRowIs
    <3> QED
      BY <3>1, <3>2, <3>3
  <2> QED
    BY <2>3, <2>4 DEF OneOfEach
<1> QED
  BY <1>5, <1>6, <1>7

LEMMA InitModels ==
    ASSUME ModelRowsInit
    PROVE  ModelsInv
<1>1. rows = [m \in Models |-> rows[m]] /\ cells = [m \in Models |-> cells[m]]
  BY DEF ModelRowsInit
<1>2. gen \in Nat
  BY ModelsAssumption, FS_CardinalityType DEF ModelsAssumption, ModelRowsInit
<1> QED
  BY <1>1, <1>2, InitModel, PromotionAssumption DEF ModelsInv, PromotionAssumption

-------------------------------------------------------------------------------
(* What users do.                                                           *)

LEMMA DeleteKeeps ==
    ASSUME ModelsInv, NEW m \in Models, NEW r \in rows[m], DeleteRow(m, r)
    PROVE  ModelsInv'
<1> DEFINE left == Without(rows[m], {r.id})
<1>1. Whole(rows[m]) /\ IsRow(r) /\ \A c \in cells[m] : IsCell(c)
  BY DEF ModelsInv, Whole, Parented, CellsOf
<1>2. NoId \notin {r.id}
  BY <1>1, RowFacts
<1>3. Whole(left) /\ (m = Source => OneOfEach(left))
  BY <1>1, <1>2, WithoutIs DEF ModelsInv
<1>4. CellsOf(CellsOn(cells[m], left), left)
  BY <1>1, CellsOnIs
<1>5. /\ rows' = [rows EXCEPT ![m] = left] /\ cells' = [cells EXCEPT ![m] = CellsOn(cells[m], left)]
      /\ gen' \in Nat
  BY DEF DeleteRow, Change, ModelsInv
<1> HIDE DEF left
<1> QED
  BY <1>3, <1>4, <1>5, ModelChanged

LEMMA AlteredRows ==
    ASSUME NEW R, Whole(R), NEW r \in R, NEW attr
    PROVE  LET Q == (R \ {r}) \union {[r EXCEPT !.attr = attr]} IN
           /\ Whole(Q) /\ IdsOf(Q) = IdsOf(R)
           /\ OneOfEach(R) => OneOfEach(Q)
           /\ Structural(R) => Structural(Q)
<1> DEFINE new == [r EXCEPT !.attr = attr]
           Q == (R \ {r}) \union {new}
           f == [q \in R |-> IF q = r THEN new ELSE q]
<1>1. IsRow(r)
  BY DEF Whole, Parented
<1>2. IsRow(new) /\ new.id = r.id /\ new.up = r.up /\ new.refs = r.refs
  <2>1. r.refs \in SUBSET r.refs
    OBVIOUS
  <2> QED
    BY <1>1, <2>1, RowWithout
<1> HIDE DEF new
<1>3. Q = {f[q] : q \in R} /\ DOMAIN f = R /\ \A q \in R : f[q].id = q.id
  BY <1>2
<1>4. IdsOf(Q) = IdsOf(R)
  BY <1>2 DEF IdsOf
<1>5. Whole(Q)
  BY <1>1, <1>2, <1>4 DEF Whole, Parented
<1>6. OneOfEach(R) => OneOfEach(Q)
  <2> HIDE DEF f, Q
  <2> QED
    BY <1>3, ImageOfEach
<1>7. Structural(R) => Structural(Q)
  BY <1>2 DEF Structural, Kind
<1> QED
  BY <1>4, <1>5, <1>6, <1>7 DEF new

LEMMA AlterKeeps ==
    ASSUME ModelsInv, NEW m \in Models, NEW r \in rows[m], NEW attr, AlterRow(m, r, attr)
    PROVE  ModelsInv'
<1> DEFINE Q == (rows[m] \ {r}) \union {[r EXCEPT !.attr = attr]}
<1>1. Whole(rows[m]) /\ CellsOf(cells[m], rows[m]) /\ (m = Source => OneOfEach(rows[m]))
  BY DEF ModelsInv
<1>2. Whole(Q) /\ IdsOf(Q) = IdsOf(rows[m]) /\ (OneOfEach(rows[m]) => OneOfEach(Q))
  BY <1>1, AlteredRows
<1>3. rows' = [rows EXCEPT ![m] = Q] /\ cells' = [cells EXCEPT ![m] = cells[m]] /\ gen' \in Nat
  BY DEF AlterRow, Change, ModelsInv
<1> HIDE DEF Q
<1>4. CellsOf(cells[m], Q)
  BY <1>1, <1>2 DEF CellsOf
<1> QED
  BY <1>1, <1>2, <1>3, <1>4, ModelChanged

LEMMA WriteKeeps ==
    ASSUME ModelsInv, NEW m \in Models, NEW key \in Keys, NEW secret \in BOOLEAN,
           WriteCell(m, key, secret)
    PROVE  ModelsInv'
<1> DEFINE members == {r \in rows[m] : r.id.name \in key.members}
<1>1. PICK li \in Named(rows[m], key.li) :
          Change(m, rows[m], {c \in cells[m] : \/ c.li # Cell(li.id, IdsOf(members), secret).li
                                               \/ c.key # Cell(li.id, IdsOf(members), secret).key}
                             \union {Cell(li.id, IdsOf(members), secret)})
  BY DEF WriteCell
<1> DEFINE cell == Cell(li.id, IdsOf(members), secret)
           C == {c \in cells[m] : c.li # cell.li \/ c.key # cell.key} \union {cell}
<1>2. li.id \in IdsOf(rows[m]) /\ IdsOf(members) \subseteq IdsOf(rows[m])
  BY DEF IdsOf, Named
<1> HIDE DEF members
<1>3. IsCell(cell) /\ cell.li \in IdsOf(rows[m]) /\ cell.version \in IdsOf(rows[m]) \union {NoId}
  BY <1>2, CellIs
<1> HIDE DEF cell
<1>4. Whole(rows[m]) /\ CellsOf(C, rows[m]) /\ (m = Source => OneOfEach(rows[m]))
  BY <1>3 DEF ModelsInv, CellsOf
<1>5. rows' = [rows EXCEPT ![m] = rows[m]] /\ cells' = [cells EXCEPT ![m] = C] /\ gen' \in Nat
  BY <1>1 DEF Change, ModelsInv, cell
<1> HIDE DEF C
<1> QED
  BY <1>4, <1>5, ModelChanged

LEMMA EditsKeep ==
    ASSUME ModelsInv, UserEdits
    PROVE  ModelsInv'
<1>1. PICK m \in Models :
          \/ \E r \in {q \in rows[m] : q.id.name \in Touched} :
                DeleteRow(m, r) \/ \E a \in Attributes : AlterRow(m, r, a)
          \/ \E key \in Keys, secret \in BOOLEAN : WriteCell(m, key, secret)
  BY DEF UserEdits
<1> QED
  BY <1>1, DeleteKeeps, AlterKeeps, WriteKeeps

-------------------------------------------------------------------------------
(* Snapshots: what they hold and what they bring back.                      *)

LEMMA CopiedMore ==
    ASSUME NEW m \in Models, NEW R, NEW Q, Copied(m, R),
           \A q \in Q : IsRow(q) /\ (q.up = NoId \/ q.up \in IdsOf(R)),
           m = Source => OneOfEach(Q), \A q \in Q, r \in R : q.id.name # r.id.name
    PROVE  Copied(m, R \union Q)
<1>1. Parented(R \union Q)
  BY DEF Copied, Parented, IdsOf
<1>2. ASSUME m = Source PROVE OneOfEach(R \union Q)
  <2>1. IsFiniteSet(R \union Q)
    <3>1. IsFiniteSet(R) /\ IsFiniteSet(Q)
      BY <1>2 DEF Copied, OneOfEach
    <3> QED
      BY <3>1, FS_Union
  <2> QED
    BY <1>2, <2>1 DEF OneOfEach, Copied
<1> QED
  BY <1>1, <1>2 DEF Copied

\* The row that is inserted for row r of snapshot S.
RestoredRow(r, S, g) ==
    [id |-> IdMap(S, g)[r.id], attr |-> r.attr,
     up |-> IF r.up = NoId THEN NoId ELSE IdMap(S, g)[r.up],
     refs |-> {IdMap(S, g)[i] : i \in r.refs \intersect IdsOf(S.rows)}]

LEMMA IdMapIs ==
    ASSUME NEW S, NEW g, NEW i \in IdsOf(S.rows)
    PROVE  IdMap(S, g)[i].name = i.name
BY DEF IdMap

LEMMA RestoredRowIs ==
    ASSUME NEW S, Parented(S.rows), NEW g, NEW r \in S.rows
    PROVE  /\ IsRow(RestoredRow(r, S, g)) /\ RestoredRow(r, S, g).id.name = r.id.name
           /\ RestoredRow(r, S, g).id = IdMap(S, g)[r.id]
           /\ r.up = NoId => RestoredRow(r, S, g).up = NoId
           /\ r.up # NoId => r.up \in IdsOf(S.rows) /\ RestoredRow(r, S, g).up = IdMap(S, g)[r.up]
<1> DEFINE q == RestoredRow(r, S, g)
<1>1. /\ q = [id |-> q.id, attr |-> q.attr, up |-> q.up, refs |-> q.refs]
      /\ q.id = IdMap(S, g)[r.id] /\ q.attr = r.attr
      /\ q.up = (IF r.up = NoId THEN NoId ELSE IdMap(S, g)[r.up])
      /\ q.refs = {IdMap(S, g)[i] : i \in r.refs \intersect IdsOf(S.rows)}
  BY DEF RestoredRow
<1> HIDE DEF q
<1>2. IsRow(r) /\ (r.up = NoId \/ r.up \in IdsOf(S.rows)) /\ r.id \in IdsOf(S.rows)
  BY DEF Parented, IdsOf
<1>3. q.id.name = r.id.name
  BY <1>1, <1>2, IdMapIs
<1>4. IF r.up = NoId THEN q.up = NoId ELSE q.up.name = r.up.name
  BY <1>1, <1>2, IdMapIs
<1>5. NamesOf(q.refs) \subseteq NamesOf(r.refs)
  BY <1>1, IdMapIs DEF NamesOf
<1>6. IF Catalogue[r.id.name].up = 0 THEN r.up = NoId ELSE r.up.name = Catalogue[r.id.name].up /\ r.up # NoId
  BY <1>2 DEF IsRow, NoId
<1>7. IsRow(q)
  BY <1>1, <1>2, <1>3, <1>4, <1>5, <1>6 DEF IsRow
<1> QED
  BY <1>1, <1>2, <1>3, <1>7 DEF q

LEMMA RestoredRowsAre ==
    ASSUME NEW S, NEW m, Copied(m, S.rows), NEW g
    PROVE  Whole(RestoredRows(S, g)) /\ (m = Source => OneOfEach(RestoredRows(S, g)))
<1>1. RestoredRows(S, g) = {RestoredRow(r, S, g) : r \in S.rows} /\ Parented(S.rows)
  BY DEF RestoredRows, RestoredRow, Copied
<1>2. ASSUME NEW i \in IdsOf(S.rows) PROVE IdMap(S, g)[i] \in IdsOf(RestoredRows(S, g))
  <2>1. PICK r \in S.rows : r.id = i
    BY DEF IdsOf
  <2>2. RestoredRow(r, S, g).id = IdMap(S, g)[i]
    BY <2>1, <1>1, RestoredRowIs
  <2> QED
    BY <2>2, <1>1 DEF IdsOf
<1>3. ASSUME NEW r \in S.rows
      PROVE  /\ IsRow(RestoredRow(r, S, g))
             /\ \/ RestoredRow(r, S, g).up = NoId
                \/ RestoredRow(r, S, g).up \in IdsOf(RestoredRows(S, g))
             /\ RestoredRow(r, S, g).refs \subseteq IdsOf(RestoredRows(S, g))
  <2>1. RestoredRow(r, S, g).refs = {IdMap(S, g)[i] : i \in r.refs \intersect IdsOf(S.rows)}
    BY DEF RestoredRow
  <2>2. RestoredRow(r, S, g).refs \subseteq IdsOf(RestoredRows(S, g))
    BY <2>1, <1>2
  <2> QED
    BY <2>2, <1>1, <1>2, RestoredRowIs
<1>4. Whole(RestoredRows(S, g))
  BY <1>1, <1>3 DEF Whole, Parented
<1>5. ASSUME m = Source PROVE OneOfEach(RestoredRows(S, g))
  <2> DEFINE f == [r \in S.rows |-> RestoredRow(r, S, g)]
  <2>1. DOMAIN f = S.rows /\ \A r \in S.rows : f[r] = RestoredRow(r, S, g)
    OBVIOUS
  <2> HIDE DEF f
  <2>2. \A r \in S.rows : f[r].id.name = r.id.name
    BY <2>1, <1>1, RestoredRowIs
  <2>3. RestoredRows(S, g) = {f[r] : r \in S.rows}
    BY <2>1, <1>1
  <2>4. OneOfEach({f[r] : r \in S.rows})
    BY <1>5, <2>1, <2>2, ImageOfEach DEF Copied
  <2> QED
    BY <2>3, <2>4
<1> QED
  BY <1>4, <1>5

LEMMA RestoredCellsAre ==
    ASSUME NEW S, NEW m, Copied(m, S.rows), \A c \in S.cells : IsCell(c), NEW g
    PROVE  CellsOf(RestoredCells(S, g), RestoredRows(S, g))
<1>1. RestoredRows(S, g) = {RestoredRow(r, S, g) : r \in S.rows} /\ Parented(S.rows)
  BY DEF RestoredRows, RestoredRow, Copied
<1>2. ASSUME NEW i \in IdsOf(S.rows) PROVE IdMap(S, g)[i] \in IdsOf(RestoredRows(S, g))
  <2>1. PICK r \in S.rows : r.id = i
    BY DEF IdsOf
  <2>2. RestoredRow(r, S, g).id = IdMap(S, g)[i]
    BY <2>1, <1>1, RestoredRowIs
  <2> QED
    BY <2>2, <1>1 DEF IdsOf
<1> SUFFICES ASSUME NEW d \in RestoredCells(S, g)
             PROVE  /\ IsCell(d) /\ d.li \in IdsOf(RestoredRows(S, g))
                    /\ d.version \in IdsOf(RestoredRows(S, g)) \union {NoId}
  BY DEF CellsOf
<1> DEFINE key(c) == [k \in DOMAIN c.key |-> Remap(S, g, c.key[k])]
           version(c) == IF c.version \in IdsOf(S.rows) THEN IdMap(S, g)[c.version] ELSE NoId
<1>3. PICK c \in S.cells :
          /\ c.li \in IdsOf(S.rows)
          /\ d = [c EXCEPT !.li = IdMap(S, g)[c.li], !.key = key(c), !.version = version(c)]
  BY DEF RestoredCells
<1>4. version(c) \in IdsOf(RestoredRows(S, g)) \union {NoId}
  BY <1>2
<1> HIDE DEF key, version
<1>5. c = [li |-> c.li, key |-> c.key, version |-> c.version, plain |-> c.plain, secret |-> c.secret]
  BY DEF IsCell
<1>6. d = [li |-> IdMap(S, g)[c.li], key |-> key(c), version |-> version(c),
           plain |-> c.plain, secret |-> c.secret]
  BY <1>3, <1>5
<1> QED
  BY <1>2, <1>3, <1>4, <1>6 DEF IsCell

-------------------------------------------------------------------------------
(* Lists.                                                                   *)

LEMMA ListAppended ==
    ASSUME NEW l, l \in Seq(Range(l)), NEW x
    PROVE  /\ Append(l, x) \in Seq(Range(Append(l, x)))
           /\ \A i \in DOMAIN Append(l, x) : (i \in DOMAIN l /\ Append(l, x)[i] = l[i]) \/ Append(l, x)[i] = x
           /\ \A i \in DOMAIN l : i \in DOMAIN Append(l, x) /\ Append(l, x)[i] = l[i]
<1> DEFINE S == Range(l) \union {x}
           k == Append(l, x)
<1>1. l \in Seq(S) /\ x \in S
  <2>1. Range(l) \subseteq S /\ x \in S
    OBVIOUS
  <2> HIDE DEF S
  <2> QED
    BY <2>1, SeqMonotonic
<1> HIDE DEF S
<1>2. /\ k \in Seq(S) /\ Len(k) = Len(l) + 1 /\ k[Len(l) + 1] = x
      /\ \A i \in 1 .. Len(l) : k[i] = l[i]
  BY <1>1, AppendProperties
<1> HIDE DEF k
<1>3. DOMAIN k = 1 .. Len(l) + 1 /\ DOMAIN l = 1 .. Len(l) /\ Len(l) \in Nat
  BY <1>1, <1>2, LenProperties
<1>4. k \in Seq(Range(k))
  BY <1>2, SeqOfRange
<1> QED
  BY <1>2, <1>3, <1>4 DEF k

LEMMA ListRemoved ==
    ASSUME NEW l, l \in Seq(Range(l)), NEW i \in DOMAIN l
    PROVE  /\ RemoveAt(l, i) \in Seq(Range(RemoveAt(l, i)))
           /\ \A j \in DOMAIN RemoveAt(l, i) : \E k \in DOMAIN l : RemoveAt(l, i)[j] = l[k]
<1> DEFINE S == Range(l)
           head == SubSeq(l, 1, i - 1)
           tail == SubSeq(l, i + 1, Len(l))
<1>1. DOMAIN l = 1 .. Len(l) /\ Len(l) \in Nat
  BY LenProperties
<1>2. \A k \in 1 .. Len(l) : l[k] \in S
  BY <1>1 DEF Range
<1> HIDE DEF S
<1>3. head \in Seq(S)
  <2>1. 1 \in Int /\ i - 1 \in Int /\ \A k \in 1 .. i - 1 : l[k] \in S
    BY <1>1, <1>2
  <2> QED
    BY <2>1, SubSeqProperties
<1>4. tail \in Seq(S)
  <2>1. i + 1 \in Int /\ Len(l) \in Int /\ \A k \in i + 1 .. Len(l) : l[k] \in S
    BY <1>1, <1>2
  <2> QED
    BY <2>1, SubSeqProperties
<1> HIDE DEF head, tail
<1>5. head \o tail \in Seq(S)
  BY <1>3, <1>4, ConcatProperties
<1>6. RemoveAt(l, i) = head \o tail
  BY DEF RemoveAt, head, tail
<1> DEFINE k == RemoveAt(l, i)
<1>7. k \in Seq(S)
  BY <1>5, <1>6
<1> HIDE DEF k
<1>8. k \in Seq(Range(k)) /\ DOMAIN k = 1 .. Len(k)
  BY <1>7, SeqOfRange, LenProperties
<1>9. \A j \in DOMAIN k : k[j] \in Range(l)
  BY <1>7, <1>8, ElementOfSeq DEF S
<1> QED
  BY <1>8, <1>9 DEF k, Range

-------------------------------------------------------------------------------
(* The steps of snapshots.                                                  *)

LEMMA ReadTableKeeps ==
    ASSUME ModelsInv, SnapsInv, ReadTable
    PROVE  SnapsInv'
<1> DEFINE m == taking.model
           R == taking.rows
           k == taking.read + 1
           Q == {r \in Read(m, Tables[k]) : r.up \in IdsOf(R) \union {NoId}}
<1>1. /\ taking # Nobody /\ taking.read < Len(Tables) /\ UNCHANGED snaps
      /\ taking' = [taking EXCEPT !.read = taking.read + 1, !.rows = R \union Q]
  BY DEF ReadTable
<1>2. /\ Copied(m, R) /\ taking.read \in 0 .. 4 /\ Len(Tables) = 4
      /\ \A r \in R : \E i \in 1 .. taking.read : Kind(r) = Tables[i]
  BY <1>1 DEF SnapsInv, Tables
<1>3. m \in Models /\ k \in 1 .. 4
  BY <1>1, <1>2 DEF Copied
<1>4. \A i, j \in 1 .. 4 : i # j => Tables[i] # Tables[j]
  BY DEF Tables
<1>5. \A q \in Q : q \in rows[m] /\ Kind(q) = Tables[k] /\ (q.up = NoId \/ q.up \in IdsOf(R))
  BY DEF Read
<1>6. \A q \in Q : IsRow(q) /\ (q.up = NoId \/ q.up \in IdsOf(R))
  BY <1>3, <1>5 DEF ModelsInv, Whole, Parented
<1>7. m = Source => OneOfEach(Q)
  <2>1. Q \subseteq rows[m]
    BY <1>5
  <2> HIDE DEF Q
  <2> QED
    BY <2>1, PartOfEach DEF ModelsInv
<1>8. \A q \in Q, r \in R : q.id.name # r.id.name
  <2> SUFFICES ASSUME NEW q \in Q, NEW r \in R, q.id.name = r.id.name PROVE FALSE
    OBVIOUS
  <2>1. Kind(q) = Kind(r)
    BY DEF Kind
  <2>2. PICK i \in 1 .. taking.read : Kind(r) = Tables[i]
    BY <1>2
  <2>3. i \in 1 .. 4 /\ i # k
    BY <1>2
  <2> QED
    BY <2>1, <2>2, <2>3, <1>3, <1>4, <1>5
<1> DEFINE n == taking.read
<1>9. taking' = [model |-> m, rows |-> R \union Q, read |-> n + 1]
  <2>1. taking = [model |-> m, rows |-> R, read |-> n]
    BY DEF SnapsInv
  <2> DEFINE U == R \union Q
             x == n + 1
  <2>2. taking' = [taking EXCEPT !.read = x, !.rows = U]
    BY <1>1
  <2> HIDE DEF U, x, m, R, n
  <2>3. taking' = [model |-> m, rows |-> U, read |-> x]
    BY <2>1, <2>2
  <2> QED
    BY <2>3 DEF U, x
<1> HIDE DEF Q, R, m, n
<1>10. Copied(m, R \union Q)
  BY <1>2, <1>3, <1>6, <1>7, <1>8, CopiedMore
<1>11. n + 1 \in 0 .. 4 /\ \A r \in R \union Q : \E i \in 1 .. n + 1 : Kind(r) = Tables[i]
  <2>1. n \in 0 .. 3 /\ k = n + 1
    BY <1>1, <1>2 DEF n
  <2>2. ASSUME NEW r \in R PROVE \E i \in 1 .. n + 1 : Kind(r) = Tables[i]
    <3>1. PICK i \in 1 .. n : Kind(r) = Tables[i]
      BY <1>2 DEF n
    <3>2. i \in 1 .. n + 1
      BY <2>1
    <3> QED
      BY <3>1, <3>2
  <2>3. ASSUME NEW r \in Q PROVE \E i \in 1 .. n + 1 : Kind(r) = Tables[i]
    <3>1. n + 1 \in 1 .. n + 1
      BY <2>1
    <3> QED
      BY <3>1, <2>1, <1>5
  <2> QED
    BY <2>1, <2>2, <2>3
<1>12. snaps' \in Seq(Range(snaps')) /\ \A s \in DOMAIN snaps' :
           Copied(snaps'[s].model, snaps'[s].rows) /\ \A c \in snaps'[s].cells : IsCell(c)
  BY <1>1 DEF SnapsInv
<1>13. /\ taking'.model = m /\ taking'.rows = R \union Q /\ taking'.read = n + 1
       /\ taking' = [model |-> taking'.model, rows |-> taking'.rows, read |-> taking'.read]
  BY <1>9
<1> QED
  BY <1>2, <1>10, <1>11, <1>12, <1>13 DEF SnapsInv

LEMMA BeginSnapshotKeeps ==
    ASSUME SnapsInv, NEW m \in Models, BeginSnapshot(m)
    PROVE  SnapsInv'
<1>1. UNCHANGED snaps /\ taking' = [model |-> m, rows |-> {}, read |-> 0]
  BY DEF BeginSnapshot
<1>2. IsFiniteSet({})
  BY FS_EmptySet
<1>3. Copied(m, {})
  BY <1>2 DEF Copied, Parented, OneOfEach
<1>4. 0 \in 0 .. Len(Tables)
  BY DEF Tables
<1>5. snaps' \in Seq(Range(snaps')) /\ \A s \in DOMAIN snaps' :
          Copied(snaps'[s].model, snaps'[s].rows) /\ \A c \in snaps'[s].cells : IsCell(c)
  BY <1>1 DEF SnapsInv
<1> QED
  BY <1>1, <1>3, <1>4, <1>5 DEF SnapsInv

LEMMA FinishKeeps ==
    ASSUME ModelsInv, SnapsInv, FinishSnapshot
    PROVE  SnapsInv'
<1> DEFINE m == taking.model
           R == taking.rows
           Q == Read(m, "version")
           C == ReadCells(m, IdsOf(R))
           new == [model |-> m, rows |-> R \union Q, cells |-> C]
<1>1. taking # Nobody /\ taking.read = Len(Tables) /\ snaps' = Append(snaps, new) /\ taking' = Nobody
  BY DEF FinishSnapshot
<1>2. /\ Copied(m, R) /\ m \in Models
      /\ \A r \in R : \E i \in 1 .. 4 : Kind(r) = Tables[i]
  BY <1>1 DEF SnapsInv, Tables, Copied
<1>3. \A q \in Q : q \in rows[m] /\ Kind(q) = "version"
  BY DEF Read
<1>4. \A q \in Q : IsRow(q) /\ q.up = NoId
  <2>1. \A q \in Q : IsRow(q)
    BY <1>2, <1>3 DEF ModelsInv, Whole, Parented
  <2> QED
    BY <2>1, <1>3, RowFacts
<1>5. m = Source => OneOfEach(Q)
  <2>1. Q \subseteq rows[m]
    BY <1>3
  <2> HIDE DEF Q
  <2> QED
    BY <2>1, PartOfEach DEF ModelsInv
<1>6. \A q \in Q, r \in R : q.id.name # r.id.name
  <2> SUFFICES ASSUME NEW q \in Q, NEW r \in R, q.id.name = r.id.name PROVE FALSE
    OBVIOUS
  <2>1. Kind(q) = Kind(r)
    BY DEF Kind
  <2>2. \A i \in 1 .. 4 : Tables[i] # "version"
    BY DEF Tables
  <2> QED
    BY <2>1, <2>2, <1>2, <1>3
<1>7. \A c \in C : IsCell(c)
  <2> SUFFICES ASSUME NEW c \in C PROVE IsCell(c)
    OBVIOUS
  <2>1. PICK d \in cells[m] : c = [d EXCEPT !.secret = Null]
    BY DEF ReadCells
  <2>2. IsCell(d)
    BY <1>2 DEF ModelsInv, CellsOf
  <2> QED
    BY <2>1, <2>2 DEF IsCell
<1> HIDE DEF Q, R, m, C
<1>8. Copied(m, R \union Q)
  BY <1>2, <1>4, <1>5, <1>6, CopiedMore
<1>9. new.model = m /\ new.rows = R \union Q /\ new.cells = C
  OBVIOUS
<1> HIDE DEF new
<1>10. /\ snaps' \in Seq(Range(snaps'))
       /\ \A s \in DOMAIN snaps' : (s \in DOMAIN snaps /\ snaps'[s] = snaps[s]) \/ snaps'[s] = new
  BY <1>1, ListAppended DEF SnapsInv
<1>11. \A s \in DOMAIN snaps' :
           Copied(snaps'[s].model, snaps'[s].rows) /\ \A c \in snaps'[s].cells : IsCell(c)
  BY <1>7, <1>8, <1>9, <1>10 DEF SnapsInv
<1>12. Nobody = [model |-> Nobody.model, rows |-> Nobody.rows, read |-> Nobody.read]
  BY DEF Nobody
<1> QED
  BY <1>1, <1>10, <1>11, <1>12 DEF SnapsInv

LEMMA DeleteSnapshotKeeps ==
    ASSUME SnapsInv, NEW s \in DOMAIN snaps, DeleteSnapshot(s)
    PROVE  SnapsInv'
<1>1. snaps' = RemoveAt(snaps, s) /\ UNCHANGED taking
  BY DEF DeleteSnapshot
<1>2. /\ snaps' \in Seq(Range(snaps'))
      /\ \A i \in DOMAIN snaps' : \E k \in DOMAIN snaps : snaps'[i] = snaps[k]
  BY <1>1, ListRemoved DEF SnapsInv
<1> QED
  BY <1>1, <1>2 DEF SnapsInv

LEMMA RestoreSnapshotKeeps ==
    ASSUME ModelsInv, SnapsInv, NEW s \in DOMAIN snaps, NEW g \in Nat, RestoreSnapshot(s, g)
    PROVE  ModelsInv' /\ SnapsInv'
<1> DEFINE S == snaps[s]
           m == snaps[s].model
<1>1. /\ gen' = g /\ UNCHANGED <<snaps, taking>>
      /\ rows' = [rows EXCEPT ![m] = RestoredRows(S, g)]
      /\ cells' = [cells EXCEPT ![m] = RestoredCells(S, g)]
  BY DEF RestoreSnapshot, snapshotVars
<1>2. Copied(m, S.rows) /\ (\A c \in S.cells : IsCell(c)) /\ m \in Models
  BY DEF SnapsInv, Copied
<1> HIDE DEF S, m
<1>3. Whole(RestoredRows(S, g)) /\ (m = Source => OneOfEach(RestoredRows(S, g)))
  BY <1>2, RestoredRowsAre
<1>4. CellsOf(RestoredCells(S, g), RestoredRows(S, g))
  BY <1>2, RestoredCellsAre
<1>5. ModelsInv'
  BY <1>1, <1>2, <1>3, <1>4, ModelChanged
<1>6. SnapsInv'
  BY <1>1 DEF SnapsInv
<1> QED
  BY <1>5, <1>6

LEMMA SnapshotsKeep ==
    ASSUME ModelsInv, SnapsInv, SnapshotsNext
    PROVE  ModelsInv' /\ SnapsInv'
<1>1. ASSUME UNCHANGED modelVars PROVE ModelsInv'
  BY <1>1 DEF ModelsInv, modelVars
<1>2. ASSUME NEW m \in Snapshotted, BeginSnapshot(m) PROVE ModelsInv' /\ SnapsInv'
  BY <1>1, <1>2, BeginSnapshotKeeps, SnapshotsAssumption DEF SnapshotsAssumption, BeginSnapshot
<1>3. ASSUME ReadTable PROVE ModelsInv' /\ SnapsInv'
  BY <1>1, <1>3, ReadTableKeeps DEF ReadTable
<1>4. ASSUME FinishSnapshot PROVE ModelsInv' /\ SnapsInv'
  BY <1>1, <1>4, FinishKeeps DEF FinishSnapshot
<1>5. ASSUME NEW s \in DOMAIN snaps, DeleteSnapshot(s) PROVE ModelsInv' /\ SnapsInv'
  BY <1>1, <1>5, DeleteSnapshotKeeps DEF DeleteSnapshot
<1>6. ASSUME NEW s \in DOMAIN snaps, RestoreSnapshot(s, gen + 1) PROVE ModelsInv' /\ SnapsInv'
  <2>1. gen + 1 \in Nat
    BY DEF ModelsInv
  <2> QED
    BY <1>6, <2>1, RestoreSnapshotKeeps
<1> QED
  BY <1>2, <1>3, <1>4, <1>5, <1>6 DEF SnapshotsNext

-------------------------------------------------------------------------------
(* Requests about promotions: what they keep while others write.            *)

PromosKept ==
    \A p \in DOMAIN promos : p \in DOMAIN promos' /\ promos'[p].strategy = promos[p].strategy

LEMMA EmptyIsCopied == SourceCopy(NoSnapshot)
<1>1. IsFiniteSet({})
  BY FS_EmptySet
<1> QED
  BY <1>1 DEF NoSnapshot, SourceCopy, Serialized, Whole, Parented, Structural, PlainOnly, OneOfEach

LEMMA IdleIsPromoter ==
    /\ IsPromoter(IdlePromoter)' /\ IsPromoter(IdlePromoter)
    /\ IdlePromoter.at = "idle"
    /\ IdlePromoter.source = NoSnapshot /\ IdlePromoter.before = NoSnapshot
<1>1. /\ IdlePromoter = [at |-> IdlePromoter.at, promo |-> IdlePromoter.promo,
                         source |-> IdlePromoter.source, before |-> IdlePromoter.before,
                         conflicts |-> IdlePromoter.conflicts, delete |-> IdlePromoter.delete,
                         insert |-> IdlePromoter.insert, alone |-> IdlePromoter.alone,
                         outcome |-> IdlePromoter.outcome]
      /\ IdlePromoter.at = "idle" /\ IdlePromoter.source = NoSnapshot
      /\ IdlePromoter.before = NoSnapshot
  BY DEF IdlePromoter
<1> HIDE DEF IdlePromoter
<1> QED
  BY <1>1, EmptyIsCopied DEF IsPromoter, SourceCopy

LEMMA StructureKept ==
    ASSUME rows'[Target] = rows[Target]
    PROVE  Structure(Target)' = Structure(Target)
BY DEF Structure

\* A request that is left as it is.
LEMMA RequestKept ==
    ASSUME RequestsInv, PromosKept, NEW q \in Promoters, promoter'[q] = promoter[q],
           rows'[Target] = rows[Target]
    PROVE  IsPromoter(promoter[q])'
<1>1. PICK s : s = promoter[q]
  OBVIOUS
<1>2. IsPromoter(s)
  BY <1>1 DEF RequestsInv
<1>3. s.at # "idle" => s.promo \in DOMAIN promos /\ s.promo \in DOMAIN promos'
                       /\ promos'[s.promo].strategy = promos[s.promo].strategy
  BY <1>2 DEF IsPromoter, PromosKept
<1>4. s.at = "commit" /\ Ready(s) => Ready(s)'
  BY <1>3, StructureKept DEF Ready
<1>5. IsPromoter(s)'
  BY <1>2, <1>3, <1>4 DEF IsPromoter
<1> QED
  BY <1>1, <1>5

LEMMA DisturbedIs ==
    ASSUME RequestsInv, NEW R, NEW q \in Promoters
    PROVE  LET s == promoter[q]
               t == Disturbed(R)[q] IN
           /\ t = [at |-> s.at, promo |-> s.promo, source |-> s.source, before |-> s.before,
                   conflicts |-> s.conflicts, delete |-> s.delete, insert |-> s.insert,
                   alone |-> t.alone, outcome |-> s.outcome]
           /\ t.alone => s.alone /\ (q \notin R \/ s.at = "idle")
<1> DEFINE s == promoter[q]
           a == s.alone /\ (q \notin R \/ s.at = "idle")
<1>1. PICK t : t = Disturbed(R)[q]
  OBVIOUS
<1>2. t = [s EXCEPT !.alone = a]
  <2>1. Disturbed(R)[q] = [promoter[q] EXCEPT !.alone = @ /\ (q \notin R \/ promoter[q].at = "idle")]
    BY Zenon DEF Disturbed
  <2> QED
    BY <1>1, <2>1, Zenon
<1>3. s = [at |-> s.at, promo |-> s.promo, source |-> s.source, before |-> s.before,
           conflicts |-> s.conflicts, delete |-> s.delete, insert |-> s.insert,
           alone |-> s.alone, outcome |-> s.outcome]
  BY DEF RequestsInv, IsPromoter
<1>4. t.alone = a
  <2> HIDE DEF a
  <2> QED
    BY <1>2, <1>3
<1>5. t = [at |-> s.at, promo |-> s.promo, source |-> s.source, before |-> s.before,
           conflicts |-> s.conflicts, delete |-> s.delete, insert |-> s.insert,
           alone |-> t.alone, outcome |-> s.outcome]
  <2> HIDE DEF a, s
  <2> QED
    BY <1>2, <1>3
<1> QED
  BY <1>1, <1>4, <1>5

\* A request while somebody else writes the target, or something else.
LEMMA RequestDisturbed ==
    ASSUME RequestsInv, PromosKept, NEW R, NEW q \in Promoters, promoter'[q] = Disturbed(R)[q],
           q \in R \/ rows'[Target] = rows[Target]
    PROVE  IsPromoter(promoter[q])' /\ promoter'[q].at = promoter[q].at
<1> DEFINE s == promoter[q]
           t == promoter'[q]
<1>1. IsPromoter(s)
  BY DEF RequestsInv
<1>2. /\ t = [at |-> s.at, promo |-> s.promo, source |-> s.source, before |-> s.before,
              conflicts |-> s.conflicts, delete |-> s.delete, insert |-> s.insert,
              alone |-> t.alone, outcome |-> s.outcome]
      /\ t.alone => s.alone /\ (q \notin R \/ s.at = "idle")
  BY DisturbedIs
<1> HIDE DEF s
<1>3. s.at # "idle" => s.promo \in DOMAIN promos /\ s.promo \in DOMAIN promos'
                       /\ promos'[s.promo].strategy = promos[s.promo].strategy
  BY <1>1 DEF IsPromoter, PromosKept
<1>4. s.at = "commit" /\ t.alone => s.alone /\ Ready(s) /\ Structure(Target)' = Structure(Target)
  BY <1>1, <1>2, StructureKept DEF IsPromoter
<1>5. PICK u : u = t
  OBVIOUS
<1>6. /\ u = [at |-> s.at, promo |-> s.promo, source |-> s.source, before |-> s.before,
              conflicts |-> s.conflicts, delete |-> s.delete, insert |-> s.insert,
              alone |-> u.alone, outcome |-> s.outcome]
      /\ s.at = "commit" /\ u.alone => Ready(s) /\ Structure(Target)' = Structure(Target)
  BY <1>2, <1>4, <1>5
<1>7. s.at = "commit" /\ u.alone => Ready(u)'
  BY <1>3, <1>6 DEF Ready
<1>8. IsPromoter(u)'
  BY <1>1, <1>3, <1>6, <1>7 DEF IsPromoter
<1> QED
  BY <1>5, <1>6, <1>8 DEF s

LEMMA DisturbedAt ==
    ASSUME RequestsInv, NEW R, NEW q \in Promoters
    PROVE  Disturbed(R)[q].at = promoter[q].at
<1>1. PICK t, a, s : t = Disturbed(R)[q] /\ a = Disturbed(R)[q].alone /\ s = promoter[q]
  OBVIOUS
<1>2. t = [at |-> s.at, promo |-> s.promo, source |-> s.source, before |-> s.before,
           conflicts |-> s.conflicts, delete |-> s.delete, insert |-> s.insert,
           alone |-> a, outcome |-> s.outcome]
  BY <1>1, DisturbedIs, Zenon
<1>3. t.at = s.at
  BY <1>2
<1> QED
  BY <1>1, <1>3, Zenon

LEMMA DisturbedDomain ==
    ASSUME NEW R
    PROVE  Disturbed(R) = [q \in Promoters |-> Disturbed(R)[q]]
BY Zenon DEF Disturbed

LEMMA ElsewhereKeeps ==
    ASSUME RecordsInv, RequestsInv, UNCHANGED <<locked, tags, promos>>,
           promoter' = Disturbed(IF UNCHANGED <<rows[Target], cells[Target]>> THEN {} ELSE Promoters)
    PROVE  RecordsInv' /\ RequestsInv'
<1>1. PICK R : /\ promoter' = Disturbed(R)
               /\ R = Promoters \/ rows'[Target] = rows[Target]
  OBVIOUS
<1>2. PromosKept
  BY DEF PromosKept
<1>3. \A q \in Promoters : IsPromoter(promoter[q])'
  BY <1>1, <1>2, RequestDisturbed
<1>4. promoter' = [q \in Promoters |-> promoter'[q]]
  BY <1>1, DisturbedDomain
<1>5. RecordsInv'
  BY DEF RecordsInv, IsPromo
<1> QED
  BY <1>3, <1>4, <1>5 DEF RequestsInv

-------------------------------------------------------------------------------
(* Requests about promotions: their steps.                                  *)

\* The state of a request that commits nothing.
LEMMA NotCommitting ==
    ASSUME NEW s, NEW t, IsPromoter(s), NEW at, NEW outcome, PromosKept,
           t = [at |-> at, promo |-> s.promo, source |-> s.source, before |-> s.before,
                conflicts |-> s.conflicts, delete |-> s.delete, insert |-> s.insert,
                alone |-> s.alone, outcome |-> outcome],
           at # "commit", s.at # "idle"
    PROVE  IsPromoter(t)'
BY DEF IsPromoter, PromosKept

LEMMA RequestBecomes ==
    ASSUME RequestsInv, PromosKept, NEW r \in Promoters, NEW t, Becomes(r, t),
           rows'[Target] = rows[Target], IsPromoter(t)'
    PROVE  RequestsInv'
<1>1. promoter = [q \in Promoters |-> promoter[q]]
  BY DEF RequestsInv
<1>2. /\ promoter' = [q \in Promoters |-> promoter'[q]]
      /\ promoter'[r] = t /\ \A q \in Promoters \ {r} : promoter'[q] = promoter[q]
  BY <1>1 DEF Becomes
<1>3. ASSUME NEW q \in Promoters PROVE IsPromoter(promoter[q])'
  <2>1. CASE q = r
    BY <1>2, <2>1
  <2>2. CASE q # r
    BY <1>2, <2>2, RequestKept
  <2> QED
    BY <2>1, <2>2
<1> QED
  BY <1>2, <1>3 DEF RequestsInv

LEMMA RecordsKept ==
    ASSUME RecordsInv, UNCHANGED <<tags, promos>>
    PROVE  RecordsInv' /\ PromosKept
BY DEF RecordsInv, IsPromo, PromosKept

\* A record is written: its strategy and its tag stay.
LEMMA RecordWritten ==
    ASSUME RecordsInv, NEW p \in DOMAIN promos, NEW e, promos' = [promos EXCEPT ![p] = e],
           IsPromo(e), e.strategy = promos[p].strategy, UNCHANGED tags
    PROVE  RecordsInv' /\ PromosKept
<1> DEFINE S == Range(promos) \union {e}
<1>1. promos \in Seq(Range(promos)) /\ DOMAIN promos = 1 .. Len(promos)
  BY LenProperties DEF RecordsInv
<1>2. promos \in Seq(S) /\ e \in S
  <2>1. Range(promos) \subseteq S /\ e \in S
    OBVIOUS
  <2> HIDE DEF S
  <2> QED
    BY <1>1, <2>1, SeqMonotonic
<1> HIDE DEF S
<1>3. /\ promos' \in Seq(S) /\ DOMAIN promos' = DOMAIN promos
      /\ \A k \in DOMAIN promos : promos'[k] = IF k = p THEN e ELSE promos[k]
  <2>1. /\ promos' \in Seq(S) /\ Len(promos') = Len(promos)
        /\ \A k \in 1 .. Len(promos) : promos'[k] = IF k = p THEN e ELSE promos[k]
    BY <1>1, <1>2, ExceptSeq
  <2> QED
    BY <1>1, <2>1, LenProperties
<1>4. promos' \in Seq(Range(promos'))
  BY <1>3, SeqOfRange
<1>5. \A k \in DOMAIN promos' : IsPromo(promos[k])'
  BY <1>3 DEF RecordsInv, IsPromo
<1> QED
  BY <1>3, <1>4, <1>5 DEF RecordsInv, PromosKept

\* The outcome of a promotion is recorded.
LEMMA OutcomeWritten ==
    ASSUME RecordsInv, NEW p \in DOMAIN promos, NEW status, NEW when, UNCHANGED tags,
           promos' = [promos EXCEPT ![p].status = status, ![p].when = when]
    PROVE  RecordsInv' /\ PromosKept
<1>1. IsPromo(promos[p]) /\ DOMAIN promos = 1 .. Len(promos)
  BY LenProperties DEF RecordsInv
<1>2. PICK e : e = [promos[p] EXCEPT !.status = status, !.when = when]
  OBVIOUS
<1>3. IsPromo(e) /\ e.strategy = promos[p].strategy
  BY <1>1, <1>2 DEF IsPromo
<1>4. promos' = [promos EXCEPT ![p] = e]
  BY <1>2
<1> QED
  BY <1>3, <1>4, RecordWritten

LEMMA TagKeeps ==
    ASSUME RecordsInv, RequestsInv, NEW S, SourceCopy(S), CreateTag(S)
    PROVE  RecordsInv' /\ RequestsInv'
<1>1. tags' = Append(tags, S) /\ UNCHANGED <<modelVars, promos, promoter>>
  BY DEF CreateTag
<1>2. /\ tags' \in Seq(Range(tags'))
      /\ \A i \in DOMAIN tags' : (i \in DOMAIN tags /\ tags'[i] = tags[i]) \/ tags'[i] = S
      /\ \A i \in DOMAIN tags : i \in DOMAIN tags'
  BY <1>1, ListAppended DEF RecordsInv
<1>3. \A t \in DOMAIN tags' : SourceCopy(tags'[t])
  BY <1>2 DEF RecordsInv
<1>4. \A p \in DOMAIN promos' : IsPromo(promos[p])'
  BY <1>1, <1>2 DEF RecordsInv, IsPromo
<1>5. RecordsInv'
  BY <1>1, <1>2, <1>3, <1>4 DEF RecordsInv
<1>6. PromosKept /\ rows'[Target] = rows[Target] /\ promoter' = promoter
  BY <1>1 DEF PromosKept, modelVars
<1>7. \A q \in Promoters : IsPromoter(promoter[q])'
  BY <1>6, RequestKept
<1> QED
  BY <1>5, <1>6, <1>7 DEF RequestsInv

LEMMA ClientSnapshotsAre ==
    ASSUME ModelsInv, NEW S \in ClientSnapshots
    PROVE  SourceCopy(S)
<1>1. CASE S = NoSnapshot
  BY <1>1, EmptyIsCopied
<1>2. CASE S # NoSnapshot
  <2>1. PICK r \in Structure(Source) :
            S = [rows |-> (Structure(Source) \ {r}) \union {[r EXCEPT !.attr = BadAttribute]}, cells |-> {}]
    BY <1>2 DEF ClientSnapshots
  <2> DEFINE Q == (Structure(Source) \ {r}) \union {[r EXCEPT !.attr = BadAttribute]}
  <2>2. /\ Whole(Structure(Source)) /\ Structural(Structure(Source)) /\ OneOfEach(Structure(Source))
    BY StructureIs, PromotionAssumption DEF PromotionAssumption
  <2>3. Whole(Q) /\ OneOfEach(Q) /\ Structural(Q)
    BY <2>2, AlteredRows
  <2>4. S.rows = Q /\ S.cells = {}
    BY <2>1
  <2> HIDE DEF Q
  <2> QED
    BY <2>3, <2>4 DEF SourceCopy, Serialized, PlainOnly
<1> QED
  BY <1>1, <1>2

LEMMA InitiateKeeps ==
    ASSUME RecordsInv, RequestsInv, NEW tag \in DOMAIN tags, NEW strategy \in Strategies,
           InitiatePromotion(tag, strategy)
    PROVE  RecordsInv' /\ RequestsInv'
<1> DEFINE expected == Structure(Target)
           conflicts == ChangedSinceLast(Structure(Target))
<1>1. PICK e : e = [status |-> "pending", tag |-> tag, strategy |-> strategy,
                    expected |-> expected, after |-> {}, when |-> 0, conflicts |-> conflicts]
  OBVIOUS
<1>2. promos' = Append(promos, e) /\ UNCHANGED <<modelVars, tags, promoter>>
  BY <1>1 DEF InitiatePromotion
<1>3. IsPromo(e)
  <2> HIDE DEF expected, conflicts
  <2> QED
    BY <1>1 DEF IsPromo
<1>4. /\ promos' \in Seq(Range(promos'))
      /\ \A i \in DOMAIN promos' : (i \in DOMAIN promos /\ promos'[i] = promos[i]) \/ promos'[i] = e
      /\ \A i \in DOMAIN promos : i \in DOMAIN promos' /\ promos'[i] = promos[i]
  BY <1>2, ListAppended DEF RecordsInv
<1>5. \A p \in DOMAIN promos' : IsPromo(promos[p])'
  BY <1>2, <1>3, <1>4 DEF RecordsInv, IsPromo
<1>6. RecordsInv'
  BY <1>2, <1>4, <1>5 DEF RecordsInv
<1>7. PromosKept /\ rows'[Target] = rows[Target] /\ promoter' = promoter
  BY <1>2, <1>4 DEF PromosKept, modelVars
<1>8. \A q \in Promoters : IsPromoter(promoter[q])'
  BY <1>7, RequestKept
<1> QED
  BY <1>6, <1>7, <1>8 DEF RequestsInv

LEMMA BeginCompleteKeeps ==
    ASSUME ModelsInv, RecordsInv, RequestsInv, NEW r \in Promoters, NEW p \in DOMAIN promos,
           BeginComplete(r, p)
    PROVE  RequestsInv'
<1> DEFINE conflicts == Conflicts(p)
<1>1. PICK source, before : source = SourceSnapshot(p) /\ before = Serialize(Target)
  OBVIOUS
<1>2. PICK t : t = [IdlePromoter EXCEPT !.at = "apply", !.promo = p, !.source = source,
                                        !.before = before, !.conflicts = conflicts]
  OBVIOUS
<1>3. Becomes(r, t) /\ UNCHANGED <<modelVars, locked, tags, promos>>
  BY <1>1, <1>2, Zenon DEF BeginComplete
<1>4. SourceCopy(source)
  <2>1. CASE tags[promos[p].tag] = NoSnapshot
    BY <1>1, <2>1, SerializeIs, PromotionAssumption DEF SourceSnapshot, PromotionAssumption
  <2>2. CASE tags[promos[p].tag] # NoSnapshot
    <3>1. promos[p].tag \in DOMAIN tags
      BY DEF RecordsInv, IsPromo
    <3> QED
      BY <1>1, <2>2, <3>1 DEF SourceSnapshot, RecordsInv
  <2> QED
    BY <2>1, <2>2
<1>5. Serialized(before)
  BY <1>1, SerializeIs, PromotionAssumption DEF PromotionAssumption
<1>6. PICK c : c = conflicts
  OBVIOUS
<1>7. t = [at |-> "apply", promo |-> p, source |-> source, before |-> before, conflicts |-> c,
           delete |-> {}, insert |-> NoSnapshot, alone |-> TRUE, outcome |-> "completed"]
  <2> HIDE DEF conflicts
  <2> QED
    BY <1>2, <1>6, Zenon DEF IdlePromoter
<1>8. PromosKept /\ rows'[Target] = rows[Target] /\ promos' = promos
  BY <1>3 DEF PromosKept, modelVars
<1>9. IsPromoter(t)'
  BY <1>4, <1>5, <1>7, <1>8 DEF IsPromoter
<1> QED
  BY <1>3, <1>8, <1>9, RequestBecomes

LEMMA BeginFailKeeps ==
    ASSUME RequestsInv, NEW r \in Promoters, NEW p \in DOMAIN promos, BeginFail(r, p)
    PROVE  RequestsInv'
<1>1. PICK t : t = [IdlePromoter EXCEPT !.at = "fail", !.promo = p]
  OBVIOUS
<1>2. Becomes(r, t) /\ UNCHANGED <<modelVars, locked, tags, promos>>
  BY <1>1, Zenon DEF BeginFail
<1>3. /\ t = [at |-> t.at, promo |-> t.promo, source |-> t.source, before |-> t.before,
              conflicts |-> t.conflicts, delete |-> t.delete, insert |-> t.insert,
              alone |-> t.alone, outcome |-> t.outcome]
      /\ t.at = "fail" /\ t.promo = p /\ t.source = NoSnapshot /\ t.before = NoSnapshot
  BY <1>1 DEF IdlePromoter
<1>4. PromosKept /\ rows'[Target] = rows[Target] /\ promos' = promos
  BY <1>2 DEF PromosKept, modelVars
<1>5. IsPromoter(t)'
  BY <1>3, <1>4, EmptyIsCopied DEF IsPromoter, SourceCopy
<1> QED
  BY <1>2, <1>4, <1>5, RequestBecomes

\* A request that gives up what it was doing.
LEMMA TurnKeeps ==
    ASSUME RequestsInv, PromosKept, NEW r \in Promoters, NEW at, NEW outcome, NEW s, NEW t,
           s = promoter[r],
           t = [at |-> at, promo |-> s.promo, source |-> s.source, before |-> s.before,
                conflicts |-> s.conflicts, delete |-> s.delete, insert |-> s.insert,
                alone |-> s.alone, outcome |-> outcome],
           Becomes(r, t), rows'[Target] = rows[Target], at # "commit", s.at # "idle"
    PROVE  RequestsInv'
<1>1. IsPromoter(s)
  BY DEF RequestsInv
<1>2. IsPromoter(t)'
  BY <1>1, NotCommitting
<1> QED
  BY <1>2, RequestBecomes

LEMMA FailingKeeps ==
    ASSUME RequestsInv, NEW r \in Promoters, CommitFails(r) \/ RestoreFails(r)
    PROVE  RequestsInv'
<1>1. PICK s : s = promoter[r]
  OBVIOUS
<1>2. s = [at |-> s.at, promo |-> s.promo, source |-> s.source, before |-> s.before,
           conflicts |-> s.conflicts, delete |-> s.delete, insert |-> s.insert,
           alone |-> s.alone, outcome |-> s.outcome]
  BY <1>1 DEF RequestsInv, IsPromoter
<1>3. UNCHANGED <<modelVars, promos>> /\ s.at \in {"commit", "restore"}
  BY <1>1 DEF CommitFails, RestoreFails
<1>4. PromosKept /\ rows'[Target] = rows[Target]
  BY <1>3 DEF PromosKept, modelVars
<1>5. ASSUME CommitFails(r) PROVE RequestsInv'
  <2>1. PICK t : t = [promoter[r] EXCEPT !.at = "restore"]
    OBVIOUS
  <2>2. Becomes(r, t)
    BY <1>5, <2>1, Zenon DEF CommitFails
  <2>3. t = [at |-> "restore", promo |-> s.promo, source |-> s.source, before |-> s.before,
             conflicts |-> s.conflicts, delete |-> s.delete, insert |-> s.insert,
             alone |-> s.alone, outcome |-> s.outcome]
    BY <1>1, <1>2, <2>1
  <2> QED
    BY <1>1, <1>3, <1>4, <2>2, <2>3, TurnKeeps
<1>6. ASSUME RestoreFails(r) PROVE RequestsInv'
  <2>1. PICK t : t = [promoter[r] EXCEPT !.at = "record", !.outcome = "failed"]
    OBVIOUS
  <2>2. Becomes(r, t)
    BY <1>6, <2>1, Zenon DEF RestoreFails
  <2>3. t = [at |-> "record", promo |-> s.promo, source |-> s.source, before |-> s.before,
             conflicts |-> s.conflicts, delete |-> s.delete, insert |-> s.insert,
             alone |-> s.alone, outcome |-> "failed"]
    BY <1>1, <1>2, <2>1
  <2> QED
    BY <1>1, <1>3, <1>4, <2>2, <2>3, TurnKeeps
<1> QED
  BY <1>5, <1>6

\* The outcome of a failed promotion is written, and the request is over.
LEMMA EndKeeps ==
    ASSUME RecordsInv, RequestsInv, NEW r \in Promoters, promoter[r].at # "idle",
           NEW status, UNCHANGED <<modelVars, locked, tags>>, Becomes(r, IdlePromoter),
           promos' = [promos EXCEPT ![promoter[r].promo].status = status, ![promoter[r].promo].when = 0]
    PROVE  RecordsInv' /\ RequestsInv'
<1>1. promoter[r].promo \in DOMAIN promos
  BY DEF RequestsInv, IsPromoter
<1>2. RecordsInv' /\ PromosKept
  BY <1>1, OutcomeWritten
<1>3. rows'[Target] = rows[Target]
  BY DEF modelVars
<1>4. PICK t : t = IdlePromoter
  OBVIOUS
<1>5. IsPromoter(t)' /\ Becomes(r, t)
  BY <1>4, IdleIsPromoter
<1> QED
  BY <1>2, <1>3, <1>5, RequestBecomes

LEMMA EndingsKeep ==
    ASSUME RecordsInv, RequestsInv, NEW r \in Promoters, RecordFailure(r) \/ CommitFail(r)
    PROVE  RecordsInv' /\ RequestsInv'
<1>1. ASSUME RecordFailure(r) PROVE RecordsInv' /\ RequestsInv'
  BY <1>1, EndKeeps DEF RecordFailure
<1>2. ASSUME CommitFail(r) PROVE RecordsInv' /\ RequestsInv'
  BY <1>2, EndKeeps DEF CommitFail
<1> QED
  BY <1>1, <1>2

LEMMA ApplyKeeps ==
    ASSUME ModelsInv, RequestsInv, NEW r \in Promoters, Apply(r)
    PROVE  ModelsInv' /\ RequestsInv'
<1>1. PICK s : s = promoter[r]
  OBVIOUS
<1>2. IsPromoter(s)
  BY <1>1 DEF RequestsInv
<1> DEFINE T == Structure(Target)
           delete == Deleted(promos[s.promo].strategy, T)
           insert == Insertions(s.source, {q \in T : q.id \notin delete}, gen + 1)
<1>3. PICK d, n : d = delete /\ n = insert
  OBVIOUS
<1>4. PICK t : t = IF Invalid(n.rows) THEN [s EXCEPT !.at = "restore"]
                   ELSE [s EXCEPT !.at = "commit", !.insert = n, !.delete = d]
  OBVIOUS
<1>5. /\ s.at = "apply" /\ gen' = gen + 1 /\ UNCHANGED <<rows, cells, edits, locked, tags, promos>>
      /\ Becomes(r, t)
  <2>1. gen' = gen + 1 /\ s.at = "apply" /\ UNCHANGED <<rows, cells, edits, locked, tags, promos>>
    BY <1>1 DEF Apply
  <2>2. Becomes(r, IF Invalid(insert.rows) THEN [s EXCEPT !.at = "restore"]
                   ELSE [s EXCEPT !.at = "commit", !.insert = insert, !.delete = delete])
    BY <2>1, <1>1, Zenon DEF Apply
  <2> HIDE DEF insert, delete
  <2>3. Becomes(r, t)
    BY <2>2, <1>3, <1>4, Zenon
  <2> QED
    BY <2>1, <2>3
<1>6. Serialized(s.source)
  BY <1>2 DEF IsPromoter, SourceCopy
<1>7. Insertable(n)
  BY <1>3, <1>6, InsertionsInsertable
<1>8. NoId \notin d
  <2>1. Whole(T)
    BY StructureIs, PromotionAssumption DEF PromotionAssumption
  <2>2. NoId \notin IdsOf(T)
    BY <2>1, RowFacts DEF Whole, Parented, IdsOf
  <2> QED
    BY <1>3, <2>2 DEF Deleted
<1>9. PromosKept /\ rows'[Target] = rows[Target] /\ promos' = promos
      /\ Structure(Target)' = Structure(Target)
  BY <1>5, StructureKept DEF PromosKept
<1>10. IsPromoter(t)'
  <2>1. s = [at |-> s.at, promo |-> s.promo, source |-> s.source, before |-> s.before,
             conflicts |-> s.conflicts, delete |-> s.delete, insert |-> s.insert,
             alone |-> s.alone, outcome |-> s.outcome]
    BY <1>2 DEF IsPromoter
  <2>2. CASE Invalid(n.rows)
    <3>1. t = [at |-> "restore", promo |-> s.promo, source |-> s.source, before |-> s.before,
               conflicts |-> s.conflicts, delete |-> s.delete, insert |-> s.insert,
               alone |-> s.alone, outcome |-> s.outcome]
      BY <1>4, <2>1, <2>2
    <3> QED
      BY <1>2, <1>5, <1>9, <3>1, NotCommitting
  <2>3. CASE ~Invalid(n.rows)
    <3>1. t = [s EXCEPT !.at = "commit", !.insert = n, !.delete = d]
      BY <1>4, <2>3, Zenon
    <3>2. t = [at |-> "commit", promo |-> s.promo, source |-> s.source, before |-> s.before,
               conflicts |-> s.conflicts, delete |-> d, insert |-> n,
               alone |-> s.alone, outcome |-> s.outcome]
      BY <2>1, <3>1
    <3>3. n.rows = NewRows(s.source, {q \in T : q.id \notin d}, gen + 1) /\ gen + 1 \in Nat
      BY <1>3 DEF Insertions, ModelsInv
    <3>4. Ready(t)'
      <4>1. PICK g \in Nat : n.rows = NewRows(s.source, {q \in T : q.id \notin d}, g)
        BY <3>3
      <4>2. t.delete = d /\ t.insert = n /\ t.source = s.source /\ t.promo = s.promo
        BY <3>2
      <4>3. d = Deleted(promos'[s.promo].strategy, Structure(Target)')
        BY <1>3, <1>9
      <4> QED
        BY <1>9, <4>1, <4>2, <4>3 DEF Ready
    <3>5. s.promo \in DOMAIN promos'
      BY <1>2, <1>5 DEF IsPromoter
    <3>6. promos'[s.promo].strategy # "replace" => d = {}
      BY <1>3, <1>9 DEF Deleted
    <3>7. SourceCopy(s.source) /\ Serialized(s.before)
      BY <1>2 DEF IsPromoter
    <3>8. SourceCopy(t.source)' /\ Serialized(t.before)'
      BY <3>2, <3>7
    <3> QED
      BY <1>7, <1>8, <3>2, <3>4, <3>5, <3>6, <3>8 DEF IsPromoter
  <2> QED
    BY <2>2, <2>3
<1>11. RequestsInv'
  BY <1>5, <1>9, <1>10, RequestBecomes
<1>12. ModelsInv'
  BY <1>5 DEF ModelsInv
<1> QED
  BY <1>11, <1>12

\* The target is given rows that refer to each other or to those that are left.
LEMMA RebuiltKeeps ==
    ASSUME ModelsInv, NEW delete, NoId \notin delete, NEW insert, Insertable(insert),
           Rebuilt(delete, insert), gen' \in Nat,
           \A r \in insert.rows :
               LET R == Without(rows[Target], delete) \union insert.rows IN
               (r.up = NoId \/ r.up \in IdsOf(R)) /\ r.refs \subseteq IdsOf(R)
    PROVE  ModelsInv'
<1> DEFINE left == Without(rows[Target], delete)
           R == left \union insert.rows
           C == CellsOn(cells[Target], left) \union insert.cells
<1>1. Target \in Models /\ Target # Source
  BY PromotionAssumption DEF PromotionAssumption
<1>2. Whole(rows[Target]) /\ \A c \in cells[Target] : IsCell(c)
  BY <1>1 DEF ModelsInv, CellsOf
<1>3. Whole(left)
  BY <1>2, WithoutIs
<1>4. rows' = [rows EXCEPT ![Target] = R] /\ cells' = [cells EXCEPT ![Target] = C]
  BY DEF Rebuilt
<1> HIDE DEF left
<1>5. Whole(R)
  <2>1. \A r \in insert.rows : IsRow(r) /\ (r.up = NoId \/ r.up \in IdsOf(R)) /\ r.refs \subseteq IdsOf(R)
    BY DEF Insertable, left
  <2>2. \A r \in left : IsRow(r) /\ (r.up = NoId \/ r.up \in IdsOf(R)) /\ r.refs \subseteq IdsOf(R)
    BY <1>3 DEF Whole, Parented, IdsOf
  <2> HIDE DEF R
  <2> QED
    BY <2>1, <2>2 DEF Whole, Parented, R
<1>6. CellsOf(C, R)
  <2>1. CellsOf(CellsOn(cells[Target], left), left)
    BY <1>2, CellsOnIs
  <2>2. IdsOf(left) \subseteq IdsOf(R) /\ IdsOf(insert.rows) \subseteq IdsOf(R)
    BY DEF IdsOf
  <2> HIDE DEF R
  <2> QED
    BY <2>1, <2>2 DEF CellsOf, Insertable
<1> HIDE DEF R, C
<1> QED
  BY <1>1, <1>4, <1>5, <1>6, ModelChanged

\* A request writes the target: the others are not alone any more.
LEMMA OthersKeep ==
    ASSUME RequestsInv, PromosKept, NEW r \in Promoters, NEW t, IsPromoter(t)',
           promoter' = [Others(r) EXCEPT ![r] = t]
    PROVE  RequestsInv'
<1>1. PICK d : d = Others(r)
  OBVIOUS
<1>2. d = [q \in Promoters |-> d[q]]
  <2>1. d = Disturbed(Promoters \ {r})
    BY <1>1 DEF Others
  <2> QED
    BY <2>1, DisturbedDomain
<1>3. /\ promoter' = [q \in Promoters |-> promoter'[q]]
      /\ promoter'[r] = t /\ \A q \in Promoters \ {r} : promoter'[q] = d[q]
  BY <1>1, <1>2
<1>4. ASSUME NEW q \in Promoters PROVE IsPromoter(promoter[q])'
  <2>1. CASE q = r
    BY <1>3, <2>1
  <2>2. CASE q # r
    <3>1. promoter'[q] = Disturbed(Promoters \ {r})[q]
      BY <1>1, <1>3, <2>2 DEF Others
    <3>2. q \in Promoters \ {r}
      BY <2>2
    <3> QED
      BY <3>1, <3>2, RequestDisturbed
  <2> QED
    BY <2>1, <2>2
<1> QED
  BY <1>3, <1>4 DEF RequestsInv

LEMMA CommitKeeps ==
    ASSUME ModelsInv, RecordsInv, RequestsInv, NEW r \in Promoters, CommitPromotion(r)
    PROVE  ModelsInv' /\ RecordsInv' /\ RequestsInv'
<1>1. PICK s : s = promoter[r]
  OBVIOUS
<1>2. IsPromoter(s) /\ s.at = "commit"
  BY <1>1 DEF RequestsInv, CommitPromotion
<1>3. /\ Resolves(Without(rows[Target], s.delete), s.insert.rows)
      /\ Rebuilt(s.delete, s.insert) /\ UNCHANGED <<gen, edits, locked, tags>>
      /\ promoter' = [Others(r) EXCEPT ![r] = IdlePromoter]
  BY <1>1 DEF CommitPromotion
<1>4. NoId \notin s.delete /\ Insertable(s.insert) /\ s.promo \in DOMAIN promos
  BY <1>2 DEF IsPromoter
<1>5. ModelsInv'
  <2> DEFINE R == Without(rows[Target], s.delete) \union s.insert.rows
  <2>1. ASSUME NEW q \in s.insert.rows
        PROVE  (q.up = NoId \/ q.up \in IdsOf(R)) /\ q.refs \subseteq IdsOf(R)
    BY <1>3 DEF Resolves
  <2>2. gen' \in Nat
    BY <1>3 DEF ModelsInv
  <2> QED
    BY <1>3, <1>4, <2>1, <2>2, RebuiltKeeps
<1>6. PICK seen, when : promos' = [promos EXCEPT ![s.promo].status = "completed",
                                   ![s.promo].after = seen, ![s.promo].when = when]
  BY <1>1 DEF CommitPromotion
<1>7. RecordsInv' /\ PromosKept
  <2>1. IsPromo(promos[s.promo]) /\ DOMAIN promos = 1 .. Len(promos)
    BY <1>4, LenProperties DEF RecordsInv
  <2>2. PICK e : e = [promos[s.promo] EXCEPT !.status = "completed", !.after = seen, !.when = when]
    OBVIOUS
  <2>3. IsPromo(e) /\ e.strategy = promos[s.promo].strategy
    BY <2>1, <2>2 DEF IsPromo
  <2>4. promos' = [promos EXCEPT ![s.promo] = e]
    BY <1>6, <2>2
  <2> QED
    BY <1>3, <1>4, <2>3, <2>4, RecordWritten
<1>8. PICK t : t = IdlePromoter
  OBVIOUS
<1>9. IsPromoter(t)' /\ promoter' = [Others(r) EXCEPT ![r] = t]
  BY <1>3, <1>8, IdleIsPromoter
<1>10. RequestsInv'
  BY <1>7, <1>9, OthersKeep
<1> QED
  BY <1>5, <1>7, <1>10

LEMMA RestoreKeeps ==
    ASSUME ModelsInv, RequestsInv, NEW r \in Promoters, Restore(r)
    PROVE  ModelsInv' /\ RequestsInv'
<1>1. PICK s : s = promoter[r]
  OBVIOUS
<1>2. IsPromoter(s) /\ s.at = "restore"
  BY <1>1 DEF RequestsInv, Restore
<1>3. PICK n : n = Insertions(s.before, {}, gen + 1)
  OBVIOUS
<1>4. /\ gen' = gen + 1 /\ UNCHANGED <<edits, locked, tags, promos>> /\ Rebuilt(RestoreDeletes, n)
      /\ promoter' = [Others(r) EXCEPT ![r].at = "record", ![r].outcome = "rolled_back"]
  <2>1. /\ gen' = gen + 1 /\ Rebuilt(RestoreDeletes, Insertions(promoter[r].before, {}, gen'))
        /\ promoter' = [Others(r) EXCEPT ![r].at = "record", ![r].outcome = "rolled_back"]
        /\ UNCHANGED <<edits, locked, tags, promos>>
    BY Zenon DEF Restore
  <2> QED
    BY <1>1, <1>3, <2>1, Zenon
<1>5. Serialized(s.before)
  BY <1>2 DEF IsPromoter
<1>6. Insertable(n) /\ n.rows = NewRows(s.before, {}, gen + 1)
  BY <1>3, <1>5, InsertionsInsertable DEF Insertions
<1>7. NoId \notin RestoreDeletes
  <2>1. Whole(Structure(Target))
    BY StructureIs, PromotionAssumption DEF PromotionAssumption
  <2> QED
    BY <2>1, RowFacts DEF RestoreDeletes, Whole, Parented, IdsOf
<1>8. ModelsInv'
  <2> DEFINE R == Without(rows[Target], RestoreDeletes) \union n.rows
  <2>1. Whole(n.rows)
    BY <1>5, <1>6, RebuiltWhole
  <2>2. ASSUME NEW q \in n.rows
        PROVE  (q.up = NoId \/ q.up \in IdsOf(R)) /\ q.refs \subseteq IdsOf(R)
    <3>1. IdsOf(n.rows) \subseteq IdsOf(R)
      BY DEF IdsOf
    <3> QED
      BY <2>1, <3>1 DEF Whole, Parented
  <2>3. gen' \in Nat
    BY <1>4 DEF ModelsInv
  <2> QED
    BY <1>4, <1>6, <1>7, <2>2, <2>3, RebuiltKeeps
<1>9. PromosKept
  BY <1>4 DEF PromosKept
<1>10. PICK d : d = Others(r)
  OBVIOUS
<1>11. /\ d[r] = [at |-> s.at, promo |-> s.promo, source |-> s.source, before |-> s.before,
                  conflicts |-> s.conflicts, delete |-> s.delete, insert |-> s.insert,
                  alone |-> d[r].alone, outcome |-> s.outcome]
  BY <1>1, <1>10, DisturbedIs DEF Others
<1>12. PICK t : t = [d[r] EXCEPT !.at = "record", !.outcome = "rolled_back"]
  OBVIOUS
<1>13. t = [at |-> "record", promo |-> s.promo, source |-> s.source, before |-> s.before,
            conflicts |-> s.conflicts, delete |-> s.delete, insert |-> s.insert,
            alone |-> d[r].alone, outcome |-> "rolled_back"]
  <2>1. PICK e, a : e = d[r] /\ a = d[r].alone
    OBVIOUS
  <2>2. t = [e EXCEPT !.at = "record", !.outcome = "rolled_back"]
    BY <1>12, <2>1, Zenon
  <2>3. e = [at |-> s.at, promo |-> s.promo, source |-> s.source, before |-> s.before,
             conflicts |-> s.conflicts, delete |-> s.delete, insert |-> s.insert,
             alone |-> a, outcome |-> s.outcome]
    BY <1>11, <2>1, Zenon
  <2>4. t = [at |-> "record", promo |-> s.promo, source |-> s.source, before |-> s.before,
             conflicts |-> s.conflicts, delete |-> s.delete, insert |-> s.insert,
             alone |-> a, outcome |-> "rolled_back"]
    BY <2>2, <2>3
  <2> QED
    BY <2>1, <2>4, Zenon
<1>14. IsPromoter(t)'
  BY <1>2, <1>4, <1>13 DEF IsPromoter
<1>15. promoter' = [Others(r) EXCEPT ![r] = t]
  BY <1>4, <1>10, <1>12
<1>16. RequestsInv'
  BY <1>9, <1>14, <1>15, OthersKeep
<1> QED
  BY <1>8, <1>16

-------------------------------------------------------------------------------
(* The invariant.                                                           *)

LEMMA InitCopies == Init => CopiesInv
<1> SUFFICES ASSUME Init PROVE CopiesInv
  OBVIOUS
<1>1. ModelsInv
  BY InitModels DEF Init
<1>2. << >> \in Seq(Range(<< >>)) /\ DOMAIN << >> = {}
  BY EmptySeq
<1>3. SnapsInv
  <2>1. snaps = << >> /\ taking = Nobody
    BY DEF Init, SnapshotsInit
  <2> QED
    BY <1>2, <2>1 DEF SnapsInv, Nobody
<1>4. RecordsInv
  <2>1. tags = << >> /\ promos = << >>
    BY DEF Init, PromotionInit
  <2> QED
    BY <1>2, <2>1 DEF RecordsInv
<1>5. RequestsInv
  <2>1. promoter = [r \in Promoters |-> IdlePromoter]
    BY DEF Init, PromotionInit
  <2>2. \A r \in Promoters : promoter[r] = IdlePromoter
    BY <2>1
  <2>3. promoter = [r \in Promoters |-> promoter[r]]
    BY <2>1
  <2> HIDE DEF IdlePromoter
  <2> QED
    BY <2>2, <2>3, IdleIsPromoter DEF RequestsInv
<1> QED
  BY <1>1, <1>3, <1>4, <1>5 DEF CopiesInv

\* The steps of the requests about promotions.
LEMMA PromotersKeep ==
    ASSUME CopiesInv, NEW r \in Promoters, UNCHANGED snapshotVars,
           \/ \E p \in DOMAIN promos : BeginComplete(r, p) \/ BeginFail(r, p)
           \/ Apply(r) \/ CommitPromotion(r) \/ CommitFails(r)
           \/ Restore(r) \/ RestoreFails(r) \/ RecordFailure(r) \/ CommitFail(r)
    PROVE  CopiesInv'
<1> USE DEF CopiesInv
<1>1. SnapsInv'
  BY DEF SnapsInv, snapshotVars
<1>2. ASSUME UNCHANGED modelVars PROVE ModelsInv'
  BY <1>2 DEF ModelsInv, modelVars
<1>3. ASSUME NEW p \in DOMAIN promos, BeginComplete(r, p) PROVE CopiesInv'
  BY <1>1, <1>2, <1>3, BeginCompleteKeeps, RecordsKept DEF BeginComplete
<1>4. ASSUME NEW p \in DOMAIN promos, BeginFail(r, p) PROVE CopiesInv'
  BY <1>1, <1>2, <1>4, BeginFailKeeps, RecordsKept DEF BeginFail
<1>5. ASSUME Apply(r) PROVE CopiesInv'
  BY <1>1, <1>5, ApplyKeeps, RecordsKept DEF Apply
<1>6. ASSUME CommitPromotion(r) PROVE CopiesInv'
  BY <1>1, <1>6, CommitKeeps
<1>7. ASSUME CommitFails(r) \/ RestoreFails(r) PROVE CopiesInv'
  BY <1>1, <1>2, <1>7, FailingKeeps, RecordsKept DEF CommitFails, RestoreFails
<1>8. ASSUME Restore(r) PROVE CopiesInv'
  BY <1>1, <1>8, RestoreKeeps, RecordsKept DEF Restore
<1>9. ASSUME RecordFailure(r) \/ CommitFail(r) PROVE CopiesInv'
  BY <1>1, <1>2, <1>9, EndingsKeep DEF RecordFailure, CommitFail
<1> QED
  BY <1>3, <1>4, <1>5, <1>6, <1>7, <1>8, <1>9

LEMMA NextCopies == CopiesInv /\ [Next]_copiesVars => CopiesInv'
<1> SUFFICES ASSUME CopiesInv, [Next]_copiesVars PROVE CopiesInv'
  OBVIOUS
<1> USE DEF CopiesInv
<1>1. ASSUME UNCHANGED snapshotVars PROVE SnapsInv'
  BY <1>1 DEF SnapsInv, snapshotVars
<1>2. ASSUME UNCHANGED modelVars PROVE ModelsInv'
  BY <1>2 DEF ModelsInv, modelVars
<1>3. ASSUME UNCHANGED <<modelVars, tags, promos, promoter>> PROVE RecordsInv' /\ RequestsInv'
  <2>1. RecordsInv' /\ PromosKept
    BY <1>3, RecordsKept
  <2>2. rows'[Target] = rows[Target] /\ promoter' = promoter
    BY <1>3 DEF modelVars
  <2>3. \A q \in Promoters : IsPromoter(promoter[q])'
    BY <2>1, <2>2, RequestKept
  <2> QED
    BY <2>1, <2>2, <2>3 DEF RequestsInv
<1>4. CASE UNCHANGED copiesVars
  <2>1. UNCHANGED <<modelVars, tags, promos, promoter>> /\ UNCHANGED snapshotVars
    BY <1>4 DEF copiesVars, promotionVars
  <2> QED
    BY <2>1, <1>1, <1>2, <1>3
<1>5. CASE Elsewhere(SnapshotsNext)
  <2>1. SnapshotsNext /\ UNCHANGED <<locked, tags, promos>>
        /\ promoter' = Disturbed(IF UNCHANGED <<rows[Target], cells[Target]>> THEN {} ELSE Promoters)
    BY <1>5 DEF Elsewhere
  <2> QED
    BY <2>1, SnapshotsKeep, ElsewhereKeeps
<1>6. CASE PromotionNext /\ UNCHANGED snapshotVars
  <2>1. CASE Elsewhere(UserEdits)
    <3>1. UserEdits /\ UNCHANGED <<locked, tags, promos>>
          /\ promoter' = Disturbed(IF UNCHANGED <<rows[Target], cells[Target]>> THEN {} ELSE Promoters)
      BY <2>1 DEF Elsewhere
    <3> QED
      BY <3>1, <1>1, <1>6, EditsKeep, ElsewhereKeeps
  <2>2. ASSUME NEW b \in BOOLEAN, SetLock(b) PROVE CopiesInv'
    BY <1>1, <1>2, <1>3, <1>6, <2>2 DEF SetLock
  <2>3. ASSUME NEW S, SourceCopy(S), CreateTag(S) PROVE CopiesInv'
    BY <1>1, <1>2, <1>6, <2>3, TagKeeps DEF CreateTag
  <2>4. SourceCopy(Serialize(Source))
    BY SerializeIs, PromotionAssumption DEF PromotionAssumption
  <2>5. ASSUME CreateTag(Serialize(Source)) PROVE CopiesInv'
    BY <2>3, <2>4, <2>5
  <2>6. ASSUME NEW S \in ClientSnapshots, CreateTag(S) PROVE CopiesInv'
    BY <2>3, <2>6, ClientSnapshotsAre
  <2>7. ASSUME NEW t \in DOMAIN tags, NEW strategy \in Strategies, InitiatePromotion(t, strategy)
        PROVE  CopiesInv'
    BY <1>1, <1>2, <1>6, <2>7, InitiateKeeps DEF InitiatePromotion
  <2>8. ASSUME NEW r \in Promoters,
               \/ \E p \in DOMAIN promos : BeginComplete(r, p) \/ BeginFail(r, p)
               \/ Apply(r) \/ CommitPromotion(r) \/ CommitFails(r)
               \/ Restore(r) \/ RestoreFails(r) \/ RecordFailure(r) \/ CommitFail(r)
        PROVE  CopiesInv'
    BY <1>6, <2>8, PromotersKeep
  <2> QED
    BY <1>6, <2>1, <2>2, <2>5, <2>6, <2>7, <2>8 DEF PromotionNext
<1> QED
  BY <1>4, <1>5, <1>6 DEF Next

LEMMA CopiesInvariant == Spec => []CopiesInv
BY InitCopies, NextCopies, PTL DEF Spec

-------------------------------------------------------------------------------
(* A promotion carries its source.                                          *)

\* Where nothing of the structure was left, the copies show no difference to the snapshot.
LEMMA CopiesCarry ==
    ASSUME NEW S, SourceCopy(S), NEW g, NEW N, N = {CopyOf(x, S, {}, g) : x \in S.rows}
    PROVE  ~HasChanges(S.rows, N) /\ Cardinality(N) = Cardinality(S.rows)
<1> DEFINE f == [x \in S.rows |-> CopyOf(x, S, {}, g)]
<1>0. DOMAIN f = S.rows
  OBVIOUS
<1>1. ASSUME NEW x \in S.rows
      PROVE  f[x].id.name = x.id.name /\ RowFace(f[x]) = RowFace(x)
  BY CopyLooksLike DEF SourceCopy
<1>2. N = {f[x] : x \in S.rows}
  OBVIOUS
<1> HIDE DEF f
<1>3. Cardinality(N) = Cardinality(S.rows)
  <2>1. OneOfEach(S.rows) /\ \A x \in S.rows : f[x].id.name = x.id.name
    BY <1>1 DEF SourceCopy
  <2>2. Cardinality({f[x] : x \in S.rows}) = Cardinality(S.rows)
    BY <1>0, <2>1, ImageOfEach
  <2> QED
    BY <1>2, <2>2, Zenon
<1>4. Names(N) = Names(S.rows)
  <2>1. ASSUME NEW x \in S.rows PROVE x.id.name \in Names(N) /\ f[x].id.name \in Names(S.rows)
    BY <1>1, <1>2 DEF Names
  <2>2. ASSUME NEW y \in N PROVE y.id.name \in Names(S.rows)
    BY <2>1, <1>2
  <2> QED
    BY <2>1, <2>2 DEF Names
<1>5. ASSUME NEW n PROVE RowFaces(Named(S.rows, n)) = RowFaces(Named(N, n))
  <2>1. ASSUME NEW e \in RowFaces(Named(S.rows, n)) PROVE e \in RowFaces(Named(N, n))
    <3>1. PICK x \in S.rows : x.id.name = n /\ e = RowFace(x)
      BY DEF RowFaces, Named
    <3>2. f[x] \in Named(N, n) /\ RowFace(f[x]) = e
      BY <1>1, <1>2, <3>1 DEF Named
    <3> QED
      BY <3>2 DEF RowFaces
  <2>2. ASSUME NEW e \in RowFaces(Named(N, n)) PROVE e \in RowFaces(Named(S.rows, n))
    <3>1. PICK y \in N : y.id.name = n /\ e = RowFace(y)
      BY DEF RowFaces, Named
    <3>2. PICK x \in S.rows : y = f[x]
      BY <1>2
    <3>3. x \in Named(S.rows, n) /\ RowFace(x) = e
      BY <1>1, <3>1, <3>2 DEF Named
    <3> QED
      BY <3>3 DEF RowFaces
  <2> QED
    BY <2>1, <2>2
<1> QED
  BY <1>3, <1>4, <1>5 DEF HasChanges, Added, Removed, Modified

\* The rows and cells of the target after a promotion.
LEMMA CommitCarries ==
    ASSUME ModelsInv, RequestsInv, NEW r \in Promoters, CommitPromotion(r)
    PROVE  /\ promoter[r].alone => CarriesTheSource(r)
           /\ promos[promoter[r].promo].strategy # "replace" =>
                 rows[Target] \subseteq rows'[Target] /\ cells[Target] \subseteq cells'[Target]
<1>1. PICK s : s = promoter[r]
  OBVIOUS
<1>2. IsPromoter(s) /\ s.at = "commit"
  BY <1>1 DEF RequestsInv, CommitPromotion
<1>3. Rebuilt(s.delete, s.insert)
  BY <1>1 DEF CommitPromotion
<1>4. PICK left : left = Without(rows[Target], s.delete)
  OBVIOUS
<1>5. /\ rows'[Target] = left \union s.insert.rows
      /\ cells'[Target] = CellsOn(cells[Target], left) \union s.insert.cells
  <2>1. /\ rows' = [rows EXCEPT ![Target] = left \union s.insert.rows]
        /\ cells' = [cells EXCEPT ![Target] = CellsOn(@, left) \union s.insert.cells]
    BY <1>3, <1>4, Zenon DEF Rebuilt
  <2>2. Target \in DOMAIN rows /\ Target \in DOMAIN cells
    BY PromotionAssumption DEF PromotionAssumption, ModelsInv
  <2> QED
    BY <2>1, <2>2, Zenon
<1>6. Whole(rows[Target]) /\ CellsOf(cells[Target], rows[Target])
  BY PromotionAssumption DEF PromotionAssumption, ModelsInv
<1>7. promos[s.promo].strategy # "replace" => s.delete = {} /\ left = rows[Target]
  <2>1. promos[s.promo].strategy # "replace" => s.delete = {}
    BY <1>2 DEF IsPromoter
  <2>2. s.delete = {} => left = rows[Target]
    BY <1>4, <1>6, WithoutIs
  <2> QED
    BY <2>1, <2>2
<1>8. ASSUME promos[s.promo].strategy # "replace"
      PROVE  rows[Target] \subseteq rows'[Target] /\ cells[Target] \subseteq cells'[Target]
  <2>1. CellsOn(cells[Target], rows[Target]) = cells[Target]
    BY <1>6, CellsOnIs DEF CellsOf
  <2> QED
    BY <1>5, <1>7, <1>8, <2>1
<1>9. ASSUME s.alone PROVE CarriesTheSource(r)
  <2>1. PICK S, T, after : S = s.source /\ T = Structure(Target) /\ after = Structure(Target)'
    OBVIOUS
  <2>2. PICK keep : keep = {q \in T : q.id \notin s.delete}
    OBVIOUS
  <2>3. SourceCopy(S) /\ Serialized(S)
    BY <1>2, <2>1 DEF IsPromoter, SourceCopy
  <2>4. Ready(s)
    BY <1>2, <1>9 DEF IsPromoter
  <2>5. PICK g \in Nat : s.insert.rows = NewRows(S, keep, g)
    BY <2>1, <2>2, <2>4 DEF Ready
  <2>6. s.insert.rows = {CopyOf(x, S, keep, g) : x \in {q \in S.rows : Named(keep, q.id.name) = {}}}
    BY <2>3, <2>5, NewRowsAre
  <2>7. after = {q \in left \union s.insert.rows : Kind(q) # "version"}
    BY <1>5, <2>1 DEF Structure
  <2>8. promos[s.promo].strategy = "replace" => s.delete = IdsOf(T) /\ keep = {}
    <3>1. s.delete = Deleted(promos[s.promo].strategy, T)
      BY <2>1, <2>4 DEF Ready
    <3>2. \A q \in T : q.id \in IdsOf(T)
      BY DEF IdsOf
    <3> QED
      BY <2>2, <3>1, <3>2 DEF Deleted
  <2>9. ASSUME NEW x \in S.rows
        PROVE  /\ CopyOf(x, S, keep, g).id.name = x.id.name
               /\ Kind(CopyOf(x, S, keep, g)) # "version"
    BY <2>3, CopyLooksLike DEF Serialized, Structural
  <2>10. ASSUME NEW x \in S.rows PROVE x.id.name \in Names(after)
    <3>1. CASE Named(keep, x.id.name) = {}
      <4>1. CopyOf(x, S, keep, g) \in after
        BY <2>6, <2>7, <2>9, <3>1
      <4> QED
        BY <2>9, <4>1 DEF Names
    <3>2. CASE Named(keep, x.id.name) # {}
      <4>1. PICK q \in keep : q.id.name = x.id.name
        BY <3>2 DEF Named
      <4>2. promos[s.promo].strategy # "replace"
        BY <2>8, <4>1
      <4>3. q \in left /\ Kind(q) # "version"
        BY <1>7, <2>1, <2>2, <4>1, <4>2 DEF Structure
      <4> QED
        BY <2>7, <4>1, <4>3 DEF Names
    <3> QED
      BY <3>1, <3>2
  <2>11. Added(S.rows, after) = {}
    <3>1. Names(S.rows) \subseteq Names(after)
      BY <2>10 DEF Names
    <3> QED
      BY <3>1 DEF Added
  <2>12. ASSUME promos[s.promo].strategy = "replace"
         PROVE  after = {CopyOf(x, S, {}, g) : x \in S.rows}
    <3>1. ASSUME NEW q \in left PROVE Kind(q) = "version"
      <4>1. Whole(T) /\ NoId \notin s.delete
        BY <1>2, <2>1, StructureIs, PromotionAssumption DEF PromotionAssumption, IsPromoter
      <4>2. IdsOf(left) \subseteq IdsOf(rows[Target]) \ s.delete
        BY <1>4, <1>6, <4>1, WithoutIs
      <4>3. q.id \in IdsOf(rows[Target]) /\ q.id \notin IdsOf(T)
        BY <2>8, <2>12, <4>2 DEF IdsOf
      <4>4. PICK x \in rows[Target] : x.id = q.id
        BY <4>3 DEF IdsOf
      <4>5. x \notin T
        BY <4>3, <4>4 DEF IdsOf
      <4> QED
        BY <2>1, <4>4, <4>5 DEF Structure, Kind
    <3>2. s.insert.rows = {CopyOf(x, S, {}, g) : x \in S.rows}
      <4>1. keep = {} /\ \A n : Named({}, n) = {}
        BY <2>8, <2>12 DEF Named
      <4> QED
        BY <2>6, <4>1
    <3>3. \A q \in s.insert.rows : Kind(q) # "version"
      BY <2>8, <2>9, <2>12, <3>2
    <3> QED
      BY <2>7, <3>1, <3>2, <3>3
  <2>13. promos[s.promo].strategy = "replace" =>
            ~HasChanges(S.rows, after) /\ Cardinality(after) = Cardinality(S.rows)
    BY <2>3, <2>12, CopiesCarry
  <2>14. Rooted(promoter[r].source) = S.rows
    BY <1>1, <2>1, <2>3, RootedIsAll
  <2> QED
    BY <1>1, <2>1, <2>11, <2>13, <2>14 DEF CarriesTheSource
<1> QED
  BY <1>1, <1>8, <1>9

\* Whoever is done with a promotion has committed it.
LEMMA OnlyCommitCompletes ==
    ASSUME RequestsInv, [Next]_copiesVars, NEW r \in Promoters, Completes(r)
    PROVE  CommitPromotion(r)
<1>1. promoter[r].at = "commit" /\ promoter'[r].at = "idle"
  BY DEF Completes
<1>2. ASSUME NEW R PROVE promoter' # Disturbed(R)
  <2>1. Disturbed(R)[r].at = "commit"
    BY <1>1, DisturbedAt
  <2> QED
    BY <1>1, <2>1
<1>3. ASSUME NEW q, NEW t, Becomes(q, t), promoter[q].at # "commit" \/ t.at # "idle"
      PROVE  FALSE
  <2>1. CASE q = r
    BY <1>1, <1>3, <2>1 DEF Becomes, RequestsInv
  <2>2. CASE q # r
    BY <1>1, <1>3, <2>2 DEF Becomes, RequestsInv
  <2> QED
    BY <2>1, <2>2
<1>4. ASSUME NEW q, q # r, NEW t, promoter' = [Others(q) EXCEPT ![q] = t] PROVE FALSE
  <2>1. Others(q)[r].at = "commit"
    BY <1>1, DisturbedAt DEF Others
  <2>2. r \in DOMAIN Others(q)
    BY Zenon DEF Others, Disturbed
  <2>3. promoter'[r] = Others(q)[r]
    BY <1>4, <2>2, Zenon
  <2> QED
    BY <1>1, <2>1, <2>3
<1>5. ~UNCHANGED promoter
  BY <1>1
<1>6. ~Elsewhere(UserEdits) /\ ~Elsewhere(SnapshotsNext)
  BY <1>2 DEF Elsewhere
<1>7. /\ \A b \in BOOLEAN : ~SetLock(b)
      /\ \A S : ~CreateTag(S)
      /\ \A t \in DOMAIN tags, strategy \in Strategies : ~InitiatePromotion(t, strategy)
  BY <1>5 DEF SetLock, CreateTag, InitiatePromotion
<1>8. ASSUME NEW q \in Promoters
      PROVE  /\ \A p \in DOMAIN promos : ~BeginComplete(q, p) /\ ~BeginFail(q, p)
             /\ ~Apply(q) /\ ~CommitFails(q) /\ ~RestoreFails(q)
             /\ ~RecordFailure(q) /\ ~CommitFail(q)
  <2>1. ASSUME NEW p \in DOMAIN promos PROVE ~BeginComplete(q, p) /\ ~BeginFail(q, p)
    BY <1>3 DEF BeginComplete, BeginFail
  <2>2. ~Apply(q)
    BY <1>3, Zenon DEF Apply
  <2>3. ~CommitFails(q)
    <3>1. [promoter[q] EXCEPT !.at = "restore"].at # "idle"
      <4>1. IsPromoter(promoter[q])
        BY DEF RequestsInv
      <4> QED
        BY <4>1 DEF IsPromoter
    <3> QED
      BY <1>3, <3>1 DEF CommitFails
  <2>4. ~RestoreFails(q)
    BY <1>3 DEF RestoreFails
  <2>5. ~RecordFailure(q) /\ ~CommitFail(q)
    BY <1>3 DEF RecordFailure, CommitFail
  <2> QED
    BY <2>1, <2>2, <2>3, <2>4, <2>5
<1>9. ASSUME NEW q \in Promoters, CommitPromotion(q) PROVE q = r
  BY <1>4, <1>9 DEF CommitPromotion
<1>10. ASSUME NEW q \in Promoters, Restore(q) PROVE FALSE
  <2>1. q # r /\ promoter' = [Others(q) EXCEPT ![q].at = "record", ![q].outcome = "rolled_back"]
    BY <1>1, <1>10, Zenon DEF Restore
  <2>2. PICK t : t = [Others(q)[q] EXCEPT !.at = "record", !.outcome = "rolled_back"]
    OBVIOUS
  <2>3. promoter' = [Others(q) EXCEPT ![q] = t]
    BY <2>1, <2>2
  <2> QED
    BY <1>4, <2>1, <2>3
<1> QED
  <2>1. CASE UNCHANGED copiesVars
    BY <1>5, <2>1 DEF copiesVars, promotionVars
  <2>2. CASE PromotionNext
    BY <1>6, <1>7, <1>8, <1>9, <1>10, <2>2 DEF PromotionNext
  <2> QED
    BY <1>6, <2>1, <2>2 DEF Next

\* A completed promotion has brought everything of its source into the target, and a
\* replacement leaves no difference to it, unless somebody else wrote the target meanwhile;
\* an additive or manual one has changed nothing the target had (complete_promotion).
THEOREM PromotionsCarryTheSourceAlways == Spec => PromotionsCarryTheSource
<1> DEFINE Carries == \A r \in Promoters : Completes(r) =>
              /\ promoter[r].alone => CarriesTheSource(r)
              /\ promos[promoter[r].promo].strategy # "replace" =>
                    rows[Target] \subseteq rows'[Target] /\ cells[Target] \subseteq cells'[Target]
<1>1. CopiesInv /\ [Next]_copiesVars => [Carries]_<<rows, cells, promoter>>
  BY OnlyCommitCompletes, CommitCarries DEF CopiesInv
<1> QED
  BY <1>1, CopiesInvariant, PTL DEF Spec, PromotionsCarryTheSource

===============================================================================
