------------------------------- MODULE Promotion -------------------------------
(***************************************************************************)
(* Application lifecycle: revision tags hold snapshots of a development    *)
(* model, promotions carry them into another environment's model           *)
(* (services/alm.py, api/alm.py).                                          *)
(*                                                                         *)
(* complete_promotion is one request of several transactions.  It loads    *)
(* everything (BeginComplete), marks the record in progress - an UPDATE    *)
(* that holds the record's row until the commit - and computes from the    *)
(* target's rows what it deletes and inserts (Apply), and commits.  If     *)
(* anything fails the transaction is rolled back, and then the target is   *)
(* rebuilt from the snapshot taken at the start, in a transaction of its   *)
(* own, before the outcome is recorded.                                    *)
(***************************************************************************)
EXTENDS ModelRows

CONSTANTS Source, Target,  \* the models of the two environments
          BadAttribute,    \* a format no enumeration knows, from a client's snapshot
          Promoters,       \* concurrent requests about promotions
          MaxTags, MaxPromotions

ASSUME PromotionAssumption == Source \in Models /\ Target \in Models /\ Source # Target

Strategies == {"additive", "replace", "manual"}
NoSnapshot == [rows |-> {}, cells |-> {}]

VARIABLES
    locked,     \* ALMEnvironment.is_locked of the target
    tags,       \* revision tags: their snapshots
    promos,     \* promotion records
    promoter    \* the state of each request

promotionVars == <<locked, tags, promos, promoter>>

IdlePromoter == [at |-> "idle", promo |-> 0, source |-> NoSnapshot, before |-> NoSnapshot,
                 conflicts |-> FALSE, delete |-> {}, insert |-> NoSnapshot,
                 alone |-> TRUE, outcome |-> "completed"]

PromotionInit ==
    /\ locked = FALSE /\ tags = <<>> /\ promos = <<>>
    /\ promoter = [r \in Promoters |-> IdlePromoter]

-------------------------------------------------------------------------------
(* Snapshots.                                                               *)

\* _serialize_model_state: no versions, and of a cell only its key and plain columns.
Structure(m) == {r \in rows[m] : Kind(r) # "version"}
Serialize(m) == [rows |-> Structure(m),
                 cells |-> {[c EXCEPT !.version = NoId, !.secret = Null] : c \in cells[m]}]

\* _group_snapshot_entries: entries whose dimension or module is missing are passed over.
Rooted(S) == {r \in S.rows : r.up = NoId \/ r.up \in IdsOf(S.rows)}

\* The sections of _build_structural_diff, by names.
Names(R) == {r.id.name : r \in R}
Added(R, T) == {n \in Names(R) \ Names(T) :
                Catalogue[n].kind = "item" => Catalogue[n].up \in Names(T)}
Removed(R, T) == Added(T, R)
Modified(R, T) == {n \in Names(R) \cap Names(T) :
                   RowFaces(Named(R, n)) # RowFaces(Named(T, n))}
HasChanges(R, T) == Added(R, T) # {} \/ Removed(R, T) # {} \/ Modified(R, T) # {}

\* _get_source_snapshot_for_promotion: an empty snapshot means the live source.
SourceSnapshot(p) == IF tags[promos[p].tag] = NoSnapshot THEN Serialize(Source)
                                                         ELSE tags[promos[p].tag]

\* _build_conflict_payload: what the last completed promotion left is compared with
\* what the target is now.
Completed == {p \in DOMAIN promos : promos[p].status = "completed"}
ChangedSinceLast(now) ==
    \E p \in Completed :
        /\ \A q \in Completed : promos[q].when <= promos[p].when
        /\ HasChanges(promos[p].after, now)

-------------------------------------------------------------------------------
(* What a promotion of snapshot S does to a target that has the rows T.     *)

\* The row an entity of the source is mapped to: the target's of that name, or a new one.
TargetId(i, T, g) == IF Named(T, i.name) = {} THEN [name |-> i.name, gen |-> g]
                     ELSE (CHOOSE r \in Named(T, i.name) : TRUE).id

Mapped(ids, S, T, g) == {TargetId(i, T, g) : i \in ids \cap IdsOf(Rooted(S))}

\* Mutant: the links and parents of new rows are forgotten.
NewRows_NoLinks(S, T, g) ==
    {[r EXCEPT !.id = TargetId(r.id, T, g),
               !.up = IF r.up = NoId THEN NoId ELSE TargetId(r.up, T, g),
               !.refs = {}] : r \in {q \in Rooted(S) : Named(T, q.id.name) = {}}}
\* Rows to insert: links and parents are those of the snapshot, as far as it has them.
NewRows(S, T, g) ==
    {[r EXCEPT !.id = TargetId(r.id, T, g),
               !.up = IF r.up = NoId THEN NoId ELSE TargetId(r.up, T, g),
               !.refs = Mapped(r.refs, S, T, g)] :
     r \in {q \in Rooted(S) : Named(T, q.id.name) = {}}}

ItemIds(S) == {r.id : r \in {q \in Rooted(S) : Kind(q) = "item"}}

\* _remap_dimension_key: a cell one of whose members is no item of the snapshot - a
\* version, a deleted item - is skipped.
NewCells(S, T, g) ==
    {[c EXCEPT !.li = TargetId(c.li, T, g),
               !.key = JoinKey({TargetId(i, T, g) : i \in Range(c.key)})] :
     c \in {d \in S.cells : /\ Range(d.key) \subseteq ItemIds(S)
                            /\ d.li \in IdsOf(Rooted(S)) /\ Named(T, d.li.name) = {}}}

Insertions(S, T, g) == [rows |-> NewRows(S, T, g), cells |-> NewCells(S, T, g)]
Deleted(strategy, T) == IF strategy = "replace" THEN IdsOf(T) ELSE {}
Invalid(R) == \E r \in R : r.attr = BadAttribute

\* The new rows find the rows they refer to.
Resolves(R, insert) ==
    \A r \in insert : (r.refs \union (IF r.up = NoId THEN {} ELSE {r.up}))
                          \subseteq IdsOf(R \union insert)

\* The target after deleting the rows `delete` and inserting.
Rebuilt(delete, insert) ==
    LET left == Without(rows[Target], delete) IN
    /\ rows' = [rows EXCEPT ![Target] = left \union insert.rows]
    /\ cells' = [cells EXCEPT ![Target] = CellsOn(@, left) \union insert.cells]

-------------------------------------------------------------------------------
(* Operations.                                                              *)

SetLock(b) == locked # b /\ locked' = b /\ UNCHANGED <<modelVars, tags, promos, promoter>>

\* create_revision_tag: the model as it is, or what the client sends.
CreateTag(S) ==
    /\ Len(tags) < MaxTags
    /\ tags' = Append(tags, S)
    /\ UNCHANGED <<modelVars, locked, promos, promoter>>
ClientSnapshots == {NoSnapshot} \union
    {[rows |-> (Structure(Source) \ {r}) \union {[r EXCEPT !.attr = BadAttribute]}, cells |-> {}] :
     r \in {q \in Structure(Source) : Kind(q) = "line"}}

InitiatePromotion(tag, strategy) ==
    /\ Len(promos) < MaxPromotions
    /\ promos' = Append(promos, [status |-> "pending", tag |-> tag, strategy |-> strategy,
                                 expected |-> Structure(Target), after |-> {}, when |-> 0,
                                 conflicts |-> ChangedSinceLast(Structure(Target))])
    /\ UNCHANGED <<modelVars, locked, tags, promoter>>

Open(p) == promos[p].status \in {"pending", "in_progress"}
Becomes(r, state) == promoter' = [promoter EXCEPT ![r] = state]

Unlocked == ~locked

Conflicts(p) == \/ promos[p].conflicts
                \/ promos[p].expected # Structure(Target)
                \/ ChangedSinceLast(Structure(Target))

BeginComplete(r, p) ==
    /\ promoter[r].at = "idle" /\ Open(p) /\ Unlocked
    /\ promos[p].strategy = "manual" => ~Conflicts(p)
    /\ Becomes(r, [IdlePromoter EXCEPT !.at = "apply", !.promo = p, !.source = SourceSnapshot(p),
                                       !.before = Serialize(Target), !.conflicts = Conflicts(p)])
    /\ UNCHANGED <<modelVars, locked, tags, promos>>

\* The flushed UPDATE of the record keeps others from writing it.
Holds(r, p) == promoter[r].at = "commit" /\ promoter[r].promo = p
Writable(r, p) == \A q \in Promoters \ {r} : ~Holds(q, p)

\* _apply_additive_promotion and _apply_replace_promotion, up to the commit.
Apply(r) ==
    LET s == promoter[r]
        T == Structure(Target)
        delete == Deleted(promos[s.promo].strategy, T)
        insert(g) == Insertions(s.source, {q \in T : q.id \notin delete}, g) IN
    /\ s.at = "apply" /\ Writable(r, s.promo)
    /\ gen < MaxGeneration /\ gen' = gen + 1
    /\ Becomes(r, IF Invalid(insert(gen').rows) THEN [s EXCEPT !.at = "restore"]
                  ELSE [s EXCEPT !.at = "commit", !.insert = insert(gen'), !.delete = delete])
    /\ UNCHANGED <<rows, cells, edits, locked, tags, promos>>

\* What the session sees of the target before its commit.  Collections it has loaded
\* already, and that nothing has released since, are not loaded again: rows added under
\* a dimension or module the target had may be missing.
SeenAfter(r) ==
    LET new == promoter[r].insert.rows
        under == {q \in new : q.up # NoId /\ q.up \notin IdsOf(new)} IN
    {{q \in rows'[Target] : Kind(q) # "version"}, {q \in rows'[Target] \ under : Kind(q) # "version"}}

Clock == Cardinality({p \in DOMAIN promos : promos[p].when > 0}) + 1

\* For the properties: requests under way are not alone once someone else writes the target.
Disturbed(R) == [q \in Promoters |->
                    [promoter[q] EXCEPT !.alone = @ /\ (q \notin R \/ promoter[q].at = "idle")]]
Others(r) == Disturbed(Promoters \ {r})

CommitPromotion(r) ==
    LET s == promoter[r] IN
    /\ s.at = "commit"
    /\ Resolves(Without(rows[Target], s.delete), s.insert.rows)
    /\ Rebuilt(s.delete, s.insert)
    /\ \E seen \in SeenAfter(r) :
        promos' = [promos EXCEPT ![s.promo].status = "completed", ![s.promo].after = seen,
                                 ![s.promo].when = Clock]
    /\ promoter' = [Others(r) EXCEPT ![r] = IdlePromoter]
    /\ UNCHANGED <<gen, edits, locked, tags>>

\* A row the new ones refer to is gone, or the database fails otherwise.
CommitFails(r) ==
    /\ promoter[r].at = "commit"
    /\ Becomes(r, [promoter[r] EXCEPT !.at = "restore"])
    /\ UNCHANGED <<modelVars, locked, tags, promos>>

\* Mutant: the snapshot is added to what the target has.
RestoreDeletes_Nothing == {}
RestoreDeletes == IdsOf(Structure(Target))

\* The rollback is over; the target is replaced by the snapshot of its former state.
Restore(r) ==
    LET s == promoter[r] IN
    /\ s.at = "restore" /\ gen < MaxGeneration
    /\ gen' = gen + 1 /\ Rebuilt(RestoreDeletes, Insertions(s.before, {}, gen'))
    /\ promoter' = [Others(r) EXCEPT ![r].at = "record", ![r].outcome = "rolled_back"]
    /\ UNCHANGED <<edits, locked, tags, promos>>

RestoreFails(r) ==
    /\ promoter[r].at = "restore"
    /\ Becomes(r, [promoter[r] EXCEPT !.at = "record", !.outcome = "failed"])
    /\ UNCHANGED <<modelVars, locked, tags, promos>>

RecordFailure(r) ==
    LET s == promoter[r] IN
    /\ s.at = "record" /\ Writable(r, s.promo)
    /\ promos' = [promos EXCEPT ![s.promo].status = s.outcome, ![s.promo].when = 0]
    /\ Becomes(r, IdlePromoter)
    /\ UNCHANGED <<modelVars, locked, tags>>

\* fail_promotion.
BeginFail(r, p) ==
    /\ promoter[r].at = "idle" /\ Open(p)
    /\ Becomes(r, [IdlePromoter EXCEPT !.at = "fail", !.promo = p])
    /\ UNCHANGED <<modelVars, locked, tags, promos>>
CommitFail(r) ==
    LET s == promoter[r] IN
    /\ s.at = "fail" /\ Writable(r, s.promo)
    /\ promos' = [promos EXCEPT ![s.promo].status = "failed", ![s.promo].when = 0]
    /\ Becomes(r, IdlePromoter)
    /\ UNCHANGED <<modelVars, locked, tags>>

\* Everyone else's writes.
Elsewhere(write) ==
    /\ write
    /\ promoter' = Disturbed(IF UNCHANGED <<rows[Target], cells[Target]>> THEN {} ELSE Promoters)
    /\ UNCHANGED <<locked, tags, promos>>

PromotionNext ==
    \/ Elsewhere(UserEdits)
    \/ \E b \in BOOLEAN : SetLock(b)
    \/ CreateTag(Serialize(Source)) \/ \E S \in ClientSnapshots : CreateTag(S)
    \/ \E t \in DOMAIN tags, strategy \in Strategies : InitiatePromotion(t, strategy)
    \/ \E r \in Promoters :
        \/ \E p \in DOMAIN promos : BeginComplete(r, p) \/ BeginFail(r, p)
        \/ Apply(r) \/ CommitPromotion(r) \/ CommitFails(r)
        \/ Restore(r) \/ RestoreFails(r) \/ RecordFailure(r) \/ CommitFail(r)

-------------------------------------------------------------------------------
(* Properties.                                                              *)

Completes(r) == promoter[r].at = "commit" /\ promoter'[r].at = "idle"
TargetFaces == RowFaces(Structure(Target))

\* Nothing of the snapshot is missing in the target after the step, and a replacement
\* leaves no difference at all.
CarriesTheSource(r) ==
    /\ Added(Rooted(promoter[r].source), Structure(Target)') = {}
    /\ promos[promoter[r].promo].strategy = "replace" =>
          /\ ~HasChanges(Rooted(promoter[r].source), Structure(Target)')
          /\ Cardinality(Structure(Target)') = Cardinality(Rooted(promoter[r].source))

\* A promotion carries everything of its source, if nobody else wrote the target while it
\* ran; and an additive or manual one changes nothing the target has - every row and every
\* cell stays as it was, whatever the snapshot says of it and whoever else commits
\* (_apply_additive_promotion, _apply_replace_promotion, and the diff they are judged by).
PromotionsCarryTheSource ==
    [][\A r \in Promoters : Completes(r) =>
        /\ promoter[r].alone => CarriesTheSource(r)
        /\ promos[promoter[r].promo].strategy # "replace" =>
              rows[Target] \subseteq rows'[Target] /\ cells[Target] \subseteq cells'[Target]
      ]_<<rows, cells, promoter>>

\* Cells a reader finds under the items there are, readable without a key.
PlainCells(m) == {CellFace(c) : c \in {d \in cells[m] : /\ d.plain # Null
                    /\ \A i \in Range(d.key) : i \in IdsOf(Structure(m))}}

\* After a failed promotion that reports rolled_back the target is what it was before it
\* began, ids apart: its structure, its versions, and its cells without version and
\* without encryption - if nobody else wrote it meanwhile.
RestoreIsFaithful ==
    [][\A r \in Promoters :
        (promoter[r].at = "restore" /\ promoter'[r].outcome = "rolled_back" /\ promoter[r].alone) =>
            /\ TargetFaces' = TargetFaces
            /\ Cardinality(Structure(Target)') = Cardinality(Structure(Target))
            /\ PlainCells(Target)' = PlainCells(Target)
            /\ rows'[Target] \ Structure(Target)' = rows[Target] \ Structure(Target)
      ]_<<rows, cells, promoter>>

\* ROADMAP.md: "Rollback: Store pre-promotion snapshot, restore on failure".
RollbackKeepsCells ==
    [][\A r \in Promoters :
        (promoter[r].at = "restore" /\ promoter'[r].outcome = "rolled_back" /\ promoter[r].alone) =>
            Cardinality(cells'[Target]) = Cardinality(cells[Target])]_<<rows, cells, promoter>>
===============================================================================
