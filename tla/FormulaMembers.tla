--------------------------- MODULE FormulaMembers ---------------------------
(***************************************************************************)
(* The functions of engine/evaluator.py on list members: PARENT, CHILDREN,  *)
(* ISLEAF, ISANCESTOR, FINDITEM, ITEM, NAME and CODE, and SUM, SELECT,      *)
(* LOOKUP and COLLECT through a mapping.  The context lists the members of a dimension         *)
(* (DIMENSION_MEMBERS) as planners build it: members are added and moved,   *)
(* also under their own descendants.                                        *)
(*                                                                         *)
(* A reference is the set of its key candidates: one token when a formula   *)
(* writes an id, code or name, the three of them for a whole member, none   *)
(* for None.                                                               *)
(***************************************************************************)
EXTENDS Integers, Sequences, SequencesExt, FiniteSetsExt

CONSTANTS Ids,       \* member ids, in the order they are listed
          Names,     \* the names members carry; two may carry the same
          MaxMoves   \* how often members are moved

VARIABLES members,   \* the context's list of members
          moves

memberVars == <<members, moves>>

NoOne == {}
Id(i) == <<"id", i>>
Code(i) == <<"code", i>>
Member(i, name, parent) == [id |-> Id(i), code |-> Code(i), name |-> <<"name", name>>, parent |-> parent]
_member_key_candidates(m) == {m.id, m.code, m.name}
_match_member(x, y) == x \cap y # {}

(* A whole member is its own record; a token stands for the first member   *)
(* that has it.                                                            *)
Records(x) ==
  LET same == SelectSeq(members, LAMBDA m: _member_key_candidates(m) = x)
  IN  IF same # <<>> THEN same ELSE SelectSeq(members, LAMBDA m: _match_member(_member_key_candidates(m), x))
_resolve_parent(x) == IF Records(x) = <<>> THEN NoOne ELSE Records(x)[1].parent
(* Members name their parent by its id: a reference by name or code alone  *)
(* finds no children.                                                      *)
_resolve_children(x) == SelectSeq(members, LAMBDA m: _match_member(m.parent, x))
IsLeaf(x) == _resolve_children(x) = <<>>
_fn_finditem(list, x) ==
  LET found == SelectSeq(list, LAMBDA m: _match_member(_member_key_candidates(m), x))
  IN  IF found = <<>> THEN NoOne ELSE _member_key_candidates(found[1])
_fn_name(x) == IF Records(x) = <<>> THEN x ELSE {Records(x)[1].name}
_fn_code(x) == IF Records(x) = <<>> THEN x ELSE {Records(x)[1].code}
(* The walk up ends at the top or at the first parent it meets again.      *)
RECURSIVE Climbs(_, _, _)
Climbs(ancestor, x, seen) ==
  LET parent == _resolve_parent(x)
  IN  /\ parent # NoOne
      /\ _match_member(parent, ancestor) \/ (parent \notin seen /\ Climbs(ancestor, parent, seen \cup {parent}))
_fn_isancestor(ancestor, x) == ~_match_member(ancestor, x) /\ Climbs(ancestor, x, {})

(* Values by composite key: a key is the set of its members' tokens, and a *)
(* mapping selects the keys that have all the tokens it names.             *)
_lookup_values_from_source_map(source, required) == IF required = {} THEN {} ELSE {key \in DOMAIN source: required \subseteq key}
_fn_sum_mapped(source, required) == MapThenSumSet(LAMBDA key: source[key], _lookup_values_from_source_map(source, required))
_fn_select(source, required) ==
  LET keys == _lookup_values_from_source_map(source, required) IN {source[key]: key \in keys}
_fn_collect(source, required) ==
  LET keys == _lookup_values_from_source_map(source, required) IN IF keys = {} THEN DOMAIN source ELSE keys

(* From a list of members: by position, from 0, or by any token they have.  *)
(* SUM takes the whole list when the mapping selects nothing.               *)
_lookup_values_from_source_list(source, by, x) ==
  LET known(is) == SelectSeq(is, LAMBDA i: i \in 0..(Len(source) - 1))
      at(is) == [n \in DOMAIN known(is) |-> source[known(is)[n] + 1]]
  IN  CASE by = "index" -> at(<<x>>)
        [] by = "indexes" -> at(x)
        [] by = "item" -> SelectSeq(source, LAMBDA m: _match_member(m, x))
_fn_lookup(source, by, x) ==
  LET selected == _lookup_values_from_source_list(source, by, x) IN IF selected = <<>> THEN NoOne ELSE selected[1]
SummedFrom(source, indexes) ==
  LET selected == _lookup_values_from_source_list(source, "indexes", indexes)
  IN  FoldLeft(+, 0, IF selected = <<>> THEN source ELSE selected)


(* ITEM of a list by its name: its current item, else the current item of   *)
(* any list, else the name itself.                                         *)
_lookup_current_item_by_name(current, list) == IF list \in DOMAIN current.items THEN current.items[list] ELSE NoOne
_fn_item(current, list) ==
  CASE _lookup_current_item_by_name(current, list) # NoOne -> _lookup_current_item_by_name(current, list)
    [] _lookup_current_item_by_name(current, list) = NoOne /\ current.item # NoOne -> current.item
    [] OTHER -> {list}

(* Calls as formulas write them: one value, or none with a FormulaError.    *)
MemberArity == [FINDITEM |-> {2}, ITEM |-> {1}, PARENT |-> {1}, CHILDREN |-> {1}, ISLEAF |-> {1}, ISANCESTOR |-> {2},
                LOOKUP |-> {1, 2}, SELECT |-> {2}, NAME |-> {1}, CODE |-> {1}, COLLECT |-> {2}]
MemberCalled(name, args, current) ==
  IF Len(args) \notin MemberArity[name] THEN <<>>
  ELSE <<CASE name = "FINDITEM" -> _fn_finditem(args[1], args[2])
           [] name = "ITEM" -> _fn_item(current, args[1])
           [] name = "PARENT" -> _resolve_parent(args[1])
           [] name = "CHILDREN" -> _resolve_children(args[1])
           [] name = "ISLEAF" -> IsLeaf(args[1])
           [] name = "ISANCESTOR" -> _fn_isancestor(args[1], args[2])
           [] name = "LOOKUP" -> IF Len(args) = 1 THEN args[1] ELSE _fn_lookup(args[1], args[2][1], args[2][2])
           [] name = "SELECT" -> _fn_select(args[1], args[2])
           [] name = "NAME" -> _fn_name(args[1])
           [] name = "CODE" -> _fn_code(args[1])
           [] name = "COLLECT" -> _fn_collect(args[1], args[2])>>

----------------------------------------------------------------------------
MembersInit == members = <<>> /\ moves = 0
ParentRefs == {NoOne} \cup {{members[i].id}: i \in DOMAIN members}
AddMember ==
  /\ Len(members) < Len(Ids)
  /\ \E name \in Names, parent \in ParentRefs: members' = Append(members, Member(Ids[Len(members) + 1], name, parent))
  /\ UNCHANGED moves
MoveMember ==
  /\ moves < MaxMoves
  /\ \E i \in DOMAIN members, parent \in ParentRefs: parent # members[i].parent /\ members' = [members EXCEPT ![i].parent = parent]
  /\ moves' = moves + 1

ById(m) == {m.id}
ParentIds == {<<m.parent, ById(m)>>: m \in {k \in ToSet(members): k.parent # NoOne}}
RECURSIVE Up(_, _)
Up(refs, n) == IF n = 0 THEN refs ELSE Up(refs \cup {e[1]: e \in {f \in ParentIds: f[2] \in refs}}, n - 1)
Above(m) == Up({m.parent}, Len(members)) \ {NoOne}
(* The hierarchy functions agree with the parent links, cycles included:    *)
(* ISANCESTOR is their closure without the member itself, CHILDREN inverts  *)
(* PARENT, a leaf is a member no one names as parent, codes (names when     *)
(* they are not shared) find their member again, and the current item of a  *)
(* list, else of any list, stands for its member.                           *)
Free == [items |-> <<>>, item |-> NoOne]
Answers(name, args) == MemberCalled(name, args, Free)[1]
HierarchyAgrees ==
  \A m, n \in ToSet(members):
    /\ Answers("ISANCESTOR", <<ById(m), ById(n)>>) <=> m # n /\ ById(m) \in Above(n)
    /\ m.name # n.name =>
         (Answers("ISANCESTOR", <<_member_key_candidates(m), _member_key_candidates(n)>>) <=> ById(m) \in Above(n))
    /\ (n \in ToSet(Answers("CHILDREN", <<ById(m)>>))) <=> (Answers("PARENT", <<ById(n)>>) = ById(m))
    /\ Answers("ISLEAF", <<ById(m)>>) <=> \A k \in ToSet(members): k.parent # ById(m)
    /\ Answers("FINDITEM", <<members, Answers("CODE", <<ById(m)>>)>>) = _member_key_candidates(m)
    /\ (\A k \in ToSet(members) \ {m}: k.name # m.name) =>
         Answers("FINDITEM", <<members, Answers("NAME", <<ById(m)>>)>>) = _member_key_candidates(m)
    /\ LET items == [list \in {"of m"} |-> {m.code}]
           item(list) == MemberCalled("ITEM", <<list>>, [items |-> items, item |-> {n.code}])[1]
       IN  /\ Answers("PARENT", <<item("of m")>>) = m.parent
           /\ Answers("PARENT", <<item("other")>>) = n.parent
           /\ MemberCalled("ITEM", <<m.code>>, Free)[1] = {m.code}
(* Sums through a mapping split: over the members of one dimension they    *)
(* give the total, two tokens select one value; a list gives by position    *)
(* what it gives by a token that only that member has.                      *)
Source == [key \in {{m.id, t}: m \in ToSet(members), t \in {<<"time", 1>>, <<"time", 2>>}} |->
             LET row == CHOOSE i \in DOMAIN members: members[i].id \in key IN IF <<"time", 1>> \in key THEN row ELSE 10 * row]
MappedSumsSplit ==
  /\ MapThenSumSet(LAMBDA m: _fn_sum_mapped(Source, {m.id}), ToSet(members)) = MapThenSumSet(LAMBDA k: Source[k], DOMAIN Source)
  /\ \A key \in DOMAIN Source: Answers("SELECT", <<Source, key>>) = {Source[key]} /\ Answers("COLLECT", <<Source, key>>) = {key}
  /\ LET listed == [i \in DOMAIN members |-> _member_key_candidates(members[i])]
         amounts == [i \in DOMAIN members |-> i * i]
         looked(by, x) == Answers("LOOKUP", <<listed, <<by, x>> >>)
     IN  \A i \in DOMAIN members:
           /\ looked("item", Answers("CODE", <<ById(members[i])>>)) = looked("index", i - 1)
           /\ looked("item", {members[i].name}) = Answers("FINDITEM", <<members, {members[i].name}>>)
           /\ looked("index", Len(members) + i) = NoOne
           /\ SummedFrom(amounts, <<i - 1, Len(members)>>) = i * i
           /\ SummedFrom(amounts, <<-i>>) = SummedFrom(amounts, [j \in DOMAIN members |-> j - 1])
=============================================================================
