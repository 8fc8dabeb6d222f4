------------------------------- MODULE Planning -------------------------------
(***************************************************************************)
(* Top-down and bottom-up planning of one line item over the items of one    *)
(* dimension: services/planning.py and engine/spread.py.  A request reads,    *)
(* computes, and writes one cell after the other, each write_cell committing  *)
(* by itself; requests and edits interleave between those writes, and a write  *)
(* that fails ends its request with the cells written so far.                *)
(*                                                                         *)
(* Shares are fractions: [den, nums].  The model takes the requests whose     *)
(* results are whole numbers; the rounding of floats is left out.            *)
(***************************************************************************)
EXTENDS Integers, Sequences, SequencesExt, FiniteSets, FiniteSetsExt

CONSTANTS Items,       \* the dimension's items
          ParentOf,    \* item -> its parent, or NoItem
          SortOrder,   \* the items in the order of sort_order and name
          NoItem,
          Clients,     \* requests
          Bulks,       \* what bulk_spread is asked: sequences of spreads
          CellNumbers, \* values users type
          Summaries,   \* summary methods of the line item
          MaxPlanOps   \* bound on requests and edits

(* Every item stands once in the order and no item is its own parent; longer   *)
(* cycles of parents there may be.                                           *)
Methods == {"even", "proportional", "manual", "weighted"}
SummaryMethods ==
  {"none", "formula", "sum", "average", "weighted_average", "min", "max", "count",
   "first", "opening_balance", "last", "closing_balance"}
IsSpread(s) ==
  s.parent \in Items /\ s.target \in Int /\ s.method \in Methods /\ s.weights \in Seq(Int)
ASSUME PlanAssumption ==
  /\ SortOrder \in Seq(Items) /\ \A item \in Items : \E i \in DOMAIN SortOrder : SortOrder[i] = item
  /\ \A i, j \in DOMAIN SortOrder : SortOrder[i] = SortOrder[j] => i = j
  /\ NoItem \notin Items \cup Clients /\ ParentOf \in [Items -> Items \cup {NoItem}]
  /\ \A item \in Items : ParentOf[item] # item
  /\ CellNumbers \subseteq Int /\ Summaries \subseteq SummaryMethods
  /\ \A spreads \in Bulks : spreads \in Seq(Range(spreads)) /\ \A s \in Range(spreads) : IsSpread(s)

VARIABLES cellOf,    \* item -> number, for the items with a cell
          summary,   \* the line item's summary method
          planRequests,  \* client -> its request
          planOps

planVars == <<cellOf, summary, planRequests, planOps>>

PlanIdle == [kind |-> "idle"]
SumFirst(values, n) ==
  LET sum[k \in 0..n] == IF k = 0 THEN 0 ELSE sum[k - 1] + values[k]
  IN sum[n]
SumOf(values) == SumFirst(values, Len(values))
AbsOf(x) == IF x < 0 THEN -x ELSE x

_get_children(parent) ==
  LET among[n \in 0..Len(SortOrder)] ==
        IF n = 0 THEN <<>>
        ELSE IF ParentOf[SortOrder[n]] = parent THEN Append(among[n - 1], SortOrder[n]) ELSE among[n - 1]
  IN among[Len(SortOrder)]
Parents == {item \in Items : \E child \in Items : ParentOf[child] = item}
_read_cell_value(item) == IF item \in DOMAIN cellOf THEN cellOf[item] ELSE 0
ValuesOf(children) == [i \in DOMAIN children |-> _read_cell_value(children[i])]

HasDepths(depth) ==
  \A item \in Items : depth[item] = IF ParentOf[item] = NoItem THEN 0 ELSE 1 + depth[ParentOf[item]]
Acyclic == \E depth \in [Items -> 0..Len(SortOrder)] : HasDepths(depth)
_get_depth[item \in Items] == IF ParentOf[item] = NoItem THEN 0 ELSE 1 + _get_depth[ParentOf[item]]

(* engine/spread.py *)
Evenly(n, total) == [den |-> n, nums |-> [i \in 1..n |-> total]]
compute_proportions(values) ==
  LET total == SumOf([i \in DOMAIN values |-> AbsOf(values[i])])
  IN IF total = 0 THEN [den |-> Len(values), nums |-> [i \in DOMAIN values |-> 1]]
     ELSE [den |-> total, nums |-> [i \in DOMAIN values |-> AbsOf(values[i])]]

spread_value(total, n, method, weights, existing) ==
  CASE method = "even" -> Evenly(n, total)
    [] method = "proportional" ->
         LET p == compute_proportions(existing) IN [p EXCEPT !.nums = [i \in 1..n |-> total * @[i]]]
    [] method = "manual" -> [den |-> 1, nums |-> existing]
    [] method = "weighted" ->
         IF weights = <<>> \/ SumOf(weights) = 0 THEN Evenly(n, total)
         ELSE LET sign == IF SumOf(weights) < 0 THEN -1 ELSE 1
              IN [den |-> sign * SumOf(weights), nums |-> [i \in 1..n |-> total * (sign * weights[i])]]

SpreadRaises(n, method, weights) == method = "weighted" /\ Len(weights) \notin {0, n}

aggregate_values(values, method) ==
  IF values = <<>> THEN [den |-> 1, num |-> 0]
  ELSE CASE method = "sum" -> [den |-> 1, num |-> SumOf(values)]
         [] method \in {"average", "weighted_average"} -> [den |-> Len(values), num |-> SumOf(values)]
         [] method = "min" -> [den |-> 1, num |-> Min(Range(values))]
         [] method = "max" -> [den |-> 1, num |-> Max(Range(values))]
         [] method = "count" -> [den |-> 1, num |-> Len(values)]
         [] method \in {"first", "opening_balance"} -> [den |-> 1, num |-> values[1]]
         [] method \in {"last", "closing_balance"} -> [den |-> 1, num |-> values[Len(values)]]

SummaryKey == IF summary \in {"none", "formula"} THEN "sum" ELSE summary
Aggregated(values) == aggregate_values(values, SummaryKey)
Whole(shares) == \A i \in DOMAIN shares.nums : shares.nums[i] % shares.den = 0
-----------------------------------------------------------------------------
PlanInit ==
  /\ cellOf \in [Items -> CellNumbers] /\ summary \in Summaries
  /\ planRequests = [c \in Clients |-> PlanIdle] /\ planOps = 0

PlanCounted == planOps < MaxPlanOps /\ planOps' = planOps + 1

(* A cell is written: the other requests under way no longer see what they    *)
(* saw (disturbed is the history the properties need).                       *)
Disturbed(by) == [c \in Clients |-> IF c # by /\ planRequests[c] # PlanIdle THEN [planRequests[c] EXCEPT !.disturbed = TRUE] ELSE planRequests[c]]
PlanWrite(item, value) == cellOf' = [i \in DOMAIN cellOf \cup {item} |-> IF i = item THEN value ELSE cellOf[i]]

EditCell(item, value) ==
  /\ PlanCounted /\ PlanWrite(item, value) /\ planRequests' = Disturbed(NoItem) /\ UNCHANGED summary

(* Of several spreads, [parent, target, method, weights], each is computed    *)
(* when its turn comes.                                                     *)
bulk_spread(c, spreads) ==
  /\ PlanCounted /\ planRequests[c] = PlanIdle
  /\ planRequests' = [planRequests EXCEPT ![c] =
       [kind |-> "spread", todo |-> spreads, left |-> <<>>, made |-> <<>>, disturbed |-> FALSE]]
  /\ UNCHANGED <<cellOf, summary>>

spread_top_down(c) ==
  /\ planRequests[c].kind = "spread" /\ planRequests[c].left = <<>> /\ planRequests[c].todo # <<>>
  /\ LET s == Head(planRequests[c].todo)
         children == _get_children(s.parent)
         shares == spread_value(s.target, Len(children), s.method, s.weights, ValuesOf(children))
     IN IF children = <<>> \/ SpreadRaises(Len(children), s.method, s.weights)
        THEN planRequests' = [planRequests EXCEPT ![c] = PlanIdle]
        ELSE /\ Whole(shares)
             /\ planRequests' = [planRequests EXCEPT
                  ![c].todo = Tail(@), ![c].made = Append(@, s),
                  ![c].left = [i \in DOMAIN children |-> [item |-> children[i], value |-> shares.nums[i] \div shares.den]]]
  /\ UNCHANGED <<cellOf, summary, planOps>>

WriteShare(c) ==
  /\ planRequests[c].kind = "spread" /\ planRequests[c].left # <<>>
  /\ LET next == Head(planRequests[c].left)
     IN /\ PlanWrite(next.item, next.value)
        /\ planRequests' = [Disturbed(c) EXCEPT ![c].left = Tail(@)]
  /\ UNCHANGED <<summary, planOps>>

SpreadDone(c) ==
  planRequests[c].kind = "spread" /\ planRequests[c].left = <<>> /\ planRequests[c].todo = <<>>

(* One parent from its children, or all parents, the deepest first.  The      *)
(* children of a recalculation come in no particular order.  On a cycle of     *)
(* parents _get_depth never ends, and the request fails before it writes.     *)
Recalculation(c, parents, ordered) ==
  /\ PlanCounted /\ planRequests[c] = PlanIdle
  /\ planRequests' = [planRequests EXCEPT ![c] =
       [kind |-> "aggregate", parents |-> parents, of |-> NoItem, value |-> 0, all |-> parents,
        ordered |-> ordered, disturbed |-> FALSE]]
  /\ UNCHANGED <<cellOf, summary>>

aggregate_bottom_up(c, parent) == Recalculation(c, {parent}, TRUE)
recalculate_hierarchy(c) == Acyclic /\ Recalculation(c, Parents, FALSE)

NextParent_Shallow(c, parent) ==   \* mutant: sorted without reverse
  \A other \in planRequests[c].parents : _get_depth[other] >= _get_depth[parent]
NextParent(c, parent) == \A other \in planRequests[c].parents : _get_depth[other] <= _get_depth[parent]
ReadChildren(c) ==
  /\ planRequests[c].kind = "aggregate" /\ planRequests[c].of = NoItem
  /\ \E parent \in planRequests[c].parents :
       /\ planRequests[c].ordered \/ NextParent(c, parent)
       /\ \E children \in IF planRequests[c].ordered THEN {_get_children(parent)}
                          ELSE SetToSeqs({i \in Items : ParentOf[i] = parent}) :
            LET value == Aggregated(ValuesOf(children))
            IN /\ value.num % value.den = 0
               /\ planRequests' = [planRequests EXCEPT ![c].of = parent, ![c].value = value.num \div value.den]
  /\ UNCHANGED <<cellOf, summary, planOps>>

WriteParent(c) ==
  /\ planRequests[c].kind = "aggregate" /\ planRequests[c].of # NoItem
  /\ PlanWrite(planRequests[c].of, planRequests[c].value)
  /\ planRequests' = [Disturbed(c) EXCEPT ![c].parents = @ \ {planRequests[c].of}, ![c].of = NoItem]
  /\ UNCHANGED <<summary, planOps>>

AggregateDone(c) == planRequests[c].kind = "aggregate" /\ planRequests[c].of = NoItem /\ planRequests[c].parents = {}

(* The answer is sent, or a write raised. *)
Ends(c) ==
  /\ planRequests[c] # PlanIdle /\ planRequests' = [planRequests EXCEPT ![c] = PlanIdle]
  /\ UNCHANGED <<cellOf, summary, planOps>>

get_hierarchy_values(parent) == ValuesOf(_get_children(parent))

PlanNext ==
  \/ \E item \in Items, x \in CellNumbers : EditCell(item, x)
  \/ \E c \in Clients :
       \/ \E spreads \in Bulks : bulk_spread(c, spreads)
       \/ \E p \in Items : aggregate_bottom_up(c, p)
       \/ recalculate_hierarchy(c)
       \/ spread_top_down(c) \/ WriteShare(c) \/ ReadChildren(c) \/ WriteParent(c) \/ Ends(c)
PlanSpec == PlanInit /\ [][PlanNext]_planVars
-----------------------------------------------------------------------------
(* A spread nobody disturbed leaves children that add up to its target       *)
(* (manual keeps what was there), and an aggregation nobody disturbed leaves   *)
(* every parent it was about the aggregate of its children: so a hierarchy     *)
(* recalculated deepest first agrees with itself at every level               *)
(* (spread_top_down, bulk_spread, recalculate_hierarchy).                    *)
HierarchyAddsUp ==
  \A c \in Clients :
    /\ (SpreadDone(c) /\ ~planRequests[c].disturbed) =>
         \A i \in DOMAIN planRequests[c].made :
           LET s == planRequests[c].made[i]
               again == \E j \in (i + 1)..Len(planRequests[c].made) : planRequests[c].made[j].parent = s.parent
           IN again \/ s.method = "manual" \/ SumOf(get_hierarchy_values(s.parent)) = s.target
    /\ (AggregateDone(c) /\ ~planRequests[c].disturbed) =>
         \A parent \in planRequests[c].all :
           LET values == get_hierarchy_values(parent)
               value == Aggregated(values)
           IN IF planRequests[c].ordered \/ SummaryKey \notin {"first", "last", "opening_balance", "closing_balance"}
              THEN _read_cell_value(parent) * value.den = value.num
              ELSE _read_cell_value(parent) \in Range(values)
=============================================================================
