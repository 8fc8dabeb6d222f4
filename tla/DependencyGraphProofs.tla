------------------------- MODULE DependencyGraphProofs -------------------------
(***************************************************************************)
(* Theorems about DependencyGraph, for every finite set of nodes: the two  *)
(* directions of the edges agree, the orders that get_calculation_order     *)
(* and get_recalc_order return are right, and the cycles detect_cycles      *)
(* returns are cycles, one at least if there is any.                        *)
(***************************************************************************)
EXTENDS DependencyGraph, FiniteSetTheorems, TLAPS

-------------------------------------------------------------------------------
(* The inductive invariant.                                                 *)

GraphTypes ==
    /\ nodes \subseteq Nodes
    /\ deps \in [Nodes -> SUBSET Nodes]
    /\ dependents \in [Nodes -> SUBSET Nodes]

Phases  == {"idle", "downstream", "sort", "sorted", "cyclic", "dfs", "detected"}
Sorting == phase \in {"sort", "sorted", "cyclic"}

CallTypes ==
    /\ phase \in Phases
    /\ changed \subseteq Nodes /\ subset \subseteq nodes /\ frontier \subseteq subset
    /\ result \in Seq(subset)

\* Outside a sort there is no result; outside both loops nothing is collected either.
Cleared ==
    /\ ~Sorting => result = <<>>
    /\ phase \in {"idle", "dfs", "detected"} => changed = {} /\ subset = {} /\ frontier = {}

Closed(T) == \A n \in T : dependents[n] \subseteq T

\* The loop of _downstream_set: what left the queue has its dependents collected, and
\* nothing is collected that a closed set around the change could do without.
Collecting ==
    /\ changed \intersect nodes \subseteq subset
    /\ \A n \in subset \ frontier : dependents[n] \subseteq subset
    /\ \A T \in SUBSET nodes : (changed \intersect nodes \subseteq T /\ Closed(T)) => subset \subseteq T

DownstreamInv == phase = "downstream" => Collecting

\* What a node of the subset still waits for.
Waits(m) == (deps[m] \intersect subset) \ Elements(result)

\* The loop of Kahn's algorithm: the degrees count what nodes wait for, and the nodes
\* that wait for nothing are ready.
KahnInv ==
    Sorting =>
        /\ inDegree = [m \in subset |-> Cardinality(Waits(m))]
        /\ ready = {m \in subset \ Elements(result) : Waits(m) = {}}
        /\ phase # "sort" => ready = {}
        /\ phase = "sorted" <=> (phase # "sort" /\ Len(result) = Cardinality(subset))

IInv ==
    /\ GraphTypes /\ EdgesAgree /\ CallTypes /\ Cleared
    /\ DownstreamInv /\ KahnInv /\ DependenciesFirst /\ RecalcIsMinimal

-------------------------------------------------------------------------------
(* Facts about sets and sequences.                                          *)

\* The elements of a sequence with one more.
LEMMA ElementsOfAppend ==
    ASSUME NEW S, NEW s \in Seq(S), NEW x \in S
    PROVE  Elements(Append(s, x)) = Elements(s) \union {x}
<1>1. DOMAIN s = 1 .. Len(s) /\ Len(s) \in Nat
  OBVIOUS
<1>2. DOMAIN Append(s, x) = 1 .. Len(s) + 1
  OBVIOUS
<1>3. \A i \in 1 .. Len(s) : Append(s, x)[i] = s[i]
  OBVIOUS
<1>4. Append(s, x)[Len(s) + 1] = x
  OBVIOUS
<1>5. 1 .. Len(s) + 1 = (1 .. Len(s)) \union {Len(s) + 1}
  BY <1>1
<1> QED
  BY <1>1, <1>2, <1>3, <1>4, <1>5 DEF Elements

\* What a node waits for is finite, and counted by a natural number.
LEMMA WaitsFinite ==
    ASSUME GraphTypes, NEW m \in Nodes
    PROVE  /\ IsFiniteSet(Waits(m)) /\ Cardinality(Waits(m)) \in Nat
           /\ Cardinality(Waits(m)) = 0 <=> Waits(m) = {}
<1>1. Waits(m) \in SUBSET Nodes
  BY DEF Waits, GraphTypes
<1>2. IsFiniteSet(Nodes)
  BY DependencyGraphAssumption DEF DependencyGraphAssumption
<1>3. IsFiniteSet(Waits(m))
  BY <1>1, <1>2, FS_Subset
<1> QED
  BY <1>3, FS_CardinalityType, FS_EmptySet

\* A result without repetition is as long as the subset iff it holds all of it.
LEMMA FullResult ==
    ASSUME CallTypes, GraphTypes, DependenciesFirst
    PROVE  Len(result) = Cardinality(subset) <=> Elements(result) = subset
<1>1. IsFiniteSet(Nodes)
  BY DependencyGraphAssumption DEF DependencyGraphAssumption
<1>2. subset \in SUBSET Nodes
  BY DEF CallTypes, GraphTypes
<1>3. IsFiniteSet(subset)
  BY <1>1, <1>2, FS_Subset
<1>4. Len(result) \in Nat /\ result \in [1 .. Len(result) -> subset]
  BY DEF CallTypes
<1>5. \A i, j \in 1 .. Len(result) : result[i] = result[j] => i = j
  BY <1>4 DEF DependenciesFirst
<1>6. result \in Injection(1 .. Len(result), subset)
  BY <1>4, <1>5 DEF Injection, IsInjective
<1>7. Cardinality(1 .. Len(result)) = Len(result)
  BY <1>4, FS_Interval
<1>8. Cardinality(1 .. Len(result)) = Cardinality(subset)
          <=> result \in Surjection(1 .. Len(result), subset)
  BY <1>3, <1>6, FS_Injection
<1>9. result \in Surjection(1 .. Len(result), subset) <=> Elements(result) = subset
  BY <1>4 DEF Surjection, Elements
<1> QED
  BY <1>7, <1>8, <1>9

-------------------------------------------------------------------------------
(* The start of a sort, for any set of registered nodes.                    *)

LEMMA SortStarts ==
    ASSUME GraphTypes, NEW S \in SUBSET nodes, StartSort(S), UNCHANGED graph
    PROVE  KahnInv' /\ result' = <<>> /\ subset' = S /\ Sorting' /\ DependenciesFirst'
<1>1. subset' = S /\ result' = <<>> /\ phase' = "sort"
  BY DEF StartSort
<1>2. Elements(result') = {}
  BY <1>1 DEF Elements
<1>3. \A m \in Nodes : Waits(m)' = deps[m] \intersect S
  BY <1>1, <1>2 DEF Waits, graph
<1>4. S \subseteq Nodes
  BY DEF GraphTypes
<1>5. inDegree' = [m \in S |-> Cardinality(deps[m] \intersect S)]
  BY DEF StartSort, InDegree
<1>6. inDegree' = [m \in subset |-> Cardinality(Waits(m))]'
  BY <1>1, <1>3, <1>4, <1>5
<1>7. GraphTypes'
  BY DEF GraphTypes, graph
<1>8. ASSUME NEW m \in S
      PROVE  InDegree(S)[m] = 0 <=> Waits(m)' = {}
  <2>1. m \in Nodes
    BY <1>4
  <2>2. InDegree(S)[m] = Cardinality(Waits(m)')
    BY <1>3, <2>1 DEF InDegree
  <2>3. deps[m] \intersect S \in SUBSET Nodes
    BY <1>4
  <2>4. IsFiniteSet(deps[m] \intersect S)
    BY <2>3, FS_Subset, DependencyGraphAssumption DEF DependencyGraphAssumption
  <2> QED
    BY <1>3, <2>1, <2>2, <2>4, FS_EmptySet
<1>9. ready' = {m \in S : InDegree(S)[m] = 0}
  BY DEF StartSort
<1>10. ready' = {m \in subset \ Elements(result) : Waits(m) = {}}'
  BY <1>1, <1>2, <1>8, <1>9
<1>11. KahnInv'
  BY <1>1, <1>6, <1>10 DEF KahnInv
<1>12. DependenciesFirst'
  BY <1>1 DEF DependenciesFirst
<1> QED
  BY <1>1, <1>11, <1>12 DEF Sorting

-------------------------------------------------------------------------------
(* Changes of the graph: nothing is collected or sorted meanwhile.          *)

\* Both directions of the edges change together (add_node, add_dependency,
\* remove_node, build_from_formulas).
LEMMA MutationsKeepGraph ==
    ASSUME GraphTypes, EdgesAgree,
           \/ \E n \in Nodes : AddNode(n) \/ RemoveNode(n)
           \/ \E e \in Edges : AddDependency(e[1], e[2])
           \/ \E refs \in Formulas : BuildFromFormulas(refs)
    PROVE  GraphTypes' /\ EdgesAgree'
<1>1. CASE \E n \in Nodes : AddNode(n)
  BY <1>1 DEF AddNode, GraphTypes, EdgesAgree
<1>2. CASE \E n \in Nodes : RemoveNode(n)
  <2>1. PICK x \in Nodes : RemoveNode(x)
    BY <1>2
  <2>2. GraphTypes'
    BY <2>1 DEF RemoveNode, GraphTypes
  <2>3. ASSUME NEW n \in Nodes, NEW d \in Nodes
        PROVE  (d \in deps'[n] <=> d \in deps[n] /\ n # x /\ d # x)
               /\ (n \in dependents'[d] <=> n \in dependents[d] /\ n # x /\ d # x)
    BY <2>1 DEF RemoveNode, GraphTypes, EdgesAgree
  <2>4. nodes' = nodes \ {x}
    BY <2>1 DEF RemoveNode
  <2>5. EdgesAgree'
    BY <2>3, <2>4 DEF EdgesAgree
  <2> QED
    BY <2>2, <2>5
<1>3. CASE \E e \in Edges : AddDependency(e[1], e[2])
  <2>1. PICK x \in Nodes, y \in Nodes : AddDependency(x, y)
    BY <1>3, DependencyGraphAssumption DEF DependencyGraphAssumption
  <2>2. GraphTypes'
    BY <2>1 DEF AddDependency, GraphTypes
  <2>3. ASSUME NEW n \in Nodes, NEW d \in Nodes
        PROVE  (d \in deps'[n] <=> d \in deps[n] \/ (n = x /\ d = y))
               /\ (n \in dependents'[d] <=> n \in dependents[d] \/ (n = x /\ d = y))
    BY <2>1 DEF AddDependency, GraphTypes
  <2>4. nodes' = nodes \union {x, y}
    BY <2>1 DEF AddDependency
  <2>5. EdgesAgree'
    BY <2>3, <2>4 DEF EdgesAgree
  <2> QED
    BY <2>2, <2>5
<1>4. CASE \E refs \in Formulas : BuildFromFormulas(refs)
  <2>1. PICK refs \in Formulas : BuildFromFormulas(refs)
    BY <1>4
  <2>2. DOMAIN refs \subseteq Nodes /\ \A n \in DOMAIN refs : refs[n] \subseteq Nodes
    BY DependencyGraphAssumption DEF DependencyGraphAssumption
  <2>3. GraphTypes'
    BY <2>1, <2>2 DEF BuildFromFormulas, GraphTypes
  <2>4. ASSUME NEW n \in Nodes, NEW d \in Nodes
        PROVE  LET new == n \in DOMAIN refs /\ d \in DOMAIN refs /\ d \in refs[n] IN
               (d \in deps'[n] <=> d \in deps[n] \/ new)
               /\ (n \in dependents'[d] <=> n \in dependents[d] \/ new)
    BY <2>1, <2>2 DEF BuildFromFormulas, GraphTypes
  <2>5. nodes' = nodes \union DOMAIN refs
    BY <2>1 DEF BuildFromFormulas
  <2>6. EdgesAgree'
    BY <2>4, <2>5 DEF EdgesAgree
  <2> QED
    BY <2>3, <2>6
<1> QED
  BY <1>1, <1>2, <1>3, <1>4

-------------------------------------------------------------------------------
(* The loops.                                                               *)

LEMMA DownstreamStepKeeps ==
    ASSUME IInv, NEW n \in Nodes, DownstreamStep(n)
    PROVE  IInv'
<1>1. /\ phase = "downstream" /\ n \in frontier /\ n \in subset /\ n \in nodes
      /\ UNCHANGED <<graph, phase, changed, kahn, dfs>>
  BY DEF DownstreamStep, IInv, CallTypes
<1> DEFINE new == (dependents[n] \intersect nodes) \ subset
<1>2. subset' = subset \union new /\ frontier' = (frontier \ {n}) \union new
  BY DEF DownstreamStep
<1>3. dependents[n] \subseteq nodes
  BY <1>1 DEF IInv, EdgesAgree, GraphTypes
<1>4. GraphTypes' /\ EdgesAgree'
  BY <1>1 DEF IInv, GraphTypes, EdgesAgree, graph
<1>5. result = <<>> /\ result' = <<>> /\ ~Sorting /\ ~Sorting'
  BY <1>1 DEF IInv, Cleared, Sorting, kahn
<1>6. CallTypes'
  BY <1>1, <1>2, <1>5 DEF IInv, CallTypes, graph
<1>7. Cleared' /\ KahnInv' /\ DependenciesFirst' /\ RecalcIsMinimal'
  BY <1>1, <1>5 DEF Cleared, KahnInv, DependenciesFirst, RecalcIsMinimal, Sorting
<1>8. Collecting
  BY <1>1 DEF IInv, DownstreamInv
<1>9. (changed \intersect nodes \subseteq subset)'
  BY <1>1, <1>2, <1>8 DEF Collecting, graph
<1>10. (\A m \in subset \ frontier : dependents[m] \subseteq subset)'
  BY <1>1, <1>2, <1>3, <1>8 DEF Collecting, graph
<1>11. ASSUME NEW T \in SUBSET nodes, changed \intersect nodes \subseteq T, Closed(T)
       PROVE  subset' \subseteq T
  <2>1. subset \subseteq T
    BY <1>8, <1>11 DEF Collecting
  <2>2. dependents[n] \subseteq T
    BY <1>1, <1>11, <2>1 DEF Closed
  <2> QED
    BY <1>2, <2>1, <2>2
<1>12. (\A T \in SUBSET nodes : (changed \intersect nodes \subseteq T /\ Closed(T)) => subset \subseteq T)'
  BY <1>1, <1>11 DEF Closed, graph
<1>13. DownstreamInv'
  BY <1>9, <1>10, <1>12 DEF DownstreamInv, Collecting
<1> QED
  BY <1>4, <1>6, <1>7, <1>13 DEF IInv

\* When the queue is empty what was collected is what the change reaches.
LEMMA CollectedIsDownstream ==
    ASSUME GraphTypes, EdgesAgree, CallTypes, Collecting, frontier = {}
    PROVE  subset = Downstream(changed)
<1>1. Closed(subset)
  BY DEF Collecting, Closed
<1>2. subset \in SUBSET nodes
  BY DEF CallTypes
<1>3. ASSUME NEW n \in subset
      PROVE  n \in Downstream(changed)
  BY <1>2 DEF Collecting, Downstream, Closed
<1>4. ASSUME NEW n \in Downstream(changed)
      PROVE  n \in subset
  BY <1>1, <1>2 DEF Collecting, Downstream, Closed
<1> QED
  BY <1>3, <1>4

LEMMA DownstreamEndsKeeps ==
    ASSUME IInv, DownstreamEnds
    PROVE  IInv'
<1>1. /\ phase = "downstream" /\ frontier = {} /\ StartSort(subset)
      /\ UNCHANGED <<graph, changed, frontier, dfs>> /\ UNCHANGED graph
  BY DEF DownstreamEnds
<1>2. subset \in SUBSET nodes
  BY DEF IInv, CallTypes
<1>3. KahnInv' /\ result' = <<>> /\ subset' = subset /\ Sorting' /\ DependenciesFirst'
  BY <1>1, <1>2, SortStarts DEF IInv
<1>4. phase' = "sort"
  BY <1>1 DEF StartSort
<1>5. subset = Downstream(changed)
  BY <1>1, CollectedIsDownstream DEF IInv, DownstreamInv
<1>6. Downstream(changed)' = Downstream(changed)
  BY <1>1 DEF Downstream, graph
<1>7. RecalcIsMinimal'
  BY <1>3, <1>5, <1>6 DEF RecalcIsMinimal
<1>8. GraphTypes' /\ EdgesAgree'
  BY <1>1 DEF IInv, GraphTypes, EdgesAgree, graph
<1>9. CallTypes' /\ Cleared' /\ DownstreamInv'
  BY <1>1, <1>3, <1>4 DEF IInv, CallTypes, Cleared, DownstreamInv, Sorting, Phases, graph
<1> QED
  BY <1>3, <1>7, <1>8, <1>9 DEF IInv

\* One node of the order: what it was waited for by waits for one node less.
LEMMA SortStepKeeps ==
    ASSUME IInv, NEW n \in Nodes, SortStep(n)
    PROVE  IInv'
<1> DEFINE E == Elements(result)
<1>1. /\ phase = "sort" /\ n \in ready
      /\ result' = Append(result, n)
      /\ inDegree' = [m \in subset |-> IF m \in dependents[n] THEN inDegree[m] - 1
                                        ELSE inDegree[m]]
      /\ ready' = (ready \ {n}) \union Lowered(n)
      /\ UNCHANGED <<graph, phase, changed, subset, frontier, dfs>>
  BY DEF SortStep
<1>2. /\ GraphTypes /\ EdgesAgree /\ CallTypes /\ DependenciesFirst /\ Sorting /\ Sorting'
      /\ subset \subseteq Nodes
  BY <1>1 DEF IInv, Sorting, CallTypes, GraphTypes
<1>3. /\ inDegree = [m \in subset |-> Cardinality(Waits(m))]
      /\ ready = {m \in subset \ E : Waits(m) = {}}
  BY <1>2 DEF IInv, KahnInv
<1>4. n \in subset /\ n \notin E /\ Waits(n) = {}
  BY <1>1, <1>3
<1>5. Elements(result') = E \union {n}
  BY <1>1, <1>2, <1>4, ElementsOfAppend DEF CallTypes
<1>6. ASSUME NEW m \in subset
      PROVE  /\ Waits(m)' = Waits(m) \ {n}
             /\ m \in dependents[n] <=> n \in Waits(m)
  <2>1. Waits(m)' = (deps[m] \intersect subset) \ (E \union {n})
    BY <1>1, <1>5 DEF Waits, graph
  <2>2. n \in deps[m] <=> m \in dependents[n]
    BY <1>2, <1>6 DEF EdgesAgree
  <2> QED
    BY <1>4, <2>1, <2>2 DEF Waits
<1>7. ASSUME NEW m \in subset
      PROVE  inDegree'[m] = Cardinality(Waits(m)')
  <2>1. IsFiniteSet(Waits(m)) /\ Cardinality(Waits(m)) \in Nat
    BY <1>2, <1>7, WaitsFinite
  <2>2. Cardinality(Waits(m) \ {n})
            = IF n \in Waits(m) THEN Cardinality(Waits(m)) - 1 ELSE Cardinality(Waits(m))
    BY <2>1, FS_RemoveElement
  <2>3. inDegree'[m] = IF m \in dependents[n] THEN Cardinality(Waits(m)) - 1
                       ELSE Cardinality(Waits(m))
    BY <1>1, <1>3, <1>7
  <2> QED
    BY <1>6, <1>7, <2>2, <2>3
<1>8. (inDegree = [m \in subset |-> Cardinality(Waits(m))])'
  BY <1>1, <1>7
<1>9. ASSUME NEW m \in subset
      PROVE  m \in Lowered(n) <=> Waits(m) = {n}
  <2>1. m \in Lowered(n) <=> n \in Waits(m) /\ Cardinality(Waits(m)) = 1
    BY <1>3, <1>6, <1>9 DEF Lowered
  <2>2. IsFiniteSet(Waits(m))
    BY <1>2, <1>9, WaitsFinite
  <2>3. Cardinality(Waits(m)) = 1 <=> \E x : Waits(m) = {x}
    BY <2>2, FS_Singleton
  <2> QED
    BY <2>1, <2>3
\* A node of the order waits for nothing any more.
<1>10. ASSUME NEW m \in subset, m \in E
       PROVE  Waits(m) = {}
  <2>1. PICK i \in DOMAIN result : result[i] = m
    BY <1>10 DEF Elements
  <2>2. deps[m] \intersect subset \subseteq {result[j] : j \in 1 .. i - 1}
    BY <1>2, <2>1 DEF DependenciesFirst
  <2>3. \A j \in 1 .. i - 1 : j \in DOMAIN result
    BY <1>2, <2>1 DEF CallTypes
  <2> QED
    BY <2>2, <2>3 DEF Waits, Elements
<1>11. Lowered(n) \subseteq subset
  BY DEF Lowered
<1>12. ASSUME NEW m
       PROVE  m \in ready' <=> m \in subset \ (E \union {n}) /\ Waits(m)' = {}
  <2>1. ready \subseteq subset
    BY <1>3
  <2>2. CASE m \in subset
    <3>1. m \in ready' <=> (m \notin E /\ Waits(m) = {} /\ m # n) \/ Waits(m) = {n}
      BY <1>1, <1>3, <1>9, <2>2
    <3>2. Waits(m)' = {} <=> Waits(m) = {} \/ Waits(m) = {n}
      BY <1>6, <2>2
    <3>3. Waits(m) = {n} => m \notin E /\ m # n
      BY <1>4, <1>10, <2>2
    <3> QED
      BY <2>2, <3>1, <3>2, <3>3
  <2>3. CASE m \notin subset
    BY <1>1, <1>11, <2>1, <2>3
  <2> QED
    BY <2>2, <2>3
<1>13. (ready = {m \in subset \ Elements(result) : Waits(m) = {}})'
  BY <1>1, <1>5, <1>12
<1>14. KahnInv'
  BY <1>1, <1>8, <1>13 DEF KahnInv
<1>15. result \in Seq(subset) /\ result' \in Seq(subset)
  BY <1>1, <1>2, <1>4 DEF CallTypes
<1>16. DependenciesFirst'
  <2>1. /\ Len(result) \in Nat /\ DOMAIN result = 1 .. Len(result)
        /\ DOMAIN result' = 1 .. Len(result) + 1
        /\ \A i \in 1 .. Len(result) : result'[i] = result[i]
        /\ result'[Len(result) + 1] = n
    BY <1>1, <1>15
  <2>2. UNCHANGED <<deps, subset>>
    BY <1>1 DEF graph
  <2>3. ASSUME NEW i \in 1 .. Len(result)
        PROVE  deps[result'[i]] \intersect subset \subseteq {result'[j] : j \in 1 .. i - 1}
    <3>1. deps[result[i]] \intersect subset \subseteq {result[j] : j \in 1 .. i - 1}
      BY <1>2, <2>1 DEF DependenciesFirst
    <3>2. \A j \in 1 .. i - 1 : result'[j] = result[j]
      BY <2>1
    <3> QED
      BY <2>1, <3>1, <3>2
  <2>4. deps[n] \intersect subset \subseteq {result'[j] : j \in 1 .. Len(result)}
    BY <1>4, <2>1 DEF Waits, Elements
  <2>5. ASSUME NEW i \in 1 .. Len(result) + 1
        PROVE  deps[result'[i]] \intersect subset \subseteq {result'[j] : j \in 1 .. i - 1}
    <3>1. CASE i \in 1 .. Len(result)
      BY <2>3, <3>1
    <3>2. CASE i = Len(result) + 1
      BY <2>1, <2>4, <3>2
    <3> QED
      BY <2>1, <3>1, <3>2
  <2>6. \A j \in 1 .. Len(result) : result[j] # n
    BY <1>4, <2>1 DEF Elements
  <2>7. \A i, j \in 1 .. Len(result) + 1 : result'[i] = result'[j] => i = j
    BY <1>2, <2>1, <2>6 DEF DependenciesFirst
  <2> QED
    BY <2>1, <2>2, <2>5, <2>7 DEF DependenciesFirst
<1>17. GraphTypes' /\ EdgesAgree'
  BY <1>1, <1>2 DEF GraphTypes, EdgesAgree, graph
<1>18. CallTypes' /\ Cleared' /\ DownstreamInv'
  BY <1>1, <1>2, <1>15 DEF CallTypes, Cleared, DownstreamInv, Sorting, graph
<1>19. RecalcIsMinimal'
  <2>1. Downstream(changed)' = Downstream(changed)
    BY <1>1 DEF Downstream, graph
  <2> QED
    BY <1>1, <2>1 DEF IInv, RecalcIsMinimal
<1> QED
  BY <1>14, <1>16, <1>17, <1>18, <1>19 DEF IInv

LEMMA SortEndsKeeps ==
    ASSUME IInv, SortEnds
    PROVE  IInv'
<1>1. /\ phase = "sort" /\ ready = {}
      /\ phase' = IF Len(result) = Cardinality(subset) THEN "sorted" ELSE "cyclic"
      /\ UNCHANGED <<graph, changed, subset, frontier, kahn, dfs>>
  BY DEF SortEnds
<1>2. Sorting /\ Sorting' /\ phase' # "sort"
  BY <1>1 DEF Sorting
<1>3. \A m : Waits(m)' = Waits(m)
  BY <1>1 DEF Waits, graph, kahn
<1>4. KahnInv'
  BY <1>1, <1>2, <1>3 DEF IInv, KahnInv, kahn
<1>5. GraphTypes' /\ EdgesAgree' /\ DependenciesFirst'
  BY <1>1 DEF IInv, GraphTypes, EdgesAgree, DependenciesFirst, graph, kahn
<1>6. CallTypes' /\ Cleared' /\ DownstreamInv'
  BY <1>1, <1>2 DEF IInv, CallTypes, Cleared, DownstreamInv, Phases, Sorting, graph, kahn
<1>7. RecalcIsMinimal'
  <2>1. Downstream(changed)' = Downstream(changed)
    BY <1>1 DEF Downstream, graph
  <2> QED
    BY <1>1, <2>1 DEF IInv, RecalcIsMinimal
<1> QED
  BY <1>4, <1>5, <1>6, <1>7 DEF IInv

-------------------------------------------------------------------------------
(* The invariant holds in every state.                                      *)

LEMMA Inductive == IInv /\ [Next]_vars => IInv'
<1> SUFFICES ASSUME IInv, [Next]_vars PROVE IInv'
  OBVIOUS
<1>1. ASSUME \/ \E n \in Nodes : AddNode(n) \/ RemoveNode(n)
             \/ \E e \in Edges : AddDependency(e[1], e[2])
             \/ \E refs \in Formulas : BuildFromFormulas(refs)
      PROVE  IInv'
  <2>1. Mutates
    BY <1>1 DEF AddNode, RemoveNode, AddDependency, BuildFromFormulas
  <2>2. GraphTypes' /\ EdgesAgree'
    BY <1>1, MutationsKeepGraph DEF IInv
  <2>3. /\ phase = "idle" /\ phase' = "idle" /\ ~Sorting /\ ~Sorting'
        /\ UNCHANGED <<changed, subset, frontier, inDegree, ready, result>>
        /\ result = <<>> /\ subset = {} /\ frontier = {} /\ changed = {}
    BY <2>1 DEF Mutates, Sorting, IInv, Cleared, kahn
  <2>4. CallTypes' /\ Cleared' /\ DownstreamInv' /\ KahnInv'
    BY <2>3 DEF IInv, CallTypes, Cleared, DownstreamInv, KahnInv, Sorting
  <2>5. DependenciesFirst' /\ RecalcIsMinimal'
    BY <2>3 DEF DependenciesFirst, RecalcIsMinimal
  <2> QED
    BY <2>2, <2>4, <2>5 DEF IInv
<1>2. ASSUME GetCalculationOrder PROVE IInv'
  <2>1. /\ phase = "idle" /\ StartSort(nodes) /\ UNCHANGED graph
        /\ UNCHANGED <<changed, frontier, dfs>>
    BY <1>2 DEF GetCalculationOrder
  <2>2. KahnInv' /\ result' = <<>> /\ subset' = nodes /\ Sorting' /\ DependenciesFirst'
    BY <2>1, SortStarts DEF IInv
  <2>3. changed' = {} /\ frontier' = {} /\ phase' = "sort"
    BY <2>1 DEF IInv, Cleared, StartSort
  <2>4. GraphTypes' /\ EdgesAgree'
    BY <2>1 DEF IInv, GraphTypes, EdgesAgree, graph
  <2>5. CallTypes' /\ Cleared' /\ DownstreamInv' /\ RecalcIsMinimal'
    BY <2>1, <2>2, <2>3 DEF IInv, CallTypes, Cleared, DownstreamInv, RecalcIsMinimal, Phases,
       Sorting, graph
  <2> QED
    BY <2>2, <2>4, <2>5 DEF IInv
<1>3. ASSUME NEW C \in SUBSET Nodes, GetRecalcOrder(C) PROVE IInv'
  <2>1. /\ phase = "idle" /\ phase' = "downstream" /\ changed' = C
        /\ subset' = C \intersect nodes /\ frontier' = C \intersect nodes
        /\ UNCHANGED graph /\ UNCHANGED <<inDegree, ready, result>>
    BY <1>3 DEF GetRecalcOrder, kahn
  <2>2. result = <<>> /\ ~Sorting'
    BY <2>1 DEF IInv, Cleared, Sorting
  <2>3. GraphTypes' /\ EdgesAgree'
    BY <2>1 DEF IInv, GraphTypes, EdgesAgree, graph
  <2>4. CallTypes' /\ Cleared'
    BY <2>1, <2>2 DEF CallTypes, Cleared, Phases, graph
  <2>5. Collecting'
    BY <2>1 DEF Collecting, graph
  <2>6. DownstreamInv' /\ KahnInv' /\ DependenciesFirst' /\ RecalcIsMinimal'
    BY <2>1, <2>2, <2>5 DEF DownstreamInv, KahnInv, DependenciesFirst, RecalcIsMinimal, Sorting
  <2> QED
    BY <2>3, <2>4, <2>6 DEF IInv
<1>4. ASSUME NEW n \in Nodes, DownstreamStep(n) PROVE IInv'
  BY <1>4, DownstreamStepKeeps
<1>5. ASSUME DownstreamEnds PROVE IInv'
  BY <1>5, DownstreamEndsKeeps
<1>6. ASSUME NEW n \in Nodes, SortStep(n) PROVE IInv'
  BY <1>6, SortStepKeeps
<1>7. ASSUME SortEnds PROVE IInv'
  BY <1>7, SortEndsKeeps
\* The cycle search touches nothing that the invariant speaks of.
<1>8. ASSUME /\ phase \in {"idle", "dfs"} /\ phase' \in {"dfs", "detected"}
             /\ UNCHANGED <<graph, changed, subset, frontier, kahn>>
      PROVE  IInv'
  <2>1. GraphTypes' /\ EdgesAgree' /\ DependenciesFirst'
    BY <1>8 DEF IInv, GraphTypes, EdgesAgree, DependenciesFirst, graph, kahn
  <2>2. CallTypes' /\ Cleared'
    BY <1>8 DEF IInv, CallTypes, Cleared, Phases, Sorting, graph, kahn
  <2>3. DownstreamInv' /\ KahnInv' /\ RecalcIsMinimal'
    BY <1>8 DEF DownstreamInv, KahnInv, RecalcIsMinimal, Sorting
  <2> QED
    BY <2>1, <2>2, <2>3 DEF IInv
<1>9. ASSUME \/ DetectCycles \/ LeaveNode \/ DetectEnds
             \/ \E n \in Nodes : EnterRoot(n) \/ ExploreNeighbour(n)
      PROVE  IInv'
  BY <1>8, <1>9 DEF DetectCycles, LeaveNode, DetectEnds, EnterRoot, ExploreNeighbour
<1>10. ASSUME Returns PROVE IInv'
  <2>1. /\ phase' = "idle" /\ changed' = {} /\ subset' = {} /\ frontier' = {}
        /\ result' = <<>> /\ UNCHANGED graph
    BY <1>10 DEF Returns
  <2>2. GraphTypes' /\ EdgesAgree'
    BY <2>1 DEF IInv, GraphTypes, EdgesAgree, graph
  <2>3. CallTypes' /\ Cleared' /\ DownstreamInv' /\ KahnInv' /\ DependenciesFirst' /\ RecalcIsMinimal'
    BY <2>1 DEF CallTypes, Cleared, DownstreamInv, KahnInv, DependenciesFirst, RecalcIsMinimal,
       Phases, Sorting
  <2> QED
    BY <2>2, <2>3 DEF IInv
<1>11. ASSUME UNCHANGED vars PROVE IInv'
  BY <1>11 DEF vars, IInv, GraphTypes, EdgesAgree, CallTypes, Cleared, DownstreamInv, Collecting,
     Closed, KahnInv, Waits, DependenciesFirst, RecalcIsMinimal, Downstream, Sorting
<1> QED
  BY <1>1, <1>2, <1>3, <1>4, <1>5, <1>6, <1>7, <1>9, <1>10, <1>11 DEF Next

LEMMA Initially == Init => IInv
<1> SUFFICES ASSUME Init PROVE IInv
  OBVIOUS
<1>1. GraphTypes /\ EdgesAgree /\ CallTypes /\ Cleared
  BY DEF Init, GraphTypes, EdgesAgree, CallTypes, Cleared, Phases
<1>2. DownstreamInv /\ KahnInv /\ DependenciesFirst /\ RecalcIsMinimal
  BY DEF Init, DownstreamInv, KahnInv, DependenciesFirst, RecalcIsMinimal, Sorting
<1> QED
  BY <1>1, <1>2 DEF IInv

LEMMA Always == Spec => []IInv
  BY Initially, Inductive, PTL DEF Spec

-------------------------------------------------------------------------------
(* The cycle search.                                                        *)

Finished == dfs.visited \ Elements(dfs.path)

SearchTypes ==
    dfs \in [path : Seq(nodes), todo : Seq(SUBSET Nodes), visited : SUBSET nodes,
             cycles : SUBSET Seq(nodes)]

\* The path is a path: it follows edges and meets no node twice, and what is left to
\* explore at each level are neighbours of the node there.
PathInv ==
    /\ Len(dfs.todo) = Len(dfs.path) /\ Elements(dfs.path) \subseteq dfs.visited
    /\ \A i, j \in 1 .. Len(dfs.path) : dfs.path[i] = dfs.path[j] => i = j
    /\ \A i \in 1 .. Len(dfs.path) : dfs.todo[i] \subseteq dependents[dfs.path[i]]
    /\ \A i \in 1 .. Len(dfs.path) - 1 : dfs.path[i + 1] \in dependents[dfs.path[i]]

\* As long as no cycle was met, what was left has all its dependents behind it too, and
\* a neighbour that was explored was left or is the next node of the path.
LeftInv ==
    /\ \A n \in Finished : dependents[n] \subseteq Finished
    /\ \A i \in 1 .. Len(dfs.path) : \A m \in dependents[dfs.path[i]] \ dfs.todo[i] :
          m \in Finished \/ (i < Len(dfs.path) /\ m = dfs.path[i + 1])
    /\ ~Cyclic(Finished)

Searching == SearchTypes /\ PathInv /\ CyclesAreReal /\ (dfs.cycles = {} => LeftInv)

SearchInv ==
    /\ phase \notin {"dfs", "detected"} => dfs = EmptyDfs
    /\ phase = "dfs" => Searching
    /\ phase = "detected" => CyclesAreReal /\ CycleFoundIfAny

\* What the path closes with one of its own nodes is a simple cycle.
LEMMA CycleToIsSimple ==
    ASSUME GraphTypes, SearchTypes, PathInv, NEW m \in Elements(dfs.path), dfs.path # <<>>,
           m \in dependents[dfs.path[Len(dfs.path)]]
    PROVE  IsSimpleCycle(CycleTo(m)) /\ CycleTo(m) \in Seq(nodes)
<1> DEFINE p == dfs.path
           L == Len(p)
           start == CHOOSE i \in DOMAIN p : p[i] = m
           part == SubSeq(p, start, L)
           c == Append(part, m)
<1>1. p \in Seq(nodes) /\ L \in Nat /\ DOMAIN p = 1 .. L
  BY DEF SearchTypes
<1>2. start \in 1 .. L /\ p[start] = m
  BY <1>1 DEF Elements
<1> HIDE DEF start
<1>3. m \in nodes /\ \A i \in 1 .. L : p[i] \in nodes
  BY <1>1, <1>2
<1>4. part \in Seq(nodes) /\ Len(part) = L - start + 1
      /\ \A i \in 1 .. L - start + 1 : part[i] = p[start + i - 1]
  BY <1>1, <1>2
<1> HIDE DEF part
<1>5. /\ c \in Seq(nodes) /\ Len(c) = L - start + 2 /\ c[Len(c)] = m
      /\ \A i \in 1 .. L - start + 1 : c[i] = p[start + i - 1]
  BY <1>2, <1>3, <1>4
<1>6. CycleTo(m) = c
  BY DEF CycleTo, start, part
<1> HIDE DEF c
<1>7. Len(c) > 1 /\ c[1] = c[Len(c)]
  BY <1>2, <1>5
<1>8. ASSUME NEW i \in 1 .. Len(c) - 1, NEW j \in 1 .. Len(c) - 1, c[i] = c[j]
      PROVE  i = j
  <2>1. p[start + i - 1] = p[start + j - 1] /\ start + i - 1 \in 1 .. L /\ start + j - 1 \in 1 .. L
    BY <1>1, <1>2, <1>5, <1>8
  <2>2. start + i - 1 = start + j - 1
    BY <2>1 DEF PathInv
  <2> QED
    BY <1>1, <1>2, <1>5, <2>2
<1>9. ASSUME NEW i \in 1 .. Len(c) - 1
      PROVE  c[i] \in nodes /\ c[i + 1] \in dependents[c[i]]
  <2>1. c[i] = p[start + i - 1] /\ start + i - 1 \in 1 .. L
    BY <1>1, <1>2, <1>5
  <2>2. CASE i = Len(c) - 1
    <3>1. start + i - 1 = L /\ c[i + 1] = m
      BY <1>1, <1>2, <1>5, <2>2
    <3> QED
      BY <1>3, <2>1, <3>1
  <2>3. CASE i # Len(c) - 1
    <3>1. i + 1 \in 1 .. L - start + 1 /\ start + i - 1 \in 1 .. L - 1
      <4>1. Len(c) = L - start + 2 /\ L \in Nat /\ start \in 1 .. L
        BY <1>1, <1>2, <1>5
      <4> HIDE DEF L
      <4> QED
        BY <2>3, <4>1
    <3>2. c[i + 1] = p[start + (i + 1) - 1]
      <4> HIDE DEF p, L
      <4> QED
        BY <1>5, <3>1
    <3>3. start + (i + 1) - 1 = (start + i - 1) + 1
      BY <1>1, <1>2
    <3>4. p[(start + i - 1) + 1] \in dependents[p[start + i - 1]]
      BY <3>1 DEF PathInv
    <3> QED
      BY <1>1, <1>3, <2>1, <3>2, <3>3, <3>4
  <2> QED
    BY <2>2, <2>3
<1> QED
  BY SMTT(40), <1>5, <1>6, <1>7, <1>8, <1>9 DEF IsSimpleCycle

\* The nodes of a simple cycle are a cyclic part of the graph.
LEMMA SimpleCycleIsCyclic ==
    ASSUME GraphTypes, EdgesAgree, NEW c \in Seq(nodes), IsSimpleCycle(c)
    PROVE  Cyclic(nodes)
<1>1. DOMAIN c = 1 .. Len(c) /\ Len(c) \in Nat /\ Len(c) > 1 /\ \A i \in 1 .. Len(c) : c[i] \in nodes
  BY DEF IsSimpleCycle
<1>2. Elements(c) \in SUBSET nodes /\ Elements(c) # {}
  BY <1>1 DEF Elements
<1>3. ASSUME NEW n \in Elements(c)
      PROVE  deps[n] \intersect Elements(c) # {}
  <2>1. PICK k \in 1 .. Len(c) : c[k] = n
    BY <1>1 DEF Elements
  <2>2. PICK i \in 1 .. Len(c) - 1 : c[i + 1] = n
    <3>1. CASE k = 1
      <4>1. Len(c) - 1 \in 1 .. Len(c) - 1 /\ (Len(c) - 1) + 1 = Len(c)
        BY <1>1
      <4> QED
        BY <2>1, <3>1, <4>1 DEF IsSimpleCycle
    <3>2. CASE k # 1
      <4>1. k - 1 \in 1 .. Len(c) - 1 /\ (k - 1) + 1 = k
        BY <1>1, <3>2
      <4> QED
        BY <2>1, <4>1
    <3> QED
      BY <3>1, <3>2
  <2>3. i \in DOMAIN c /\ n \in dependents[c[i]] /\ c[i] \in nodes
    BY <1>1, <2>2 DEF IsSimpleCycle
  <2>4. n \in Nodes /\ c[i] \in Nodes
    BY <1>1, <2>1, <2>3 DEF GraphTypes
  <2>5. c[i] \in deps[n]
    BY <2>3, <2>4 DEF EdgesAgree
  <2> QED
    BY <2>3, <2>5 DEF Elements
<1> QED
  BY <1>2, <1>3 DEF Cyclic

\* A node that no finished node depends on can be added to what is not cyclic.
LEMMA LeavingAddsNoCycle ==
    ASSUME GraphTypes, EdgesAgree, NEW F \in SUBSET nodes, ~Cyclic(F),
           \A m \in F : dependents[m] \subseteq F,
           NEW n \in nodes \ F, dependents[n] \subseteq F
    PROVE  ~Cyclic(F \union {n})
<1> SUFFICES ASSUME NEW T \in SUBSET (F \union {n}), T # {}, \A m \in T : deps[m] \intersect T # {}
             PROVE  FALSE
  BY DEF Cyclic
<1>1. n \notin T
  <2> SUFFICES ASSUME n \in T PROVE FALSE
    OBVIOUS
  <2>1. PICK d \in T : d \in deps[n]
    OBVIOUS
  <2>2. d \in F \union {n} /\ d \in Nodes /\ n \in Nodes
    BY DEF GraphTypes
  <2>3. n \in dependents[d]
    BY <2>1, <2>2 DEF EdgesAgree
  <2> QED
    BY <2>3
<1>2. T \in SUBSET F
  BY <1>1
<1> QED
  BY <1>2 DEF Cyclic

\* The elements of a sequence of different elements without the last one.
LEMMA ElementsOfFront ==
    ASSUME NEW S, NEW s \in Seq(S), s # <<>>, \A i, j \in 1 .. Len(s) : s[i] = s[j] => i = j
    PROVE  /\ SubSeq(s, 1, Len(s) - 1) \in Seq(S)
           /\ Elements(SubSeq(s, 1, Len(s) - 1)) = Elements(s) \ {s[Len(s)]}
<1> DEFINE L == Len(s)
           f == SubSeq(s, 1, L - 1)
<1>1. L \in Nat \ {0} /\ DOMAIN s = 1 .. L /\ \A i \in 1 .. L : s[i] \in S
  OBVIOUS
<1>2. f \in Seq(S) /\ Len(f) = L - 1 /\ DOMAIN f = 1 .. L - 1 /\ \A i \in 1 .. L - 1 : f[i] = s[i]
  BY <1>1
<1>3. ASSUME NEW x \in Elements(f) PROVE x \in Elements(s) \ {s[L]}
  <2>1. PICK i \in 1 .. L - 1 : s[i] = x
    BY <1>2, <1>3 DEF Elements
  <2>2. i \in 1 .. L /\ L \in 1 .. L /\ i # L
    <3>1. L \in Nat \ {0}
      BY <1>1
    <3> HIDE DEF L
    <3> QED
      BY <3>1
  <2>3. s[i] # s[L]
    BY <2>2
  <2> QED
    BY <1>1, <2>1, <2>2, <2>3 DEF Elements
<1>4. ASSUME NEW x \in Elements(s), x # s[L] PROVE x \in Elements(f)
  <2>1. PICK i \in 1 .. L : s[i] = x
    BY <1>1 DEF Elements
  <2>2. i # L
    BY <1>4, <2>1
  <2>3. i \in 1 .. L - 1
    <3>1. L \in Nat \ {0}
      BY <1>1
    <3> HIDE DEF L
    <3> QED
      BY <2>2, <3>1
  <2> QED
    BY <1>2, <2>1, <2>3 DEF Elements
<1> QED
  BY <1>2, <1>3, <1>4

\* A node is entered, from the top or from the last node of the path, of which it is no
\* longer left to explore.
LEMMA EnteringKeeps ==
    ASSUME GraphTypes, EdgesAgree, Searching, NEW n \in nodes \ dfs.visited,
           NEW d \in [path : {dfs.path}, todo : Seq(SUBSET Nodes), visited : {dfs.visited}, cycles : {dfs.cycles}],
           Len(d.todo) = Len(dfs.path),
           \A i \in 1 .. Len(dfs.path) :
              /\ d.todo[i] \subseteq dfs.todo[i]
              /\ \A m \in dfs.todo[i] \ d.todo[i] : i = Len(dfs.path) /\ m = n,
           dfs.path # <<>> => n \in dependents[dfs.path[Len(dfs.path)]],
           UNCHANGED graph, dfs' = Enter(d, n)
    PROVE  Searching'
<1> DEFINE p == dfs.path
           L == Len(p)
<1>1. p \in Seq(nodes) /\ L \in Nat /\ d.todo \in Seq(SUBSET Nodes) /\ n \in nodes
      /\ \A i \in 1 .. L : p[i] \in nodes
  BY DEF Searching, SearchTypes
<1>2. dfs' = [path |-> Append(p, n), todo |-> Append(d.todo, dependents[n]),
              visited |-> dfs.visited \union {n}, cycles |-> dfs.cycles]
  BY DEF Enter
<1>3. Elements(Append(p, n)) = Elements(p) \union {n}
  BY <1>1, ElementsOfAppend
<1>4. nodes' = nodes /\ dependents' = dependents /\ deps' = deps
  BY DEF graph
<1>5. dependents[n] \in SUBSET Nodes
  BY DEF GraphTypes
<1>6. SearchTypes'
  <2>1. Append(p, n) \in Seq(nodes) /\ Append(d.todo, dependents[n]) \in Seq(SUBSET Nodes)
    BY <1>1, <1>5
  <2> QED
    BY <1>1, <1>2, <1>4, <2>1 DEF Searching, SearchTypes
<1>7. /\ dfs'.path[L + 1] = n /\ dfs'.todo[L + 1] = dependents[n] /\ Len(dfs'.path) = L + 1
      /\ Len(dfs'.todo) = L + 1
      /\ \A i \in 1 .. L : dfs'.path[i] = p[i] /\ dfs'.todo[i] = d.todo[i]
  BY <1>1, <1>2
<1>8. Elements(p) \subseteq dfs.visited /\ \A i \in 1 .. L : p[i] # n
  BY <1>1 DEF Searching, PathInv, Elements
<1>9. PathInv'
  <2>1. Len(dfs'.todo) = Len(dfs'.path) /\ Elements(dfs'.path) \subseteq dfs'.visited
    BY <1>2, <1>3, <1>7, <1>8
  <2>2. ASSUME NEW i \in 1 .. L + 1, NEW j \in 1 .. L + 1, dfs'.path[i] = dfs'.path[j]
        PROVE  i = j
    <3>1. CASE i \in 1 .. L /\ j \in 1 .. L
      BY <1>7, <2>2, <3>1 DEF Searching, PathInv
    <3>2. CASE ~(i \in 1 .. L /\ j \in 1 .. L)
      BY <1>1, <1>7, <1>8, <2>2, <3>2
    <3> QED
      BY <3>1, <3>2
  <2>3. ASSUME NEW i \in 1 .. L + 1
        PROVE  dfs'.todo[i] \subseteq dependents[dfs'.path[i]]
    <3>1. CASE i \in 1 .. L
      BY <1>7, <3>1 DEF Searching, PathInv
    <3>2. CASE i = L + 1
      BY <1>7, <3>2
    <3> QED
      BY <1>1, <3>1, <3>2
  <2>4. ASSUME NEW i \in 1 .. L
        PROVE  dfs'.path[i + 1] \in dependents[dfs'.path[i]]
    <3>1. CASE i = L
      <4>1. p # <<>>
        BY <1>1, <3>1
      <4> QED
        BY <1>7, <3>1, <4>1
    <3>2. CASE i # L
      <4>1. i \in 1 .. L - 1 /\ i + 1 \in 1 .. L
        BY <1>1, <3>2
      <4> QED
        BY <1>7, <4>1 DEF Searching, PathInv
    <3> QED
      BY <3>1, <3>2
  <2>5. (Len(dfs'.path) - 1) = L
    BY <1>1, <1>7
  <2> QED
    BY <1>4, <1>7, <2>1, <2>2, <2>3, <2>4, <2>5 DEF PathInv
<1>10. CyclesAreReal'
  BY <1>2, <1>4 DEF Searching, CyclesAreReal, IsSimpleCycle
<1>11. ASSUME dfs'.cycles = {} PROVE LeftInv'
  <2>1. LeftInv
    BY <1>2, <1>11 DEF Searching
  <2>2. Finished' = Finished
    BY <1>2, <1>3 DEF Finished
  <2>3. ASSUME NEW i \in 1 .. L + 1, NEW m \in dependents[dfs'.path[i]] \ dfs'.todo[i]
        PROVE  m \in Finished \/ (i < L + 1 /\ m = dfs'.path[i + 1])
    <3>1. i \in 1 .. L
      BY <1>1, <1>7, <2>3
    <3>2. m \in dependents[p[i]] \ d.todo[i]
      BY <1>7, <2>3, <3>1
    <3>3. CASE m \in dfs.todo[i]
      BY <1>1, <1>7, <3>1, <3>2, <3>3
    <3>4. CASE m \notin dfs.todo[i]
      <4>1. m \in Finished \/ (i < L /\ m = p[i + 1])
        BY <2>1, <3>1, <3>2, <3>4 DEF LeftInv
      <4>2. i < L => i + 1 \in 1 .. L
        BY <1>1, <3>1
      <4> QED
        BY <1>1, <1>7, <3>1, <4>1, <4>2
    <3> QED
      BY <3>3, <3>4
  <2>4. ~Cyclic(Finished)'
    BY <1>4, <2>1, <2>2 DEF LeftInv, Cyclic
  <2> QED
    BY <1>4, <1>7, <2>1, <2>2, <2>3, <2>4 DEF LeftInv
<1> QED
  BY <1>6, <1>9, <1>10, <1>11 DEF Searching

LEMMA EnterRootKeeps ==
    ASSUME IInv, Searching, NEW n \in Nodes, EnterRoot(n)
    PROVE  Searching'
<1>1. dfs.path = <<>> /\ n \in nodes \ dfs.visited /\ dfs' = Enter(dfs, n) /\ UNCHANGED graph
  BY DEF EnterRoot, Roots
<1>2. /\ dfs \in [path : {dfs.path}, todo : Seq(SUBSET Nodes), visited : {dfs.visited}, cycles : {dfs.cycles}]
      /\ Len(dfs.todo) = Len(dfs.path)
  BY DEF Searching, SearchTypes, PathInv
<1> QED
  BY <1>1, <1>2, EnteringKeeps DEF IInv

\* One neighbour of the path's end: it closes a cycle, is entered, or has been left.
LEMMA ExploreNeighbourKeeps ==
    ASSUME IInv, Searching, NEW m \in Nodes, ExploreNeighbour(m)
    PROVE  Searching'
<1> DEFINE p == dfs.path
           L == Len(p)
           t == [dfs.todo EXCEPT ![L] = @ \ {m}]
           left == [dfs EXCEPT !.todo[L] = @ \ {m}]
<1>1. /\ L > 0 /\ m \in dfs.todo[L] /\ UNCHANGED graph
      /\ dfs' = IF m \in Elements(p)
                THEN IF \E c \in dfs.cycles : Elements(c) = Elements(CycleTo(m))
                     THEN left
                     ELSE [left EXCEPT !.cycles = @ \union {CycleTo(m)}]
                ELSE IF m \in nodes \ dfs.visited THEN Enter(left, m)
                ELSE left
  BY DEF ExploreNeighbour
<1>2. /\ p \in Seq(nodes) /\ L \in Nat /\ L \in 1 .. L /\ dfs.todo \in Seq(SUBSET Nodes) /\ Len(dfs.todo) = L
      /\ p # <<>> /\ GraphTypes /\ EdgesAgree /\ SearchTypes /\ PathInv /\ CyclesAreReal
  BY <1>1 DEF Searching, SearchTypes, PathInv, IInv
<1>3. m \in dependents[p[L]] /\ p[L] \in nodes /\ m \in nodes
  <2>1. m \in dependents[p[L]] /\ p[L] \in nodes
    BY <1>1, <1>2 DEF PathInv
  <2>2. p[L] \in Nodes
    BY <1>2, <2>1 DEF GraphTypes
  <2> QED
    BY <1>2, <2>1, <2>2 DEF EdgesAgree
<1>4. /\ t \in Seq(SUBSET Nodes) /\ Len(t) = L
      /\ \A i \in 1 .. L : t[i] \subseteq dfs.todo[i] /\ \A x \in dfs.todo[i] \ t[i] : i = L /\ x = m
  BY <1>2
<1>5. left = [dfs EXCEPT !.todo = t]
  BY <1>2 DEF SearchTypes
<1> HIDE DEF t, left
<1>6. left = [path |-> p, todo |-> t, visited |-> dfs.visited, cycles |-> dfs.cycles]
  BY <1>2, <1>5 DEF SearchTypes
<1>7. nodes' = nodes /\ dependents' = dependents /\ deps' = deps
  BY <1>1 DEF graph
\* Whatever becomes of the cycles, one neighbour less is left.
<1>8. ASSUME NEW C \in SUBSET Seq(nodes), dfs' = [path |-> p, todo |-> t, visited |-> dfs.visited, cycles |-> C]
      PROVE  SearchTypes' /\ PathInv'
  <2>1. SearchTypes'
    BY <1>2, <1>4, <1>7, <1>8 DEF SearchTypes
  <2>2. PathInv'
    BY <1>2, <1>4, <1>7, <1>8 DEF PathInv
  <2> QED
    BY <2>1, <2>2
<1>9. dfs.cycles \in SUBSET Seq(nodes)
  BY <1>2 DEF SearchTypes
<1>10. CASE m \in Elements(p) /\ \E c \in dfs.cycles : Elements(c) = Elements(CycleTo(m))
  <2>1. dfs' = [path |-> p, todo |-> t, visited |-> dfs.visited, cycles |-> dfs.cycles]
    BY <1>1, <1>6, <1>10
  <2>2. dfs'.cycles # {} /\ CyclesAreReal'
    BY <1>2, <1>7, <1>10, <2>1 DEF CyclesAreReal, IsSimpleCycle
  <2> QED
    BY <1>8, <1>9, <2>1, <2>2 DEF Searching
<1>11. CASE m \in Elements(p) /\ ~\E c \in dfs.cycles : Elements(c) = Elements(CycleTo(m))
  <2>1. IsSimpleCycle(CycleTo(m)) /\ CycleTo(m) \in Seq(nodes)
    BY <1>2, <1>3, <1>11, CycleToIsSimple
  <2> DEFINE C == dfs.cycles \union {CycleTo(m)}
  <2>2. C \in SUBSET Seq(nodes)
    BY <1>9, <2>1
  <2>3. dfs' = [path |-> p, todo |-> t, visited |-> dfs.visited, cycles |-> C]
    BY <1>1, <1>6, <1>11
  <2>4. (\A c \in C : IsSimpleCycle(c)) /\ \A c, d \in C : Elements(c) = Elements(d) => c = d
    BY <1>2, <1>11, <2>1 DEF CyclesAreReal
  <2>5. CyclesAreReal'
    BY <1>7, <2>3, <2>4 DEF CyclesAreReal, IsSimpleCycle
  <2>6. dfs'.cycles # {}
    BY <2>3
  <2> QED
    BY <1>8, <2>2, <2>3, <2>5, <2>6 DEF Searching
<1>12. CASE m \notin Elements(p) /\ m \in nodes \ dfs.visited
  <2>1. dfs' = Enter(left, m)
    BY <1>1, <1>12
  <2>2. left \in [path : {p}, todo : Seq(SUBSET Nodes), visited : {dfs.visited}, cycles : {dfs.cycles}]
        /\ left.todo = t
    BY <1>4, <1>6
  <2> QED
    BY <1>1, <1>2, <1>3, <1>4, <1>12, <2>1, <2>2, EnteringKeeps
<1>13. CASE m \notin Elements(p) /\ m \in dfs.visited
  <2>1. dfs' = [path |-> p, todo |-> t, visited |-> dfs.visited, cycles |-> dfs.cycles]
    BY <1>1, <1>6, <1>13
  <2>2. CyclesAreReal'
    BY <1>2, <1>7, <2>1 DEF CyclesAreReal, IsSimpleCycle
  <2>3. ASSUME dfs'.cycles = {} PROVE LeftInv'
    <3>1. LeftInv /\ Finished' = Finished /\ m \in Finished
      BY <1>13, <2>1, <2>3 DEF Searching, Finished
    <3>2. \A i \in 1 .. L : \A x \in dependents[p[i]] \ t[i] : x \in Finished \/ (i < L /\ x = p[i + 1])
      BY <1>4, <3>1 DEF LeftInv
    <3>3. ~Cyclic(Finished)'
      BY <1>7, <3>1 DEF LeftInv, Cyclic
    <3> QED
      BY <1>7, <2>1, <3>1, <3>2, <3>3 DEF LeftInv
  <2> QED
    BY <1>8, <1>9, <2>1, <2>2, <2>3 DEF Searching
<1> QED
  BY <1>3, <1>10, <1>11, <1>12, <1>13

\* The last node of the path has nothing left and is left itself.
LEMMA LeaveNodeKeeps ==
    ASSUME IInv, Searching, LeaveNode
    PROVE  Searching'
<1> DEFINE p == dfs.path
           L == Len(p)
           q == SubSeq(p, 1, L - 1)
           t == SubSeq(dfs.todo, 1, L - 1)
           n == p[L]
<1>1. /\ L > 0 /\ dfs.todo[L] = {} /\ dfs' = [dfs EXCEPT !.path = q, !.todo = t] /\ UNCHANGED graph
  BY DEF LeaveNode
<1>2. /\ p \in Seq(nodes) /\ L \in Nat \ {0} /\ dfs.todo \in Seq(SUBSET Nodes) /\ Len(dfs.todo) = L
      /\ p # <<>> /\ GraphTypes /\ EdgesAgree /\ SearchTypes /\ PathInv /\ CyclesAreReal
      /\ n \in nodes /\ dfs.visited \in SUBSET nodes
  BY <1>1 DEF Searching, SearchTypes, PathInv, IInv
<1>3. q \in Seq(nodes) /\ Elements(q) = Elements(p) \ {n}
  BY <1>2, ElementsOfFront DEF PathInv
<1>4. /\ Len(q) = L - 1 /\ \A i \in 1 .. L - 1 : q[i] = p[i]
      /\ t \in Seq(SUBSET Nodes) /\ Len(t) = L - 1 /\ \A i \in 1 .. L - 1 : t[i] = dfs.todo[i]
  BY <1>2
<1>5. dfs' = [path |-> q, todo |-> t, visited |-> dfs.visited, cycles |-> dfs.cycles]
  BY <1>1, <1>2 DEF SearchTypes
<1> HIDE DEF q, t
<1>6. nodes' = nodes /\ dependents' = dependents /\ deps' = deps
  BY <1>1 DEF graph
<1>7. SearchTypes'
  BY <1>2, <1>3, <1>4, <1>5, <1>6 DEF SearchTypes
<1>8. PathInv'
  <2>1. Elements(q) \subseteq dfs.visited
    BY <1>2, <1>3 DEF PathInv
  <2>2. /\ \A i, j \in 1 .. L - 1 : q[i] = q[j] => i = j
        /\ \A i \in 1 .. L - 1 : t[i] \subseteq dependents[q[i]]
    <3>1. \A i \in 1 .. L - 1 : i \in 1 .. L
      BY <1>2
    <3> QED
      BY <1>2, <1>4, <3>1 DEF PathInv
  <2>3. ASSUME NEW i \in 1 .. (L - 1) - 1
        PROVE  q[i + 1] \in dependents[q[i]]
    <3>1. i \in 1 .. L - 1 /\ i + 1 \in 1 .. L - 1
      BY <1>2
    <3> QED
      BY <1>2, <1>4, <3>1 DEF PathInv
  <2> QED
    BY <1>2, <1>4, <1>5, <1>6, <2>1, <2>2, <2>3 DEF PathInv
<1>9. CyclesAreReal'
  BY <1>2, <1>5, <1>6 DEF CyclesAreReal, IsSimpleCycle
<1>10. ASSUME dfs'.cycles = {} PROVE LeftInv'
  <2>1. LeftInv
    BY <1>5, <1>10 DEF Searching
  <2>2. n \in Elements(p) /\ L \in 1 .. L
    BY <1>2 DEF Elements
  <2>3. Finished' = Finished \union {n} /\ n \notin Finished
    BY <1>2, <1>3, <1>5, <2>2 DEF Finished, PathInv
  <2>4. dependents[n] \subseteq Finished
    <3>1. dependents[n] \subseteq Nodes
      BY <1>2 DEF GraphTypes
    <3> QED
      BY <1>1, <1>2, <2>1, <2>2 DEF LeftInv
  <2>5. Finished \in SUBSET nodes
    BY <1>2 DEF Finished
  <2>6. ~Cyclic(Finished \union {n})
    BY <1>2, <2>1, <2>3, <2>4, <2>5, LeavingAddsNoCycle DEF LeftInv
  <2>7. ~Cyclic(Finished)'
    BY <1>6, <2>3, <2>6 DEF Cyclic
  <2>8. \A x \in Finished \union {n} : dependents[x] \subseteq Finished \union {n}
    BY <2>1, <2>4 DEF LeftInv
  <2>9. ASSUME NEW i \in 1 .. L - 1, NEW m \in dependents[q[i]] \ t[i]
        PROVE  m \in Finished \union {n} \/ (i < L - 1 /\ m = q[i + 1])
    <3>1. i \in 1 .. L /\ q[i] = p[i] /\ t[i] = dfs.todo[i]
      BY <1>2, <1>4
    <3>2. m \in Finished \/ m = p[i + 1]
      BY <2>1, <2>9, <3>1 DEF LeftInv
    <3>3. CASE i = L - 1
      <4>1. i + 1 = L
        BY <1>2, <3>3
      <4> QED
        BY <3>2, <4>1
    <3>4. CASE i # L - 1
      <4>1. i < L - 1 /\ i + 1 \in 1 .. L - 1
        BY <1>2, <3>4
      <4> QED
        BY <1>4, <3>2, <4>1
    <3> QED
      BY <3>3, <3>4
  <2> QED
    BY <1>4, <1>5, <1>6, <2>3, <2>7, <2>8, <2>9 DEF LeftInv
<1> QED
  BY <1>7, <1>8, <1>9, <1>10 DEF Searching

LEMMA SearchInductive == IInv /\ SearchInv /\ [Next]_vars => SearchInv'
<1> SUFFICES ASSUME IInv, SearchInv, [Next]_vars PROVE SearchInv'
  OBVIOUS
\* Nothing else changes while the search goes on.
<1>1. ASSUME phase \notin {"dfs", "detected"}, phase' \notin {"dfs", "detected"}, UNCHANGED dfs
      PROVE  SearchInv'
  BY <1>1 DEF SearchInv
<1>2. CASE \E n \in Nodes : AddNode(n) \/ RemoveNode(n)
  BY <1>1, <1>2 DEF AddNode, RemoveNode, Mutates
<1>3. CASE \/ \E e \in Edges : AddDependency(e[1], e[2])
           \/ \E refs \in Formulas : BuildFromFormulas(refs)
  BY <1>1, <1>3 DEF AddDependency, BuildFromFormulas, Mutates
<1>4. CASE GetCalculationOrder \/ DownstreamEnds \/ SortEnds
  BY <1>1, <1>4 DEF GetCalculationOrder, DownstreamEnds, SortEnds, StartSort
<1>5. CASE \/ \E C \in SUBSET Nodes : GetRecalcOrder(C)
           \/ \E n \in Nodes : DownstreamStep(n) \/ SortStep(n)
  BY <1>1, <1>5 DEF GetRecalcOrder, DownstreamStep, SortStep
<1>6. CASE DetectCycles
  <2>1. phase' = "dfs" /\ dfs' = EmptyDfs
    BY <1>6 DEF DetectCycles
  <2>2. dfs'.path = <<>> /\ dfs'.todo = <<>> /\ dfs'.visited = {} /\ dfs'.cycles = {}
    BY <2>1 DEF EmptyDfs
  <2>3. Elements(dfs.path)' = {} /\ Finished' = {}
    BY <2>2 DEF Elements, Finished
  <2>4. SearchTypes' /\ PathInv' /\ CyclesAreReal'
    BY <2>1, <2>2, <2>3 DEF SearchTypes, PathInv, CyclesAreReal, EmptyDfs
  <2>5. LeftInv'
    BY <2>2, <2>3 DEF LeftInv, Cyclic
  <2> QED
    BY <2>1, <2>4, <2>5 DEF SearchInv, Searching
<1>7. CASE \E n \in Nodes : EnterRoot(n) \/ ExploreNeighbour(n)
  <2>1. phase = "dfs" /\ phase' = "dfs"
    BY <1>7 DEF EnterRoot, ExploreNeighbour
  <2>2. Searching'
    BY <1>7, <2>1, EnterRootKeeps, ExploreNeighbourKeeps DEF SearchInv
  <2> QED
    BY <2>1, <2>2 DEF SearchInv
<1>8. CASE LeaveNode
  <2>1. phase = "dfs" /\ phase' = "dfs"
    BY <1>8 DEF LeaveNode
  <2>2. Searching'
    BY <1>8, <2>1, LeaveNodeKeeps DEF SearchInv
  <2> QED
    BY <2>1, <2>2 DEF SearchInv
\* Every node was entered and left: if no cycle was met there is none.
<1>9. CASE DetectEnds
  <2>1. /\ phase = "dfs" /\ phase' = "detected" /\ dfs.path = <<>> /\ nodes \subseteq dfs.visited
        /\ UNCHANGED <<nodes, deps, dependents, dfs>>
    BY <1>9 DEF DetectEnds, Roots, graph
  <2>2. Searching /\ GraphTypes /\ EdgesAgree
    BY <2>1 DEF SearchInv, IInv
  <2>3. Finished = nodes
    <3>1. Elements(dfs.path) = {}
      BY <2>1 DEF Elements
    <3> QED
      BY <2>1, <2>2, <3>1 DEF Finished, Searching, SearchTypes
  <2>4. dfs.cycles = {} => ~Cyclic(nodes)
    BY <2>2, <2>3 DEF Searching, LeftInv
  <2>5. ASSUME dfs.cycles # {} PROVE Cyclic(nodes)
    <3>1. PICK c \in dfs.cycles : TRUE
      BY <2>5
    <3>2. c \in Seq(nodes) /\ IsSimpleCycle(c)
      BY <2>2 DEF Searching, SearchTypes, CyclesAreReal
    <3> QED
      BY <2>2, <3>2, SimpleCycleIsCyclic
  <2>6. CyclesAreReal'
    BY <2>1, <2>2 DEF Searching, CyclesAreReal, IsSimpleCycle
  <2>7. CycleFoundIfAny'
    BY <2>1, <2>4, <2>5 DEF CycleFoundIfAny, Cyclic
  <2> QED
    BY <2>1, <2>6, <2>7 DEF SearchInv
<1>10. CASE Returns
  BY <1>10 DEF Returns, SearchInv
<1>11. CASE UNCHANGED vars
  BY <1>11 DEF vars, SearchInv, Searching, SearchTypes, PathInv, LeftInv, Finished, CyclesAreReal,
     CycleFoundIfAny, IsSimpleCycle, Cyclic
<1> QED
  BY <1>2, <1>3, <1>4, <1>5, <1>6, <1>7, <1>8, <1>9, <1>10, <1>11 DEF Next

LEMMA SearchInitially == Init => SearchInv
  BY DEF Init, SearchInv

LEMMA SearchTellsTruth == SearchInv => CyclesAreFound
<1> SUFFICES ASSUME SearchInv PROVE CyclesAreReal /\ CycleFoundIfAny
  BY DEF CyclesAreFound
<1>1. CASE phase = "dfs"
  BY <1>1 DEF SearchInv, Searching, CycleFoundIfAny
<1>2. CASE phase = "detected"
  BY <1>2 DEF SearchInv
<1>3. CASE phase \notin {"dfs", "detected"}
  BY <1>3 DEF SearchInv, EmptyDfs, CyclesAreReal, CycleFoundIfAny
<1> QED
  BY <1>1, <1>2, <1>3

-------------------------------------------------------------------------------
(* The theorems.                                                            *)

\* Whatever is added, removed and built again, the two directions of every edge agree and
\* connect registered nodes (add_dependency, remove_node, build_from_formulas).
THEOREM EdgesAgreeAlways == Spec => []EdgesAgree
<1>1. IInv => EdgesAgree
  BY DEF IInv
<1> QED
  BY <1>1, Always, PTL

\* In every iteration of the sort, no node stands before something it depends on
\* (_topological_sort).
THEOREM DependenciesComeFirst == Spec => []DependenciesFirst
<1>1. IInv => DependenciesFirst
  BY DEF IInv
<1> QED
  BY <1>1, Always, PTL

\* What is returned is complete, and the error is raised for cyclic subsets only
\* (_topological_sort).
THEOREM OrderOrCycleAlways == Spec => []OrderOrCycle
<1>1. ASSUME IInv PROVE OrderOrCycle
  <2>1. GraphTypes /\ CallTypes /\ DependenciesFirst
    BY <1>1 DEF IInv
  <2>2. Len(result) = Cardinality(subset) <=> Elements(result) = subset
    BY <2>1, FullResult
  <2>3. ASSUME phase = "sorted" PROVE Elements(result) = subset
    BY <1>1, <2>2, <2>3 DEF IInv, KahnInv, Sorting
  <2>4. ASSUME phase = "cyclic" PROVE Cyclic(subset)
    <3> DEFINE T == subset \ Elements(result)
    <3>1. ready = {} /\ Len(result) # Cardinality(subset)
      BY <1>1, <2>4 DEF IInv, KahnInv, Sorting
    <3>2. Elements(result) \subseteq subset
      BY <2>1 DEF CallTypes, Elements
    <3>3. T # {}
      BY <2>2, <3>1, <3>2
    <3>4. \A m \in T : Waits(m) # {}
      BY <1>1, <2>4, <3>1 DEF IInv, KahnInv, Sorting
    <3>5. \A m \in T : deps[m] \intersect T # {}
      BY <3>4 DEF Waits
    <3> QED
      BY <3>3, <3>5 DEF Cyclic
  <2> QED
    BY <2>3, <2>4 DEF OrderOrCycle
<1> QED
  BY <1>1, Always, PTL

\* A recalculation sorts exactly what depends on the change (_downstream_set).
THEOREM RecalcIsMinimalAlways == Spec => []RecalcIsMinimal
<1>1. IInv => RecalcIsMinimal
  BY DEF IInv
<1> QED
  BY <1>1, Always, PTL

\* What detect_cycles reports are cycles of the graph, and it reports one iff there is
\* one, for every graph and every order in which it visits nodes and neighbours.
THEOREM CyclesAreFoundAlways == Spec => []CyclesAreFound
<1>1. Spec => []SearchInv
  <2>1. IInv /\ SearchInv /\ [Next]_vars => SearchInv'
    BY SearchInductive
  <2> QED
    BY <2>1, Always, SearchInitially, PTL DEF Spec
<1> QED
  BY <1>1, SearchTellsTruth, PTL
===============================================================================
