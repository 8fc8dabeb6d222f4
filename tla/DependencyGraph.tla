---------------------------- MODULE DependencyGraph ----------------------------
(***************************************************************************)
(* The graph of formula references between line items, and its three       *)
(* algorithms: the downstream closure of a change, the calculation order   *)
(* (Kahn), and the detection of cycles (depth first)                       *)
(* (engine/dependency_graph.py, and its port in                            *)
(* src/engine/dynaplan-core/src/graph).                                    *)
(*                                                                         *)
(* A call runs to its end before the graph changes again; its loops are    *)
(* steps, so that an invariant can speak about every iteration.  Where the *)
(* code iterates over a set, and where the two implementations take ready  *)
(* nodes in different orders (Python first come first served, Rust always  *)
(* the least), any element may be next.                                    *)
(***************************************************************************)
EXTENDS Integers, Sequences, FiniteSets

CONSTANTS Nodes,     \* line items
          Edges,     \* the references considered: pairs <<node, depends on>>
          Formulas,  \* inputs of build_from_formulas: item -> items referenced
          Calls      \* the queries considered: subset of {"order", "recalc", "cycles"}

ASSUME DependencyGraphAssumption ==
    /\ IsFiniteSet(Nodes) /\ Edges \subseteq Nodes \X Nodes
    /\ \A refs \in Formulas :
          DOMAIN refs \subseteq Nodes /\ refs \in [DOMAIN refs -> SUBSET Nodes]

VARIABLES
    nodes, deps, dependents,   \* the graph: _nodes, _deps, _dependents
    phase,      \* the call in progress or just ended
    changed,    \* get_recalc_order's argument
    subset,     \* the nodes collected by _downstream_set, then those to be sorted
    frontier,   \* _downstream_set's queue
    inDegree, ready, result,   \* _topological_sort's
    dfs         \* detect_cycles' path, the neighbours left at each level, visited, cycles

graph  == <<nodes, deps, dependents>>
kahn   == <<inDegree, ready, result>>
vars   == <<nodes, deps, dependents, phase, changed, subset, frontier, inDegree, ready,
            result, dfs>>

EmptyDfs == [path |-> <<>>, todo |-> <<>>, visited |-> {}, cycles |-> {}]

Init ==
    /\ nodes = {}
    /\ deps = [n \in Nodes |-> {}]
    /\ dependents = [n \in Nodes |-> {}]
    /\ phase = "idle" /\ changed = {} /\ subset = {} /\ frontier = {}
    /\ inDegree = [n \in {} |-> 0] /\ ready = {} /\ result = <<>>
    /\ dfs = EmptyDfs

-------------------------------------------------------------------------------
(* Changes of the graph.                                                    *)

Elements(s) == {s[i] : i \in DOMAIN s}

Mutates == /\ phase = "idle"
           /\ UNCHANGED <<phase, changed, subset, frontier, kahn, dfs>>

AddNode(n) ==
    /\ Mutates
    /\ nodes' = nodes \union {n}
    /\ UNCHANGED <<deps, dependents>>

AddDependency(n, d) ==
    /\ Mutates
    /\ nodes' = nodes \union {n, d}
    /\ deps' = [deps EXCEPT ![n] = @ \union {d}]
    /\ dependents' = [dependents EXCEPT ![d] = @ \union {n}]

RemoveNode(n) ==
    /\ Mutates /\ n \in nodes
    /\ nodes' = nodes \ {n}
    /\ deps' = [m \in Nodes |-> IF m = n THEN {}
                                ELSE IF m \in dependents[n] THEN deps[m] \ {n} ELSE deps[m]]
    /\ dependents' = [m \in Nodes |-> IF m = n THEN {}
                                      ELSE IF m \in deps[n] THEN dependents[m] \ {n}
                                      ELSE dependents[m]]

\* refs maps each item to what its formula references, known or not.
BuildFromFormulas(refs) ==
    /\ Mutates
    /\ nodes' = nodes \union DOMAIN refs
    /\ deps' = [n \in Nodes |->
                  IF n \in DOMAIN refs THEN deps[n] \union (refs[n] \intersect DOMAIN refs)
                  ELSE deps[n]]
    /\ dependents' = [d \in Nodes |->
                        IF d \in DOMAIN refs
                        THEN dependents[d] \union {n \in DOMAIN refs : d \in refs[n]}
                        ELSE dependents[d]]

-------------------------------------------------------------------------------
(* get_calculation_order and get_recalc_order.                              *)

InDegree_Unrestricted(S) == [n \in S |-> Cardinality(deps[n])]    \* Mutant.

InDegree(S) == [n \in S |-> Cardinality(deps[n] \intersect S)]

StartSort(S) ==
    /\ phase' = "sort"
    /\ subset' = S
    /\ inDegree' = InDegree(S)
    /\ ready' = {n \in S : InDegree(S)[n] = 0}
    /\ result' = <<>>

GetCalculationOrder ==
    /\ phase = "idle" /\ "order" \in Calls
    /\ StartSort(nodes)
    /\ UNCHANGED <<graph, changed, frontier, dfs>>

GetRecalcOrder(C) ==
    /\ phase = "idle" /\ "recalc" \in Calls
    /\ phase' = "downstream" /\ changed' = C
    /\ subset' = C \intersect nodes /\ frontier' = C \intersect nodes
    /\ UNCHANGED <<graph, kahn, dfs>>

DownstreamStep_Forgets(n) ==    \* Mutant: what is found is not followed.
    /\ phase = "downstream" /\ n \in frontier
    /\ subset' = subset \union (dependents[n] \intersect nodes)
    /\ frontier' = frontier \ {n}
    /\ UNCHANGED <<graph, phase, changed, kahn, dfs>>

DownstreamStep(n) ==
    /\ phase = "downstream" /\ n \in frontier
    /\ LET new == (dependents[n] \intersect nodes) \ subset IN
       /\ subset' = subset \union new
       /\ frontier' = (frontier \ {n}) \union new
    /\ UNCHANGED <<graph, phase, changed, kahn, dfs>>

DownstreamEnds ==
    /\ phase = "downstream" /\ frontier = {}
    /\ StartSort(subset)
    /\ UNCHANGED <<graph, changed, frontier, dfs>>

\* Mutant: a node is ready as soon as one of its dependencies is done.
Lowered_Ready(n) == dependents[n] \intersect subset

Lowered(n) == {m \in dependents[n] \intersect subset : inDegree[m] = 1}

SortStep(n) ==
    /\ phase = "sort" /\ n \in ready
    /\ result' = Append(result, n)
    /\ inDegree' = [m \in subset |-> IF m \in dependents[n] THEN inDegree[m] - 1
                                     ELSE inDegree[m]]
    /\ ready' = (ready \ {n}) \union Lowered(n)
    /\ UNCHANGED <<graph, phase, changed, subset, frontier, dfs>>

\* The order, or ValueError.
SortEnds ==
    /\ phase = "sort" /\ ready = {}
    /\ phase' = IF Len(result) = Cardinality(subset) THEN "sorted" ELSE "cyclic"
    /\ UNCHANGED <<graph, changed, subset, frontier, kahn, dfs>>

-------------------------------------------------------------------------------
(* detect_cycles.                                                           *)

DetectCycles ==
    /\ phase = "idle" /\ "cycles" \in Calls
    /\ phase' = "dfs" /\ dfs' = EmptyDfs
    /\ UNCHANGED <<graph, changed, subset, frontier, kahn>>

Enter(d, n) == [d EXCEPT !.path = Append(@, n), !.todo = Append(@, dependents[n]),
                         !.visited = @ \union {n}]

Roots_Independent == {n \in nodes : deps[n] = {}}    \* Mutant.
Roots == nodes

EnterRoot(n) ==
    /\ phase = "dfs" /\ dfs.path = <<>> /\ n \in Roots \ dfs.visited
    /\ dfs' = Enter(dfs, n)
    /\ UNCHANGED <<graph, phase, changed, subset, frontier, kahn>>

CycleTo(m) == LET start == CHOOSE i \in DOMAIN dfs.path : dfs.path[i] = m
              IN Append(SubSeq(dfs.path, start, Len(dfs.path)), m)

\* One neighbour of the node the path ends with: a new cycle if the path holds it, a
\* level more if it was never visited, nothing otherwise.
ExploreNeighbour(m) ==
    LET level == Len(dfs.path)
        left  == [dfs EXCEPT !.todo[level] = @ \ {m}]
    IN
    /\ phase = "dfs" /\ level > 0 /\ m \in dfs.todo[level]
    /\ dfs' = IF m \in Elements(dfs.path)
              THEN IF \E c \in dfs.cycles : Elements(c) = Elements(CycleTo(m))
                   THEN left
                   ELSE [left EXCEPT !.cycles = @ \union {CycleTo(m)}]
              ELSE IF m \in nodes \ dfs.visited THEN Enter(left, m)
              ELSE left
    /\ UNCHANGED <<graph, phase, changed, subset, frontier, kahn>>

LeaveNode ==
    LET level == Len(dfs.path) IN
    /\ phase = "dfs" /\ level > 0 /\ dfs.todo[level] = {}
    /\ dfs' = [dfs EXCEPT !.path = SubSeq(@, 1, level - 1), !.todo = SubSeq(@, 1, level - 1)]
    /\ UNCHANGED <<graph, phase, changed, subset, frontier, kahn>>

DetectEnds ==
    /\ phase = "dfs" /\ dfs.path = <<>> /\ Roots \subseteq dfs.visited
    /\ phase' = "detected"
    /\ UNCHANGED <<graph, changed, subset, frontier, kahn, dfs>>

-------------------------------------------------------------------------------

\* The caller takes what was returned.
Returns ==
    /\ phase \in {"sorted", "cyclic", "detected"}
    /\ phase' = "idle" /\ changed' = {} /\ subset' = {} /\ frontier' = {}
    /\ inDegree' = [n \in {} |-> 0] /\ ready' = {} /\ result' = <<>>
    /\ dfs' = EmptyDfs
    /\ UNCHANGED graph

Next ==
    \/ \E n \in Nodes : AddNode(n) \/ RemoveNode(n)
    \/ \E e \in Edges : AddDependency(e[1], e[2])
    \/ \E refs \in Formulas : BuildFromFormulas(refs)
    \/ GetCalculationOrder \/ \E C \in SUBSET Nodes : GetRecalcOrder(C)
    \/ \E n \in Nodes : DownstreamStep(n) \/ SortStep(n)
    \/ DownstreamEnds \/ SortEnds
    \/ DetectCycles \/ \E n \in Nodes : EnterRoot(n) \/ ExploreNeighbour(n)
    \/ LeaveNode \/ DetectEnds
    \/ Returns

Spec == Init /\ [][Next]_vars

-------------------------------------------------------------------------------
(* Reference definitions and properties.                                    *)

\* Everything that depends on a node of C, directly or not, with those nodes.
Downstream(C) ==
    LET closed(T) == \A n \in T : dependents[n] \subseteq T
    IN {n \in nodes : \A T \in SUBSET nodes : (C \intersect nodes \subseteq T /\ closed(T)) => n \in T}

\* A non-empty part of S in which every node depends on another one of the part.
Cyclic(S) == \E T \in SUBSET S : T # {} /\ \A n \in T : deps[n] \intersect T # {}

IsSimpleCycle(c) ==
    /\ Len(c) > 1 /\ c[1] = c[Len(c)]
    /\ \A i, j \in 1 .. Len(c) - 1 : c[i] = c[j] => i = j
    /\ \A i \in 1 .. Len(c) - 1 : c[i] \in nodes /\ c[i + 1] \in dependents[c[i]]

\* Every variable holds a value of its type.
TypeOK ==
    /\ nodes \subseteq Nodes
    /\ deps \in [Nodes -> SUBSET Nodes] /\ dependents \in [Nodes -> SUBSET Nodes]
    /\ phase \in {"idle", "downstream", "sort", "sorted", "cyclic", "dfs", "detected"}
    /\ changed \subseteq Nodes /\ subset \subseteq nodes /\ frontier \subseteq subset
    /\ inDegree \in [DOMAIN inDegree -> Int] /\ ready \subseteq DOMAIN inDegree
    /\ DOMAIN inDegree = (IF phase \in {"sort", "sorted", "cyclic"} THEN subset ELSE {})
    /\ result \in Seq(subset)
    /\ dfs.path \in Seq(nodes) /\ Len(dfs.todo) = Len(dfs.path)
    /\ dfs.visited \subseteq nodes

\* The two directions of the edges agree, and no edge leads to or from a node that is
\* not registered, whatever was added, removed and built again (add_dependency,
\* remove_node, build_from_formulas).
EdgesAgree ==
    \A n, d \in Nodes :
        /\ d \in deps[n] <=> n \in dependents[d]
        /\ d \in deps[n] => n \in nodes /\ d \in nodes

\* At every iteration of the sort, what a node of the result depends on within the
\* subset stands before it, and no node stands twice (_topological_sort).
DependenciesFirst ==
    \A i \in DOMAIN result :
        /\ deps[result[i]] \intersect subset \subseteq {result[j] : j \in 1 .. i - 1}
        /\ \A j \in DOMAIN result : result[i] = result[j] => i = j

\* An order that is returned holds all of the subset; ValueError is raised for a
\* cyclic subset only (_topological_sort).
OrderOrCycle ==
    /\ phase = "sorted" => Elements(result) = subset
    /\ phase = "cyclic" => Cyclic(subset)

\* get_recalc_order sorts exactly what depends on the change: "the minimal ordered list
\* of nodes that must be recalculated" (_downstream_set).
RecalcIsMinimal ==
    phase \in {"sort", "sorted", "cyclic"} /\ changed # {} => subset = Downstream(changed)

\* Every cycle reported is a simple cycle of the graph, and none is reported twice
\* (detect_cycles).
CyclesAreReal ==
    /\ \A c \in dfs.cycles : IsSimpleCycle(c)
    /\ \A c, d \in dfs.cycles : Elements(c) = Elements(d) => c = d

\* has_cycle: detect_cycles reports a cycle if there is one, in every order in which it
\* may visit the nodes and their neighbours.
CycleFoundIfAny == phase = "detected" => (dfs.cycles # {} <=> Cyclic(nodes))

\* detect_cycles tells the truth: what it reports are cycles, and it reports one if there
\* is one.
CyclesAreFound == CyclesAreReal /\ CycleFoundIfAny
===============================================================================
