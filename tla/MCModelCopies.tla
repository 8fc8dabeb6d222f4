----------------------------- MODULE MCModelCopies -----------------------------
EXTENDS ModelCopies

\* A dimension with an item under another one, and a module with a line item that applies
\* to the dimension; one version.
MCCatalogue ==
    1 :> [kind |-> "dimension", up |-> 0, refs |-> {}] @@
    2 :> [kind |-> "item", up |-> 1, refs |-> {}] @@
    3 :> [kind |-> "item", up |-> 1, refs |-> {2}] @@
    4 :> [kind |-> "module", up |-> 0, refs |-> {}] @@
    5 :> [kind |-> "line", up |-> 4, refs |-> {1}] @@
    6 :> [kind |-> "version", up |-> 0, refs |-> {}]
MCKeys == {[li |-> 5, members |-> {2}], [li |-> 5, members |-> {2, 6}]}
MCInitialRows == [m \in Models |-> IF m = Target THEN {1, 2, 4, 5, 6} ELSE {1, 2, 3, 4, 5}]
MCInitialKeys == [m \in Models |-> IF m = Target THEN {} ELSE {[li |-> 5, members |-> {2, 3}]}]
Symmetry == Permutations(Promoters)
===============================================================================
