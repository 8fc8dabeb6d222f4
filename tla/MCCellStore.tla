------------------------------ MODULE MCCellStore ------------------------------
(* Two instances of CellStore, one per value of focus: writers that race    *)
(* without key changes, and key changes between the writes of one client.   *)
EXTENDS CellStore, TLC

VARIABLE focus

Number(n)   == [type |-> "number", of |-> n]
Single(c, v) == <<[cell |-> c, value |-> v]>>
Bulk(c, d, v) == <<[cell |-> c, value |-> v], [cell |-> d, value |-> v]>>

\* Writers that contend for cell 1, one of them in a bulk request, and others that only
\* share the quota.
FiveCells   == 1 .. 5
Contending  == {Single(1, Number(1)), Single(1, Null), Bulk(2, 1, Number(2)),
                Bulk(3, 4, Number(3)), Single(5, Number(4))}

\* Single and bulk writes of every one of three cells, each deleted on its own.
ThreeCells  == 1 .. 3
Anywhere    == {Single(c, Number(1)) : c \in ThreeCells}
                \union UNION {{Bulk(c, d, Number(2)) : d \in ThreeCells \ {c}} : c \in ThreeCells}
OneNumber   == {Single(c, Number(1)) : c \in Cells}
EachCell    == {{c} : c \in ThreeCells}

Client == CHOOSE w \in Writers : TRUE

FocusInit == focus \in {"writes", "keys"} /\ Init

FocusNext ==
    /\ UNCHANGED focus
    /\ \/ focus = "writes" /\ \E w \in Writers : WriterNext(w, Contending, {{1}})
       \/ focus = "keys" /\ \/ WriterNext(Client, Requests, Deletable)
                            \/ \E a \in Admins : AdminNext(a)

FocusSpec == FocusInit /\ [][FocusNext]_<<focus, vars>>

\* Writes that overlap key changes, for the claim about every cell.
OverlapSpec == (Init /\ focus = "keys") /\ [][Next /\ UNCHANGED focus]_<<focus, vars>>

\* Between the writes of one client keys change, and cells go, without harm: what is
\* stored is under the newest active key, and what the engine computes with is what is
\* stored (rotate_model_encryption_key, _sync_engine_after_commit).
ClientKeepsItsCells == focus = "keys" => AllUnderActiveKey /\ EngineMirrors
===============================================================================
