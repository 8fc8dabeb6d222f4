------------------------------ MODULE ModelCopies ------------------------------
(***************************************************************************)
(* Promotions and snapshots work on the rows of the same models, while     *)
(* users edit them.                                                        *)
(***************************************************************************)
EXTENDS Promotion, Snapshots

copiesVars == <<modelVars, promotionVars, snapshotVars>>

Init == ModelRowsInit /\ PromotionInit /\ SnapshotsInit

Next ==
    \/ PromotionNext /\ UNCHANGED snapshotVars
    \/ Elsewhere(SnapshotsNext)

Spec == Init /\ [][Next]_copiesVars

===============================================================================
