-------------------------- MODULE MCMaterializeLoop --------------------------
(* Small instance: anchors before, at and after the run date, the shortest     *)
(* interval the code admits and two that do not divide it or each other.       *)
EXTENDS MaterializeLoop

MCAnchors == {-30, -9, -7, -1, 0, 3, 12}
MCIntervals == {7, 8, 13}
MCDates == 0..9
=============================================================================
