------------------------------ MODULE MCSweep ------------------------------
(* Small instance of Sweep: the first order falls inside the days a run        *)
(* reaches, with its window opening on the day after the first.                *)
EXTENDS Sweep

MCAnchors == {-3}
MCSkew == {-1, 0}
=============================================================================
