----------------------------- MODULE MCSchedule -----------------------------
(* Small instances of Schedule.  The anchor lies before the first day, so the  *)
(* first orders fall due within the days a run reaches; the second interval    *)
(* and the deferral are not multiples of the first.                            *)
EXTENDS CadenceSheet

MCAnchors == {-3}
MCIntervals == {7, 9}
MCDeferDays == {8}
MCSkew == {-1, 0, 1}
=============================================================================
