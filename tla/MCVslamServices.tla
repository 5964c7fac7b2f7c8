--------------------------- MODULE MCVslamServices ---------------------------
(* The instance of VslamServices for TLC: the times of service/unit.py,    *)
(* scaled down in the same order.                                          *)
EXTENDS VslamServices

ScaledIntervals == [s \in Services |-> IF s = "slam" THEN 20 ELSE 60]
=============================================================================
