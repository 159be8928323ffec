------------------------------- MODULE MCV2Probe -------------------------------
(* V2Probe on a small instance: two seeds and one that does not fit a frame. *)
EXTENDS V2Probe

CONSTANTS seedA, seedB, longSeed

===============================================================================
