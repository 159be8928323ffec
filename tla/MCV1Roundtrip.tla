---------------------------- MODULE MCV1Roundtrip ----------------------------
(* V1Roundtrip on small instances: one request of each kind. *)
EXTENDS V1Roundtrip

CONSTANTS good, another, unbuildable, rejected, long, longAnswer, distrusted

===============================================================================
