---------------------------- MODULE MCSimulators ----------------------------
(* Simulators on a small instance: one request of each kind that matters. *)
EXTENDS Simulators

CONSTANTS fixture, another, rejected, longAnswer, distrusted

=============================================================================
