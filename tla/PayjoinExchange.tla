--------------------------- MODULE PayjoinExchange ---------------------------
(***************************************************************************)
(* What a v1 payjoin exchange promises whoever runs it, without lines,     *)
(* frames or a host: a request is proposed to before it is finalized, and  *)
(* reported as done only once its sender has finalized it.                 *)
(***************************************************************************)
CONSTANT Requests

VARIABLES requested, proposed, finalized, confirmed

vars == <<requested, proposed, finalized, confirmed>>

Init ==
  /\ requested = {}
  /\ proposed = {}
  /\ finalized = {}
  /\ confirmed = {}

(* The sender hands out a request. *)
Request(r) ==
  /\ requested' = requested \cup {r}
  /\ UNCHANGED <<proposed, finalized, confirmed>>

(* The receiver answers a request that was made. *)
Propose(r) ==
  /\ r \in requested
  /\ proposed' = proposed \cup {r}
  /\ UNCHANGED <<requested, finalized, confirmed>>

(* The sender accepts the proposal that was made to its request. *)
Finalize(r) ==
  /\ r \in proposed
  /\ finalized' = finalized \cup {r}
  /\ UNCHANGED <<requested, proposed, confirmed>>

(* The exchange is reported as done. *)
Confirm(r) ==
  /\ r \in finalized
  /\ confirmed' = confirmed \cup {r}
  /\ UNCHANGED <<requested, proposed, finalized>>

Next == \E r \in Requests : Request(r) \/ Propose(r) \/ Finalize(r) \/ Confirm(r)

Spec == Init /\ [][Next]_vars
===============================================================================
