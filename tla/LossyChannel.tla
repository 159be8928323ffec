----------------------------- MODULE LossyChannel -----------------------------
(***************************************************************************)
(* What is left of FrameChannel's promise when bytes get lost or altered   *)
(* on the way, or when a party gives up half-way: some items may never     *)
(* arrive, but those that do are what was sent, in the order in which they *)
(* were sent and each once; and a reader that has met an error gets        *)
(* nothing more.                                                           *)
(***************************************************************************)
EXTENDS Integers, Sequences

CONSTANT Item

VARIABLES
  sent,   \* the items that were sent
  got,    \* the items that arrived
  broken  \* the reader has met an error

Init == sent = <<>> /\ got = <<>> /\ broken = FALSE

(* xs are some of ys, in the order of ys. *)
DrawnFrom(xs, ys) ==
  \E place \in [DOMAIN xs -> DOMAIN ys] :
    /\ \A i, j \in DOMAIN xs : i < j => place[i] < place[j]
    /\ \A i \in DOMAIN xs : xs[i] = ys[place[i]]

Send ==
  /\ \E x \in Item : sent' = Append(sent, x)
  /\ UNCHANGED <<got, broken>>

Deliver ==
  /\ ~broken
  /\ \E x \in Item : got' = Append(got, x) /\ DrawnFrom(Append(got, x), sent)
  /\ UNCHANGED <<sent, broken>>

Break ==
  /\ broken' = TRUE
  /\ UNCHANGED <<sent, got>>

Next == Send \/ Deliver \/ Break

Spec == Init /\ [][Next]_<<sent, got, broken>>
===============================================================================
