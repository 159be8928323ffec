---------------------------- MODULE FrameChannel ----------------------------
(***************************************************************************)
(* What one direction of a serial link promises its users, who only know   *)
(* send_frame/write_frame and recv_frame/read_frame: a reliable FIFO       *)
(* channel of whole frames.  No frame is lost, duplicated, reordered or    *)
(* altered, whatever sizes the bytes arrive in.                            *)
(***************************************************************************)
EXTENDS Integers, Sequences

CONSTANT Frame

VARIABLES
  sent,  \* the frames that were written
  got    \* the frames the reader returned

Init == sent = <<>> /\ got = <<>>

Send ==
  /\ \E f \in Frame : sent' = Append(sent, f)
  /\ UNCHANGED got

Deliver ==
  /\ Len(got) < Len(sent)
  /\ got' = Append(got, sent[Len(got) + 1])
  /\ UNCHANGED sent

Next == Send \/ Deliver

Spec == Init /\ [][Next]_<<sent, got>>

(* A reader that keeps calling gets every frame. *)
FairSpec == Spec /\ WF_<<sent, got>>(Deliver)
===============================================================================
