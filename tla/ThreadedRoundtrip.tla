--------------------------- MODULE ThreadedRoundtrip ---------------------------
(***************************************************************************)
(* The two roles of harness-device wired to each other, with no host in    *)
(* between: v1_round_trip_over_real_transport runs each in a thread of its *)
(* own, over ChannelTransports made by channel_pair, and joins both.       *)
(*                                                                         *)
(* toBoard[b] is the mpsc queue b receives from.  A role that returns      *)
(* drops its ends of both queues: a send to it fails, and a receive from   *)
(* it fails once its queue is empty.                                       *)
(***************************************************************************)
EXTENDS BoardSender, BoardReceiver

VARIABLE main   \* which thread the test waits for, or how it ended

vars == <<linkVars, senderVars, receiverVars, main>>

TypeOK ==
  /\ LinksTypeOK
  /\ SenderTypeOK
  /\ ReceiverTypeOK
  /\ main \in {"joinReceiver", "joinSender", "passed", "failed"}

Init ==
  /\ LinksInit
  /\ SenderInit
  /\ ReceiverInit
  /\ main = "joinReceiver"

-----------------------------------------------------------------------------
(* ChannelTransport *)

SentUntranslated(f) == f   \* mutant: the roles' commands as they are

(* What send makes of a frame: the command the other role takes. *)
Translated(f) ==
  [f EXCEPT !.command = CASE @ = "OutRequest" -> "OriginalPsbt"
                          [] @ = "SignedPsbt" -> "InResponse"
                          [] OTHER -> @]

Unread(b) == toBoard[b] # <<>>

(* Mutant: a hang-up is reported before what was sent ahead of it is read. *)
HungUpAtOnce(b, peer) == peer \in Returned

NeverHungUp(b, peer) == peer = "dropped"   \* mutant: an end is never dropped

HungUp(b, peer) == peer \in Returned /\ ~Unread(b)

-----------------------------------------------------------------------------
(* The sender's thread. *)

ThreadSends(r) ==
  /\ sender = "start"
  /\ r \notin Unbuildable \cup LongRequests
  /\ request' = r
  /\ requested' = requested \cup {r}
  /\ IF receiver \in Returned
       THEN sender' = "Transport" /\ UNCHANGED toBoard
       ELSE /\ sender' = "waiting"
            /\ toBoard' = AddTo(toBoard, "receiver", Translated(RequestFrame(r)))
  /\ UNCHANGED <<toHost, faults, reported, finalized>>

SenderHungUp ==
  /\ sender = "waiting"
  /\ HungUp("sender", receiver)
  /\ sender' = "Transport"
  /\ UNCHANGED <<linkVars, request, reported, requested, finalized>>

SenderThread ==
  /\ \/ \E r \in Requests : ThreadSends(r) \/ RefuseRequest(r)
     \/ ReceiveResponse
     \/ SenderHungUp
  /\ UNCHANGED <<receiverVars, main>>

-----------------------------------------------------------------------------
(* The receiver's thread. *)

(* Mutant: the error of encode is handed up as it is. *)
OutcomeUnmapped(f) == IF f.payload.of \in LongProposals THEN "PayloadTooLarge" ELSE "Ok"

(* How run_receiver returns when it has read frame f. *)
Outcome(f) ==
  CASE f.command # "OriginalPsbt" -> "UnexpectedCommand"
    [] ~AcceptsRequest(f.payload) \/ f.payload.of \in LongProposals -> "Payjoin"
    [] sender \in Returned -> "Transport"
    [] OTHER -> "Ok"

ThreadAnswers ==
  /\ receiver = "waiting"
  /\ Unread("receiver")
  /\ LET f == Head(toBoard["receiver"])
         taken == TakeFrom(toBoard, "receiver") IN
       /\ receiver' = Outcome(f)
       /\ toBoard' = IF receiver' = "Ok"
                       THEN AddTo(taken, "sender", Translated(ProposalFrame(f.payload.of)))
                       ELSE taken
       /\ proposed' = IF receiver' \in {"Ok", "Transport"}
                        THEN proposed \cup {f.payload.of} ELSE proposed
  /\ UNCHANGED <<toHost, faults>>

ReceiverHungUp ==
  /\ receiver = "waiting"
  /\ HungUp("receiver", sender)
  /\ receiver' = "Transport"
  /\ UNCHANGED <<linkVars, proposed>>

ReceiverThread == (ThreadAnswers \/ ReceiverHungUp) /\ UNCHANGED <<senderVars, main>>

-----------------------------------------------------------------------------
(* The test's own thread: it joins the receiver's, then the sender's, and  *)
(* panics at the first that did not return Ok or when what they returned   *)
(* differs.                                                                *)

JoinReceiver ==
  /\ main = "joinReceiver"
  /\ receiver \in Returned
  /\ main' = IF receiver = "Ok" THEN "joinSender" ELSE "failed"

(* Mutant: the test ends with the receiver's thread. *)
JoinSenderUnasked ==
  /\ main = "joinSender"
  /\ main' = "passed"

JoinSender ==
  /\ main = "joinSender"
  /\ sender \in Returned
  /\ main' = IF sender = "Ok" /\ finalized = proposed THEN "passed" ELSE "failed"

Main == (JoinReceiver \/ JoinSender) /\ UNCHANGED <<linkVars, senderVars, receiverVars>>

Next == SenderThread \/ ReceiverThread \/ Main

(* Each thread goes on unless it waits for another. *)
FairSpec ==
  /\ Init /\ [][Next]_vars
  /\ WF_vars(SenderThread)
  /\ WF_vars(ReceiverThread)
  /\ WF_vars(Main)

-----------------------------------------------------------------------------
(* No thread waits for ever, whatever the roles make of the request: one   *)
(* that gives up hangs up on the other, which then gives up too.           *)
AllThreadsEnd ==
  <>[](sender \in Returned /\ receiver \in Returned /\ main \in {"passed", "failed"})

(* A role fails over its transport only when the other one refused: an     *)
(* answer sent before its sender hung up is not lost with it, and two      *)
(* roles never blame the transport for each other.                         *)
HangUpsHaveACause ==
  /\ sender = "Transport" => receiver = "Payjoin"
  /\ receiver = "Transport" => sender = "Payjoin" /\ proposed = {}

(* With the commands translated on the way out, as the host does, a        *)
(* request that neither role has a reason to refuse makes the test pass.   *)
FailsOnlyWhenRefused ==
  main = "failed" =>
    request \in Unbuildable \cup LongRequests \cup Rejected \cup LongProposals
                  \cup Distrusted

(* Two threads and no host keep the promises of an exchange, too: the test *)
(* passes only on a proposal that was made and accepted.                   *)
Exchange == INSTANCE PayjoinExchange
              WITH requested <- requested, proposed <- proposed, finalized <- finalized,
                   confirmed <- IF main = "passed" THEN {request} ELSE {}
ImplementsExchange == Exchange!Spec
===============================================================================
