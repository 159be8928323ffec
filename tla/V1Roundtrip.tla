----------------------------- MODULE V1Roundtrip -----------------------------
(***************************************************************************)
(* The v1 round trip: the host between the two boards.  The host and the   *)
(* boards only share the lines; boards are reset and the host is started   *)
(* again by whoever runs the harness.                                      *)
(***************************************************************************)
EXTENDS BoardSender, BoardReceiver, HostV1

CONSTANTS
  Patient,     \* the host's read timeout never beats an answer under way
  MaxRestarts  \* bound: restarts of the host and resets of the boards

ASSUME PatientAssumption == Patient \in BOOLEAN

ASSUME MaxRestartsAssumption == MaxRestarts \in Nat

VARIABLE restarts

vars == <<linkVars, senderVars, receiverVars, hostVars, restarts>>

TypeOK ==
  /\ LinksTypeOK
  /\ SenderTypeOK
  /\ ReceiverTypeOK
  /\ HostTypeOK
  /\ restarts \in 0 .. MaxRestarts

Init == LinksInit /\ SenderInit /\ ReceiverInit /\ HostInit /\ restarts = 0

-----------------------------------------------------------------------------
(* Board b still has something to do that does not wait for the host. *)
Busy(b) ==
  \/ b = "sender" /\ (sender = "start" \/ WillReport)
  \/ b = "sender" /\ sender = "waiting" /\ HasFrame(toBoard[b])
  \/ b = "receiver" /\ receiver = "waiting" /\ HasFrame(toBoard[b])

(* A read fails when its 30 s are over, and may for other reasons. *)
HostTimesOut ==
  /\ HostReadFails
  /\ Patient => ~HasFrame(toHost[Port]) /\ ~Busy(Port)

SenderRuns ==
  \/ \E r \in Requests : SendRequest(r) \/ RefuseRequest(r)
  \/ ReceiveResponse
  \/ ReportStatus

SenderFails ==
  \/ \E r \in Requests : FailRequest(r)
  \/ SenderFramingError
  \/ SenderReadFails

ReceiverFails == ReceiverFramingError \/ ReceiverReadFails

HostRuns ==
  \/ TakeRequest
  \/ TakeProposal
  \/ Relay
  \/ TakeStatus
  \/ RefuseCommand
  \/ HostFramingError
  \/ HostTimesOut

LineFault ==
  \E b \in Board :
    DamageToHost(b) \/ DamageToBoard(b) \/ LoseToHost(b) \/ LoseToBoard(b)

(* The steps of one component leave the state of the others alone. *)
SenderStep   == (SenderRuns \/ SenderFails) /\ UNCHANGED <<receiverVars, hostVars, restarts>>
ReceiverStep == (ReceiveRequest \/ ReceiverFails) /\ UNCHANGED <<senderVars, hostVars, restarts>>
HostStep     == (HostRuns \/ HostWriteFails) /\ UNCHANGED <<senderVars, receiverVars, restarts>>
LineStep     == LineFault /\ UNCHANGED <<senderVars, receiverVars, hostVars, restarts>>

Restart ==
  /\ restarts < MaxRestarts
  /\ restarts' = restarts + 1
  /\ \/ ResetSender /\ UNCHANGED <<receiverVars, hostVars>>
     \/ ResetReceiver /\ UNCHANGED <<senderVars, hostVars>>
     \/ RerunHost /\ UNCHANGED <<senderVars, receiverVars>>

Next == SenderStep \/ ReceiverStep \/ HostStep \/ LineStep \/ Restart

Spec == Init /\ [][Next]_vars

(* Each component runs on while it can.  A fault, a restart and a board's  *)
(* reaction to bytes that lack some are never owed; the host's is, by its  *)
(* timeout.                                                                *)
FairSpec ==
  /\ Spec
  /\ WF_vars(SenderRuns /\ UNCHANGED <<receiverVars, hostVars, restarts>>)
  /\ WF_vars(ReceiveRequest /\ UNCHANGED <<senderVars, hostVars, restarts>>)
  /\ WF_vars(HostRuns /\ UNCHANGED <<senderVars, receiverVars, restarts>>)

-----------------------------------------------------------------------------
(* A sender finalizes only a request the receiver proposed to, and the     *)
(* receiver only proposes to a request that a sender made, whatever the    *)
(* lines do and however often anything is restarted: no stale, torn or     *)
(* relabelled frame passes for an answer.                                  *)
Causality == finalized \subseteq proposed /\ proposed \subseteq requested

(* The host says "Round trip done." only of a request whose sender has     *)
(* finalized it.  A Status carries nothing that ties it to a request: it   *)
(* takes a lost frame and a restart together to pair the Status of one     *)
(* request with another one, and neither of them alone is enough.          *)
CompletionMeansFinalized ==
  faults = 0 \/ restarts = 0 => confirmed \subseteq finalized

(* No board is ever sent a frame that its role does not expect, whatever   *)
(* is lost or restarted: the host relabels what it relays.  Until          *)
(* something is restarted the host is not either: it asks the boards in    *)
(* the order in which they answer, and what a fault leaves is never a      *)
(* wrong command.  (With a firmware that reports errors, too, the host may *)
(* find such a report where the request should be.)                        *)
NoUnexpectedCommand ==
  /\ sender # "UnexpectedCommand"
  /\ receiver # "UnexpectedCommand"
  /\ restarts = 0 => host # "Unexpected"

(* The host never waits for ever, whatever was lost and whoever gave up.   *)
HostNeverHangs == <>[](host \in HostEnded)

(* Requests that nobody has a reason to refuse. *)
GoodRequests ==
  Requests \ (Unbuildable \cup Rejected \cup LongRequests \cup LongProposals \cup Distrusted)

Undisturbed == faults = 0 /\ restarts = 0

(* Left alone, with a host that waits for its boards, nobody fails but for *)
(* what is wrong with the request: neither board returns another error     *)
(* than its own refusal, and the host gives up none that both would take,  *)
(* unless it is for the Status of a firmware that sends none.              *)
FailsOnlyWhenRefused ==
  Undisturbed =>
    /\ sender \in HarnessErrors => request \in Unbuildable \cup LongRequests \cup Distrusted
    /\ receiver \in HarnessErrors => request \in Rejected \cup LongProposals
    /\ host \in HostErrors =>
         request \in Requests \ GoodRequests \/ FirmwareStatus = "never"

(* Left alone, a sender that waits is never forgotten: its request or the  *)
(* answer to it is with somebody whose turn it is, unless the receiver has *)
(* refused it.                                                             *)
WaitingSenderIsServed ==
  Undisturbed /\ sender = "waiting" =>
    \/ host = "awaitRequest" /\ HasFrame(toHost["sender"])
    \/ receiver = "waiting" /\ HasFrame(toBoard["receiver"])
    \/ host = "awaitProposal" /\ HasFrame(toHost["receiver"])
    \/ HasFrame(toBoard["sender"])
    \/ host \in HostWrites
    \/ receiver = "Payjoin"

(* Left alone, a round trip of such a request ends with the sender holding *)
(* the final PSBT and the host reporting it.                               *)
RoundTripCompletes ==
  []Undisturbed =>
    \A r \in GoodRequests :
      (sender = "waiting" /\ request = r) ~> (sender = "Ok" /\ host = "done")

(* Left alone, run_sender always returns, unless the receiver returned an  *)
(* error: nothing tells the sender that no answer will come.               *)
SenderReturnsUnlessReceiverFailed ==
  []Undisturbed =>
    (sender = "waiting" ~> sender \in Returned \/ receiver \in HarnessErrors)

(* Request, proposal, acceptance and report come in that order, with one   *)
(* fault and one restart at any moment; CompletionMeansFinalized says what *)
(* more of both can do to the report.                                      *)
Exchange == INSTANCE PayjoinExchange
              WITH requested <- requested, proposed <- proposed,
                   finalized <- finalized, confirmed <- confirmed
ImplementsExchange == Exchange!Spec
===============================================================================
