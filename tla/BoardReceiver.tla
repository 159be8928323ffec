----------------------------- MODULE BoardReceiver -----------------------------
(***************************************************************************)
(* The receiver's board: run_receiver.                                     *)
(***************************************************************************)
EXTENDS SerialLinks

CONSTANTS
  Rejected,       \* requests a check of the receiver refuses
  LongProposals   \* requests whose proposal, in base64, exceeds MAX_PAYLOAD_LEN

ASSUME ReceiverLinkAssumption == "receiver" \in Board

ASSUME ReceiverSetsAssumption ==
  /\ Rejected \subseteq Requests
  /\ LongProposals \subseteq Requests

VARIABLES
  receiver,  \* where run_receiver is, or how it returned
  proposed   \* history: the requests whose proposal was handed
             \* to the transport

receiverVars == <<receiver, proposed>>

ReceiverTypeOK ==
  /\ receiver \in {"waiting"} \cup Returned
  /\ proposed \subseteq Requests

ReceiverInit ==
  /\ receiver = "waiting"
  /\ proposed = {}

-----------------------------------------------------------------------------
(* The checks of the receiver's typestate chain on the body it was given. *)
AcceptsRequest(payload) == payload.is = "request" /\ payload.of \notin Rejected

(* What the role answers with: the proposal as text, not its raw bytes. *)
RawAnswer(r) == Proposal(r)    \* mutant: serialized, not encoded
Answer(r) == Base64(Proposal(r))

ProposalFrame(r) == [command |-> "SignedPsbt", payload |-> Answer(r)]

(* The first frame: the role answers it or returns an error. *)
ReceiveRequest ==
  /\ receiver = "waiting"
  /\ HasFrame(toBoard["receiver"])
  /\ \E rest \in LeftOf(Tail(toBoard["receiver"])) :
       toBoard' = [toBoard EXCEPT !["receiver"] = rest]
  /\ LET f == Head(toBoard["receiver"])
         r == f.payload.of IN
       \/ /\ f.command # "OriginalPsbt"
          /\ receiver' = "UnexpectedCommand"
          /\ UNCHANGED <<toHost, faults, proposed>>
       \/ /\ f.command = "OriginalPsbt"
          /\ ~AcceptsRequest(f.payload) \/ r \in LongProposals
          /\ receiver' = "Payjoin"
          /\ UNCHANGED <<toHost, faults, proposed>>
       \/ /\ f.command = "OriginalPsbt"
          /\ AcceptsRequest(f.payload) /\ r \notin LongProposals
          /\ proposed' = proposed \cup {r}
          /\ \/ /\ toHost' = AddTo(toHost, "receiver", ProposalFrame(r))
                /\ receiver' = "Ok"
                /\ UNCHANGED faults
             \/ /\ Fault
                /\ toHost' \in FailedOnto(toHost, "receiver", ProposalFrame(r))
                /\ receiver' = "Transport"

ReceiverFramingError ==
  /\ receiver = "waiting"
  /\ HasBroken(toBoard["receiver"])
  /\ \E rest \in LeftOf(toBoard["receiver"]) :
       toBoard' = [toBoard EXCEPT !["receiver"] = rest]
  /\ receiver' = "Framing"
  /\ UNCHANGED <<toHost, faults, proposed>>

ReceiverReadFails ==
  /\ receiver = "waiting"
  /\ Fault
  /\ \E rest \in LeftOf(toBoard["receiver"]) :
       toBoard' = [toBoard EXCEPT !["receiver"] = rest]
  /\ receiver' = "Transport"
  /\ UNCHANGED <<toHost, proposed>>

-----------------------------------------------------------------------------
(* The board is reset: its role starts again, bytes it had read are gone.  *)
ResetReceiver ==
  /\ receiver' = "waiting"
  /\ \E rest \in LeftOf(toBoard["receiver"]) :
       toBoard' = [toBoard EXCEPT !["receiver"] = rest]
  /\ toHost' \in StoppedOnto(toHost, "receiver",
                            receiver = "waiting" /\ HasFrame(toBoard["receiver"]))
  /\ UNCHANGED <<faults, proposed>>
===============================================================================
