------------------------------ MODULE BoardSender ------------------------------
(***************************************************************************)
(* The sender's board: run_sender, and the firmware around it, which is    *)
(* not part of the repository: all that is known of it is that the host    *)
(* waits for a Status frame that run_sender does not send.                 *)
(***************************************************************************)
EXTENDS SerialLinks

CONSTANTS
  Unbuildable,     \* requests the endpoint or the SenderBuilder refuses
  LongRequests,    \* requests whose body exceeds MAX_PAYLOAD_LEN
  Distrusted,      \* requests whose proposal process_response refuses
  FirmwareStatus   \* "never", "onSuccess" or "always" sends a Status

ASSUME SenderLinkAssumption == "sender" \in Board

ASSUME SenderSetsAssumption ==
  /\ Unbuildable \subseteq Requests
  /\ LongRequests \subseteq Requests
  /\ Distrusted \subseteq Requests

ASSUME FirmwareStatusAssumption == FirmwareStatus \in {"never", "onSuccess", "always"}

VARIABLES
  sender,     \* where run_sender is, or how it returned
  request,    \* the request of this call of run_sender
  reported,   \* the firmware has sent its Status
  requested,  \* history: the requests handed to the transport
  finalized   \* history: the requests whose proposal was accepted

senderVars == <<sender, request, reported, requested, finalized>>

SenderTypeOK ==
  /\ sender \in {"start", "waiting"} \cup Returned
  /\ request \in Requests \cup {None}
  /\ reported \in BOOLEAN
  /\ requested \subseteq Requests
  /\ finalized \subseteq Requests

SenderInit ==
  /\ sender = "start"
  /\ request = None
  /\ reported = FALSE
  /\ requested = {}
  /\ finalized = {}

-----------------------------------------------------------------------------
RequestFrame(r) == [command |-> "OutRequest", payload |-> Body(r)]

SendRequest(r) ==
  /\ sender = "start"
  /\ r \notin Unbuildable \cup LongRequests
  /\ toHost' = AddTo(toHost, "sender", RequestFrame(r))
  /\ sender' = "waiting"
  /\ request' = r
  /\ requested' = requested \cup {r}
  /\ UNCHANGED <<toBoard, faults, reported, finalized>>

(* The request cannot be built, or encode refuses its body. *)
RefuseRequest(r) ==
  /\ sender = "start"
  /\ r \in Unbuildable \cup LongRequests
  /\ sender' = "Payjoin"
  /\ request' = r
  /\ UNCHANGED <<linkVars, reported, requested, finalized>>

FailRequest(r) ==
  /\ sender = "start"
  /\ r \notin Unbuildable \cup LongRequests
  /\ Fault
  /\ toHost' \in FailedOnto(toHost, "sender", RequestFrame(r))
  /\ sender' = "Transport"
  /\ request' = r
  /\ requested' = requested \cup {r}
  /\ UNCHANGED <<toBoard, reported, finalized>>

(* process_response takes base64 text and checks it against the request. *)
AcceptsAnyResponse(payload) ==   \* mutant: not checked against the request
  payload.is = "base64" /\ request \notin Distrusted

AcceptsResponse(payload) ==
  payload = Base64(Proposal(request)) /\ request \notin Distrusted

ReceiveResponse ==
  /\ sender = "waiting"
  /\ HasFrame(toBoard["sender"])
  /\ \E rest \in LeftOf(Tail(toBoard["sender"])) :
       toBoard' = [toBoard EXCEPT !["sender"] = rest]
  /\ LET f == Head(toBoard["sender"]) IN
       \/ /\ f.command # "InResponse"
          /\ sender' = "UnexpectedCommand"
          /\ UNCHANGED finalized
       \/ /\ f.command = "InResponse"
          /\ ~AcceptsResponse(f.payload)
          /\ sender' = "Payjoin"
          /\ UNCHANGED finalized
       \/ /\ f.command = "InResponse"
          /\ AcceptsResponse(f.payload)
          /\ sender' = "Ok"
          /\ finalized' = finalized \cup {request}
  /\ UNCHANGED <<toHost, faults, request, reported, requested>>

SenderFramingError ==
  /\ sender = "waiting"
  /\ HasBroken(toBoard["sender"])
  /\ \E rest \in LeftOf(toBoard["sender"]) :
       toBoard' = [toBoard EXCEPT !["sender"] = rest]
  /\ sender' = "Framing"
  /\ UNCHANGED <<toHost, faults, request, reported, requested, finalized>>

SenderReadFails ==
  /\ sender = "waiting"
  /\ Fault
  /\ \E rest \in LeftOf(toBoard["sender"]) :
       toBoard' = [toBoard EXCEPT !["sender"] = rest]
  /\ sender' = "Transport"
  /\ UNCHANGED <<toHost, request, reported, requested, finalized>>

(* The firmware reports how run_sender returned. *)
WillReport ==
  /\ ~reported
  /\ \/ sender = "Ok" /\ FirmwareStatus # "never"
     \/ sender \in HarnessErrors /\ FirmwareStatus = "always"

ReportStatus ==
  /\ WillReport
  /\ reported' = TRUE
  /\ LET code == IF sender = "Ok" THEN "Ok" ELSE "Error"
     IN  toHost' = AddTo(toHost, "sender", [command |-> "Status", payload |-> Code(code)])
  /\ UNCHANGED <<toBoard, faults, sender, request, requested, finalized>>

-----------------------------------------------------------------------------
(* The board is reset: its role starts again, bytes it had read are gone.  *)
ResetSender ==
  /\ sender' = "start"
  /\ request' = None
  /\ reported' = FALSE
  /\ \E rest \in LeftOf(toBoard["sender"]) :
       toBoard' = [toBoard EXCEPT !["sender"] = rest]
  /\ toHost' \in StoppedOnto(toHost, "sender", sender = "start" \/ WillReport)
  /\ UNCHANGED <<faults, requested, finalized>>
===============================================================================
