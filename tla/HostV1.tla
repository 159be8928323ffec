-------------------------------- MODULE HostV1 --------------------------------
(***************************************************************************)
(* harness-host in v1 mode: run_v1_roundtrip over the two FramedPorts that *)
(* main opens, with the read timeout of 30 s that main gives them.         *)
(***************************************************************************)
EXTENDS SerialLinks

ASSUME HostLinksAssumption == Board = {"sender", "receiver"}

VARIABLES
  host,      \* where run_v1_roundtrip is, or how it ended
  held,      \* the payload read and not yet relayed
  served,    \* history: what the request of this run was for
  confirmed  \* history: the requests whose run ended in Ok

hostVars == <<host, held, served, confirmed>>

Nothing == [is |-> "nothing"]

HostReads  == {"awaitRequest", "awaitProposal", "awaitStatus"}
HostWrites == {"relayRequest", "relayProposal"}
HostErrors == {"ReadFailed", "Framing", "Unexpected", "WriteFailed"}
HostEnded  == {"done"} \cup HostErrors

HostTypeOK ==
  /\ host \in HostReads \cup HostWrites \cup HostEnded
  /\ held \in RequestPayload \cup AnswerPayload \cup {Nothing}
  /\ served \in Requests \cup {None}
  /\ confirmed \subseteq Requests

HostInit ==
  /\ host = "awaitRequest"
  /\ held = Nothing
  /\ served = None
  /\ confirmed = {}

-----------------------------------------------------------------------------
(* The port that read_frame is called on, and the command insisted on. *)
Port == IF host = "awaitProposal" THEN "receiver" ELSE "sender"

Expected ==
  CASE host = "awaitRequest"  -> "OutRequest"
    [] host = "awaitProposal" -> "SignedPsbt"
    [] host = "awaitStatus"   -> "Status"

(* read_frame returns f. *)
Reads(f) ==
  /\ host \in HostReads
  /\ HasFrame(toHost[Port])
  /\ f = Head(toHost[Port])
  /\ toHost' = TakeFrom(toHost, Port)
  /\ UNCHANGED <<toBoard, faults>>

TakeRequest ==
  /\ host = "awaitRequest"
  /\ \E f \in WireFrame :
       /\ Reads(f) /\ f.command = Expected
       /\ held' = f.payload
       /\ served' = f.payload.of
  /\ host' = "relayRequest"
  /\ UNCHANGED confirmed

TakeProposal ==
  /\ host = "awaitProposal"
  /\ \E f \in WireFrame :
       /\ Reads(f) /\ f.command = Expected
       /\ held' = f.payload
  /\ host' = "relayProposal"
  /\ UNCHANGED <<served, confirmed>>

(* Mutant: whatever the sender says last ends the run. *)
TakeAnything ==
  /\ host = "awaitStatus"
  /\ \E f \in WireFrame : Reads(f)
  /\ host' = "done"
  /\ confirmed' = confirmed \cup {served}
  /\ UNCHANGED <<held, served>>

(* The payload of the Status is not looked at. *)
TakeStatus ==
  /\ host = "awaitStatus"
  /\ \E f \in WireFrame : Reads(f) /\ f.command = Expected
  /\ host' = "done"
  /\ confirmed' = confirmed \cup {served}
  /\ UNCHANGED <<held, served>>

RefuseCommand ==
  /\ \E f \in WireFrame : Reads(f) /\ f.command # Expected
  /\ host' = "Unexpected"
  /\ UNCHANGED <<held, served, confirmed>>

HostFramingError ==
  /\ host \in HostReads
  /\ HasBroken(toHost[Port])
  /\ host' = "Framing"
  /\ UNCHANGED <<linkVars, held, served, confirmed>>

(* Mutant: the ports are opened without a timeout. *)
HostReadBlocks == FALSE

(* The read times out, fails or returns 0 bytes. *)
HostReadFails ==
  /\ host \in HostReads
  /\ host' = "ReadFailed"
  /\ UNCHANGED <<linkVars, held, served, confirmed>>

(* What write_frame is called with, and on the port of which board. *)
RelayedAsIs(from) ==   \* mutant: under the commands they came with
  IF from = "relayRequest"
  THEN [port |-> "receiver", command |-> "OutRequest"]
  ELSE [port |-> "sender", command |-> "SignedPsbt"]

RelayedBack(from) ==   \* mutant: the proposal to the board it came from
  [port |-> "receiver",
   command |-> IF from = "relayRequest" THEN "OriginalPsbt" ELSE "InResponse"]

RelayedAsRequest(from) ==   \* mutant: the proposal under a request's command
  [port |-> IF from = "relayRequest" THEN "receiver" ELSE "sender",
   command |-> "OriginalPsbt"]

Relayed(from) ==
  IF from = "relayRequest"
  THEN [port |-> "receiver", command |-> "OriginalPsbt"]
  ELSE [port |-> "sender", command |-> "InResponse"]

RelayedFrame == [command |-> Relayed(host).command, payload |-> held]

Relay ==
  /\ host \in HostWrites
  /\ toBoard' = AddTo(toBoard, Relayed(host).port, RelayedFrame)
  /\ host' = IF host = "relayRequest" THEN "awaitProposal" ELSE "awaitStatus"
  /\ UNCHANGED <<toHost, faults, held, served, confirmed>>

HostWriteFails ==
  /\ host \in HostWrites
  /\ Fault
  /\ toBoard' \in FailedOnto(toBoard, Relayed(host).port, RelayedFrame)
  /\ host' = "WriteFailed"
  /\ UNCHANGED <<toHost, held, served, confirmed>>

-----------------------------------------------------------------------------
(* The program is started again, whether it had ended or was killed: what  *)
(* it had read ahead is gone.                                              *)
RerunHost ==
  /\ host' = "awaitRequest"
  /\ held' = Nothing
  /\ served' = None
  /\ \E s \in LeftOf(toHost["sender"]), r \in LeftOf(toHost["receiver"]) :
       toHost' = [sender |-> s, receiver |-> r]
  /\ toBoard' \in StoppedOnto(toBoard, Relayed(host).port, host \in HostWrites)
  /\ UNCHANGED <<faults, confirmed>>
===============================================================================
