----------------------------- MODULE SerialLinks -----------------------------
(***************************************************************************)
(* The serial links between the host and its boards, frame by frame.       *)
(* FrameStream shows that a link which delivers its bytes is a FIFO of     *)
(* whole frames; what one that does not looks like to its reader is one of *)
(* two marks:                                                              *)
(*   Garbled  a frame whose bytes were altered: decode fails, for good,    *)
(*   Partial  a frame that lacks bytes: decode waits for more, and what    *)
(*            comes next is taken for the missing bytes.                   *)
(* Payloads are what the roles tell apart: the body of a request, the text *)
(* of a proposal, the code of a Status, a seed and its ShortId.            *)
(***************************************************************************)
EXTENDS Integers, Sequences

CONSTANTS
  Board,      \* the boards, each on a link of its own
  Requests,   \* the requests (original PSBTs), or seeds, one may start with
  None,       \* no request
  MaxFaults   \* bound: faults of lines and transports in a behaviour

ASSUME NoneAssumption == None \notin Requests

ASSUME MaxFaultsAssumption == MaxFaults \in Nat

(* How a call of a role of harness-device returns. *)
HarnessErrors == {"Transport", "Framing", "UnexpectedCommand", "Payjoin"}
Returned == {"Ok"} \cup HarnessErrors

Body(r)      == [is |-> "request", of |-> r]
Proposal(r)  == [is |-> "psbt", of |-> r]
Base64(psbt) == [is |-> "base64", of |-> psbt.of]
ShortId(s)   == [is |-> "id", of |-> s]
Code(c)      == [is |-> "code", of |-> c]

RequestPayload  == [is : {"request"}, of : Requests]
AnswerPayload   == [is : {"psbt", "base64", "id"}, of : Requests]
StatusPayload   == [is : {"code"}, of : {"Ok", "Error"}]

WireFrame ==
  [command : {"OutRequest", "OriginalPsbt"}, payload : RequestPayload]
    \cup [command : {"SignedPsbt", "InResponse"}, payload : AnswerPayload]
    \cup [command : {"Status"}, payload : StatusPayload]

Garbled == [command |-> "Garbled"]
Partial == [command |-> "Partial"]

Item == WireFrame \cup {Garbled, Partial}

VARIABLES
  toHost,   \* per board, what it sent and the host has not taken
  toBoard,  \* per board, what the host sent and the board has not taken
  faults    \* faults so far

linkVars == <<toHost, toBoard, faults>>

LinksTypeOK ==
  /\ toHost \in [Board -> Seq(Item)]
  /\ toBoard \in [Board -> Seq(Item)]
  /\ faults \in 0 .. MaxFaults

LinksInit ==
  /\ toHost = [b \in Board |-> <<>>]
  /\ toBoard = [b \in Board |-> <<>>]
  /\ faults = 0

-----------------------------------------------------------------------------
AddTo(lines, b, item) == [lines EXCEPT ![b] = Append(@, item)]
TakeFrom(lines, b)    == [lines EXCEPT ![b] = Tail(@)]

(* A whole frame is next on the line, or bytes that decode rejects. *)
HasFrame(line)  == line # <<>> /\ line[1] \in WireFrame
HasBroken(line) ==
  /\ line # <<>>
  /\ line[1] = Garbled \/ (line[1] = Partial /\ Len(line) > 1)

(* What is left of a line when a buffer of bytes read ahead is dropped: a  *)
(* role's read_buf is local to its call, a FramedPort's buf to the process.*)
(* The drop may cut a frame; decode takes the rest of one for a header.    *)
CutAs(mark, line) == {<<mark>> \o SubSeq(line, k + 1, Len(line)) : k \in DOMAIN line}

LeftOf(line) ==
  {SubSeq(line, k, Len(line)) : k \in 1 .. Len(line) + 1}
    \cup CutAs(Garbled, line) \cup CutAs(Partial, line)

Fault == faults < MaxFaults /\ faults' = faults + 1

(* A writer whose write fails leaves nothing of the frame, or a part, or,  *)
(* when it is the flush that fails, all of it.                             *)
FailedOnto(lines, b, item) == {lines, AddTo(lines, b, Partial), AddTo(lines, b, item)}

(* A program that is stopped may be in the middle of a write. *)
StoppedOnto(lines, b, writing) ==
  IF writing THEN {lines, AddTo(lines, b, Partial)} ELSE {lines}

-----------------------------------------------------------------------------
(* Faults of the lines themselves. *)

Damaged(line) ==
  {[line EXCEPT ![i] = mark] : i \in DOMAIN line, mark \in {Garbled, Partial}}

DamageToHost(b) ==
  /\ Fault
  /\ \E line \in Damaged(toHost[b]) : toHost' = [toHost EXCEPT ![b] = line]
  /\ UNCHANGED toBoard

DamageToBoard(b) ==
  /\ Fault
  /\ \E line \in Damaged(toBoard[b]) : toBoard' = [toBoard EXCEPT ![b] = line]
  /\ UNCHANGED toHost

LoseToHost(b) ==
  /\ toHost[b] # <<>>
  /\ Fault
  /\ toHost' = TakeFrom(toHost, b)
  /\ UNCHANGED toBoard

LoseToBoard(b) ==
  /\ toBoard[b] # <<>>
  /\ Fault
  /\ toBoard' = TakeFrom(toBoard, b)
  /\ UNCHANGED toHost
===============================================================================
