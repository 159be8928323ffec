--------------------------- MODULE V1RoundtripProofs ---------------------------
(***************************************************************************)
(* The v1 round trip, for every set of requests and every bound: types and *)
(* causality whatever the firmware sends; commands, completion and the     *)
(* abstract exchange when it reports nothing but success; and what a run   *)
(* that nothing disturbs goes through.                                     *)
(***************************************************************************)
EXTENDS V1Roundtrip, BoardsProofs

(* The host relays what it read under another command: what it holds must  *)
(* be of the kind that the step it is at will pass it for.                 *)
HostInv ==
  /\ HostTypeOK
  /\ host = "relayRequest" => held \in JustRequest
  /\ host = "relayProposal" => held \in JustAnswer
  /\ host \in {"relayRequest", "awaitProposal", "relayProposal", "awaitStatus"} =>
       served \in requested
  /\ confirmed \subseteq requested

IInv == BoardsInv /\ HostInv /\ restarts \in 0 .. MaxRestarts

(* Which commands travel on which line, whatever happens. *)
CommandsInv ==
  /\ toBoard["receiver"] \in Seq(Only({"OriginalPsbt"}))
  /\ toBoard["sender"] \in Seq(Only({"InResponse"}))
  /\ toHost["receiver"] \in Seq(Only({"SignedPsbt"}))
  /\ toHost["sender"] \in Seq(Only({"OutRequest", "Status"}))
  /\ sender # "UnexpectedCommand"
  /\ receiver # "UnexpectedCommand"

(* How far the sender can be while the host is where it is, and what it    *)
(* can have put on its line by then, as long as nothing is restarted.      *)
FirstRunInv ==
  /\ sender = "start" => toHost["sender"] = <<>>
  /\ sender # "Ok" => toHost["sender"] \in Seq(Marks \cup {RequestFrame(request)})
  /\ sender = "Ok" => request \in finalized
  /\ host = "awaitRequest" => Len(toHost["sender"]) <= 1
  /\ host \in {"awaitRequest", "relayRequest", "awaitProposal", "relayProposal"} =>
       sender # "Ok" /\ toBoard["sender"] = <<>>
  /\ host \in {"relayRequest", "awaitProposal", "relayProposal"} =>
       toHost["sender"] = <<>>
  /\ host = "awaitStatus" => toHost["sender"] \in Seq(Only({"Status"}))
  /\ host \in {"relayRequest", "awaitProposal", "relayProposal", "awaitStatus"} =>
       sender # "start" /\ served = request
  /\ host # "Unexpected"
  /\ confirmed \subseteq finalized

-----------------------------------------------------------------------------
LEMMA HostInvStable ==
  ASSUME HostInv, requested \subseteq requested', proposed \subseteq proposed',
         UNCHANGED hostVars
  PROVE  HostInv'
BY DEF HostInv, HostTypeOK, hostVars, JustRequest, JustAnswer

HostLinks == UNCHANGED <<senderVars, receiverVars>>

(* read_frame takes the next frame from its port. *)
LEMMA HostReadsJust ==
  ASSUME BoardsInv, HostInv, HostLinks, NEW f \in WireFrame, Reads(f)
  PROVE  BoardsInv' /\ f \in JustItem
<1>1. Port \in Board
  BY HostLinksAssumption DEF Port
<1>2. HasFrame(toHost[Port]) /\ toHost \in JustLines
  BY DEF Reads, BoardsInv
<1>3. f \in JustItem /\ toHost[Port] # <<>>
  BY <1>1, <1>2, NextFrame DEF Reads
<1>4. toHost' \in JustLines
  BY <1>1, <1>2, <1>3, TakeFromLines DEF Reads, JustLines
<1>5. UNCHANGED <<requested, proposed, finalized, toBoard, faults>>
  BY DEF HostLinks, senderVars, receiverVars, Reads
<1>6. toHost' \in JustLines' /\ toBoard' \in JustLines'
  BY <1>4, <1>5 DEF BoardsInv, JustLines, JustItem, JustRequest, JustAnswer
<1>7. SenderTypeOK' /\ ReceiverTypeOK'
  BY DEF HostLinks, senderVars, receiverVars, BoardsInv, SenderTypeOK, ReceiverTypeOK
<1> QED
  BY <1>3, <1>5, <1>6, <1>7 DEF BoardsInv

(* What write_frame is called with is justified under its new command. *)
LEMMA RelaysJust ==
  ASSUME HostInv, host \in HostWrites
  PROVE  RelayedFrame \in JustItem /\ Relayed(host).port \in Board
<1>1. Relayed(host).port \in Board
  BY HostLinksAssumption DEF Relayed
<1>2. CASE host = "relayRequest"
  BY <1>1, <1>2 DEF HostInv, RelayedFrame, Relayed, JustItem
<1>3. CASE host = "relayProposal"
  BY <1>1, <1>3 DEF HostInv, RelayedFrame, Relayed, JustItem
<1> QED
  BY <1>2, <1>3 DEF HostWrites

LEMMA HostKeepsIInv ==
  ASSUME BoardsInv, HostInv, HostRuns \/ HostWriteFails \/ RerunHost, HostLinks
  PROVE  BoardsInv' /\ HostInv'
<1>1. /\ UNCHANGED <<requested, proposed, finalized>>
      /\ SenderTypeOK' /\ ReceiverTypeOK'
  BY DEF HostLinks, senderVars, receiverVars, BoardsInv, SenderTypeOK, ReceiverTypeOK
<1>2. CASE TakeRequest
  <2>1. PICK f \in WireFrame : /\ Reads(f) /\ f.command = Expected
                               /\ held' = f.payload
                               /\ served' = f.payload.of
    BY <1>2 DEF TakeRequest
  <2>2. BoardsInv' /\ f \in JustItem
    BY <2>1, HostReadsJust
  <2>3. f.payload \in JustRequest
    BY <1>2, <2>1, <2>2, JustPayloads DEF TakeRequest, Expected
  <2>4. f.payload \in RequestPayload /\ f.payload.of \in requested
    BY <2>3 DEF JustRequest, RequestPayload, BoardsInv, SenderTypeOK
  <2> QED
    BY <1>1, <1>2, <2>1, <2>2, <2>3, <2>4
       DEF TakeRequest, HostInv, HostTypeOK, HostWrites, HostEnded, HostReads,
           JustRequest, JustAnswer, BoardsInv, SenderTypeOK
<1>3. CASE TakeProposal
  <2>1. PICK f \in WireFrame : Reads(f) /\ f.command = Expected /\ held' = f.payload
    BY <1>3 DEF TakeProposal
  <2>2. BoardsInv' /\ f \in JustItem
    BY <2>1, HostReadsJust
  <2>3. f.payload \in JustAnswer
    BY <1>3, <2>1, <2>2, JustPayloads DEF TakeProposal, Expected
  <2>4. f.payload \in AnswerPayload
    BY <2>3 DEF JustAnswer, AnswerPayload, BoardsInv, ReceiverTypeOK
  <2> QED
    BY <1>1, <1>3, <2>1, <2>2, <2>3, <2>4
       DEF TakeProposal, HostInv, HostTypeOK, HostWrites, HostEnded, HostReads,
           JustRequest, JustAnswer
<1>4. CASE TakeStatus
  <2>1. BoardsInv'
    BY <1>4, HostReadsJust DEF TakeStatus
  <2> QED
    BY <1>1, <1>4, <2>1
       DEF TakeStatus, HostInv, HostTypeOK, HostEnded, BoardsInv, SenderTypeOK
<1>5. CASE RefuseCommand
  <2>1. BoardsInv'
    BY <1>5, HostReadsJust DEF RefuseCommand
  <2> QED
    BY <1>1, <1>5, <2>1
       DEF RefuseCommand, HostInv, HostTypeOK, HostEnded, HostErrors
<1>6. CASE HostFramingError \/ HostTimesOut
  <2>1. UNCHANGED linkVars
    BY <1>6 DEF HostFramingError, HostTimesOut, HostReadFails
  <2>2. BoardsInv'
    BY <1>1, <2>1 DEF BoardsInv, linkVars, JustLines, JustItem, JustRequest, JustAnswer
  <2> QED
    BY <1>1, <1>6, <2>2
       DEF HostFramingError, HostTimesOut, HostReadFails, HostInv, HostTypeOK,
           HostEnded, HostErrors
<1>7. CASE Relay \/ HostWriteFails
  <2>1. host \in HostWrites
    BY <1>7 DEF Relay, HostWriteFails
  <2>2. RelayedFrame \in JustItem /\ Relayed(host).port \in Board
    BY <2>1, RelaysJust
  <2>3. toBoard \in JustLines
    BY DEF BoardsInv
  <2>4. toBoard' \in JustLines
    <3>1. CASE Relay
      BY <3>1, <2>2, <2>3, AddToLines DEF Relay, JustLines
    <3>2. CASE HostWriteFails
      BY <3>2, <2>2, <2>3, FailedOntoLines, MarksAreJust DEF HostWriteFails, JustLines
    <3> QED
      BY <1>7, <3>1, <3>2
  <2>5. toHost' = toHost /\ faults' \in 0 .. MaxFaults
    BY <1>7, MaxFaultsAssumption DEF Relay, HostWriteFails, Fault, BoardsInv
  <2>6. BoardsInv'
    BY <1>1, <2>4, <2>5
       DEF BoardsInv, JustLines, JustItem, JustRequest, JustAnswer
  <2> QED
    BY <1>1, <1>7, <2>1, <2>6
       DEF Relay, HostWriteFails, HostInv, HostTypeOK, HostWrites, HostReads, HostEnded,
           HostErrors, JustRequest, JustAnswer
<1>8. CASE RerunHost
  <2>1. PICK s \in LeftOf(toHost["sender"]), r \in LeftOf(toHost["receiver"]) :
          toHost' = [sender |-> s, receiver |-> r]
    BY <1>8 DEF RerunHost
  <2>2. s \in Seq(JustItem) /\ r \in Seq(JustItem)
    BY LeftOfLine, MarksAreJust, HostLinksAssumption DEF BoardsInv, JustLines
  <2>3. toHost' \in JustLines
    BY <2>1, <2>2, HostLinksAssumption DEF JustLines
  <2>4. Relayed(host).port \in Board /\ (host \in HostWrites) \in BOOLEAN
    BY HostLinksAssumption DEF Relayed
  <2>5. toBoard' \in JustLines
    BY <1>8, <2>4, StoppedOntoLines, MarksAreJust DEF RerunHost, BoardsInv, JustLines
  <2>6. BoardsInv'
    BY <1>1, <1>8, <2>3, <2>5
       DEF RerunHost, BoardsInv, JustLines, JustItem, JustRequest, JustAnswer
  <2> QED
    BY <1>1, <1>8, <2>6
       DEF RerunHost, HostInv, HostTypeOK, HostReads
<1> QED
  BY <1>2, <1>3, <1>4, <1>5, <1>6, <1>7, <1>8 DEF HostRuns

-----------------------------------------------------------------------------
LEMMA IInvInitially ==
  ASSUME Init
  PROVE  IInv
<1>1. BoardsInv
  BY BoardsInvInitially DEF Init
<1>2. HostInv
  BY DEF Init, HostInit, HostInv, HostTypeOK, HostReads
<1> QED
  BY <1>1, <1>2, MaxRestartsAssumption DEF Init, IInv

LEMMA IInvKept ==
  ASSUME IInv, [Next]_vars
  PROVE  IInv'
<1> USE DEF IInv
<1>1. CASE SenderStep
  <2>1. BoardsInv' /\ requested \subseteq requested' /\ proposed \subseteq proposed'
    BY <1>1, SenderKeepsBoardsInv DEF SenderStep, SenderRuns, SenderFails, SenderActs
  <2> QED
    BY <1>1, <2>1, HostInvStable DEF SenderStep
<1>2. CASE ReceiverStep
  <2>1. BoardsInv' /\ requested \subseteq requested' /\ proposed \subseteq proposed'
    BY <1>2, ReceiverKeepsBoardsInv DEF ReceiverStep, ReceiverFails, ReceiverActs
  <2> QED
    BY <1>2, <2>1, HostInvStable DEF ReceiverStep
<1>3. CASE HostStep
  BY <1>3, HostKeepsIInv DEF HostStep, HostLinks
<1>4. CASE LineStep
  <2>1. BoardsInv' /\ requested' = requested /\ proposed' = proposed
    BY <1>4, LinesKeepBoardsInv DEF LineStep, LineFault
  <2> QED
    BY <1>4, <2>1, HostInvStable DEF LineStep
<1>5. CASE Restart
  <2>1. restarts' \in 0 .. MaxRestarts
    BY <1>5, MaxRestartsAssumption DEF Restart
  <2>2. CASE ResetSender /\ UNCHANGED <<receiverVars, hostVars>>
    BY <2>1, <2>2, SenderKeepsBoardsInv, HostInvStable DEF SenderActs
  <2>3. CASE ResetReceiver /\ UNCHANGED <<senderVars, hostVars>>
    BY <2>1, <2>3, ReceiverKeepsBoardsInv, HostInvStable DEF ReceiverActs
  <2>4. CASE RerunHost /\ UNCHANGED <<senderVars, receiverVars>>
    BY <2>1, <2>4, HostKeepsIInv DEF HostLinks
  <2> QED
    BY <1>5, <2>2, <2>3, <2>4 DEF Restart
<1>6. CASE UNCHANGED vars
  <2>1. UNCHANGED <<linkVars, senderVars, receiverVars, hostVars, restarts>>
    BY <1>6 DEF vars
  <2>2. BoardsInv'
    BY <2>1
       DEF BoardsInv, linkVars, senderVars, receiverVars, SenderTypeOK, ReceiverTypeOK,
           JustLines, JustItem, JustRequest, JustAnswer
  <2>3. requested' = requested /\ proposed' = proposed
    BY <2>1 DEF senderVars, receiverVars
  <2> QED
    BY <2>1, <2>2, <2>3, HostInvStable
<1> QED
  BY <1>1, <1>2, <1>3, <1>4, <1>5, <1>6 DEF Next

THEOREM Invariance == Spec => []IInv
BY IInvInitially, IInvKept, PTL DEF Spec

(* TypeOK: every variable of the round trip keeps its type.               *)
THEOREM TypeCorrect == Spec => []TypeOK
<1>1. IInv => TypeOK
  <2> SUFFICES ASSUME IInv PROVE TypeOK
    OBVIOUS
  <2>1. requested \subseteq Requests /\ proposed \subseteq Requests
    BY DEF IInv, BoardsInv, SenderTypeOK, ReceiverTypeOK
  <2>2. LinksTypeOK
    BY <2>1, JustTyped DEF IInv, BoardsInv, LinksTypeOK
  <2> QED
    BY <2>2 DEF IInv, BoardsInv, HostInv, TypeOK
<1> QED
  BY <1>1, Invariance, PTL

(* Causality: whatever the lines lose or damage, whatever fails and however *)
(* often boards are reset and the host is started again, run_sender accepts *)
(* a proposal only for a request run_receiver proposed to, and run_receiver *)
(* proposes only to requests run_sender made.                               *)
THEOREM CausalityHolds == Spec => []Causality
<1>1. IInv => Causality
  BY DEF IInv, BoardsInv, Causality
<1> QED
  BY <1>1, Invariance, PTL

-----------------------------------------------------------------------------
(* Commands and lines. *)

HostActs == HostRuns \/ HostWriteFails \/ RerunHost

(* What the host does to the lines. *)
LEMMA HostLines ==
  ASSUME IInv, HostActs
  PROVE  /\ \A b \in Board : Reduced(toHost[b], toHost'[b])
         /\ \A b \in Board :
              \/ toBoard'[b] \in {toBoard[b], Append(toBoard[b], Partial)}
              \/ /\ host \in HostWrites /\ b = Relayed(host).port
                 /\ toBoard'[b] \in Extended(toBoard[b], RelayedFrame)
<1>1. toHost \in [Board -> Seq(JustItem)] /\ toBoard \in [Board -> Seq(JustItem)]
  BY DEF IInv, BoardsInv, JustLines
<1>2. \A b \in Board : Reduced(toHost[b], toHost[b])
  BY <1>1, OwnItems
<1>3. "sender" \in Board /\ "receiver" \in Board
  BY HostLinksAssumption
<1>4. ASSUME NEW f \in WireFrame, Reads(f)
      PROVE  toBoard' = toBoard /\ \A b \in Board : Reduced(toHost[b], toHost'[b])
  <2>1. Port \in Board /\ toHost[Port] # <<>>
    BY <1>3, <1>4 DEF Port, Reads, HasFrame
  <2>2. Reduced(toHost[Port], Tail(toHost[Port]))
    BY <1>1, <2>1, TailIsReduced
  <2>3. toBoard' = toBoard /\ toHost' = [toHost EXCEPT ![Port] = Tail(@)]
    BY <1>4 DEF Reads, TakeFrom
  <2> QED
    BY <1>1, <1>2, <2>1, <2>2, <2>3
<1>5. CASE TakeRequest \/ TakeProposal \/ TakeStatus \/ RefuseCommand
  <2>1. \E f \in WireFrame : Reads(f)
    BY <1>5 DEF TakeRequest, TakeProposal, TakeStatus, RefuseCommand
  <2> QED
    BY <1>4, <2>1
<1>6. CASE HostFramingError \/ HostTimesOut
  BY <1>2, <1>6 DEF HostFramingError, HostTimesOut, HostReadFails, linkVars
<1>7. CASE Relay \/ HostWriteFails
  <2>1. toHost' = toHost /\ host \in HostWrites
    BY <1>7 DEF Relay, HostWriteFails
  <2>2. toBoard' \in FailedOnto(toBoard, Relayed(host).port, RelayedFrame)
    BY <1>7 DEF Relay, HostWriteFails, FailedOnto
  <2> QED
    BY <1>1, <1>2, <2>1, <2>2 DEF FailedOnto, AddTo, Extended
<1>8. CASE RerunHost
  <2>1. PICK s \in LeftOf(toHost["sender"]), r \in LeftOf(toHost["receiver"]) :
          toHost' = [sender |-> s, receiver |-> r]
    BY <1>8 DEF RerunHost
  <2>2. Reduced(toHost["sender"], s) /\ Reduced(toHost["receiver"], r)
    BY <1>1, <1>3, LeftIsReduced
  <2>3. \A b \in Board : toBoard'[b] \in {toBoard[b], Append(toBoard[b], Partial)}
    BY <1>1, <1>8 DEF RerunHost, StoppedOnto, AddTo
  <2> QED
    BY <2>1, <2>2, <2>3, HostLinksAssumption
<1> QED
  BY <1>5, <1>6, <1>7, <1>8 DEF HostActs, HostRuns

LEMMA CommandsKept ==
  ASSUME IInv, CommandsInv, Next
  PROVE  CommandsInv'
<1>1. "sender" \in Board /\ "receiver" \in Board
  BY HostLinksAssumption
<1>2. \A commands : Marks \subseteq Only(commands) /\ Partial \in Only(commands)
  BY DEF Only, Marks
<1>3. ASSUME SenderActs, UNCHANGED <<receiverVars, hostVars>>
      PROVE  CommandsInv'
  <2>1. SenderItems \subseteq Only({"OutRequest", "Status"})
    BY DEF SenderItems, RequestFrame, Body, Only, WireFrame, RequestPayload
  <2>2. PICK item \in SenderItems : toHost'["sender"] \in Extended(toHost["sender"], item)
    BY <1>3, SenderLines DEF IInv
  <2>3. toHost'["sender"] \in Seq(Only({"OutRequest", "Status"}))
    BY <1>2, <2>1, <2>2, ExtendedStays DEF CommandsInv
  <2>4. /\ toHost'["receiver"] = toHost["receiver"]
        /\ toBoard'["receiver"] = toBoard["receiver"]
        /\ Reduced(toBoard["sender"], toBoard'["sender"])
    BY <1>3, SenderLines DEF IInv
  <2>5. toBoard'["sender"] \in Seq(Only({"InResponse"}))
    BY <1>2, <2>4, ReducedStays DEF CommandsInv
  <2>6. sender' # "UnexpectedCommand"
    <3>1. CASE ReceiveResponse
      <4>1. Head(toBoard["sender"]).command = "InResponse"
        BY <3>1, OnlyTheseFrames DEF ReceiveResponse, CommandsInv
      <4> QED
        BY <3>1, <4>1 DEF ReceiveResponse
    <3>2. CASE ~ReceiveResponse
      BY <1>3, <3>2
         DEF SenderActs, SendRequest, RefuseRequest, FailRequest, SenderFramingError,
             SenderReadFails, ReportStatus, ResetSender, CommandsInv
    <3> QED
      BY <3>1, <3>2
  <2>7. receiver' = receiver
    BY <1>3 DEF receiverVars
  <2> QED
    BY <2>3, <2>4, <2>5, <2>6, <2>7 DEF CommandsInv
<1>4. ASSUME ReceiverActs, UNCHANGED <<senderVars, hostVars>>
      PROVE  CommandsInv'
  <2>1. \A r \in Requests : ProposalFrame(r) \in Only({"SignedPsbt"})
    BY DEF ProposalFrame, Answer, Base64, Proposal, Only, WireFrame, AnswerPayload
  <2>2. \/ toHost'["receiver"] \in {toHost["receiver"], Append(toHost["receiver"], Partial)}
        \/ \E r \in Requests :
             toHost'["receiver"] \in Extended(toHost["receiver"], ProposalFrame(r))
    BY <1>4, ReceiverLines DEF IInv
  <2>3. toHost'["receiver"] \in Seq(Only({"SignedPsbt"}))
    <3>1. toHost["receiver"] \in Seq(Only({"SignedPsbt"}))
      BY DEF CommandsInv
    <3>2. Append(toHost["receiver"], Partial) \in Seq(Only({"SignedPsbt"}))
      BY <1>2, <3>1, AppendProperties
    <3> QED
      BY <1>2, <2>1, <2>2, <3>1, <3>2, ExtendedStays
  <2>4. /\ toHost'["sender"] = toHost["sender"]
        /\ toBoard'["sender"] = toBoard["sender"]
        /\ Reduced(toBoard["receiver"], toBoard'["receiver"])
    BY <1>4, ReceiverLines DEF IInv
  <2>5. toBoard'["receiver"] \in Seq(Only({"OriginalPsbt"}))
    BY <1>2, <2>4, ReducedStays DEF CommandsInv
  <2>6. receiver' # "UnexpectedCommand"
    <3>1. CASE ReceiveRequest
      <4>1. Head(toBoard["receiver"]).command = "OriginalPsbt"
        BY <3>1, OnlyTheseFrames DEF ReceiveRequest, CommandsInv
      <4> QED
        BY <3>1, <4>1 DEF ReceiveRequest
    <3>2. CASE ~ReceiveRequest
      BY <1>4, <3>2
         DEF ReceiverActs, ReceiverFramingError, ReceiverReadFails, ResetReceiver
    <3> QED
      BY <3>1, <3>2
  <2>7. sender' = sender
    BY <1>4 DEF senderVars
  <2> QED
    BY <2>3, <2>4, <2>5, <2>6, <2>7 DEF CommandsInv
<1>5. ASSUME HostActs, UNCHANGED <<senderVars, receiverVars>>
      PROVE  CommandsInv'
  <2>1. /\ Reduced(toHost["sender"], toHost'["sender"])
        /\ Reduced(toHost["receiver"], toHost'["receiver"])
    BY <1>1, <1>5, HostLines
  <2>2. /\ toHost'["receiver"] \in Seq(Only({"SignedPsbt"}))
        /\ toHost'["sender"] \in Seq(Only({"OutRequest", "Status"}))
    BY <1>2, <2>1, ReducedStays DEF CommandsInv
  <2>3. ASSUME host \in HostWrites
        PROVE  /\ RelayedFrame \in WireFrame
               /\ RelayedFrame.command = Relayed(host).command
    <3>1. RelayedFrame \in JustItem
      BY <2>3, RelaysJust DEF IInv
    <3>2. RelayedFrame.command = Relayed(host).command
      BY DEF RelayedFrame
    <3>3. RelayedFrame.command \in {"OriginalPsbt", "InResponse"}
      BY <3>2 DEF Relayed
    <3>4. requested \subseteq Requests /\ proposed \subseteq Requests
      BY DEF IInv, BoardsInv, SenderTypeOK, ReceiverTypeOK
    <3> QED
      BY <3>1, <3>2, <3>3, <3>4
         DEF JustItem, Marks, Garbled, Partial, WireFrame, JustRequest, JustAnswer,
             RequestPayload, AnswerPayload
  <2>4. toBoard'["receiver"] \in Seq(Only({"OriginalPsbt"}))
    <3>1. toBoard["receiver"] \in Seq(Only({"OriginalPsbt"}))
      BY DEF CommandsInv
    <3>2. Append(toBoard["receiver"], Partial) \in Seq(Only({"OriginalPsbt"}))
      BY <1>2, <3>1, AppendProperties
    <3>3. ASSUME host \in HostWrites, "receiver" = Relayed(host).port
          PROVE  RelayedFrame \in Only({"OriginalPsbt"})
      BY <2>3, <3>3 DEF Relayed, Only
    <3> QED
      BY <1>1, <1>2, <1>5, <3>1, <3>2, <3>3, HostLines, ExtendedStays
  <2>5. toBoard'["sender"] \in Seq(Only({"InResponse"}))
    <3>1. toBoard["sender"] \in Seq(Only({"InResponse"}))
      BY DEF CommandsInv
    <3>2. Append(toBoard["sender"], Partial) \in Seq(Only({"InResponse"}))
      BY <1>2, <3>1, AppendProperties
    <3>3. ASSUME host \in HostWrites, "sender" = Relayed(host).port
          PROVE  RelayedFrame \in Only({"InResponse"})
      BY <2>3, <3>3 DEF Relayed, Only
    <3> QED
      BY <1>1, <1>2, <1>5, <3>1, <3>2, <3>3, HostLines, ExtendedStays
  <2>6. sender' = sender /\ receiver' = receiver
    BY <1>5 DEF senderVars, receiverVars
  <2> QED
    BY <2>2, <2>4, <2>5, <2>6 DEF CommandsInv
<1>6. ASSUME LineStep PROVE CommandsInv'
  <2>1. \A c \in Board : Reduced(toHost[c], toHost'[c]) /\ Reduced(toBoard[c], toBoard'[c])
    BY <1>6, FaultyLines DEF LineStep, LineFault, IInv
  <2>2. /\ toBoard'["receiver"] \in Seq(Only({"OriginalPsbt"}))
        /\ toBoard'["sender"] \in Seq(Only({"InResponse"}))
        /\ toHost'["receiver"] \in Seq(Only({"SignedPsbt"}))
        /\ toHost'["sender"] \in Seq(Only({"OutRequest", "Status"}))
    BY <1>1, <1>2, <2>1, ReducedStays DEF CommandsInv
  <2>3. sender' = sender /\ receiver' = receiver
    BY <1>6 DEF LineStep, senderVars, receiverVars
  <2> QED
    BY <2>2, <2>3 DEF CommandsInv
<1> QED
  BY <1>3, <1>4, <1>5, <1>6
     DEF Next, SenderStep, ReceiverStep, HostStep, Restart, SenderRuns, SenderFails,
         ReceiverFails, SenderActs, ReceiverActs, HostActs

-----------------------------------------------------------------------------
(* The first run: nothing was restarted yet. *)

QInv == IInv /\ CommandsInv /\ (restarts = 0 => FirstRunInv)

FirstRunLinks == BoardsInv /\ CommandsInv /\ FirstRunInv /\ StatusMeansOk

LEMMA SenderKeepsFirstRun ==
  ASSUME FirstRunLinks, SenderRuns \/ SenderFails, UNCHANGED hostVars
  PROVE  FirstRunInv'
<1>1. UNCHANGED <<host, held, served, confirmed>>
  BY DEF hostVars
<1>2. toHost \in [Board -> Seq(JustItem)] /\ "sender" \in Board
  BY HostLinksAssumption DEF FirstRunLinks, BoardsInv, JustLines
<1>3. ASSUME NEW r \in Requests, SendRequest(r) \/ RefuseRequest(r) \/ FailRequest(r)
      PROVE  FirstRunInv'
  <2>1. /\ sender = "start" /\ toHost["sender"] = <<>>
        /\ sender' \in {"waiting", "Payjoin", "Transport"} /\ request' = r
        /\ UNCHANGED <<toBoard, finalized>>
    BY <1>3 DEF SendRequest, RefuseRequest, FailRequest, linkVars, FirstRunLinks, FirstRunInv
  <2>2. toHost'["sender"] \in Extended(<<>>, RequestFrame(r))
    BY <1>2, <1>3, <2>1
       DEF SendRequest, RefuseRequest, FailRequest, FailedOnto, AddTo, Extended, linkVars
  <2>3. /\ toHost'["sender"] \in Seq(Marks \cup {RequestFrame(r)})
        /\ Len(toHost'["sender"]) <= 1
    <3> DEFINE S == Marks \cup {RequestFrame(r)}
    <3>1. Marks \subseteq S /\ RequestFrame(r) \in S
      OBVIOUS
    <3> HIDE DEF S
    <3>2. <<>> \in Seq(S) /\ Len(<<>>) = 0
      BY EmptySeq
    <3>3. \A new \in Extended(<<>>, RequestFrame(r)) : new \in Seq(S) /\ Len(new) <= Len(<<>>) + 1
      BY <3>1, <3>2, ExtendedStays
    <3>4. toHost'["sender"] \in Seq(S) /\ Len(toHost'["sender"]) <= 1
      BY <2>2, <3>2, <3>3
    <3> QED
      BY <3>4 DEF S
  <2> QED
    BY <1>1, <2>1, <2>3 DEF FirstRunLinks, FirstRunInv, RequestFrame
<1>4. CASE ReceiveResponse
  <2>1. /\ sender = "waiting" /\ toBoard["sender"] # <<>>
        /\ sender' \in Returned
        /\ UNCHANGED <<toHost, request>>
        /\ sender' = "Ok" => finalized' = finalized \cup {request}
        /\ finalized \subseteq finalized'
    BY <1>4 DEF ReceiveResponse, HasFrame, Returned, HarnessErrors
  <2>2. sender' # "start"
    BY <2>1 DEF Returned, HarnessErrors
  <2> QED
    BY <1>1, <2>1, <2>2 DEF FirstRunLinks, FirstRunInv, RequestFrame
<1>5. CASE SenderFramingError \/ SenderReadFails
  <2>1. /\ sender = "waiting" /\ sender' \in {"Framing", "Transport"}
        /\ UNCHANGED <<toHost, request, finalized>>
    BY <1>5 DEF SenderFramingError, SenderReadFails
  <2>2. Reduced(toBoard["sender"], toBoard'["sender"])
    BY <1>5, SenderLines DEF FirstRunLinks, SenderActs
  <2>3. toBoard["sender"] = <<>> => toBoard'["sender"] = <<>>
    <3>1. toBoard["sender"] \in Seq(JustItem) /\ Marks \subseteq JustItem
      BY <1>2, MarksAreJust DEF FirstRunLinks, BoardsInv, JustLines
    <3>2. toBoard'["sender"] \in Seq(JustItem) /\ Len(toBoard'["sender"]) <= Len(toBoard["sender"])
      BY <2>2, <3>1, ReducedStays DEF Reduced
    <3> QED
      BY <3>2, EmptySeq
  <2> QED
    BY <1>1, <2>1, <2>3 DEF FirstRunLinks, FirstRunInv, RequestFrame
<1>6. CASE ReportStatus
  <2>1. sender = "Ok" /\ UNCHANGED <<toBoard, sender, request, finalized>>
    BY <1>6 DEF ReportStatus, WillReport, FirstRunLinks, StatusMeansOk, HarnessErrors,
                FirmwareStatusAssumption
  <2>2. ASSUME host = "awaitStatus"
        PROVE  toHost'["sender"] \in Seq(Only({"Status"}))
    <3>1. PICK code \in {"Ok", "Error"} :
            toHost' = AddTo(toHost, "sender", [command |-> "Status", payload |-> Code(code)])
      BY <1>6 DEF ReportStatus
    <3>2. [command |-> "Status", payload |-> Code(code)] \in Only({"Status"})
      BY DEF Only, WireFrame, StatusPayload, Code
    <3>3. toHost["sender"] \in Seq(Only({"Status"}))
      BY <2>2 DEF FirstRunLinks, FirstRunInv
    <3> QED
      BY <1>2, <3>1, <3>2, <3>3, AppendProperties DEF AddTo
  <2> QED
    BY <1>1, <2>1, <2>2 DEF FirstRunLinks, FirstRunInv
<1> QED
  BY <1>3, <1>4, <1>5, <1>6 DEF SenderRuns, SenderFails

LEMMA TailOfOne ==
  ASSUME NEW S, NEW line \in Seq(S), line # <<>>, Len(line) <= 1
  PROVE  Tail(line) = <<>>
<1>1. Len(line) \in Nat /\ Tail(line) \in Seq(S) /\ Len(Tail(line)) = Len(line) - 1
  BY HeadTailProperties, LenProperties
<1>2. Len(Tail(line)) \in Nat
  BY <1>1, LenProperties
<1> QED
  BY <1>1, <1>2, EmptySeq

LEMMA HostKeepsFirstRun ==
  ASSUME FirstRunLinks, IInv, HostRuns \/ HostWriteFails, HostLinks
  PROVE  FirstRunInv'
<1>1. UNCHANGED <<sender, request, finalized>>
  BY DEF HostLinks, senderVars
<1>2. /\ toHost \in [Board -> Seq(JustItem)] /\ toBoard \in [Board -> Seq(JustItem)]
      /\ "sender" \in Board /\ "receiver" \in Board
  BY HostLinksAssumption DEF FirstRunLinks, BoardsInv, JustLines
<1>3. /\ Reduced(toHost["sender"], toHost'["sender"])
      /\ toHost["sender"] \in Seq(JustItem) /\ Marks \subseteq JustItem
  BY <1>2, HostLines, MarksAreJust DEF HostActs
<1>4. /\ toHost["sender"] = <<>> => toHost'["sender"] = <<>>
      /\ Len(toHost'["sender"]) \in Nat /\ Len(toHost["sender"]) \in Nat
      /\ Len(toHost'["sender"]) <= Len(toHost["sender"])
  BY <1>3, ReducedStays, LenProperties DEF Reduced
<1>5. sender # "Ok" => toHost'["sender"] \in Seq(Marks \cup {RequestFrame(request)})
  BY <1>3, ReducedStays DEF FirstRunLinks, FirstRunInv
(* The part that is about the sender and its line alone. *)
<1>6. /\ sender' = "start" => toHost'["sender"] = <<>>
      /\ sender' # "Ok" => toHost'["sender"] \in Seq(Marks \cup {RequestFrame(request')})
      /\ sender' = "Ok" => request' \in finalized'
  BY <1>1, <1>4, <1>5 DEF FirstRunLinks, FirstRunInv, RequestFrame
(* What the next frame of the sender can be. *)
<1>7. ASSUME sender # "Ok", HasFrame(toHost["sender"])
      PROVE  /\ Head(toHost["sender"]) = RequestFrame(request)
             /\ sender # "start"
  <2>1. /\ toHost["sender"] \in Seq(Marks \cup {RequestFrame(request)})
        /\ toHost["sender"] # <<>>
    BY <1>7 DEF FirstRunLinks, FirstRunInv, HasFrame
  <2>2. Head(toHost["sender"]) \in Marks \cup {RequestFrame(request)}
    BY <2>1, HeadTailProperties
  <2>3. Head(toHost["sender"]) \notin Marks
    BY <1>3, <1>7, <2>1, HeadTailProperties, LenProperties
       DEF HasFrame, WireFrame, Marks, Garbled, Partial
  <2> QED
    BY <2>1, <2>2, <2>3 DEF FirstRunLinks, FirstRunInv
<1>8. CASE TakeRequest
  <2>1. PICK f \in WireFrame : Reads(f) /\ served' = f.payload.of
    BY <1>8 DEF TakeRequest
  <2>2. /\ host = "awaitRequest" /\ Port = "sender" /\ sender # "Ok"
        /\ host' = "relayRequest" /\ UNCHANGED confirmed
    BY <1>8 DEF TakeRequest, Port, FirstRunLinks, FirstRunInv
  <2>3. /\ HasFrame(toHost["sender"]) /\ f = Head(toHost["sender"])
        /\ toHost'["sender"] = Tail(toHost["sender"]) /\ toBoard' = toBoard
    BY <1>2, <2>1, <2>2 DEF Reads, TakeFrom
  <2>4. served' = request /\ sender # "start"
    BY <1>7, <2>1, <2>2, <2>3 DEF RequestFrame, Body
  <2>5. toHost'["sender"] = <<>>
    <3>1. toHost["sender"] # <<>> /\ Len(toHost["sender"]) <= 1
      BY <2>2, <2>3 DEF HasFrame, FirstRunLinks, FirstRunInv
    <3>2. \A line \in Seq(JustItem) : line # <<>> /\ Len(line) <= 1 => Tail(line) = <<>>
      BY TailOfOne
    <3> QED
      BY <1>3, <2>3, <3>1, <3>2
  <2> QED
    BY <1>1, <1>6, <2>2, <2>3, <2>4, <2>5 DEF FirstRunLinks, FirstRunInv
<1>9. CASE TakeProposal
  <2>1. /\ host = "awaitProposal" /\ host' = "relayProposal"
        /\ UNCHANGED <<served, confirmed, toBoard>>
    BY <1>9 DEF TakeProposal, Reads
  <2> QED
    BY <1>1, <1>4, <1>6, <2>1 DEF FirstRunLinks, FirstRunInv
<1>10. CASE Relay
  <2>1. CASE host = "relayRequest"
    <3>1. /\ host' = "awaitProposal" /\ UNCHANGED <<served, confirmed>>
          /\ toBoard'["sender"] = toBoard["sender"]
      BY <1>2, <1>10, <2>1 DEF Relay, Relayed, AddTo
    <3> QED
      BY <1>1, <1>4, <1>6, <2>1, <3>1 DEF FirstRunLinks, FirstRunInv
  <2>2. CASE host = "relayProposal"
    <3>1. host' = "awaitStatus" /\ UNCHANGED <<served, confirmed>>
      BY <1>10, <2>2 DEF Relay
    <3>2. toHost'["sender"] \in Seq(Only({"Status"}))
      BY <1>4, <2>2, EmptySeq DEF FirstRunLinks, FirstRunInv
    <3> QED
      BY <1>1, <1>6, <2>2, <3>1, <3>2 DEF FirstRunLinks, FirstRunInv
  <2> QED
    BY <1>10, <2>1, <2>2 DEF Relay, HostWrites
<1>11. CASE TakeStatus
  <2>1. PICK f \in WireFrame : Reads(f) /\ f.command = Expected
    BY <1>11 DEF TakeStatus
  <2>2. /\ host = "awaitStatus" /\ Port = "sender" /\ Expected = "Status"
        /\ host' = "done" /\ confirmed' = confirmed \cup {served}
    BY <1>11 DEF TakeStatus, Port, Expected
  <2>3. HasFrame(toHost["sender"]) /\ f = Head(toHost["sender"])
    BY <2>1, <2>2 DEF Reads
  <2>4. sender = "Ok"
    BY <1>7, <2>1, <2>2, <2>3 DEF RequestFrame
  <2>5. served \in finalized
    BY <2>2, <2>4 DEF FirstRunLinks, FirstRunInv
  <2> QED
    BY <1>1, <1>6, <2>2, <2>5 DEF FirstRunLinks, FirstRunInv
<1>12. ~RefuseCommand
  <2> SUFFICES ASSUME RefuseCommand PROVE FALSE
    OBVIOUS
  <2>1. PICK f \in WireFrame : Reads(f) /\ f.command # Expected
    BY DEF RefuseCommand
  <2>2. HasFrame(toHost[Port]) /\ f = Head(toHost[Port]) /\ host \in HostReads
    BY <2>1 DEF Reads
  <2>3. CASE host = "awaitRequest"
    BY <1>7, <2>1, <2>2, <2>3
       DEF Port, Expected, RequestFrame, FirstRunLinks, FirstRunInv
  <2>4. CASE host = "awaitProposal"
    <3>1. toHost[Port] \in Seq(Only({"SignedPsbt"})) /\ Expected = "SignedPsbt"
      BY <2>4 DEF Port, Expected, FirstRunLinks, CommandsInv
    <3> QED
      BY <2>1, <2>2, <3>1, OnlyTheseFrames
  <2>5. CASE host = "awaitStatus"
    <3>1. toHost[Port] \in Seq(Only({"Status"})) /\ Expected = "Status"
      BY <2>5 DEF Port, Expected, FirstRunLinks, FirstRunInv
    <3> QED
      BY <2>1, <2>2, <3>1, OnlyTheseFrames
  <2> QED
    BY <2>2, <2>3, <2>4, <2>5 DEF HostReads
<1>13. CASE HostFramingError \/ HostTimesOut \/ HostWriteFails
  <2>1. host' \in {"Framing", "ReadFailed", "WriteFailed"} /\ UNCHANGED <<served, confirmed>>
    BY <1>13 DEF HostFramingError, HostTimesOut, HostReadFails, HostWriteFails
  <2> QED
    BY <1>1, <1>6, <2>1 DEF FirstRunLinks, FirstRunInv
<1> QED
  BY <1>8, <1>9, <1>10, <1>11, <1>12, <1>13 DEF HostRuns

(* Steps that neither the sender nor the host takes. *)
LEMMA OthersKeepFirstRun ==
  ASSUME FirstRunLinks, UNCHANGED <<senderVars, hostVars>>,
         Reduced(toHost["sender"], toHost'["sender"]),
         Reduced(toBoard["sender"], toBoard'["sender"])
  PROVE  FirstRunInv'
<1>1. UNCHANGED <<sender, request, finalized, host, served, confirmed>>
  BY DEF senderVars, hostVars
<1>2. /\ toHost["sender"] \in Seq(JustItem) /\ toBoard["sender"] \in Seq(JustItem)
      /\ Marks \subseteq JustItem
  BY HostLinksAssumption, MarksAreJust DEF FirstRunLinks, BoardsInv, JustLines
<1>3. /\ toHost["sender"] = <<>> => toHost'["sender"] = <<>>
      /\ toBoard["sender"] = <<>> => toBoard'["sender"] = <<>>
      /\ Len(toHost'["sender"]) \in Nat /\ Len(toHost["sender"]) \in Nat
      /\ Len(toHost'["sender"]) <= Len(toHost["sender"])
  BY <1>2, ReducedStays, LenProperties DEF Reduced
<1>4. sender # "Ok" => toHost'["sender"] \in Seq(Marks \cup {RequestFrame(request)})
  BY <1>2, ReducedStays DEF FirstRunLinks, FirstRunInv
<1>5. host = "awaitStatus" => toHost'["sender"] \in Seq(Only({"Status"}))
  BY ReducedStays DEF FirstRunLinks, FirstRunInv, Only
<1>6. host = "awaitRequest" => Len(toHost'["sender"]) <= 1
  BY <1>3 DEF FirstRunLinks, FirstRunInv
<1> QED
  BY <1>1, <1>3, <1>4, <1>5, <1>6 DEF FirstRunLinks, FirstRunInv, RequestFrame

LEMMA FirstRunKept ==
  ASSUME FirstRunLinks, IInv, Next, restarts' = 0, restarts = 0
  PROVE  FirstRunInv'
<1>1. ~Restart
  BY DEF Restart
<1>2. CASE SenderStep
  BY <1>2, SenderKeepsFirstRun DEF SenderStep
<1>3. CASE HostStep
  BY <1>3, HostKeepsFirstRun DEF HostStep, HostLinks
<1>4. toHost["sender"] \in Seq(JustItem) /\ toBoard["sender"] \in Seq(JustItem)
  BY HostLinksAssumption DEF FirstRunLinks, BoardsInv, JustLines
<1>5. CASE ReceiverStep
  <2>1. /\ toHost'["sender"] = toHost["sender"] /\ toBoard'["sender"] = toBoard["sender"]
        /\ UNCHANGED <<senderVars, hostVars>>
    BY <1>5, ReceiverLines
       DEF ReceiverStep, ReceiverFails, ReceiverActs, FirstRunLinks
  <2>2. /\ Reduced(toHost["sender"], toHost["sender"])
        /\ Reduced(toBoard["sender"], toBoard["sender"])
    BY <1>4, OwnItems
  <2> QED
    BY <2>1, <2>2, OthersKeepFirstRun
<1>6. CASE LineStep
  <2>1. "sender" \in Board /\ UNCHANGED <<senderVars, hostVars>>
    BY <1>6, HostLinksAssumption DEF LineStep
  <2>2. /\ Reduced(toHost["sender"], toHost'["sender"])
        /\ Reduced(toBoard["sender"], toBoard'["sender"])
    BY <1>6, <2>1, FaultyLines DEF LineStep, LineFault, FirstRunLinks
  <2> QED
    BY <2>1, <2>2, OthersKeepFirstRun
<1> QED
  BY <1>1, <1>2, <1>3, <1>5, <1>6 DEF Next

LEMMA QInvInitially ==
  ASSUME Init
  PROVE  QInv
<1>1. /\ toHost["sender"] = <<>> /\ toHost["receiver"] = <<>>
      /\ toBoard["sender"] = <<>> /\ toBoard["receiver"] = <<>>
  BY HostLinksAssumption DEF Init, LinksInit
<1>2. CommandsInv
  BY <1>1, EmptySeq DEF Init, SenderInit, ReceiverInit, CommandsInv
<1>3. FirstRunInv
  BY <1>1, EmptySeq DEF Init, SenderInit, HostInit, FirstRunInv
<1> QED
  BY <1>2, <1>3, IInvInitially DEF QInv

LEMMA QInvKept ==
  ASSUME StatusMeansOk, QInv, [Next]_vars
  PROVE  QInv'
<1>1. IInv'
  BY IInvKept DEF QInv
<1>2. CASE Next
  <2>1. CommandsInv'
    BY <1>2, CommandsKept DEF QInv
  <2>2. restarts' = 0 => restarts = 0
    BY <1>2 DEF QInv, IInv, Next, SenderStep, ReceiverStep, HostStep, LineStep, Restart
  <2>3. restarts' = 0 => FirstRunInv'
    BY <1>2, <2>2, FirstRunKept DEF QInv, IInv, FirstRunLinks
  <2> QED
    BY <1>1, <2>1, <2>3 DEF QInv
<1>3. CASE UNCHANGED vars
  <2>1. UNCHANGED <<toHost, toBoard, sender, request, finalized, receiver, host, served,
                    confirmed, restarts>>
    BY <1>3 DEF vars, linkVars, senderVars, receiverVars, hostVars
  <2> QED
    BY <1>1, <2>1 DEF QInv, CommandsInv, FirstRunInv, RequestFrame
<1> QED
  BY <1>2, <1>3

THEOREM FirstRunInvariance ==
  ASSUME StatusMeansOk
  PROVE  Spec => []QInv
<1>1. Init => QInv
  BY QInvInitially
<1>2. QInv /\ [Next]_vars => QInv'
  BY QInvKept
<1> QED
  BY <1>1, <1>2, PTL DEF Spec

(* NoUnexpectedCommand: no board ever reads a frame under a command that   *)
(* its role does not expect, whatever is lost, damaged or restarted, and   *)
(* the host reads none before the first restart, for every set of requests *)
(* and every firmware that reports nothing but success.                    *)
THEOREM CommandsAsExpected ==
  ASSUME StatusMeansOk
  PROVE  Spec => []NoUnexpectedCommand
<1>1. QInv => NoUnexpectedCommand
  BY DEF QInv, CommandsInv, FirstRunInv, NoUnexpectedCommand
<1> QED
  BY <1>1, FirstRunInvariance, PTL

-----------------------------------------------------------------------------
(* Reports without faults: a Status names no request, so that it is its    *)
(* place on the line that says whose it is.  Restarts drop what is in      *)
(* front of it, or cut it; only a fault takes something out from behind.   *)

Serving == host \in {"relayRequest", "awaitProposal", "relayProposal", "awaitStatus"}

(* What may stand in front of a Status. *)
Announced == Marks \cup {RequestFrame(r) : r \in finalized}

ReportInv ==
  LET line == toHost["sender"]
      due  == sender \in {"waiting", "Ok"} /\ ~reported
  IN  /\ \A i \in 2 .. Len(line) : line[i].command = "Status" => line[i - 1] \in Announced
      /\ Serving /\ line # <<>> /\ line[1].command = "Status" => served \in finalized
      /\ due /\ line # <<>> => line[Len(line)] \in Marks \cup {RequestFrame(request)}
      /\ due /\ line = <<>> /\ Serving => served = request
      /\ sender = "Ok" => request \in finalized
      /\ confirmed \subseteq finalized

ReportLinks == IInv /\ CommandsInv /\ StatusMeansOk /\ ReportInv /\ faults' = faults

(* The line has got shorter from its front. *)
TailLeft(line, rest, k) ==
  /\ Len(rest) = Len(line) - k
  /\ \A i \in 1 .. Len(rest) : rest[i] = line[i + k] \/ (i = 1 /\ rest[i] \in Marks)

LEMMA SenderLineTyped ==
  ASSUME IInv
  PROVE  /\ "sender" \in Board
         /\ toHost \in [Board -> Seq(JustItem)]
         /\ toHost["sender"] \in Seq(JustItem)
         /\ Len(toHost["sender"]) \in Nat
         /\ (toHost["sender"] = <<>> <=> Len(toHost["sender"]) = 0)
<1>1. "sender" \in Board /\ toHost \in [Board -> Seq(JustItem)]
  BY HostLinksAssumption DEF IInv, BoardsInv, JustLines
<1> QED
  BY <1>1, LenProperties, EmptySeq

(* The sender's board appends at most. *)
LEMMA SenderKeepsReports ==
  ASSUME ReportLinks, SenderActs, UNCHANGED hostVars
  PROVE  ReportInv'
<1> DEFINE line == toHost["sender"]
<1>1. /\ UNCHANGED <<host, served, confirmed>> /\ Serving' = Serving
      /\ line \in Seq(JustItem) /\ Len(line) \in Nat /\ (line = <<>> <=> Len(line) = 0)
      /\ "sender" \in Board /\ toHost \in [Board -> Seq(JustItem)]
  BY SenderLineTyped DEF hostVars, Serving, ReportLinks
<1>2. faults \in Nat /\ faults' = faults
  BY DEF ReportLinks, IInv, BoardsInv
<1>3. ~Fault
  BY <1>2 DEF Fault
<1>4. ASSUME NEW item, line' = Append(line, item)
      PROVE  /\ Len(line') = Len(line) + 1 /\ line' # <<>>
             /\ line'[Len(line')] = item
             /\ line = <<>> => line'[1] = item
             /\ line # <<>> => line'[1] = line[1]
             /\ \A i \in 2 .. Len(line') :
                  \/ i \in 2 .. Len(line) /\ line'[i] = line[i] /\ line'[i - 1] = line[i - 1]
                  \/ i = Len(line) + 1 /\ line'[i] = item /\ line # <<>> /\ line'[i - 1] = line[Len(line)]
  <2>1. /\ line' # <<>> /\ Len(line') = Len(line) + 1 /\ line'[Len(line) + 1] = item
        /\ \A i \in 1 .. Len(line) : line'[i] = line[i]
    BY <1>1, <1>4, AppendedItem
  <2> QED
    BY <1>1, <2>1
<1>5. CASE \E r \in Requests : SendRequest(r)
  <2>1. PICK r \in Requests : SendRequest(r)
    BY <1>5
  <2>2. /\ line' = Append(line, RequestFrame(r))
        /\ sender' = "waiting" /\ request' = r /\ finalized' = finalized
    BY <1>1, <2>1 DEF SendRequest, AddTo
  <2>3. RequestFrame(r).command = "OutRequest"
    BY DEF RequestFrame
  <2> QED
    BY <1>1, <1>4, <2>2, <2>3 DEF ReportLinks, ReportInv, Announced, RequestFrame
<1>6. CASE ReportStatus
  <2>1. /\ sender = "Ok" /\ ~reported /\ reported' = TRUE
        /\ UNCHANGED <<sender, request, finalized>>
    BY <1>6 DEF ReportStatus, WillReport, ReportLinks, StatusMeansOk, HarnessErrors,
                FirmwareStatusAssumption
  <2>2. PICK item : line' = Append(line, item) /\ item.command = "Status"
    BY <1>1, <1>6 DEF ReportStatus, AddTo
  <2>3. line # <<>> => line[Len(line)] \in Announced
    BY <2>1 DEF ReportLinks, ReportInv, Announced
  <2>4. line = <<>> /\ Serving => served \in finalized
    BY <2>1 DEF ReportLinks, ReportInv
  <2> QED
    BY <1>1, <1>4, <2>1, <2>2, <2>3, <2>4 DEF ReportLinks, ReportInv, Announced, RequestFrame
<1>7. CASE ResetSender
  <2>1. /\ sender' = "start" /\ finalized' = finalized
        /\ line' \in {line, Append(line, Partial)}
    BY <1>1, <1>7 DEF ResetSender, StoppedOnto, AddTo
  <2>2. CASE line' = line
    BY <1>1, <2>1, <2>2 DEF ReportLinks, ReportInv, Announced, RequestFrame
  <2>3. CASE line' = Append(line, Partial)
    <3>1. Partial.command # "Status"
      BY DEF Partial
    <3> QED
      BY <1>1, <1>4, <2>1, <2>3, <3>1 DEF ReportLinks, ReportInv, Announced, RequestFrame
  <2> QED
    BY <2>1, <2>2, <2>3
<1>8. CASE ReceiveResponse
  <2>1. /\ sender = "waiting" /\ UNCHANGED <<toHost, request, reported>>
        /\ sender' \in Returned
        /\ sender' = "Ok" => finalized' = finalized \cup {request}
        /\ finalized \subseteq finalized'
    BY <1>8 DEF ReceiveResponse, Returned, HarnessErrors
  <2>2. Announced \subseteq Announced'
    BY <2>1 DEF Announced, RequestFrame
  <2> QED
    BY <1>1, <2>1, <2>2 DEF ReportLinks, ReportInv, RequestFrame
<1>9. CASE SenderFramingError \/ \E r \in Requests : RefuseRequest(r)
  <2>1. /\ sender' \in {"Framing", "Payjoin"} /\ UNCHANGED <<toHost, finalized>>
    BY <1>9 DEF SenderFramingError, RefuseRequest, linkVars
  <2> QED
    BY <1>1, <2>1 DEF ReportLinks, ReportInv, Announced, RequestFrame
<1>10. ~SenderReadFails /\ ~\E r \in Requests : FailRequest(r)
  BY <1>3 DEF SenderReadFails, FailRequest
<1> QED
  BY <1>5, <1>6, <1>7, <1>8, <1>9, <1>10 DEF SenderActs

(* What is left of a line is in the order it was in. *)
LEMMA TailKeepsOrder ==
  ASSUME ReportLinks, finalized' = finalized,
         NEW k \in Nat, TailLeft(toHost["sender"], toHost'["sender"], k),
         toHost'["sender"] \in Seq(JustItem)
  PROVE  LET line == toHost["sender"] IN
         /\ \A i \in 2 .. Len(line') :
              line'[i].command = "Status" => line'[i - 1] \in Announced'
         /\ line' # <<>> =>
              line # <<>> /\ (line'[Len(line')] = line[Len(line)] \/ line'[Len(line')] \in Marks)
<1> DEFINE line == toHost["sender"]
<1>1. Announced' = Announced
  BY DEF Announced, RequestFrame
<1>2. /\ Len(line) \in Nat /\ (line = <<>> <=> Len(line) = 0)
      /\ Len(line') \in Nat /\ (line' = <<>> <=> Len(line') = 0)
  BY SenderLineTyped, LenProperties, EmptySeq DEF ReportLinks
<1>3. ASSUME NEW i \in 2 .. Len(line'), line'[i].command = "Status"
      PROVE  line'[i - 1] \in Announced
  <2>1. /\ i \in 1 .. Len(line') /\ i # 1 /\ i - 1 \in 1 .. Len(line')
        /\ i + k \in 2 .. Len(line) /\ (i - 1) + k = (i + k) - 1
    BY <1>2 DEF TailLeft
  <2>2. line'[i] = line[i + k]
    BY <2>1 DEF TailLeft
  <2>3. line[(i + k) - 1] \in Announced
    BY <1>3, <2>1, <2>2 DEF ReportLinks, ReportInv
  <2> QED
    BY <2>1, <2>3 DEF TailLeft, Announced
<1>4. ASSUME line' # <<>>
      PROVE  line # <<>> /\ (line'[Len(line')] = line[Len(line)] \/ line'[Len(line')] \in Marks)
  <2>1. Len(line') \in 1 .. Len(line') /\ Len(line') + k = Len(line) /\ Len(line) # 0
    BY <1>2, <1>4 DEF TailLeft
  <2> QED
    BY <1>2, <2>1 DEF TailLeft
<1> QED
  BY <1>1, <1>3, <1>4

(* A host that is done with its request may read or drop on. *)
LEMMA DoneHostKeepsReports ==
  ASSUME ReportLinks, HostLinks, ~Serving', confirmed' \subseteq finalized,
         NEW k \in Nat, TailLeft(toHost["sender"], toHost'["sender"], k),
         toHost'["sender"] \in Seq(JustItem)
  PROVE  ReportInv'
<1>1. UNCHANGED <<sender, request, reported, finalized>>
  BY DEF HostLinks, senderVars
<1> QED
  BY <1>1, TailKeepsOrder DEF ReportLinks, ReportInv, RequestFrame

LEMMA HostKeepsReports ==
  ASSUME ReportLinks, HostActs, HostLinks
  PROVE  ReportInv'
<1> DEFINE line == toHost["sender"]
<1>1. /\ UNCHANGED <<sender, request, reported, finalized>> /\ Announced' = Announced
      /\ "sender" \in Board /\ toHost \in [Board -> Seq(JustItem)] /\ line \in Seq(JustItem)
      /\ Len(line) \in Nat /\ (line = <<>> <=> Len(line) = 0)
  BY SenderLineTyped DEF HostLinks, senderVars, ReportLinks, Announced, RequestFrame
<1>2. ASSUME NEW f \in WireFrame, Reads(f), Port = "sender"
      PROVE  /\ TailLeft(line, line', 1) /\ line' \in Seq(JustItem)
             /\ line # <<>> /\ f = line[1] /\ f \notin Marks
  <2>1. line # <<>> /\ f = Head(line) /\ line' = Tail(line) /\ line[1] = Head(line)
    BY <1>1, <1>2, HeadTailProperties DEF Reads, HasFrame, TakeFrom
  <2>2. f \notin Marks
    BY DEF WireFrame, Marks, Garbled, Partial
  <2> QED
    BY <1>1, <2>1, <2>2, HeadTailProperties DEF TailLeft
<1>3. ASSUME line' = line, Serving' => Serving /\ served' = served, confirmed' = confirmed
      PROVE  ReportInv'
  BY <1>1, <1>3 DEF ReportLinks, ReportInv, RequestFrame
<1>4. CASE TakeRequest
  <2>1. PICK f \in WireFrame : Reads(f) /\ f.command = Expected /\ served' = f.payload.of
    BY <1>4 DEF TakeRequest
  <2>2. Port = "sender" /\ Expected = "OutRequest" /\ confirmed' = confirmed
    BY <1>4 DEF TakeRequest, Port, Expected
  <2>3. /\ TailLeft(line, line', 1) /\ line' \in Seq(JustItem)
        /\ line # <<>> /\ f = line[1] /\ f \notin Marks
    BY <1>2, <2>1, <2>2
  <2>4. \A r : f = RequestFrame(r) => served' = r
    BY <2>1 DEF RequestFrame, Body
  <2>5. /\ \A i \in 2 .. Len(line') :
             line'[i].command = "Status" => line'[i - 1] \in Announced'
        /\ line' # <<>> =>
             (line'[Len(line')] = line[Len(line)] \/ line'[Len(line')] \in Marks)
    BY <1>1, <2>3, TailKeepsOrder
  <2>6. Len(line') = Len(line) - 1 /\ Len(line') \in Nat /\ (line' = <<>> <=> Len(line') = 0)
    BY <2>3, LenProperties, EmptySeq DEF TailLeft
  <2>7. ASSUME line' # <<>>, line'[1].command = "Status"
        PROVE  served' \in finalized
    <3>1. 2 \in 2 .. Len(line) /\ 1 \in 1 .. Len(line')
      BY <1>1, <2>6, <2>7
    <3>2. line'[1] = line[2] \/ line'[1] \in Marks
      BY <2>3, <3>1 DEF TailLeft
    <3>3. line[2].command = "Status"
      BY <2>7, <3>2 DEF Marks, Garbled, Partial
    <3>4. f \in Announced
      BY <2>3, <3>1, <3>3 DEF ReportLinks, ReportInv
    <3> QED
      BY <2>3, <2>4, <3>4 DEF Announced
  <2>8. ASSUME line' = <<>>, sender \in {"waiting", "Ok"}, ~reported
        PROVE  served' = request
    <3>1. Len(line) = 1
      BY <1>1, <2>6, <2>8
    <3>2. f \in Marks \cup {RequestFrame(request)}
      BY <2>3, <2>8, <3>1 DEF ReportLinks, ReportInv
    <3> QED
      BY <2>3, <2>4, <3>2
  <2> QED
    BY <1>1, <2>2, <2>3, <2>5, <2>7, <2>8 DEF ReportLinks, ReportInv, RequestFrame
<1>5. CASE TakeStatus \/ RefuseCommand
  <2>1. ~Serving'
    BY <1>5 DEF TakeStatus, RefuseCommand, Serving
  <2>2. PICK f \in WireFrame : Reads(f)
    BY <1>5 DEF TakeStatus, RefuseCommand
  <2>3. CASE Port = "sender"
    <3>1. /\ TailLeft(line, line', 1) /\ line' \in Seq(JustItem) /\ line # <<>> /\ f = line[1]
      BY <1>2, <2>2, <2>3
    <3>2. confirmed' \subseteq finalized
      <4>1. CASE TakeStatus
        <5>1. host = "awaitStatus" /\ confirmed' = confirmed \cup {served}
          BY <4>1 DEF TakeStatus
        <5>2. PICK g \in WireFrame : Reads(g) /\ g.command = "Status"
          BY <4>1, <5>1 DEF TakeStatus, Expected
        <5>3. line[1].command = "Status"
          BY <1>2, <2>3, <5>2
        <5> QED
          BY <3>1, <5>1, <5>3 DEF ReportLinks, ReportInv, Serving
      <4>2. CASE RefuseCommand
        BY <4>2 DEF RefuseCommand, ReportLinks, ReportInv
      <4> QED
        BY <1>5, <4>1, <4>2
    <3> QED
      BY <2>1, <3>1, <3>2, DoneHostKeepsReports
  <2>4. CASE Port # "sender"
    <3>1. host = "awaitProposal" /\ Port = "receiver"
      BY <2>4 DEF Port
    <3>2. line' = line
      BY <1>1, <2>2, <3>1 DEF Reads, TakeFrom
    <3>3. confirmed' = confirmed
      BY <1>5, <3>1 DEF TakeStatus, RefuseCommand
    <3> QED
      BY <1>3, <2>1, <3>2, <3>3
  <2> QED
    BY <2>3, <2>4
<1>6. CASE TakeProposal
  <2>1. /\ host = "awaitProposal" /\ Port = "receiver" /\ served' = served
        /\ confirmed' = confirmed /\ \E f \in WireFrame : Reads(f)
    BY <1>6 DEF TakeProposal, Port
  <2>2. line' = line
    BY <1>1, <2>1 DEF Reads, TakeFrom
  <2> QED
    BY <1>3, <2>1, <2>2 DEF Serving
<1>7. CASE Relay
  BY <1>3, <1>7 DEF Relay, Serving, HostWrites
<1>8. CASE HostFramingError \/ HostTimesOut \/ HostWriteFails
  BY <1>3, <1>8 DEF HostFramingError, HostTimesOut, HostReadFails, HostWriteFails, Serving, linkVars
<1>9. CASE RerunHost
  <2>1. PICK rest \in LeftOf(line) : line' = rest
    BY <1>9 DEF RerunHost
  <2>2. Marks \subseteq JustItem
    BY MarksAreJust
  <2>3. PICK k \in 0 .. Len(line) : TailLeft(line, rest, k)
    BY <1>1, <2>2, LeftIsTail DEF TailLeft
  <2>4. k \in Nat /\ rest \in Seq(JustItem)
    BY <1>1, <2>2, LeftIsTail
  <2>5. ~Serving' /\ confirmed' \subseteq finalized
    BY <1>9 DEF RerunHost, Serving, ReportLinks, ReportInv
  <2> QED
    BY <2>1, <2>3, <2>4, <2>5, DoneHostKeepsReports
<1> QED
  BY <1>4, <1>5, <1>6, <1>7, <1>8, <1>9 DEF HostActs, HostRuns

(* Reports without faults, and everything else about the round trip. *)
RInv == QInv /\ (faults = 0 => ReportInv)

LEMMA RInvKept ==
  ASSUME StatusMeansOk, RInv, [Next]_vars
  PROVE  RInv'
<1>1. QInv'
  BY QInvKept DEF RInv
<1> SUFFICES ASSUME faults' = 0 PROVE ReportInv'
  BY <1>1 DEF RInv
<1>2. CASE Next
  <2>1. faults \in Nat /\ (Fault => faults' = faults + 1)
    BY DEF RInv, QInv, IInv, BoardsInv, Fault
  <2>2. ~Fault
    BY <2>1
  <2>3. faults' = faults \/ Fault
    BY <1>2
       DEF Next, SenderStep, ReceiverStep, HostStep, LineStep, LineFault, Restart, SenderRuns,
           SenderFails, ReceiverFails, HostRuns, SendRequest, RefuseRequest, FailRequest,
           ReceiveResponse, SenderFramingError, SenderReadFails, ReportStatus, ResetSender,
           ReceiveRequest, ReceiverFramingError, ReceiverReadFails, ResetReceiver,
           TakeRequest, TakeProposal, Relay, TakeStatus, RefuseCommand, HostFramingError,
           HostTimesOut, HostReadFails, HostWriteFails, RerunHost, Reads, DamageToHost,
           DamageToBoard, LoseToHost, LoseToBoard, linkVars
  <2>4. ReportLinks
    BY <2>2, <2>3 DEF RInv, QInv, ReportLinks
  <2>5. ASSUME SenderActs, UNCHANGED hostVars PROVE ReportInv'
    BY <2>4, <2>5, SenderKeepsReports
  <2>6. ASSUME HostActs, HostLinks PROVE ReportInv'
    BY <2>4, <2>6, HostKeepsReports
  <2>7. ASSUME ReceiverActs, UNCHANGED <<senderVars, hostVars>> PROVE ReportInv'
    <3>1. toHost'["sender"] = toHost["sender"]
      BY <2>7, ReceiverLines DEF RInv, QInv, IInv
    <3> QED
      BY <2>4, <2>7, <3>1
         DEF ReportLinks, ReportInv, Announced, Serving, RequestFrame, senderVars, hostVars
  <2>8. ~LineStep
    BY <2>2 DEF LineStep, LineFault, DamageToHost, DamageToBoard, LoseToHost, LoseToBoard
  <2> QED
    BY <1>2, <2>5, <2>6, <2>7, <2>8
       DEF Next, SenderStep, ReceiverStep, HostStep, Restart, SenderRuns, SenderFails,
           ReceiverFails, SenderActs, ReceiverActs, HostActs, HostLinks
<1>3. CASE UNCHANGED vars
  BY <1>3
     DEF RInv, ReportInv, Announced, Serving, RequestFrame, vars, linkVars, senderVars,
         receiverVars, hostVars
<1> QED
  BY <1>2, <1>3

LEMMA ReportsInitially ==
  ASSUME Init
  PROVE  RInv
<1>1. toHost["sender"] = <<>> /\ Len(<<>>) = 0
  BY HostLinksAssumption DEF Init, LinksInit
<1>2. 2 .. Len(toHost["sender"]) = {}
  BY <1>1
<1>3. ReportInv
  BY <1>1, <1>2 DEF ReportInv, Init, SenderInit, HostInit, Serving
<1> QED
  BY <1>3, QInvInitially DEF RInv

THEOREM ReportInvariance ==
  ASSUME StatusMeansOk
  PROVE  Spec => []RInv
<1>1. Init => RInv
  BY ReportsInitially
<1>2. RInv /\ [Next]_vars => RInv'
  BY RInvKept
<1> QED
  BY <1>1, <1>2, PTL DEF Spec

(* CompletionMeansFinalized: the host reports a request as done only once  *)
(* its sender has finalized it, whatever the lines do as long as nothing   *)
(* is restarted, and whatever is restarted, at any moment and any number   *)
(* of times, as long as the lines deliver; with a firmware that sends no   *)
(* Status but after success.                                               *)
THEOREM CompletionIsFinalization ==
  ASSUME StatusMeansOk
  PROVE  Spec => []CompletionMeansFinalized
<1>1. RInv => CompletionMeansFinalized
  BY DEF RInv, QInv, FirstRunInv, ReportInv, CompletionMeansFinalized
<1> QED
  BY <1>1, ReportInvariance, PTL

(* ImplementsExchange: round trips that are never restarted, and ones that *)
(* are but whose lines deliver, implement the abstract exchange, whoever   *)
(* gives up: one is reported as done only once its sender has finalized    *)
(* what its receiver proposed to what it had requested.                    *)
THEOREM RoundTripImplementsExchange ==
  ASSUME StatusMeansOk, MaxRestarts = 0 \/ MaxFaults = 0
  PROVE  Spec => ImplementsExchange
<1>1. Init => Exchange!Init
  BY DEF Init, SenderInit, ReceiverInit, HostInit, Exchange!Init
<1>2. RInv /\ RInv' /\ [Next]_vars => [Exchange!Next]_(Exchange!vars)
  <2> SUFFICES ASSUME RInv, RInv', [Next]_vars
               PROVE  [Exchange!Next]_(Exchange!vars)
    OBVIOUS
  <2> USE DEF Exchange!Next, Exchange!vars
  <2>1. ASSUME SenderRuns \/ SenderFails, UNCHANGED <<receiverVars, hostVars>>
        PROVE  [Exchange!Next]_(Exchange!vars)
    <3>1. UNCHANGED <<proposed, confirmed>>
      BY <2>1 DEF receiverVars, hostVars
    <3>2. ASSUME NEW r \in Requests, SendRequest(r) \/ FailRequest(r)
          PROVE  Exchange!Request(r)
      BY <3>1, <3>2 DEF SendRequest, FailRequest, Exchange!Request
    <3>3. CASE ReceiveResponse
      <4>1. CASE finalized' = finalized
        BY <3>1, <3>3, <4>1 DEF ReceiveResponse
      <4>2. CASE finalized' = finalized \cup {request}
        <5>1. request \in finalized' /\ finalized' \subseteq proposed'
          BY <4>2 DEF RInv, QInv, IInv, BoardsInv
        <5>2. request \in proposed /\ request \in Requests
          BY <3>1, <5>1 DEF RInv, QInv, IInv, BoardsInv, ReceiverTypeOK
        <5>3. Exchange!Finalize(request)
          BY <3>1, <3>3, <4>2, <5>2 DEF ReceiveResponse, Exchange!Finalize
        <5> QED
          BY <5>2, <5>3
      <4> QED
        BY <3>3, <4>1, <4>2 DEF ReceiveResponse
    <3>4. CASE \/ \E r \in Requests : RefuseRequest(r)
               \/ SenderFramingError \/ SenderReadFails \/ ReportStatus
      BY <3>1, <3>4 DEF RefuseRequest, SenderFramingError, SenderReadFails, ReportStatus
    <3> QED
      BY <2>1, <3>2, <3>3, <3>4 DEF SenderRuns, SenderFails
  <2>2. ASSUME ReceiveRequest \/ ReceiverFails, UNCHANGED <<senderVars, hostVars>>
        PROVE  [Exchange!Next]_(Exchange!vars)
    <3>1. UNCHANGED <<requested, finalized, confirmed>>
      BY <2>2 DEF senderVars, hostVars
    <3>2. CASE proposed' = proposed
      BY <3>1, <3>2
    <3>3. CASE \E r : proposed' = proposed \cup {r}
      <4>1. PICK r : proposed' = proposed \cup {r}
        BY <3>3
      <4>2. r \in requested /\ r \in Requests
        BY <3>1, <4>1 DEF RInv, QInv, IInv, BoardsInv, SenderTypeOK
      <4>3. Exchange!Propose(r)
        BY <3>1, <4>1, <4>2 DEF Exchange!Propose
      <4> QED
        BY <4>2, <4>3
    <3> QED
      BY <2>2, <3>2, <3>3
         DEF ReceiveRequest, ReceiverFails, ReceiverFramingError, ReceiverReadFails
  <2>3. ASSUME HostRuns \/ HostWriteFails, UNCHANGED <<senderVars, receiverVars>>
        PROVE  [Exchange!Next]_(Exchange!vars)
    <3>1. UNCHANGED <<requested, proposed, finalized>>
      BY <2>3 DEF senderVars, receiverVars
    <3>2. CASE TakeStatus
      <4>1. /\ confirmed' = confirmed \cup {served}
            /\ restarts' = 0 \/ faults' = 0
        BY <3>2, MaxFaultsAssumption DEF TakeStatus, RInv, QInv, IInv, BoardsInv
      <4>2. served \in finalized /\ served \in Requests
        BY <3>1, <4>1 DEF RInv, QInv, IInv, FirstRunInv, ReportInv, BoardsInv, SenderTypeOK
      <4>3. Exchange!Confirm(served)
        BY <3>1, <4>1, <4>2 DEF Exchange!Confirm
      <4> QED
        BY <4>2, <4>3
    <3>3. CASE ~TakeStatus
      BY <2>3, <3>1, <3>3
         DEF HostRuns, TakeRequest, TakeProposal, Relay, RefuseCommand, HostFramingError,
             HostTimesOut, HostReadFails, HostWriteFails
    <3> QED
      BY <3>2, <3>3
  <2>4. CASE LineStep \/ UNCHANGED vars
    BY <2>4 DEF LineStep, vars, senderVars, receiverVars, hostVars
  <2>5. CASE Restart
    BY <2>5
       DEF Restart, ResetSender, ResetReceiver, RerunHost, senderVars, receiverVars, hostVars
  <2> QED
    BY <2>1, <2>2, <2>3, <2>4, <2>5 DEF Next, SenderStep, ReceiverStep, HostStep
<1>3. Spec => []RInv
  BY ReportInvariance
<1> QED
  BY <1>1, <1>2, <1>3, PTL DEF Spec, ImplementsExchange, Exchange!Spec

-----------------------------------------------------------------------------
(* A round trip that nothing disturbs goes through these stages, one       *)
(* frame or held payload at a time.                                        *)

OnTheLines(fromSender, fromReceiver, forSender, forReceiver) ==
  /\ toHost["sender"] = fromSender /\ toHost["receiver"] = fromReceiver
  /\ toBoard["sender"] = forSender /\ toBoard["receiver"] = forReceiver

OriginalFrame(r) == [command |-> "OriginalPsbt", payload |-> Body(r)]
ResponseFrame(r) == [command |-> "InResponse", payload |-> Answer(r)]
StatusFrame      == [command |-> "Status", payload |-> Code("Ok")]

AtStart ==
  /\ sender = "start" /\ ~reported /\ host = "awaitRequest" /\ receiver = "waiting"
  /\ OnTheLines(<<>>, <<>>, <<>>, <<>>)

Unsendable ==
  /\ sender = "Payjoin" /\ request \in Unbuildable \cup LongRequests
  /\ host \in {"awaitRequest"} \cup HostErrors /\ receiver = "waiting"
  /\ toHost["sender"] \in Seq(Only({"Status"}))
  /\ toBoard["receiver"] = <<>>

Asked ==
  /\ host = "awaitRequest" /\ receiver = "waiting"
  /\ OnTheLines(<<RequestFrame(request)>>, <<>>, <<>>, <<>>)

RequestHeld ==
  /\ host = "relayRequest" /\ held = Body(request) /\ receiver = "waiting"
  /\ OnTheLines(<<>>, <<>>, <<>>, <<>>)

RequestRelayed ==
  /\ host = "awaitProposal" /\ receiver = "waiting"
  /\ OnTheLines(<<>>, <<>>, <<>>, <<OriginalFrame(request)>>)

RequestRefused ==
  /\ host \in {"awaitProposal"} \cup HostErrors /\ receiver = "Payjoin"
  /\ request \in Rejected \cup LongProposals
  /\ OnTheLines(<<>>, <<>>, <<>>, <<>>)

Proposed ==
  /\ host = "awaitProposal" /\ receiver = "Ok"
  /\ OnTheLines(<<>>, <<ProposalFrame(request)>>, <<>>, <<>>)

ProposalHeld ==
  /\ host = "relayProposal" /\ held = Answer(request) /\ receiver = "Ok"
  /\ OnTheLines(<<>>, <<>>, <<>>, <<>>)

ProposalRelayed ==
  /\ host = "awaitStatus" /\ receiver = "Ok"
  /\ OnTheLines(<<>>, <<>>, <<ResponseFrame(request)>>, <<>>)

(* While the sender waits. *)
UnderWay ==
  /\ sender = "waiting" /\ ~reported /\ request \in Requests
  /\ \/ Asked \/ RequestHeld \/ RequestRelayed \/ RequestRefused
     \/ Proposed \/ ProposalHeld \/ ProposalRelayed

AnswerRefused ==
  /\ sender = "Payjoin" /\ request \in Distrusted /\ receiver = "Ok"
  /\ host \in {"awaitStatus"} \cup HostEnded

Accepted ==
  /\ sender = "Ok" /\ ~reported /\ receiver = "Ok"
  /\ \/ host = "awaitStatus"
     \/ host = "ReadFailed" /\ FirmwareStatus = "never"
  /\ OnTheLines(<<>>, <<>>, <<>>, <<>>)

Reported ==
  /\ sender = "Ok" /\ reported /\ receiver = "Ok"
  /\ \/ host = "awaitStatus" /\ toHost["sender"] = <<StatusFrame>>
     \/ host = "done"

Staged ==
  \/ AtStart \/ Unsendable
  \/ UnderWay \/ AnswerRefused
  \/ Accepted \/ Reported

StagesInv == Undisturbed => Staged

LEMMA NoFrame ==
  /\ ~HasFrame(<<>>) /\ ~HasBroken(<<>>)
  /\ \A rest \in LeftOf(<<>>) : rest = <<>>
<1>1. <<>> \in Seq({}) /\ Len(<<>>) = 0
  BY EmptySeq
<1>2. ASSUME NEW rest \in LeftOf(<<>>) PROVE rest = <<>>
  <2>1. Reduced(<<>>, rest)
    BY <1>1, LeftIsReduced
  <2>2. rest \in Seq(Marks \cup ItemsOf(<<>>)) /\ Len(rest) <= 0 /\ Len(rest) \in Nat
    BY <1>1, <2>1, LenProperties DEF Reduced
  <2> QED
    BY <2>2, EmptySeq
<1> QED
  BY <1>2 DEF HasFrame, HasBroken

LEMMA LoneFrame ==
  ASSUME NEW f \in WireFrame
  PROVE  /\ HasFrame(<<f>>) /\ ~HasBroken(<<f>>) /\ <<f>> # <<>>
         /\ Head(<<f>>) = f /\ Tail(<<f>>) = <<>>
         /\ Append(<<>>, f) = <<f>>
<1>1. f # Garbled /\ f # Partial
  BY DEF WireFrame, Garbled, Partial
<1>2. <<f>> # <<>> /\ <<f>>[1] = f /\ Head(<<f>>) = f /\ Tail(<<f>>) = <<>>
      /\ Append(<<>>, f) = <<f>>
  OBVIOUS
<1> QED
  BY <1>1, <1>2 DEF HasFrame, HasBroken

LEMMA TheFrames ==
  ASSUME NEW r \in Requests
  PROVE  /\ {RequestFrame(r), OriginalFrame(r), ProposalFrame(r), ResponseFrame(r), StatusFrame}
              \subseteq WireFrame
         /\ RequestFrame(r).command = "OutRequest" /\ RequestFrame(r).payload = Body(r)
         /\ OriginalFrame(r).command = "OriginalPsbt" /\ OriginalFrame(r).payload = Body(r)
         /\ ProposalFrame(r).command = "SignedPsbt" /\ ProposalFrame(r).payload = Answer(r)
         /\ ResponseFrame(r).command = "InResponse" /\ ResponseFrame(r).payload = Answer(r)
         /\ StatusFrame.command = "Status"
         /\ Body(r).of = r /\ Body(r).is = "request"
         /\ Answer(r) = Base64(Proposal(r))
BY DEF RequestFrame, OriginalFrame, ProposalFrame, ResponseFrame, StatusFrame, Body, Answer,
       Base64, Proposal, Code, WireFrame, RequestPayload, AnswerPayload, StatusPayload

(* What an undisturbed step is not. *)
LEMMA Calm ==
  ASSUME IInv, Undisturbed', [Next]_vars
  PROVE  Undisturbed /\ ~Fault /\ restarts' = restarts
<1>1. faults \in Nat /\ restarts \in Nat /\ faults' = 0 /\ restarts' = 0
  BY MaxFaultsAssumption, MaxRestartsAssumption DEF IInv, BoardsInv, Undisturbed
<1>2. ~Fault
  BY <1>1 DEF Fault
<1>3. ~Restart
  BY <1>1 DEF Restart
<1>4. restarts' = restarts
  BY <1>3 DEF Next, SenderStep, ReceiverStep, HostStep, LineStep, vars
<1>5. faults' = faults
  <2>1. CASE SenderStep
    BY <1>2, <2>1
       DEF SenderStep, SenderRuns, SenderFails, SendRequest, RefuseRequest, FailRequest,
           ReceiveResponse, SenderFramingError, SenderReadFails, ReportStatus, linkVars
  <2>2. CASE ReceiverStep
    BY <1>2, <2>2
       DEF ReceiverStep, ReceiveRequest, ReceiverFails, ReceiverFramingError, ReceiverReadFails
  <2>3. CASE HostStep
    BY <1>2, <2>3
       DEF HostStep, HostRuns, TakeRequest, TakeProposal, Relay, TakeStatus, RefuseCommand,
           HostFramingError, HostTimesOut, HostReadFails, HostWriteFails, Reads, linkVars
  <2>4. CASE LineStep
    BY <1>2, <2>4
       DEF LineStep, LineFault, DamageToHost, DamageToBoard, LoseToHost, LoseToBoard
  <2> QED
    BY <1>3, <2>1, <2>2, <2>3, <2>4 DEF Next, vars, linkVars
<1> QED
  BY <1>1, <1>2, <1>4, <1>5 DEF Undisturbed

LEMMA WrittenLine ==
  ASSUME NEW S, NEW lines \in [Board -> S], NEW line
  PROVE  /\ [lines EXCEPT !["sender"] = line]["sender"] = line
         /\ [lines EXCEPT !["sender"] = line]["receiver"] = lines["receiver"]
         /\ [lines EXCEPT !["receiver"] = line]["receiver"] = line
         /\ [lines EXCEPT !["receiver"] = line]["sender"] = lines["sender"]
BY HostLinksAssumption

LEMMA WrittenLines ==
  ASSUME IInv
  PROVE  /\ \A line :
              /\ [toHost EXCEPT !["sender"] = line]["sender"] = line
              /\ [toHost EXCEPT !["sender"] = line]["receiver"] = toHost["receiver"]
              /\ [toHost EXCEPT !["receiver"] = line]["receiver"] = line
              /\ [toHost EXCEPT !["receiver"] = line]["sender"] = toHost["sender"]
         /\ \A line :
              /\ [toBoard EXCEPT !["sender"] = line]["sender"] = line
              /\ [toBoard EXCEPT !["sender"] = line]["receiver"] = toBoard["receiver"]
              /\ [toBoard EXCEPT !["receiver"] = line]["receiver"] = line
              /\ [toBoard EXCEPT !["receiver"] = line]["sender"] = toBoard["sender"]
<1>1. toHost \in JustLines /\ toBoard \in JustLines
  BY DEF IInv, BoardsInv
<1> QED
  BY <1>1, WrittenLine DEF JustLines

LEMMA SenderKeepsStages ==
  ASSUME IInv, Staged, SenderStep, ~Fault
  PROVE  Staged'
<1>1. UNCHANGED <<receiver, host, held>>
  BY DEF SenderStep, receiverVars, hostVars
<1>3. ASSUME NEW r \in Requests, SendRequest(r) PROVE Staged'
  <2>1. AtStart
    BY <1>3 DEF SendRequest, Staged, AtStart, Unsendable, UnderWay, AnswerRefused, Accepted,
                Reported
  <2>2. /\ toHost'["sender"] = Append(<<>>, RequestFrame(r))
        /\ toHost'["receiver"] = <<>>
    BY <1>3, <2>1, WrittenLines DEF SendRequest, AddTo, AtStart, OnTheLines
  <2>3. toHost'["sender"] = <<RequestFrame(r)>>
    BY <2>2, TheFrames, LoneFrame
  <2>4. Asked'
    BY <1>1, <1>3, <2>1, <2>2, <2>3
       DEF SendRequest, AtStart, Asked, OnTheLines, RequestFrame, Body
  <2> QED
    BY <1>3, <2>1, <2>4 DEF SendRequest, AtStart, UnderWay, Staged
<1>4. ASSUME NEW r \in Requests, RefuseRequest(r) PROVE Staged'
  <2>1. AtStart
    BY <1>4 DEF RefuseRequest, Staged, AtStart, Unsendable, UnderWay, AnswerRefused, Accepted,
                Reported
  <2>2. toHost'["sender"] \in Seq(Only({"Status"}))
    BY <1>4, <2>1, EmptySeq DEF RefuseRequest, linkVars, AtStart, OnTheLines
  <2>3. Unsendable'
    BY <1>1, <1>4, <2>1, <2>2 DEF RefuseRequest, linkVars, AtStart, OnTheLines, Unsendable
  <2> QED
    BY <2>3 DEF Staged
<1>5. CASE ReceiveResponse
  <2>1. sender = "waiting" /\ HasFrame(toBoard["sender"])
    BY <1>5 DEF ReceiveResponse
  <2>2. ProposalRelayed /\ request \in Requests /\ ~reported
    BY <2>1, NoFrame
       DEF Staged, AtStart, Unsendable, UnderWay, AnswerRefused, Accepted, Reported, Asked,
           RequestHeld, RequestRelayed, RequestRefused, Proposed, ProposalHeld,
           ProposalRelayed, OnTheLines
  <2>3. toBoard["sender"] = <<ResponseFrame(request)>>
    BY <2>2 DEF ProposalRelayed, OnTheLines
  <2>4. /\ Head(toBoard["sender"]) = ResponseFrame(request)
        /\ Tail(toBoard["sender"]) = <<>>
    BY <2>2, <2>3, TheFrames, LoneFrame
  <2>5. toBoard' = [toBoard EXCEPT !["sender"] = <<>>]
    BY <1>5, <2>4, NoFrame DEF ReceiveResponse
  <2>6. toBoard'["sender"] = <<>> /\ toBoard'["receiver"] = <<>>
    BY <2>2, <2>5, WrittenLines DEF ProposalRelayed, OnTheLines
  <2>7. /\ ResponseFrame(request).command = "InResponse"
        /\ AcceptsResponse(ResponseFrame(request).payload) <=> request \notin Distrusted
    BY <2>2, TheFrames DEF AcceptsResponse
  <2>8. UNCHANGED <<toHost, request, reported>>
    BY <1>5 DEF ReceiveResponse
  <2>9. CASE request \in Distrusted
    <3>1. sender' = "Payjoin"
      BY <1>5, <2>4, <2>7, <2>9 DEF ReceiveResponse
    <3>2. AnswerRefused'
      BY <1>1, <2>2, <2>8, <2>9, <3>1 DEF AnswerRefused, ProposalRelayed, HostEnded
    <3> QED
      BY <3>2 DEF Staged
  <2>10. CASE request \notin Distrusted
    <3>1. sender' = "Ok"
      BY <1>5, <2>4, <2>7, <2>10 DEF ReceiveResponse
    <3>2. Accepted'
      BY <1>1, <2>2, <2>6, <2>8, <3>1 DEF Accepted, ProposalRelayed, OnTheLines
    <3> QED
      BY <3>2 DEF Staged
  <2> QED
    BY <2>9, <2>10
<1>6. ~SenderFramingError
  <2> SUFFICES ASSUME sender = "waiting" PROVE ~HasBroken(toBoard["sender"])
    BY DEF SenderFramingError
  <2>1. toBoard["sender"] = <<>> \/ toBoard["sender"] = <<ResponseFrame(request)>>
    BY DEF Staged, AtStart, Unsendable, UnderWay, AnswerRefused, Accepted, Reported, Asked,
           RequestHeld, RequestRelayed, RequestRefused, Proposed, ProposalHeld,
           ProposalRelayed, OnTheLines
  <2>2. request \in Requests
    BY DEF Staged, AtStart, Unsendable, UnderWay, AnswerRefused, Accepted, Reported
  <2> QED
    BY <2>1, <2>2, NoFrame, TheFrames, LoneFrame
<1>7. CASE ReportStatus
  <2>1. UNCHANGED <<sender, request, toBoard>> /\ reported' = TRUE /\ WillReport
    BY <1>7 DEF ReportStatus
  <2>2. sender # "Ok" =>
          toHost' = AddTo(toHost, "sender", [command |-> "Status", payload |-> Code("Error")])
    BY <1>7 DEF ReportStatus
  <2>3. CASE Unsendable
    <3>1. toHost'["sender"] =
            Append(toHost["sender"], [command |-> "Status", payload |-> Code("Error")])
      BY <2>2, <2>3, WrittenLines DEF AddTo, Unsendable
    <3>2. [command |-> "Status", payload |-> Code("Error")] \in Only({"Status"})
      BY DEF Only, WireFrame, StatusPayload, Code
    <3>3. toHost'["sender"] \in Seq(Only({"Status"}))
      BY <2>3, <3>1, <3>2, AppendProperties DEF Unsendable
    <3>4. Unsendable'
      BY <1>1, <2>1, <2>3, <3>3 DEF Unsendable
    <3> QED
      BY <3>4 DEF Staged
  <2>4. CASE AnswerRefused
    BY <1>1, <2>1, <2>4 DEF AnswerRefused, Staged
  <2>5. CASE Accepted
    <3>1. toHost' = AddTo(toHost, "sender", StatusFrame) /\ FirmwareStatus # "never"
      BY <1>7, <2>5 DEF ReportStatus, WillReport, Accepted, StatusFrame, HarnessErrors
    <3>2. toHost'["sender"] = Append(<<>>, StatusFrame)
      BY <2>5, <3>1, WrittenLines DEF AddTo, Accepted, OnTheLines
    <3>3. StatusFrame \in WireFrame
      BY DEF StatusFrame, WireFrame, StatusPayload, Code
    <3>4. toHost'["sender"] = <<StatusFrame>>
      BY <3>2, <3>3, LoneFrame
    <3>5. Reported'
      BY <1>1, <2>1, <2>5, <3>1, <3>4 DEF Accepted, Reported, StatusFrame, Code
    <3> QED
      BY <3>5 DEF Staged
  <2> QED
    BY <2>1, <2>3, <2>4, <2>5
       DEF Staged, AtStart, UnderWay, Reported, WillReport, HarnessErrors
<1>8. ~\E r \in Requests : FailRequest(r)
  BY DEF FailRequest
<1>9. ~SenderReadFails
  BY DEF SenderReadFails
<1> QED
  BY <1>3, <1>4, <1>5, <1>6, <1>7, <1>8, <1>9 DEF SenderStep, SenderRuns, SenderFails

LEMMA ReceiverKeepsStages ==
  ASSUME IInv, Staged, ReceiverStep, ~Fault
  PROVE  Staged'
<1>1. UNCHANGED <<sender, request, reported, host, held>>
  BY DEF ReceiverStep, senderVars, hostVars
<1>3. CASE ReceiveRequest
  <2>1. receiver = "waiting" /\ HasFrame(toBoard["receiver"])
    BY <1>3 DEF ReceiveRequest
  <2>2. RequestRelayed /\ sender = "waiting" /\ ~reported /\ request \in Requests
    BY <2>1, NoFrame
       DEF Staged, AtStart, Unsendable, UnderWay, AnswerRefused, Accepted, Reported, Asked,
           RequestHeld, RequestRelayed, RequestRefused, Proposed, ProposalHeld,
           ProposalRelayed, OnTheLines
  <2>3. toBoard["receiver"] = <<OriginalFrame(request)>>
    BY <2>2 DEF RequestRelayed, OnTheLines
  <2>4. /\ Head(toBoard["receiver"]) = OriginalFrame(request)
        /\ Tail(toBoard["receiver"]) = <<>>
    BY <2>2, <2>3, TheFrames, LoneFrame
  <2>5. toBoard' = [toBoard EXCEPT !["receiver"] = <<>>]
    BY <1>3, <2>4, NoFrame DEF ReceiveRequest
  <2>6. toBoard'["sender"] = <<>> /\ toBoard'["receiver"] = <<>>
    BY <2>2, <2>5, WrittenLines DEF RequestRelayed, OnTheLines
  <2>7. /\ OriginalFrame(request).command = "OriginalPsbt"
        /\ OriginalFrame(request).payload.of = request
        /\ AcceptsRequest(OriginalFrame(request).payload) <=> request \notin Rejected
    BY <2>2, TheFrames DEF AcceptsRequest
  <2>8. CASE request \in Rejected \cup LongProposals
    <3>1. receiver' = "Payjoin" /\ toHost' = toHost
      BY <1>3, <2>4, <2>7, <2>8 DEF ReceiveRequest
    <3>2. RequestRefused'
      BY <1>1, <2>2, <2>6, <2>8, <3>1 DEF RequestRefused, RequestRelayed, OnTheLines
    <3> QED
      BY <1>1, <2>2, <3>2 DEF UnderWay, Staged
  <2>9. CASE request \notin Rejected \cup LongProposals
    <3>1. receiver' = "Ok" /\ toHost' = AddTo(toHost, "receiver", ProposalFrame(request))
      BY <1>3, <2>4, <2>7, <2>9 DEF ReceiveRequest
    <3>2. /\ toHost'["receiver"] = Append(<<>>, ProposalFrame(request))
          /\ toHost'["sender"] = <<>>
      BY <2>2, <3>1, WrittenLines DEF AddTo, RequestRelayed, OnTheLines
    <3>3. toHost'["receiver"] = <<ProposalFrame(request)>>
      BY <2>2, <3>2, TheFrames, LoneFrame
    <3>4. Proposed'
      BY <1>1, <2>2, <2>6, <3>1, <3>2, <3>3
         DEF Proposed, RequestRelayed, OnTheLines, ProposalFrame, Answer, Base64, Proposal
    <3> QED
      BY <1>1, <2>2, <3>4 DEF UnderWay, Staged
  <2> QED
    BY <2>8, <2>9
<1>4. ~ReceiverFramingError
  <2> SUFFICES ASSUME receiver = "waiting" PROVE ~HasBroken(toBoard["receiver"])
    BY DEF ReceiverFramingError
  <2>1. \/ toBoard["receiver"] = <<>>
        \/ request \in Requests /\ toBoard["receiver"] = <<OriginalFrame(request)>>
    BY DEF Staged, AtStart, Unsendable, UnderWay, AnswerRefused, Accepted, Reported, Asked,
           RequestHeld, RequestRelayed, RequestRefused, Proposed, ProposalHeld,
           ProposalRelayed, OnTheLines
  <2> QED
    BY <2>1, NoFrame, TheFrames, LoneFrame
<1>5. ~ReceiverReadFails
  BY DEF ReceiverReadFails
<1> QED
  BY <1>3, <1>4, <1>5 DEF ReceiverStep, ReceiverFails

(* What read_frame can return when nothing disturbs, and what is left. *)
LEMMA ReadInStage ==
  ASSUME IInv, Staged, HostLinks, NEW f \in WireFrame, Reads(f)
  PROVE  \/ Unsendable /\ f.command = "Status" /\ toHost'["sender"] \in Seq(Only({"Status"}))
         \/ /\ UnderWay /\ Asked /\ f = RequestFrame(request)
            /\ toHost'["sender"] = <<>> /\ toHost'["receiver"] = <<>>
         \/ /\ UnderWay /\ Proposed /\ f = ProposalFrame(request)
            /\ toHost'["sender"] = <<>> /\ toHost'["receiver"] = <<>>
         \/ AnswerRefused
         \/ Reported /\ f = StatusFrame
<1>1. host \in HostReads /\ HasFrame(toHost[Port]) /\ f = Head(toHost[Port])
  BY DEF Reads
<1>2. /\ Port = "sender" =>
           /\ toHost'["sender"] = Tail(toHost["sender"])
           /\ toHost'["receiver"] = toHost["receiver"]
      /\ Port = "receiver" =>
           /\ toHost'["receiver"] = Tail(toHost["receiver"])
           /\ toHost'["sender"] = toHost["sender"]
  <2>1. toHost' = [toHost EXCEPT ![Port] = Tail(toHost[Port])]
    <3>1. toHost \in JustLines /\ Port \in Board
      BY HostLinksAssumption DEF IInv, BoardsInv, Port
    <3> QED
      BY <3>1 DEF Reads, TakeFrom, JustLines
  <2>2. CASE Port = "sender"
    BY <2>1, <2>2, WrittenLines
  <2>3. CASE Port = "receiver"
    BY <2>1, <2>3, WrittenLines
  <2> QED
    BY <2>2, <2>3
<1>3. CASE Unsendable
  <2>1. host = "awaitRequest" /\ Port = "sender"
    BY <1>1, <1>3 DEF Unsendable, HostErrors, HostReads, Port
  <2>2. toHost["sender"] # <<>> /\ toHost["sender"] \in Seq(Only({"Status"}))
    BY <1>1, <1>3, <2>1 DEF Unsendable, HasFrame
  <2>3. f \in Only({"Status"}) /\ Tail(toHost["sender"]) \in Seq(Only({"Status"}))
    BY <1>1, <2>1, <2>2
  <2>4. f.command = "Status"
    BY <2>3 DEF Only, Marks, Garbled, Partial, WireFrame
  <2> QED
    BY <1>2, <1>3, <2>1, <2>3, <2>4
<1>4. CASE UnderWay
  <2>1. request \in Requests
    BY <1>4 DEF UnderWay
  <2>2. CASE Asked
    <3>1. Port = "sender" /\ toHost["sender"] = <<RequestFrame(request)>>
      BY <2>2 DEF Asked, OnTheLines, Port
    <3>2. f = RequestFrame(request) /\ Tail(toHost["sender"]) = <<>>
      BY <1>1, <2>1, <3>1, TheFrames, LoneFrame
    <3> QED
      BY <1>2, <1>4, <2>2, <3>1, <3>2 DEF Asked, OnTheLines
  <2>3. CASE Proposed
    <3>1. Port = "receiver" /\ toHost["receiver"] = <<ProposalFrame(request)>>
      BY <2>3 DEF Proposed, OnTheLines, Port
    <3>2. f = ProposalFrame(request) /\ Tail(toHost["receiver"]) = <<>>
      BY <1>1, <2>1, <3>1, TheFrames, LoneFrame
    <3> QED
      BY <1>2, <1>4, <2>3, <3>1, <3>2 DEF Proposed, OnTheLines
  <2>4. CASE RequestHeld \/ ProposalHeld
    BY <1>1, <2>4 DEF RequestHeld, ProposalHeld, HostReads
  <2>5. CASE RequestRelayed \/ RequestRefused \/ ProposalRelayed
    <3>1. toHost["sender"] = <<>> /\ toHost["receiver"] = <<>>
      BY <2>5 DEF RequestRelayed, RequestRefused, ProposalRelayed, OnTheLines
    <3> QED
      BY <1>1, <3>1, NoFrame DEF Port
  <2> QED
    BY <1>4, <2>2, <2>3, <2>4, <2>5 DEF UnderWay
<1>5. CASE AtStart \/ Accepted
  <2>1. toHost["sender"] = <<>> /\ toHost["receiver"] = <<>>
    BY <1>5 DEF AtStart, Accepted, OnTheLines
  <2> QED
    BY <1>1, <2>1, NoFrame DEF Port
<1>6. CASE Reported
  <2>1. Port = "sender" /\ toHost["sender"] = <<StatusFrame>>
    BY <1>1, <1>6 DEF Reported, Port, HostReads
  <2>2. StatusFrame \in WireFrame
    BY DEF StatusFrame, WireFrame, StatusPayload, Code
  <2> QED
    BY <1>1, <1>6, <2>1, <2>2, LoneFrame
<1> QED
  BY <1>3, <1>4, <1>5, <1>6 DEF Staged

LEMMA HostKeepsStages ==
  ASSUME Patient, IInv, Staged, HostStep, ~Fault
  PROVE  Staged'
<1>1. HostLinks /\ UNCHANGED <<sender, request, reported, receiver>>
  BY DEF HostStep, HostLinks, senderVars, receiverVars
<1>2. CASE TakeRequest
  <2>1. PICK f \in WireFrame : Reads(f) /\ f.command = Expected /\ held' = f.payload
    BY <1>2 DEF TakeRequest
  <2>2. host = "awaitRequest" /\ f.command = "OutRequest" /\ toBoard' = toBoard
    BY <1>2, <2>1 DEF TakeRequest, Expected, Reads
  <2>3. /\ UnderWay /\ Asked /\ f = RequestFrame(request)
        /\ toHost'["sender"] = <<>> /\ toHost'["receiver"] = <<>>
    BY <1>1, <2>1, <2>2, ReadInStage
       DEF Proposed, Reported, AnswerRefused, HostEnded, HostErrors
  <2>4. held' = Body(request)
    BY <2>1, <2>3 DEF RequestFrame
  <2>5. RequestHeld'
    BY <1>1, <1>2, <2>2, <2>3, <2>4 DEF TakeRequest, Asked, RequestHeld, OnTheLines, Body
  <2> QED
    BY <1>1, <2>3, <2>5 DEF UnderWay, Staged
<1>3. CASE TakeProposal
  <2>1. PICK f \in WireFrame : Reads(f) /\ f.command = Expected /\ held' = f.payload
    BY <1>3 DEF TakeProposal
  <2>2. host = "awaitProposal" /\ f.command = "SignedPsbt" /\ toBoard' = toBoard
    BY <1>3, <2>1 DEF TakeProposal, Expected, Reads
  <2>3. /\ UnderWay /\ Proposed /\ f = ProposalFrame(request)
        /\ toHost'["sender"] = <<>> /\ toHost'["receiver"] = <<>>
    BY <1>1, <2>1, <2>2, ReadInStage
       DEF Asked, Unsendable, Reported, AnswerRefused, HostEnded, HostErrors
  <2>4. held' = Answer(request)
    BY <2>1, <2>3 DEF ProposalFrame
  <2>5. ProposalHeld'
    BY <1>1, <1>3, <2>2, <2>3, <2>4
       DEF TakeProposal, Proposed, ProposalHeld, OnTheLines, Answer, Base64, Proposal
  <2> QED
    BY <1>1, <2>3, <2>5 DEF UnderWay, Staged
<1>4. CASE Relay
  <2>1. /\ host \in HostWrites /\ toHost' = toHost
        /\ toBoard' = AddTo(toBoard, Relayed(host).port, RelayedFrame)
    BY <1>4 DEF Relay
  <2>2. UnderWay /\ (RequestHeld \/ ProposalHeld)
    BY <2>1
       DEF HostWrites, Staged, AtStart, Unsendable, UnderWay, AnswerRefused, Accepted,
           Reported, Asked, RequestRelayed, RequestRefused, Proposed, ProposalRelayed,
           HostEnded, HostErrors
  <2>3. request \in Requests
    BY <2>2 DEF UnderWay
  <2>4. CASE RequestHeld
    <3>1. toBoard' = AddTo(toBoard, "receiver", OriginalFrame(request))
      BY <2>1, <2>4 DEF RequestHeld, Relayed, RelayedFrame, OriginalFrame
    <3>2. /\ toBoard'["receiver"] = Append(<<>>, OriginalFrame(request))
          /\ toBoard'["sender"] = <<>>
      BY <2>4, <3>1, WrittenLines DEF AddTo, RequestHeld, OnTheLines
    <3>3. toBoard'["receiver"] = <<OriginalFrame(request)>>
      BY <2>3, <3>2, TheFrames, LoneFrame
    <3>4. RequestRelayed'
      BY <1>1, <1>4, <2>1, <2>4, <3>2, <3>3
         DEF Relay, RequestHeld, RequestRelayed, OnTheLines, OriginalFrame, Body
    <3> QED
      BY <1>1, <2>2, <3>4 DEF UnderWay, Staged
  <2>5. CASE ProposalHeld
    <3>1. toBoard' = AddTo(toBoard, "sender", ResponseFrame(request))
      BY <2>1, <2>5 DEF ProposalHeld, Relayed, RelayedFrame, ResponseFrame
    <3>2. /\ toBoard'["sender"] = Append(<<>>, ResponseFrame(request))
          /\ toBoard'["receiver"] = <<>>
      BY <2>5, <3>1, WrittenLines DEF AddTo, ProposalHeld, OnTheLines
    <3>3. toBoard'["sender"] = <<ResponseFrame(request)>>
      BY <2>3, <3>2, TheFrames, LoneFrame
    <3>4. ProposalRelayed'
      BY <1>1, <1>4, <2>1, <2>5, <3>2, <3>3
         DEF Relay, ProposalHeld, ProposalRelayed, OnTheLines, ResponseFrame, Answer, Base64,
             Proposal
    <3> QED
      BY <1>1, <2>2, <3>4 DEF UnderWay, Staged
  <2> QED
    BY <2>2, <2>4, <2>5
<1>5. CASE TakeStatus
  <2>1. PICK f \in WireFrame : Reads(f)
    BY <1>5 DEF TakeStatus
  <2>2. host = "awaitStatus" /\ host' = "done"
    BY <1>5 DEF TakeStatus
  <2>3. AnswerRefused \/ Reported
    BY <1>1, <2>1, <2>2, ReadInStage DEF Asked, Proposed, Unsendable, HostErrors
  <2> QED
    BY <1>1, <2>2, <2>3 DEF AnswerRefused, Reported, HostEnded, Staged
<1>6. CASE RefuseCommand
  <2>1. PICK f \in WireFrame : Reads(f) /\ f.command # Expected
    BY <1>6 DEF RefuseCommand
  <2>2. host' = "Unexpected" /\ toBoard' = toBoard /\ host \in HostReads
    BY <1>6, <2>1 DEF RefuseCommand, Reads
  <2>3. \/ Unsendable /\ toHost'["sender"] \in Seq(Only({"Status"}))
        \/ AnswerRefused
    <3>1. ~(Asked /\ f = RequestFrame(request))
      BY <2>1 DEF Asked, Expected, RequestFrame
    <3>2. ~(Proposed /\ f = ProposalFrame(request))
      BY <2>1 DEF Proposed, Expected, ProposalFrame
    <3>3. ~(Reported /\ f = StatusFrame)
      BY <2>1, <2>2 DEF Reported, Expected, StatusFrame, HostReads
    <3> QED
      BY <1>1, <2>1, <3>1, <3>2, <3>3, ReadInStage
  <2>4. CASE Unsendable /\ toHost'["sender"] \in Seq(Only({"Status"}))
    <3>1. Unsendable'
      BY <1>1, <2>2, <2>4 DEF Unsendable, HostErrors
    <3> QED
      BY <3>1 DEF Staged
  <2>5. CASE AnswerRefused
    BY <1>1, <2>2, <2>5 DEF AnswerRefused, HostEnded, HostErrors, Staged
  <2> QED
    BY <2>3, <2>4, <2>5
<1>7. CASE HostFramingError
  <2>1. /\ host \in HostReads /\ HasBroken(toHost[Port])
        /\ host' = "Framing" /\ toHost' = toHost /\ toBoard' = toBoard
    BY <1>7 DEF HostFramingError, linkVars
  <2>2. \/ Unsendable \/ AnswerRefused
        \/ toHost[Port] = <<>>
        \/ \E f \in WireFrame : toHost[Port] = <<f>>
    <3>1. StatusFrame \in WireFrame
      BY DEF StatusFrame, WireFrame, StatusPayload, Code
    <3>2. CASE AtStart \/ Accepted
      BY <3>2 DEF AtStart, Accepted, OnTheLines, Port
    <3>3. CASE Reported
      BY <2>1, <3>1, <3>3 DEF Reported, Port, HostReads
    <3>4. CASE UnderWay
      <4>1. {RequestFrame(request), ProposalFrame(request)} \subseteq WireFrame
        BY <3>4, TheFrames DEF UnderWay
      <4> QED
        BY <2>1, <3>4, <4>1
           DEF UnderWay, Asked, RequestHeld, RequestRelayed, RequestRefused, Proposed,
               ProposalHeld, ProposalRelayed, OnTheLines, Port
    <3> QED
      BY <3>2, <3>3, <3>4 DEF Staged
  <2>3. Unsendable \/ AnswerRefused
    BY <2>1, <2>2, NoFrame, LoneFrame
  <2>4. CASE Unsendable
    <3>1. Unsendable'
      BY <1>1, <2>1, <2>4 DEF Unsendable, HostErrors
    <3> QED
      BY <3>1 DEF Staged
  <2>5. CASE AnswerRefused
    BY <1>1, <2>1, <2>5 DEF AnswerRefused, HostEnded, HostErrors, HostReads, Staged
  <2> QED
    BY <2>3, <2>4, <2>5
<1>8. CASE HostTimesOut
  <2>1. /\ host \in HostReads /\ ~HasFrame(toHost[Port]) /\ ~Busy(Port)
        /\ host' = "ReadFailed" /\ toHost' = toHost /\ toBoard' = toBoard
    BY <1>8 DEF HostTimesOut, HostReadFails, linkVars
  <2>2. CASE AtStart
    BY <2>1, <2>2 DEF AtStart, Busy, Port
  <2>3. CASE Unsendable
    <3>1. Unsendable'
      BY <1>1, <2>1, <2>3 DEF Unsendable, HostErrors
    <3> QED
      BY <3>1 DEF Staged
  <2>4. CASE UnderWay
    <3>1. {RequestFrame(request), OriginalFrame(request), ProposalFrame(request),
           ResponseFrame(request)} \subseteq WireFrame
      BY <2>4, TheFrames DEF UnderWay
    <3>2. ~Asked
      BY <2>1, <3>1, LoneFrame DEF Asked, OnTheLines, Port
    <3>3. ~RequestRelayed
      BY <2>1, <3>1, LoneFrame DEF RequestRelayed, OnTheLines, Port, Busy
    <3>4. ~Proposed
      BY <2>1, <3>1, LoneFrame DEF Proposed, OnTheLines, Port
    <3>5. ~ProposalRelayed
      BY <2>1, <2>4, <3>1, LoneFrame DEF ProposalRelayed, OnTheLines, Port, Busy, UnderWay
    <3>6. RequestRefused
      BY <2>1, <2>4, <3>2, <3>3, <3>4, <3>5
         DEF UnderWay, RequestHeld, ProposalHeld, HostReads
    <3>7. RequestRefused'
      BY <1>1, <2>1, <3>6 DEF RequestRefused, OnTheLines, HostErrors
    <3> QED
      BY <1>1, <2>4, <3>7 DEF UnderWay, Staged
  <2>5. CASE AnswerRefused
    BY <1>1, <2>1, <2>5 DEF AnswerRefused, HostEnded, HostErrors, HostReads, Staged
  <2>6. CASE Accepted
    <3>1. FirmwareStatus = "never"
      BY <2>1, <2>6 DEF Accepted, Busy, WillReport, Port, HostReads
    <3>2. Accepted'
      BY <1>1, <2>1, <2>6, <3>1 DEF Accepted, OnTheLines
    <3> QED
      BY <3>2 DEF Staged
  <2>7. CASE Reported
    <3>1. StatusFrame \in WireFrame
      BY DEF StatusFrame, WireFrame, StatusPayload, Code
    <3> QED
      BY <2>1, <2>7, <3>1, LoneFrame DEF Reported, Port, HostReads
  <2> QED
    BY <2>2, <2>3, <2>4, <2>5, <2>6, <2>7 DEF Staged
<1>9. ~HostWriteFails
  BY DEF HostWriteFails
<1> QED
  BY <1>2, <1>3, <1>4, <1>5, <1>6, <1>7, <1>8, <1>9 DEF HostStep, HostRuns

LEMMA StagesKept ==
  ASSUME Patient, IInv, StagesInv, [Next]_vars
  PROVE  StagesInv'
<1> SUFFICES ASSUME Undisturbed' PROVE Staged'
  BY DEF StagesInv
<1>1. Undisturbed /\ ~Fault /\ restarts' = restarts
  BY Calm
<1>2. Staged
  BY <1>1 DEF StagesInv
<1>3. CASE UNCHANGED vars
  <2>1. UNCHANGED <<toHost, toBoard, sender, request, reported, receiver, host, held>>
    BY <1>3 DEF vars, linkVars, senderVars, receiverVars, hostVars
  <2> QED
    BY <1>2, <2>1
       DEF Staged, AtStart, Unsendable, UnderWay, AnswerRefused, Accepted, Reported, Asked,
           RequestHeld, RequestRelayed, RequestRefused, Proposed, ProposalHeld,
           ProposalRelayed, OnTheLines, OriginalFrame, ResponseFrame, RequestFrame,
           ProposalFrame, StatusFrame, Answer, Base64, Proposal, Body, Code
<1>4. ~LineStep
  BY <1>1 DEF LineStep, LineFault, DamageToHost, DamageToBoard, LoseToHost, LoseToBoard
<1>5. ~Restart
  BY <1>1 DEF Restart, Undisturbed
<1> QED
  BY <1>1, <1>2, <1>3, <1>4, <1>5, SenderKeepsStages, ReceiverKeepsStages, HostKeepsStages
     DEF Next

LEMMA StagesInitially ==
  ASSUME Init
  PROVE  StagesInv
<1>1. \A b \in {"sender", "receiver"} : toHost[b] = <<>> /\ toBoard[b] = <<>>
  BY HostLinksAssumption DEF Init, LinksInit
<1> QED
  BY <1>1 DEF Init, SenderInit, ReceiverInit, HostInit, StagesInv, Staged, AtStart, OnTheLines

THEOREM StagesInvariance ==
  ASSUME Patient
  PROVE  Spec => [](IInv /\ StagesInv)
<1>1. Init => StagesInv
  BY StagesInitially
<1>2. IInv /\ StagesInv /\ [Next]_vars => StagesInv'
  BY StagesKept
<1> QED
  BY <1>1, <1>2, Invariance, PTL DEF Spec

(* FailsOnlyWhenRefused: with a host that waits for its boards, a round    *)
(* trip that nothing disturbs fails for nothing but what the request, its  *)
(* proposal or a firmware without a Status is to blame for: no frame of it *)
(* is ever read by the wrong party, under the wrong command or too late.   *)
THEOREM FailuresAreRefusals ==
  ASSUME Patient
  PROVE  Spec => []FailsOnlyWhenRefused
<1>1. IInv /\ StagesInv => FailsOnlyWhenRefused
  <2> SUFFICES ASSUME Staged PROVE FailsOnlyWhenRefused
    BY DEF StagesInv, FailsOnlyWhenRefused
  <2>1. /\ Unbuildable \cup LongRequests \cup Distrusted \subseteq Requests \ GoodRequests
        /\ Rejected \cup LongProposals \subseteq Requests \ GoodRequests
    BY SenderSetsAssumption, ReceiverSetsAssumption DEF GoodRequests
  <2>2. CASE UnderWay
    BY <2>1, <2>2
       DEF FailsOnlyWhenRefused, UnderWay, Asked, RequestHeld, RequestRelayed,
           RequestRefused, Proposed, ProposalHeld, ProposalRelayed, HarnessErrors, HostErrors
  <2> QED
    BY <2>1, <2>2
       DEF FailsOnlyWhenRefused, Staged, AtStart, Unsendable, AnswerRefused, Accepted,
           Reported, HarnessErrors, HostErrors
<1> QED
  BY <1>1, StagesInvariance, PTL

(* WaitingSenderIsServed: with a host that waits for its boards, and while *)
(* nothing disturbs them, the request of a sender that waits is on a line  *)
(* or held by the one whose step is next, or has been refused.  That the   *)
(* step is taken is fairness, and RoundTripCompletes.                      *)
THEOREM SenderIsServed ==
  ASSUME Patient
  PROVE  Spec => []WaitingSenderIsServed
<1>1. IInv /\ StagesInv => WaitingSenderIsServed
  <2> SUFFICES ASSUME Staged, sender = "waiting" PROVE WaitingSenderIsServed
    BY DEF StagesInv, WaitingSenderIsServed
  <2>1. UnderWay
    BY DEF Staged, AtStart, Unsendable, AnswerRefused, Accepted, Reported
  <2>2. {RequestFrame(request), OriginalFrame(request), ProposalFrame(request),
         ResponseFrame(request)} \subseteq WireFrame
    BY <2>1, TheFrames DEF UnderWay
  <2> QED
    BY <2>1, <2>2, LoneFrame
       DEF WaitingSenderIsServed, UnderWay, Asked, RequestHeld, RequestRelayed,
           RequestRefused, Proposed, ProposalHeld, ProposalRelayed, OnTheLines, HostWrites
<1> QED
  BY <1>1, StagesInvariance, PTL

===============================================================================
