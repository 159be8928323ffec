----------------------------- MODULE BoardsProofs -----------------------------
(***************************************************************************)
(* What the roles of harness-device keep true of the lines they share with *)
(* whoever is at the other end: every payload on a line that passes for a  *)
(* request or for an answer was handed to a transport as one.              *)
(***************************************************************************)
EXTENDS BoardSender, BoardReceiver, SerialLinksProofs

(* The items that are justified by what was requested and proposed. *)
JustRequest == [is : {"request"}, of : requested]
JustAnswer  == [is : {"psbt", "base64", "id"}, of : proposed]

JustItem ==
  [command : {"OutRequest", "OriginalPsbt"}, payload : JustRequest]
    \cup [command : {"SignedPsbt", "InResponse"}, payload : JustAnswer]
    \cup [command : {"Status"}, payload : StatusPayload]
    \cup Marks

JustLines == [Board -> Seq(JustItem)]

BoardsInv ==
  /\ toHost \in JustLines
  /\ toBoard \in JustLines
  /\ faults \in 0 .. MaxFaults
  /\ SenderTypeOK
  /\ ReceiverTypeOK
  /\ finalized \subseteq proposed
  /\ proposed \subseteq requested

-----------------------------------------------------------------------------
(* What is justified stays so, and is of the type of the lines. *)

LEMMA JustMonotone ==
  ASSUME requested \subseteq requested', proposed \subseteq proposed'
  PROVE  /\ JustItem \subseteq JustItem'
         /\ \A lines \in JustLines : lines \in JustLines'
<1>1. JustItem \subseteq JustItem'
  BY DEF JustItem, JustRequest, JustAnswer, Marks, Garbled, Partial, StatusPayload
<1>2. \A line \in Seq(JustItem) : line \in Seq(JustItem')
  BY <1>1, SeqMonotonic
<1> QED
  BY <1>1, <1>2 DEF JustLines

LEMMA JustTyped ==
  ASSUME requested \subseteq Requests, proposed \subseteq Requests
  PROVE  \A lines \in JustLines : lines \in [Board -> Seq(Item)]
<1>1. JustItem \subseteq Item
  BY DEF JustItem, JustRequest, JustAnswer, Marks, Garbled, Partial, Item, WireFrame,
         RequestPayload, AnswerPayload
<1>2. \A line \in Seq(JustItem) : line \in Seq(Item)
  BY <1>1, SeqMonotonic
<1> QED
  BY <1>2 DEF JustLines

LEMMA MarksAreJust == Marks \subseteq JustItem
BY DEF JustItem

(* A frame's payload is a request or an answer according to its command.   *)
LEMMA JustPayloads ==
  ASSUME NEW f \in JustItem
  PROVE  /\ f.command \in {"OutRequest", "OriginalPsbt"} => f.payload \in JustRequest
         /\ f.command \in {"SignedPsbt", "InResponse"} => f.payload \in JustAnswer
BY DEF JustItem, Marks, Garbled, Partial

(* The next frame on a board's line, and what is behind it. *)
LEMMA NextFrame ==
  ASSUME NEW lines \in JustLines, NEW b \in Board, HasFrame(lines[b])
  PROVE  /\ Head(lines[b]) \in JustItem
         /\ Tail(lines[b]) \in Seq(JustItem)
         /\ lines[b] # <<>>
<1>1. lines[b] # <<>> /\ lines[b] \in Seq(JustItem)
  BY DEF HasFrame, JustLines
<1> QED
  BY <1>1, HeadTailProperties

-----------------------------------------------------------------------------
(* run_sender and the firmware around it. *)

SenderActs ==
  \/ \E r \in Requests : SendRequest(r) \/ RefuseRequest(r) \/ FailRequest(r)
  \/ ReceiveResponse \/ SenderFramingError \/ SenderReadFails
  \/ ReportStatus \/ ResetSender

(* A firmware that sends no Status but after success. *)
StatusMeansOk == FirmwareStatus # "always"

LEMMA SenderKeepsBoardsInv ==
  ASSUME BoardsInv, SenderActs, UNCHANGED receiverVars
  PROVE  BoardsInv' /\ requested \subseteq requested' /\ proposed \subseteq proposed'
<1> USE DEF BoardsInv
<1>1. ASSUME NEW r \in Requests, SendRequest(r) \/ FailRequest(r)
      PROVE  BoardsInv' /\ requested \subseteq requested' /\ proposed \subseteq proposed'
  <2>1. requested' = requested \cup {r} /\ proposed' = proposed
    BY <1>1 DEF SendRequest, FailRequest, receiverVars
  <2>2. toHost \in JustLines' /\ toBoard \in JustLines'
    BY <2>1, JustMonotone
  <2>3. RequestFrame(r) \in JustItem'
    BY <2>1 DEF RequestFrame, Body, JustItem, JustRequest
  <2>4. toHost' \in JustLines'
    <3>1. CASE SendRequest(r)
      BY <3>1, <2>2, <2>3, AddToLines, SenderLinkAssumption DEF SendRequest, JustLines
    <3>2. CASE FailRequest(r)
      BY <3>2, <2>2, <2>3, FailedOntoLines, SenderLinkAssumption
         DEF FailRequest, JustLines, JustItem
    <3> QED
      BY <1>1, <3>1, <3>2
  <2>5. toBoard' \in JustLines'
    BY <1>1, <2>2 DEF SendRequest, FailRequest
  <2>6. faults' \in 0 .. MaxFaults
    BY <1>1, MaxFaultsAssumption DEF SendRequest, FailRequest, Fault
  <2>7. SenderTypeOK' /\ ReceiverTypeOK'
    BY <1>1, <2>1
       DEF SendRequest, FailRequest, SenderTypeOK, ReceiverTypeOK, receiverVars,
           Returned, HarnessErrors
  <2>8. finalized' \subseteq proposed' /\ proposed' \subseteq requested'
    BY <1>1, <2>1 DEF SendRequest, FailRequest
  <2> QED
    BY <2>1, <2>4, <2>5, <2>6, <2>7, <2>8
<1>2. CASE ReceiveResponse
  <2>1. requested' = requested /\ proposed' = proposed
    BY <1>2 DEF ReceiveResponse, receiverVars
  <2>2. toHost' \in JustLines' /\ toBoard \in JustLines'
    BY <1>2, <2>1, JustMonotone DEF ReceiveResponse
  <2>3. HasFrame(toBoard["sender"])
    BY <1>2 DEF ReceiveResponse
  <2>4. /\ Head(toBoard["sender"]) \in JustItem
        /\ Tail(toBoard["sender"]) \in Seq(JustItem)
    BY <2>3, NextFrame, SenderLinkAssumption
  <2>5. toBoard' \in JustLines
    <3>1. PICK rest \in LeftOf(Tail(toBoard["sender"])) :
            toBoard' = [toBoard EXCEPT !["sender"] = rest]
      BY <1>2 DEF ReceiveResponse
    <3> QED
      BY <3>1, <2>4, LeftOnLines, SenderLinkAssumption, MarksAreJust DEF JustLines
  <2>6. toBoard' \in JustLines'
    BY <2>1, <2>5 DEF JustLines, JustItem, JustRequest, JustAnswer
  <2>7. finalized' \subseteq proposed'
    <3>1. CASE UNCHANGED finalized
      BY <3>1, <2>1
    <3>2. CASE /\ Head(toBoard["sender"]).command = "InResponse"
               /\ AcceptsResponse(Head(toBoard["sender"]).payload)
               /\ finalized' = finalized \cup {request}
      <4>1. Head(toBoard["sender"]).payload \in JustAnswer
        BY <3>2, <2>4, JustPayloads
      <4>2. Head(toBoard["sender"]).payload.of = request
        BY <3>2 DEF AcceptsResponse, Base64, Proposal
      <4> QED
        BY <3>2, <2>1, <4>1, <4>2 DEF JustAnswer
    <3> QED
      BY <1>2, <3>1, <3>2 DEF ReceiveResponse
  <2>8. SenderTypeOK' /\ ReceiverTypeOK'
    <3>1. sender' \in Returned /\ UNCHANGED <<request, reported, requested>>
      BY <1>2 DEF ReceiveResponse, Returned, HarnessErrors
    <3>2. finalized' \subseteq Requests
      BY <2>1, <2>7 DEF ReceiverTypeOK
    <3> QED
      BY <3>1, <3>2 DEF SenderTypeOK, ReceiverTypeOK, receiverVars
  <2> QED
    BY <1>2, <2>1, <2>2, <2>6, <2>7, <2>8 DEF ReceiveResponse
<1>3. CASE SenderFramingError \/ SenderReadFails
  <2>1. requested' = requested /\ proposed' = proposed /\ finalized' = finalized
    BY <1>3 DEF SenderFramingError, SenderReadFails, receiverVars
  <2>2. toHost' \in JustLines'
    BY <1>3, <2>1, JustMonotone DEF SenderFramingError, SenderReadFails
  <2>3. PICK rest \in LeftOf(toBoard["sender"]) :
          toBoard' = [toBoard EXCEPT !["sender"] = rest]
    BY <1>3 DEF SenderFramingError, SenderReadFails
  <2>4. toBoard' \in JustLines
    BY <2>3, LeftOnLines, SenderLinkAssumption, MarksAreJust DEF JustLines
  <2>5. toBoard' \in JustLines'
    BY <2>1, <2>4 DEF JustLines, JustItem, JustRequest, JustAnswer
  <2>6. faults' \in 0 .. MaxFaults
    BY <1>3, MaxFaultsAssumption DEF SenderFramingError, SenderReadFails, Fault
  <2>7. SenderTypeOK' /\ ReceiverTypeOK'
    BY <1>3, <2>1
       DEF SenderFramingError, SenderReadFails, SenderTypeOK, ReceiverTypeOK,
           receiverVars, Returned, HarnessErrors
  <2> QED
    BY <2>1, <2>2, <2>5, <2>6, <2>7
<1>4. CASE ReportStatus
  <2>1. requested' = requested /\ proposed' = proposed /\ finalized' = finalized
    BY <1>4 DEF ReportStatus, receiverVars
  <2>2. \A c \in {"Ok", "Error"} : [command |-> "Status", payload |-> Code(c)] \in JustItem
    BY DEF JustItem, StatusPayload, Code
  <2>3. toHost' \in JustLines
    BY <1>4, <2>2, AddToLines, SenderLinkAssumption DEF ReportStatus, JustLines
  <2>4. toHost' \in JustLines' /\ toBoard' \in JustLines'
    BY <1>4, <2>1, <2>3 DEF ReportStatus, JustLines, JustItem, JustRequest, JustAnswer
  <2> QED
    BY <1>4, <2>1, <2>4 DEF ReportStatus, SenderTypeOK, ReceiverTypeOK, receiverVars
<1>5. CASE ResetSender
  <2>1. requested' = requested /\ proposed' = proposed /\ finalized' = finalized
    BY <1>5 DEF ResetSender, receiverVars
  <2>2. PICK rest \in LeftOf(toBoard["sender"]) :
          toBoard' = [toBoard EXCEPT !["sender"] = rest]
    BY <1>5 DEF ResetSender
  <2>3. toBoard' \in JustLines
    BY <2>2, LeftOnLines, SenderLinkAssumption, MarksAreJust DEF JustLines
  <2>4. (sender = "start" \/ WillReport) \in BOOLEAN
    BY DEF WillReport
  <2>5. toHost' \in JustLines
    BY <1>5, <2>4, StoppedOntoLines, SenderLinkAssumption, MarksAreJust
       DEF ResetSender, JustLines
  <2>6. toHost' \in JustLines' /\ toBoard' \in JustLines'
    BY <2>1, <2>3, <2>5 DEF JustLines, JustItem, JustRequest, JustAnswer
  <2> QED
    BY <1>5, <2>1, <2>6 DEF ResetSender, SenderTypeOK, ReceiverTypeOK, receiverVars
<1>6. ASSUME NEW r \in Requests, RefuseRequest(r)
      PROVE  BoardsInv' /\ requested \subseteq requested' /\ proposed \subseteq proposed'
  BY <1>6
     DEF RefuseRequest, linkVars, receiverVars, JustLines, JustItem, JustRequest,
         JustAnswer, SenderTypeOK, ReceiverTypeOK, Returned, HarnessErrors
<1> QED
  BY <1>1, <1>2, <1>3, <1>4, <1>5, <1>6 DEF SenderActs

-----------------------------------------------------------------------------
(* run_receiver. *)

ReceiverActs ==
  ReceiveRequest \/ ReceiverFramingError \/ ReceiverReadFails \/ ResetReceiver

LEMMA ReceiverKeepsBoardsInv ==
  ASSUME BoardsInv, ReceiverActs, UNCHANGED senderVars
  PROVE  BoardsInv' /\ requested \subseteq requested' /\ proposed \subseteq proposed'
<1> USE DEF BoardsInv
<1>1. requested' = requested /\ finalized' = finalized /\ SenderTypeOK'
  BY DEF senderVars, SenderTypeOK
<1>2. CASE ReceiveRequest
  <2> DEFINE f == Head(toBoard["receiver"])
             r == f.payload.of
  <2>1. HasFrame(toBoard["receiver"])
    BY <1>2 DEF ReceiveRequest
  <2>2. f \in JustItem /\ Tail(toBoard["receiver"]) \in Seq(JustItem)
    BY <2>1, NextFrame, ReceiverLinkAssumption
  <2>3. toBoard' \in JustLines
    <3>1. PICK rest \in LeftOf(Tail(toBoard["receiver"])) :
            toBoard' = [toBoard EXCEPT !["receiver"] = rest]
      BY <1>2 DEF ReceiveRequest
    <3> QED
      BY <3>1, <2>2, LeftOnLines, ReceiverLinkAssumption, MarksAreJust DEF JustLines
  <2>4. receiver' \in Returned
    BY <1>2 DEF ReceiveRequest, Returned, HarnessErrors
  <2>5. CASE UNCHANGED <<toHost, faults, proposed>>
    <3>1. toHost' \in JustLines' /\ toBoard' \in JustLines'
      BY <1>1, <2>3, <2>5 DEF JustLines, JustItem, JustRequest, JustAnswer
    <3> QED
      BY <1>1, <2>4, <2>5, <3>1 DEF ReceiverTypeOK
  <2>6. CASE /\ f.command = "OriginalPsbt"
             /\ AcceptsRequest(f.payload)
             /\ proposed' = proposed \cup {r}
             /\ \/ /\ toHost' = AddTo(toHost, "receiver", ProposalFrame(r))
                   /\ UNCHANGED faults
                \/ /\ Fault
                   /\ toHost' \in FailedOnto(toHost, "receiver", ProposalFrame(r))
    <3>1. r \in requested
      BY <2>2, <2>6, JustPayloads DEF JustRequest
    <3>2. toHost \in JustLines' /\ toBoard' \in JustLines'
      BY <1>1, <2>3, <2>6, JustMonotone
    <3>3. ProposalFrame(r) \in JustItem'
      BY <2>6 DEF ProposalFrame, Answer, Base64, Proposal, JustItem, JustAnswer
    <3>4. toHost' \in JustLines'
      <4>1. CASE toHost' = AddTo(toHost, "receiver", ProposalFrame(r))
        BY <4>1, <3>2, <3>3, AddToLines, ReceiverLinkAssumption DEF JustLines
      <4>2. CASE toHost' \in FailedOnto(toHost, "receiver", ProposalFrame(r))
        BY <4>2, <3>2, <3>3, FailedOntoLines, ReceiverLinkAssumption DEF JustLines, JustItem
      <4> QED
        BY <2>6, <4>1, <4>2
    <3>5. faults' \in 0 .. MaxFaults
      BY <2>6, MaxFaultsAssumption DEF Fault
    <3> QED
      BY <1>1, <2>4, <2>6, <3>1, <3>2, <3>4, <3>5 DEF ReceiverTypeOK, SenderTypeOK
  <2> QED
    BY <1>2, <2>5, <2>6 DEF ReceiveRequest
<1>3. CASE ReceiverFramingError \/ ReceiverReadFails
  <2>1. proposed' = proposed /\ toHost' = toHost
    BY <1>3 DEF ReceiverFramingError, ReceiverReadFails
  <2>2. PICK rest \in LeftOf(toBoard["receiver"]) :
          toBoard' = [toBoard EXCEPT !["receiver"] = rest]
    BY <1>3 DEF ReceiverFramingError, ReceiverReadFails
  <2>3. toBoard' \in JustLines
    BY <2>2, LeftOnLines, ReceiverLinkAssumption, MarksAreJust DEF JustLines
  <2>4. toHost' \in JustLines' /\ toBoard' \in JustLines'
    BY <1>1, <2>1, <2>3 DEF JustLines, JustItem, JustRequest, JustAnswer
  <2>5. faults' \in 0 .. MaxFaults
    BY <1>3, MaxFaultsAssumption DEF ReceiverFramingError, ReceiverReadFails, Fault
  <2>6. ReceiverTypeOK'
    BY <1>3, <2>1
       DEF ReceiverFramingError, ReceiverReadFails, ReceiverTypeOK, Returned, HarnessErrors
  <2> QED
    BY <1>1, <2>1, <2>4, <2>5, <2>6
<1>4. CASE ResetReceiver
  <2>1. proposed' = proposed /\ faults' = faults
    BY <1>4 DEF ResetReceiver
  <2>2. PICK rest \in LeftOf(toBoard["receiver"]) :
          toBoard' = [toBoard EXCEPT !["receiver"] = rest]
    BY <1>4 DEF ResetReceiver
  <2>3. toBoard' \in JustLines
    BY <2>2, LeftOnLines, ReceiverLinkAssumption, MarksAreJust DEF JustLines
  <2>4. (receiver = "waiting" /\ HasFrame(toBoard["receiver"])) \in BOOLEAN
    OBVIOUS
  <2>5. toHost' \in JustLines
    BY <1>4, <2>4, StoppedOntoLines, ReceiverLinkAssumption, MarksAreJust
       DEF ResetReceiver, JustLines
  <2>6. toHost' \in JustLines' /\ toBoard' \in JustLines'
    BY <1>1, <2>1, <2>3, <2>5 DEF JustLines, JustItem, JustRequest, JustAnswer
  <2> QED
    BY <1>1, <1>4, <2>1, <2>6 DEF ResetReceiver, ReceiverTypeOK
<1> QED
  BY <1>2, <1>3, <1>4 DEF ReceiverActs

-----------------------------------------------------------------------------
(* The lines. *)

LEMMA LinesKeepBoardsInv ==
  ASSUME BoardsInv, NEW b \in Board,
         DamageToHost(b) \/ DamageToBoard(b) \/ LoseToHost(b) \/ LoseToBoard(b),
         UNCHANGED <<senderVars, receiverVars>>
  PROVE  BoardsInv' /\ requested' = requested /\ proposed' = proposed
<1> USE DEF BoardsInv
<1>1. /\ UNCHANGED <<requested, proposed, finalized>>
      /\ SenderTypeOK' /\ ReceiverTypeOK'
  BY DEF senderVars, receiverVars, SenderTypeOK, ReceiverTypeOK
<1>2. faults' \in 0 .. MaxFaults
  BY MaxFaultsAssumption DEF DamageToHost, DamageToBoard, LoseToHost, LoseToBoard, Fault
<1>3. toHost' \in JustLines
  <2>1. CASE DamageToHost(b)
    <3>1. PICK line \in Damaged(toHost[b]) : toHost' = [toHost EXCEPT ![b] = line]
      BY <2>1 DEF DamageToHost
    <3> QED
      BY <3>1, DamagedLines, MarksAreJust DEF JustLines
  <2>2. CASE LoseToHost(b)
    BY <2>2, TakeFromLines DEF LoseToHost, JustLines
  <2> QED
    BY <2>1, <2>2 DEF DamageToBoard, LoseToBoard
<1>4. toBoard' \in JustLines
  <2>1. CASE DamageToBoard(b)
    <3>1. PICK line \in Damaged(toBoard[b]) : toBoard' = [toBoard EXCEPT ![b] = line]
      BY <2>1 DEF DamageToBoard
    <3> QED
      BY <3>1, DamagedLines, MarksAreJust DEF JustLines
  <2>2. CASE LoseToBoard(b)
    BY <2>2, TakeFromLines DEF LoseToBoard, JustLines
  <2> QED
    BY <2>1, <2>2 DEF DamageToHost, LoseToHost
<1>5. toHost' \in JustLines' /\ toBoard' \in JustLines'
  BY <1>1, <1>3, <1>4 DEF JustLines, JustItem, JustRequest, JustAnswer
<1> QED
  BY <1>1, <1>2, <1>5

-----------------------------------------------------------------------------
(* What the boards' steps do to the lines. *)

(* What the sender's board may put on its line. *)
SenderItems ==
  {RequestFrame(r) : r \in Requests}
    \cup [command : {"Status"}, payload : StatusPayload]

LEMMA SenderLines ==
  ASSUME BoardsInv, SenderActs
  PROVE  /\ toHost'["receiver"] = toHost["receiver"]
         /\ toBoard'["receiver"] = toBoard["receiver"]
         /\ Reduced(toBoard["sender"], toBoard'["sender"])
         /\ \E item \in SenderItems : toHost'["sender"] \in Extended(toHost["sender"], item)
<1>1. /\ "sender" \in Board /\ "receiver" \in Board
      /\ toHost \in [Board -> Seq(JustItem)] /\ toBoard \in [Board -> Seq(JustItem)]
  BY SenderLinkAssumption, ReceiverLinkAssumption DEF BoardsInv, JustLines
<1>2. Reduced(toBoard["sender"], toBoard["sender"])
  BY <1>1, OwnItems
<1>3. [command |-> "Status", payload |-> Code("Error")] \in SenderItems
  BY DEF SenderItems, StatusPayload, Code
<1>4. ASSUME NEW r \in Requests, SendRequest(r) \/ RefuseRequest(r) \/ FailRequest(r)
      PROVE  /\ toBoard' = toBoard /\ toHost'["receiver"] = toHost["receiver"]
             /\ toHost'["sender"] \in Extended(toHost["sender"], RequestFrame(r))
  BY <1>1, <1>4
     DEF SendRequest, RefuseRequest, FailRequest, FailedOnto, AddTo, Extended, linkVars
<1>5. ASSUME NEW r \in Requests, SendRequest(r) \/ RefuseRequest(r) \/ FailRequest(r)
      PROVE  /\ toBoard' = toBoard /\ toHost'["receiver"] = toHost["receiver"]
             /\ \E item \in SenderItems :
                  toHost'["sender"] \in Extended(toHost["sender"], item)
  <2>1. RequestFrame(r) \in SenderItems
    BY DEF SenderItems
  <2> QED
    BY <1>4, <1>5, <2>1
<1>6. CASE ReceiveResponse
  <2>1. PICK rest \in LeftOf(Tail(toBoard["sender"])) :
          toBoard' = [toBoard EXCEPT !["sender"] = rest]
    BY <1>6 DEF ReceiveResponse
  <2>2. toHost' = toHost /\ toBoard["sender"] # <<>>
    BY <1>6 DEF ReceiveResponse, HasFrame
  <2>3. Reduced(toBoard["sender"], rest)
    BY <1>1, <2>2, TailIsReduced
  <2> QED
    BY <1>1, <1>3, <2>1, <2>2, <2>3 DEF Extended
<1>7. CASE SenderFramingError \/ SenderReadFails \/ ResetSender
  <2>1. PICK rest \in LeftOf(toBoard["sender"]) :
          toBoard' = [toBoard EXCEPT !["sender"] = rest]
    BY <1>7 DEF SenderFramingError, SenderReadFails, ResetSender
  <2>2. Reduced(toBoard["sender"], rest)
    BY <1>1, LeftIsReduced
  <2>3. /\ toHost'["receiver"] = toHost["receiver"]
        /\ \A item : toHost'["sender"] \in Extended(toHost["sender"], item)
    BY <1>1, <1>7
       DEF SenderFramingError, SenderReadFails, ResetSender, StoppedOnto, AddTo, Extended
  <2> QED
    BY <1>1, <1>3, <2>1, <2>2, <2>3
<1>8. CASE ReportStatus
  <2>1. PICK code \in {"Ok", "Error"} :
          toHost' = AddTo(toHost, "sender", [command |-> "Status", payload |-> Code(code)])
    BY <1>8 DEF ReportStatus
  <2>2. [command |-> "Status", payload |-> Code(code)] \in SenderItems
    BY DEF SenderItems, StatusPayload, Code
  <2>3. toBoard' = toBoard
    BY <1>8 DEF ReportStatus
  <2> QED
    BY <1>1, <1>2, <2>1, <2>2, <2>3 DEF AddTo, Extended
<1> QED
  BY <1>2, <1>5, <1>6, <1>7, <1>8 DEF SenderActs

LEMMA ReceiverLines ==
  ASSUME BoardsInv, ReceiverActs
  PROVE  /\ toHost'["sender"] = toHost["sender"]
         /\ toBoard'["sender"] = toBoard["sender"]
         /\ Reduced(toBoard["receiver"], toBoard'["receiver"])
         /\ \/ toHost'["receiver"] \in {toHost["receiver"], Append(toHost["receiver"], Partial)}
            \/ \E r \in Requests :
                 toHost'["receiver"] \in Extended(toHost["receiver"], ProposalFrame(r))
<1>1. /\ "sender" \in Board /\ "receiver" \in Board
      /\ toHost \in [Board -> Seq(JustItem)] /\ toBoard \in [Board -> Seq(JustItem)]
  BY SenderLinkAssumption, ReceiverLinkAssumption DEF BoardsInv, JustLines
<1>2. CASE ReceiveRequest
  <2> DEFINE f == Head(toBoard["receiver"])
  <2>1. PICK rest \in LeftOf(Tail(toBoard["receiver"])) :
          toBoard' = [toBoard EXCEPT !["receiver"] = rest]
    BY <1>2 DEF ReceiveRequest
  <2>2. HasFrame(toBoard["receiver"]) /\ toBoard["receiver"] # <<>>
    BY <1>2 DEF ReceiveRequest, HasFrame
  <2>3. Reduced(toBoard["receiver"], rest)
    BY <1>1, <2>2, TailIsReduced
  <2>4. f \in JustItem
    BY <1>1, <2>2, HeadTailProperties
  <2>5. \/ toHost' = toHost
        \/ /\ f.command = "OriginalPsbt"
           /\ \/ toHost' = AddTo(toHost, "receiver", ProposalFrame(f.payload.of))
              \/ toHost' \in FailedOnto(toHost, "receiver", ProposalFrame(f.payload.of))
    BY <1>2 DEF ReceiveRequest
  <2>6. f.command = "OriginalPsbt" => f.payload.of \in Requests
    BY <2>4, JustPayloads DEF JustRequest, BoardsInv, SenderTypeOK
  <2> HIDE DEF f
  <2>7. toHost'["sender"] = toHost["sender"]
    BY <1>1, <2>5 DEF AddTo, FailedOnto
  <2>8. \/ toHost'["receiver"] = toHost["receiver"]
        \/ /\ f.command = "OriginalPsbt"
           /\ toHost'["receiver"] \in Extended(toHost["receiver"], ProposalFrame(f.payload.of))
    BY <1>1, <2>5 DEF AddTo, FailedOnto, Extended
  <2> QED
    BY <1>1, <2>1, <2>3, <2>6, <2>7, <2>8
<1>3. CASE ReceiverFramingError \/ ReceiverReadFails \/ ResetReceiver
  <2>1. PICK rest \in LeftOf(toBoard["receiver"]) :
          toBoard' = [toBoard EXCEPT !["receiver"] = rest]
    BY <1>3 DEF ReceiverFramingError, ReceiverReadFails, ResetReceiver
  <2>2. Reduced(toBoard["receiver"], rest)
    BY <1>1, LeftIsReduced
  <2>3. /\ toHost'["sender"] = toHost["sender"]
        /\ toHost'["receiver"] \in {toHost["receiver"], Append(toHost["receiver"], Partial)}
    BY <1>1, <1>3
       DEF ReceiverFramingError, ReceiverReadFails, ResetReceiver, StoppedOnto, AddTo
  <2> QED
    BY <1>1, <2>1, <2>2, <2>3
<1> QED
  BY <1>2, <1>3 DEF ReceiverActs

LEMMA FaultyLines ==
  ASSUME BoardsInv, NEW b \in Board, NEW c \in Board,
         DamageToHost(b) \/ DamageToBoard(b) \/ LoseToHost(b) \/ LoseToBoard(b)
  PROVE  Reduced(toHost[c], toHost'[c]) /\ Reduced(toBoard[c], toBoard'[c])
<1>1. toHost \in [Board -> Seq(JustItem)] /\ toBoard \in [Board -> Seq(JustItem)]
  BY DEF BoardsInv, JustLines
<1>2. Reduced(toHost[c], toHost[c]) /\ Reduced(toBoard[c], toBoard[c])
  BY <1>1, OwnItems
<1>3. CASE DamageToHost(b)
  <2>1. PICK line \in Damaged(toHost[b]) : toHost' = [toHost EXCEPT ![b] = line]
    BY <1>3 DEF DamageToHost
  <2>2. Reduced(toHost[b], line) /\ toBoard' = toBoard
    BY <1>1, <1>3, DamagedIsReduced DEF DamageToHost
  <2> QED
    BY <1>1, <1>2, <2>1, <2>2
<1>4. CASE DamageToBoard(b)
  <2>1. PICK line \in Damaged(toBoard[b]) : toBoard' = [toBoard EXCEPT ![b] = line]
    BY <1>4 DEF DamageToBoard
  <2>2. Reduced(toBoard[b], line) /\ toHost' = toHost
    BY <1>1, <1>4, DamagedIsReduced DEF DamageToBoard
  <2> QED
    BY <1>1, <1>2, <2>1, <2>2
<1>5. CASE LoseToHost(b)
  <2>1. Reduced(toHost[b], Tail(toHost[b])) /\ toBoard' = toBoard
    BY <1>1, <1>5, TailIsReduced DEF LoseToHost
  <2> QED
    BY <1>1, <1>2, <1>5, <2>1 DEF LoseToHost, TakeFrom
<1>6. CASE LoseToBoard(b)
  <2>1. Reduced(toBoard[b], Tail(toBoard[b])) /\ toHost' = toHost
    BY <1>1, <1>6, TailIsReduced DEF LoseToBoard
  <2> QED
    BY <1>1, <1>2, <1>6, <2>1 DEF LoseToBoard, TakeFrom
<1> QED
  BY <1>3, <1>4, <1>5, <1>6

-----------------------------------------------------------------------------
LEMMA BoardsInvInitially ==
  ASSUME LinksInit, SenderInit, ReceiverInit
  PROVE  BoardsInv
<1>1. <<>> \in Seq(JustItem)
  BY EmptySeq
<1>2. toHost \in JustLines /\ toBoard \in JustLines
  BY <1>1 DEF LinksInit, JustLines
<1>3. SenderTypeOK
  BY DEF SenderInit, SenderTypeOK
<1>4. ReceiverTypeOK
  BY DEF ReceiverInit, ReceiverTypeOK
<1>5. finalized \subseteq proposed /\ proposed \subseteq requested
  BY DEF SenderInit, ReceiverInit
<1>6. faults \in 0 .. MaxFaults
  BY MaxFaultsAssumption DEF LinksInit
<1> QED
  BY <1>2, <1>3, <1>4, <1>5, <1>6 DEF BoardsInv
===============================================================================
