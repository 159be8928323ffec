--------------------------- MODULE SimulatorsProofs ---------------------------
(***************************************************************************)
(* Type correctness and causality with a simulator in the place of a       *)
(* board.  The boards' side of the argument is that of BoardsProofs.       *)
(***************************************************************************)
EXTENDS Simulators, BoardsProofs

SimInv ==
  /\ BoardsInv
  /\ tool \in {"sender-sim", "receiver-sim"}
  /\ sim \in {"start", "waiting"} \cup Returned
  /\ restarts \in 0 .. MaxRestarts

LEMMA TestedBoardIsBoard == TestedBoard \in Board
BY SenderLinkAssumption, ReceiverLinkAssumption DEF TestedBoard

-----------------------------------------------------------------------------
(* sender-sim makes requests and accepts answers like run_sender. *)

LEMMA WriteOriginalKeeps ==
  ASSUME SimInv, WriteOriginal, UNCHANGED receiverVars
  PROVE  BoardsInv' /\ sim' \in {"start", "waiting"} \cup Returned
<1> USE DEF SimInv, BoardsInv
<1>1. /\ requested' = requested \cup {Fixture} /\ proposed' = proposed
      /\ finalized' = finalized /\ Fixture \in Requests
  BY FixtureAssumption DEF WriteOriginal, receiverVars
<1>2. toHost \in JustLines' /\ toBoard \in JustLines'
  BY <1>1, JustMonotone
<1>3. OriginalFrame \in JustItem'
  BY <1>1 DEF OriginalFrame, Body, JustItem, JustRequest
<1>4. toBoard' \in JustLines'
  <2>1. CASE toBoard' = AddTo(toBoard, "receiver", OriginalFrame)
    BY <2>1, <1>2, <1>3, AddToLines, ReceiverLinkAssumption DEF JustLines
  <2>2. CASE toBoard' \in FailedOnto(toBoard, "receiver", OriginalFrame)
    BY <2>2, <1>2, <1>3, FailedOntoLines, ReceiverLinkAssumption DEF JustLines, JustItem
  <2> QED
    BY <2>1, <2>2 DEF WriteOriginal
<1>5. faults' \in 0 .. MaxFaults
  BY MaxFaultsAssumption DEF WriteOriginal, Fault
<1>6. toHost' = toHost /\ sim' \in {"waiting", "Transport"}
  BY DEF WriteOriginal
<1>7. SenderTypeOK' /\ ReceiverTypeOK'
  BY <1>1 DEF WriteOriginal, SenderTypeOK, ReceiverTypeOK, receiverVars
<1> QED
  BY <1>1, <1>2, <1>4, <1>5, <1>6, <1>7 DEF Returned, HarnessErrors

LEMMA TakeAnswerKeeps ==
  ASSUME SimInv, TakeAnswer, UNCHANGED receiverVars
  PROVE  BoardsInv' /\ sim' \in {"start", "waiting"} \cup Returned
<1> USE DEF SimInv, BoardsInv
<1> DEFINE f == Head(toHost["receiver"])
<1>1. requested' = requested /\ proposed' = proposed
  BY DEF TakeAnswer, receiverVars
<1>2. f \in JustItem /\ Tail(toHost["receiver"]) \in Seq(JustItem)
  BY NextFrame, ReceiverLinkAssumption DEF TakeAnswer
<1>3. PICK rest \in LeftOf(Tail(toHost["receiver"])) :
        toHost' = [toHost EXCEPT !["receiver"] = rest]
  BY DEF TakeAnswer
<1>4. toHost' \in JustLines
  BY <1>2, <1>3, LeftOnLines, ReceiverLinkAssumption, MarksAreJust DEF JustLines
<1>5. toBoard' = toBoard /\ faults' = faults
  BY DEF TakeAnswer
<1>6. toHost' \in JustLines' /\ toBoard' \in JustLines'
  BY <1>1, <1>4, <1>5 DEF JustLines, JustItem, JustRequest, JustAnswer
<1>7. finalized' \subseteq proposed'
  <2>1. CASE UNCHANGED finalized
    BY <2>1, <1>1
  <2>2. CASE /\ f.command = "SignedPsbt"
             /\ FixtureAccepts(f.payload)
             /\ finalized' = finalized \cup {Fixture}
    <3>1. f.payload \in JustAnswer
      BY <2>2, <1>2, JustPayloads
    <3>2. f.payload.of = Fixture
      BY <2>2 DEF FixtureAccepts, Base64, Proposal
    <3> QED
      BY <2>2, <1>1, <3>1, <3>2 DEF JustAnswer
  <2> QED
    BY <2>1, <2>2 DEF TakeAnswer
<1>8. SenderTypeOK' /\ ReceiverTypeOK'
  BY <1>1, <1>7 DEF TakeAnswer, SenderTypeOK, ReceiverTypeOK, receiverVars
<1>9. sim' \in Returned
  BY DEF TakeAnswer, Returned, HarnessErrors
<1> QED
  BY <1>1, <1>5, <1>6, <1>7, <1>8, <1>9

-----------------------------------------------------------------------------
(* receiver-sim answers requests like run_receiver. *)

LEMMA AnswerRequestKeeps ==
  ASSUME SimInv, AnswerRequest, UNCHANGED senderVars
  PROVE  BoardsInv' /\ sim' \in {"start", "waiting"} \cup Returned
<1> USE DEF SimInv, BoardsInv
<1> DEFINE f == Head(toHost["sender"])
           r == f.payload.of
<1>1. requested' = requested /\ finalized' = finalized /\ SenderTypeOK'
  BY DEF senderVars, SenderTypeOK
<1>2. f \in JustItem /\ Tail(toHost["sender"]) \in Seq(JustItem)
  BY NextFrame, SenderLinkAssumption DEF AnswerRequest
<1>3. PICK rest \in LeftOf(Tail(toHost["sender"])) :
        toHost' = [toHost EXCEPT !["sender"] = rest]
  BY DEF AnswerRequest
<1>4. toHost' \in JustLines
  BY <1>2, <1>3, LeftOnLines, SenderLinkAssumption, MarksAreJust DEF JustLines
<1>5. sim' \in Returned /\ receiver' = receiver
  BY DEF AnswerRequest, Returned, HarnessErrors
<1>6. CASE UNCHANGED <<toBoard, faults, proposed>>
  <2>1. toHost' \in JustLines' /\ toBoard' \in JustLines'
    BY <1>1, <1>4, <1>6 DEF JustLines, JustItem, JustRequest, JustAnswer
  <2> QED
    BY <1>1, <1>5, <1>6, <2>1 DEF ReceiverTypeOK
<1>7. CASE /\ f.command = "OutRequest"
           /\ AcceptsRequest(f.payload)
           /\ proposed' = proposed \cup {r}
           /\ \/ Written(r) /\ UNCHANGED faults
              \/ Fault /\ toBoard' \in FailedOnto(toBoard, "sender", ResponseFrame(r))
  <2>1. r \in requested
    BY <1>2, <1>7, JustPayloads DEF JustRequest
  <2>2. toBoard \in JustLines' /\ toHost' \in JustLines'
    BY <1>1, <1>4, <1>7, JustMonotone
  <2>3. ResponseFrame(r) \in JustItem'
    BY <1>7 DEF ResponseFrame, Answer, Base64, Proposal, JustItem, JustAnswer
  <2>4. toBoard' \in JustLines'
    <3>1. CASE Written(r)
      BY <3>1, <2>2, <2>3, AddToLines, SenderLinkAssumption DEF Written, JustLines
    <3>2. CASE toBoard' \in FailedOnto(toBoard, "sender", ResponseFrame(r))
      BY <3>2, <2>2, <2>3, FailedOntoLines, SenderLinkAssumption DEF JustLines, JustItem
    <3> QED
      BY <1>7, <3>1, <3>2
  <2>5. faults' \in 0 .. MaxFaults
    BY <1>7, MaxFaultsAssumption DEF Fault
  <2> QED
    BY <1>1, <1>5, <1>7, <2>1, <2>2, <2>4, <2>5 DEF ReceiverTypeOK, SenderTypeOK
<1> QED
  BY <1>6, <1>7 DEF AnswerRequest

-----------------------------------------------------------------------------
(* A tool that is started again only drops and tears. *)
LEMMA RerunSimKeeps ==
  ASSUME SimInv, RerunSim
  PROVE  BoardsInv' /\ sim' \in {"start", "waiting"} \cup Returned
<1> USE DEF SimInv, BoardsInv
<1>1. UNCHANGED <<faults, senderVars, receiverVars>>
  BY DEF RerunSim
<1>2. PICK rest \in LeftOf(toHost[TestedBoard]) :
        toHost' = [toHost EXCEPT ![TestedBoard] = rest]
  BY DEF RerunSim
<1>3. toHost' \in JustLines
  BY <1>2, LeftOnLines, TestedBoardIsBoard, MarksAreJust DEF JustLines
<1> DEFINE writing == sim = "start" \/ (tool = "receiver-sim" /\ sim = "waiting"
                                          /\ HasFrame(toHost["sender"]))
<1>4. toBoard' \in StoppedOnto(toBoard, TestedBoard, writing) /\ writing \in BOOLEAN
  BY DEF RerunSim
<1>5. toBoard' \in JustLines
  BY <1>4, StoppedOntoLines, TestedBoardIsBoard, MarksAreJust DEF JustLines
<1>6. toHost' \in JustLines' /\ toBoard' \in JustLines'
  BY <1>1, <1>3, <1>5
     DEF senderVars, receiverVars, JustLines, JustItem, JustRequest, JustAnswer
<1> QED
  BY <1>1, <1>6
     DEF RerunSim, SimStart, senderVars, receiverVars, SenderTypeOK, ReceiverTypeOK

LEMMA BoardsInvStutters ==
  ASSUME BoardsInv, UNCHANGED <<linkVars, senderVars, receiverVars>>
  PROVE  BoardsInv'
BY DEF BoardsInv, linkVars, senderVars, receiverVars, SenderTypeOK, ReceiverTypeOK,
       JustLines, JustItem, JustRequest, JustAnswer

LEMMA SimInvInitially ==
  ASSUME Init
  PROVE  SimInv
<1>1. BoardsInv
  BY BoardsInvInitially DEF Init
<1> QED
  BY <1>1, MaxRestartsAssumption DEF Init, SimInv, SimStart

LEMMA SimInvKept ==
  ASSUME SimInv, [Next]_vars
  PROVE  SimInv'
<1>1. CASE SimStep
  <2>1. CASE WriteOriginal /\ UNCHANGED receiverVars
    BY <1>1, <2>1, WriteOriginalKeeps DEF SimStep, SimInv
  <2>2. CASE TakeAnswer /\ UNCHANGED receiverVars
    BY <1>1, <2>2, TakeAnswerKeeps DEF SimStep, SimInv
  <2>3. CASE AnswerRequest /\ UNCHANGED senderVars
    BY <1>1, <2>3, AnswerRequestKeeps DEF SimStep, SimInv
  <2>4. CASE SimFramingError /\ UNCHANGED <<senderVars, receiverVars>>
    <3>1. BoardsInv'
      BY <2>4, BoardsInvStutters DEF SimFramingError, SimInv
    <3> QED
      BY <1>1, <2>4, <3>1 DEF SimStep, SimFramingError, SimInv, Returned, HarnessErrors
  <2> QED
    BY <1>1, <2>1, <2>2, <2>3, <2>4 DEF SimStep, SimRuns
<1>2. CASE BoardStep
  <2>1. CASE SenderActs /\ UNCHANGED receiverVars
    BY <1>2, <2>1, SenderKeepsBoardsInv DEF BoardStep, simVars, SimInv
  <2>2. CASE ReceiverActs /\ UNCHANGED senderVars
    BY <1>2, <2>2, ReceiverKeepsBoardsInv DEF BoardStep, simVars, SimInv
  <2> QED
    BY <1>2, <2>1, <2>2 DEF BoardStep, BoardRuns, BoardFails, SenderActs, ReceiverActs
<1>3. CASE LineStep
  BY <1>3, LinesKeepBoardsInv DEF LineStep, simVars, SimInv
<1>4. CASE Restart
  <2>1. restarts' \in 0 .. MaxRestarts /\ tool' = tool
    BY <1>4, MaxRestartsAssumption DEF Restart, SimInv
  <2>2. CASE RerunSim
    BY <2>1, <2>2, RerunSimKeeps DEF SimInv
  <2>3. CASE ResetSender /\ UNCHANGED <<receiverVars, sim>>
    BY <2>1, <2>3, SenderKeepsBoardsInv DEF SimInv, SenderActs
  <2>4. CASE ResetReceiver /\ UNCHANGED <<senderVars, sim>>
    BY <2>1, <2>4, ReceiverKeepsBoardsInv DEF SimInv, ReceiverActs
  <2> QED
    BY <1>4, <2>2, <2>3, <2>4 DEF Restart
<1>5. CASE UNCHANGED vars
  BY <1>5, BoardsInvStutters DEF vars, simVars, SimInv
<1> QED
  BY <1>1, <1>2, <1>3, <1>4, <1>5 DEF Next

THEOREM SimInvariance == Spec => []SimInv
BY SimInvInitially, SimInvKept, PTL DEF Spec

(* TypeOK of a simulator and its board.                                     *)
THEOREM SimTypeCorrect == Spec => []TypeOK
<1>1. SimInv => TypeOK
  <2> SUFFICES ASSUME SimInv PROVE TypeOK
    OBVIOUS
  <2>1. requested \subseteq Requests /\ proposed \subseteq Requests
    BY DEF SimInv, BoardsInv, SenderTypeOK, ReceiverTypeOK
  <2>2. LinksTypeOK
    BY <2>1, JustTyped DEF SimInv, BoardsInv, LinksTypeOK
  <2> QED
    BY <2>2 DEF SimInv, BoardsInv, TypeOK
<1> QED
  BY <1>1, SimInvariance, PTL

(* SimCausality: also against a simulator, and whatever an earlier run left *)
(* on the line, a proposal is accepted only for the request it was made to, *)
(* and made only to a request.                                              *)
THEOREM SimCausalityHolds == Spec => []SimCausality
<1>1. SimInv => SimCausality
  BY DEF SimInv, BoardsInv, SimCausality
<1> QED
  BY <1>1, SimInvariance, PTL

-----------------------------------------------------------------------------
(* Commands and lines. *)

(* Which commands travel on which line, whatever happens; and, as long as  *)
(* nothing is restarted, that the sender's board has had no answer while   *)
(* receiver-sim waits for its request, hence nothing to report.            *)
SimCommandsInv ==
  /\ toBoard["receiver"] \in Seq(Only({"OriginalPsbt"}))
  /\ toBoard["sender"] \in Seq(Only({"InResponse"}))
  /\ toHost["receiver"] \in Seq(Only({"SignedPsbt"}))
  /\ toHost["sender"] \in Seq(Only({"OutRequest", "Status"}))
  /\ sender # "UnexpectedCommand" /\ receiver # "UnexpectedCommand"
  /\ restarts = 0 \/ tool = "sender-sim" => sim # "UnexpectedCommand"
  /\ restarts = 0 /\ tool = "receiver-sim" /\ sim = "waiting" =>
       /\ toBoard["sender"] = <<>> /\ sender # "Ok"
       /\ toHost["sender"] \in Seq(Only({"OutRequest"}))

SimLinks == SimInv /\ SimCommandsInv /\ StatusMeansOk

LEMMA OnlyTyped ==
  /\ \A commands : Marks \subseteq Only(commands) /\ Partial \in Only(commands)
  /\ "sender" \in Board /\ "receiver" \in Board
BY SenderLinkAssumption, ReceiverLinkAssumption DEF Only, Marks

(* Both lines of every board, as they are and item by item. *)
LEMMA SimLinesTyped ==
  ASSUME SimInv
  PROVE  /\ toHost \in [Board -> Seq(JustItem)] /\ toBoard \in [Board -> Seq(JustItem)]
         /\ \A b \in Board : Reduced(toHost[b], toHost[b]) /\ Reduced(toBoard[b], toBoard[b])
<1>1. toHost \in [Board -> Seq(JustItem)] /\ toBoard \in [Board -> Seq(JustItem)]
  BY DEF SimInv, BoardsInv, JustLines
<1> QED
  BY <1>1, OwnItems

LEMMA NothingFromNothing ==
  ASSUME NEW new, Reduced(<<>>, new)
  PROVE  new = <<>>
<1>1. new \in Seq(Marks \cup ItemsOf(<<>>)) /\ Len(new) <= 0 /\ Len(new) \in Nat
  BY LenProperties DEF Reduced
<1> QED
  BY <1>1, EmptySeq

LEMMA SenderKeepsSimCommands ==
  ASSUME SimLinks, SenderActs, UNCHANGED receiverVars, tool' = tool,
         sim' = sim, restarts' = restarts \/ restarts' # 0
  PROVE  SimCommandsInv'
<1>1. SenderItems \subseteq Only({"OutRequest", "Status"})
  BY DEF SenderItems, RequestFrame, Body, Only, WireFrame, RequestPayload
<1>2. PICK item \in SenderItems : toHost'["sender"] \in Extended(toHost["sender"], item)
  BY SenderLines DEF SimLinks, SimInv
<1>3. toHost'["sender"] \in Seq(Only({"OutRequest", "Status"}))
  BY <1>1, <1>2, OnlyTyped, ExtendedStays DEF SimLinks, SimCommandsInv
<1>4. /\ toHost'["receiver"] = toHost["receiver"]
      /\ toBoard'["receiver"] = toBoard["receiver"]
      /\ Reduced(toBoard["sender"], toBoard'["sender"])
  BY SenderLines DEF SimLinks, SimInv
<1>5. toBoard'["sender"] \in Seq(Only({"InResponse"}))
  BY <1>4, OnlyTyped, ReducedStays DEF SimLinks, SimCommandsInv
<1>6. ASSUME ReceiveResponse PROVE Head(toBoard["sender"]).command = "InResponse"
  BY <1>6, OnlyTheseFrames DEF ReceiveResponse, SimLinks, SimCommandsInv
<1>7. sender' # "UnexpectedCommand"
  BY <1>6
     DEF SenderActs, SendRequest, RefuseRequest, FailRequest, ReceiveResponse,
         SenderFramingError, SenderReadFails, ReportStatus, ResetSender, SimLinks, SimCommandsInv
<1>8. receiver' = receiver
  BY DEF receiverVars
<1>9. ASSUME restarts' = 0, sim = "waiting", tool = "receiver-sim"
      PROVE  /\ toBoard'["sender"] = <<>> /\ sender' # "Ok"
             /\ toHost'["sender"] \in Seq(Only({"OutRequest"}))
  <2>1. restarts = 0
    BY <1>9
  <2>2. /\ toBoard["sender"] = <<>> /\ sender # "Ok"
        /\ toHost["sender"] \in Seq(Only({"OutRequest"}))
    BY <1>9, <2>1 DEF SimLinks, SimCommandsInv
  <2>3. toBoard'["sender"] = <<>>
    BY <1>4, <2>2, NothingFromNothing
  <2>4. ~ReceiveResponse /\ ~ReportStatus
    BY <2>2 DEF ReceiveResponse, HasFrame, ReportStatus, WillReport, SimLinks, StatusMeansOk,
                FirmwareStatusAssumption
  <2>5. sender' # "Ok"
    BY <2>2, <2>4
       DEF SenderActs, SendRequest, RefuseRequest, FailRequest, SenderFramingError,
           SenderReadFails, ResetSender
  <2>6. CASE \E r \in Requests : SendRequest(r) \/ FailRequest(r)
    <3>1. PICK r \in Requests : toHost' \in FailedOnto(toHost, "sender", RequestFrame(r))
      BY <2>6 DEF SendRequest, FailRequest, FailedOnto
    <3>2. RequestFrame(r) \in Only({"OutRequest"})
      BY DEF RequestFrame, Body, Only, WireFrame, RequestPayload
    <3>3. toHost'["sender"] \in Extended(toHost["sender"], RequestFrame(r))
      BY <3>1, OnlyTyped, SimLinesTyped DEF FailedOnto, AddTo, Extended, SimLinks
    <3> QED
      BY <2>2, <2>3, <2>5, <3>2, <3>3, OnlyTyped, ExtendedStays
  <2>7. CASE ~\E r \in Requests : SendRequest(r) \/ FailRequest(r)
    <3>1. toHost' = toHost \/ toHost' = AddTo(toHost, "sender", Partial)
      BY <2>4, <2>7
         DEF SenderActs, RefuseRequest, SenderFramingError, SenderReadFails, ResetSender,
             StoppedOnto, linkVars
    <3>2. toHost'["sender"] \in {toHost["sender"], Append(toHost["sender"], Partial)}
      BY <3>1, OnlyTyped, SimLinesTyped DEF AddTo, SimLinks
    <3>3. Append(toHost["sender"], Partial) \in Seq(Only({"OutRequest"}))
      BY <2>2, OnlyTyped, AppendProperties
    <3> QED
      BY <2>2, <2>3, <2>5, <3>2, <3>3
  <2> QED
    BY <2>6, <2>7
<1>10. restarts' = 0 \/ tool' = "sender-sim" => sim' # "UnexpectedCommand"
  BY DEF SimLinks, SimCommandsInv
<1> QED
  BY <1>3, <1>4, <1>5, <1>7, <1>8, <1>9, <1>10 DEF SimLinks, SimCommandsInv

LEMMA ReceiverKeepsSimCommands ==
  ASSUME SimLinks, ReceiverActs, UNCHANGED senderVars, tool' = tool, sim' = sim,
         restarts' = restarts \/ restarts' # 0
  PROVE  SimCommandsInv'
<1>1. \A r \in Requests : ProposalFrame(r) \in Only({"SignedPsbt"})
  BY DEF ProposalFrame, Answer, Base64, Proposal, Only, WireFrame, AnswerPayload
<1>2. toHost["receiver"] \in Seq(Only({"SignedPsbt"}))
  BY DEF SimLinks, SimCommandsInv
<1>3. toHost'["receiver"] \in Seq(Only({"SignedPsbt"}))
  <2>1. Append(toHost["receiver"], Partial) \in Seq(Only({"SignedPsbt"}))
    BY <1>2, OnlyTyped, AppendProperties
  <2>2. \/ toHost'["receiver"] \in {toHost["receiver"], Append(toHost["receiver"], Partial)}
        \/ \E r \in Requests :
             toHost'["receiver"] \in Extended(toHost["receiver"], ProposalFrame(r))
    BY ReceiverLines DEF SimLinks, SimInv
  <2> QED
    BY <1>1, <1>2, <2>1, <2>2, OnlyTyped, ExtendedStays
<1>4. /\ toHost'["sender"] = toHost["sender"]
      /\ toBoard'["sender"] = toBoard["sender"]
      /\ Reduced(toBoard["receiver"], toBoard'["receiver"])
  BY ReceiverLines DEF SimLinks, SimInv
<1>5. toBoard'["receiver"] \in Seq(Only({"OriginalPsbt"}))
  BY <1>4, OnlyTyped, ReducedStays DEF SimLinks, SimCommandsInv
<1>6. ASSUME ReceiveRequest PROVE Head(toBoard["receiver"]).command = "OriginalPsbt"
  BY <1>6, OnlyTheseFrames DEF ReceiveRequest, SimLinks, SimCommandsInv
<1>7. receiver' # "UnexpectedCommand"
  BY <1>6 DEF ReceiverActs, ReceiveRequest, ReceiverFramingError, ReceiverReadFails, ResetReceiver
<1>8. sender' = sender
  BY DEF senderVars
<1> QED
  BY <1>3, <1>4, <1>5, <1>7, <1>8 DEF SimLinks, SimCommandsInv

(* What the tool does to the lines. *)
LEMMA SimKeepsCommands ==
  ASSUME SimLinks, SimRuns, UNCHANGED <<tool, restarts>>
  PROVE  SimCommandsInv'
<1>1. CASE WriteOriginal /\ UNCHANGED receiverVars
  <2>1. /\ tool = "sender-sim" /\ sim' \in {"waiting", "Transport"}
        /\ UNCHANGED <<toHost, sender, receiver>>
    BY <1>1 DEF WriteOriginal, receiverVars
  <2>2. toBoard' \in FailedOnto(toBoard, "receiver", OriginalFrame)
    BY <1>1 DEF WriteOriginal, FailedOnto
  <2>3. /\ toBoard'["receiver"] \in Extended(toBoard["receiver"], OriginalFrame)
        /\ toBoard'["sender"] = toBoard["sender"]
    BY <2>2, OnlyTyped, SimLinesTyped DEF FailedOnto, AddTo, Extended, SimLinks
  <2>4. OriginalFrame \in Only({"OriginalPsbt"})
    BY FixtureAssumption DEF OriginalFrame, Body, Only, WireFrame, RequestPayload
  <2>5. toBoard'["receiver"] \in Seq(Only({"OriginalPsbt"}))
    BY <2>3, <2>4, OnlyTyped, ExtendedStays DEF SimLinks, SimCommandsInv
  <2> QED
    BY <2>1, <2>3, <2>5 DEF SimLinks, SimCommandsInv
<1>2. CASE TakeAnswer /\ UNCHANGED receiverVars
  <2>1. /\ tool = "sender-sim" /\ HasFrame(toHost["receiver"])
        /\ UNCHANGED <<toBoard, sender, receiver>>
    BY <1>2 DEF TakeAnswer, receiverVars
  <2>2. PICK rest \in LeftOf(Tail(toHost["receiver"])) :
          toHost' = [toHost EXCEPT !["receiver"] = rest]
    BY <1>2 DEF TakeAnswer
  <2>3. Reduced(toHost["receiver"], rest)
    BY <2>1, OnlyTyped, SimLinesTyped, TailIsReduced DEF SimLinks, HasFrame
  <2>4. rest \in Seq(Only({"SignedPsbt"}))
    BY <2>3, OnlyTyped, ReducedStays DEF SimLinks, SimCommandsInv
  <2>5. toHost'["receiver"] = rest /\ toHost'["sender"] = toHost["sender"]
    BY <2>2, OnlyTyped, SimLinesTyped DEF SimLinks
  <2>6. Head(toHost["receiver"]).command = "SignedPsbt"
    BY <2>1, OnlyTheseFrames DEF SimLinks, SimCommandsInv
  <2>7. sim' \in {"Payjoin", "Ok"}
    BY <1>2, <2>6 DEF TakeAnswer
  <2> QED
    BY <2>1, <2>4, <2>5, <2>7 DEF SimLinks, SimCommandsInv
<1>3. CASE AnswerRequest /\ UNCHANGED senderVars
  <2> DEFINE f == Head(toHost["sender"])
  <2>1. /\ tool = "receiver-sim" /\ sim = "waiting" /\ HasFrame(toHost["sender"])
        /\ sim' \in Returned /\ UNCHANGED <<sender, receiver>>
    BY <1>3 DEF AnswerRequest, senderVars, Returned, HarnessErrors
  <2>2. PICK rest \in LeftOf(Tail(toHost["sender"])) :
          toHost' = [toHost EXCEPT !["sender"] = rest]
    BY <1>3 DEF AnswerRequest
  <2>3. Reduced(toHost["sender"], rest)
    BY <2>1, OnlyTyped, SimLinesTyped, TailIsReduced DEF SimLinks, HasFrame
  <2>4. rest \in Seq(Only({"OutRequest", "Status"}))
    BY <2>3, OnlyTyped, ReducedStays DEF SimLinks, SimCommandsInv
  <2>5. toHost'["sender"] = rest /\ toHost'["receiver"] = toHost["receiver"]
    BY <2>2, OnlyTyped, SimLinesTyped DEF SimLinks
  <2>6. ASSUME restarts = 0 PROVE sim' # "UnexpectedCommand"
    <3>1. f.command = "OutRequest"
      BY <2>1, <2>6, OnlyTheseFrames DEF SimLinks, SimCommandsInv
    <3> QED
      BY <1>3, <3>1 DEF AnswerRequest
  <2>7. \/ toBoard' = toBoard
        \/ /\ f.command = "OutRequest"
           /\ toBoard' \in FailedOnto(toBoard, "sender", ResponseFrame(f.payload.of))
    BY <1>3 DEF AnswerRequest, Written, FailedOnto
  <2>8. f.command = "OutRequest" => ResponseFrame(f.payload.of) \in Only({"InResponse"})
    <3>1. f \in JustItem
      BY <2>1, OnlyTyped, NextFrame DEF SimLinks, SimInv, BoardsInv
    <3>2. f.command = "OutRequest" => f.payload.of \in Requests
      BY <3>1, JustPayloads DEF JustRequest, SimLinks, SimInv, BoardsInv, SenderTypeOK
    <3> QED
      BY <3>2 DEF ResponseFrame, Answer, Base64, Proposal, Only, WireFrame, AnswerPayload
  <2> HIDE DEF f
  <2>9. /\ toBoard'["receiver"] = toBoard["receiver"]
        /\ \/ toBoard'["sender"] = toBoard["sender"]
           \/ /\ f.command = "OutRequest"
              /\ toBoard'["sender"] \in Extended(toBoard["sender"], ResponseFrame(f.payload.of))
    BY <2>7, OnlyTyped, SimLinesTyped DEF FailedOnto, AddTo, Extended, SimLinks
  <2>10. toBoard'["sender"] \in Seq(Only({"InResponse"}))
    BY <2>8, <2>9, OnlyTyped, ExtendedStays DEF SimLinks, SimCommandsInv
  <2> QED
    BY <2>1, <2>4, <2>5, <2>6, <2>9, <2>10 DEF SimLinks, SimCommandsInv, Returned, HarnessErrors
<1>4. CASE SimFramingError /\ UNCHANGED <<senderVars, receiverVars>>
  BY <1>4 DEF SimFramingError, linkVars, senderVars, receiverVars, SimLinks, SimCommandsInv
<1> QED
  BY <1>1, <1>2, <1>3, <1>4 DEF SimRuns

(* Steps that only drop, damage or tear. *)
LEMMA LossesKeepSimCommands ==
  ASSUME SimLinks, UNCHANGED <<tool, senderVars, receiverVars>>,
         \A b \in Board : Reduced(toHost[b], toHost'[b]),
         \A b \in Board :
           \/ Reduced(toBoard[b], toBoard'[b])
           \/ restarts' # 0 /\ toBoard'[b] = Append(toBoard[b], Partial),
         \/ sim' = sim /\ restarts' = restarts
         \/ restarts' # 0 /\ sim' \in {"start", "waiting"}
  PROVE  SimCommandsInv'
<1>1. UNCHANGED <<sender, receiver>>
  BY DEF senderVars, receiverVars
<1>2. ASSUME NEW commands, NEW b \in Board, toBoard[b] \in Seq(Only(commands))
      PROVE  toBoard'[b] \in Seq(Only(commands))
  <2>1. Append(toBoard[b], Partial) \in Seq(Only(commands))
    BY <1>2, OnlyTyped, AppendProperties
  <2> QED
    BY <1>2, <2>1, OnlyTyped, ReducedStays
<1>3. ASSUME NEW commands, NEW b \in Board, toHost[b] \in Seq(Only(commands))
      PROVE  toHost'[b] \in Seq(Only(commands))
  BY <1>3, OnlyTyped, ReducedStays
<1>4. restarts' = 0 /\ toBoard["sender"] = <<>> => toBoard'["sender"] = <<>>
  BY OnlyTyped, NothingFromNothing
<1>5. /\ toBoard'["receiver"] \in Seq(Only({"OriginalPsbt"}))
      /\ toBoard'["sender"] \in Seq(Only({"InResponse"}))
      /\ toHost'["receiver"] \in Seq(Only({"SignedPsbt"}))
      /\ toHost'["sender"] \in Seq(Only({"OutRequest", "Status"}))
  BY <1>2, <1>3, OnlyTyped DEF SimLinks, SimCommandsInv
<1>6. toHost["sender"] \in Seq(Only({"OutRequest"})) => toHost'["sender"] \in Seq(Only({"OutRequest"}))
  BY <1>3, OnlyTyped
<1> QED
  BY <1>1, <1>4, <1>5, <1>6 DEF SimLinks, SimCommandsInv

LEMMA SimCommandsKept ==
  ASSUME SimLinks, [Next]_vars
  PROVE  SimCommandsInv'
<1>1. CASE SimStep
  BY <1>1, SimKeepsCommands DEF SimStep
<1>2. CASE BoardStep
  <2>1. UNCHANGED <<tool, sim, restarts>>
    BY <1>2 DEF BoardStep, simVars
  <2>2. CASE tool = "receiver-sim"
    <3>1. SenderActs /\ UNCHANGED receiverVars
      BY <1>2, <2>2 DEF BoardStep, BoardRuns, BoardFails, SenderActs
    <3> QED
      BY <2>1, <3>1, SenderKeepsSimCommands
  <2>3. CASE tool = "sender-sim"
    <3>1. ReceiverActs /\ UNCHANGED senderVars
      BY <1>2, <2>3 DEF BoardStep, BoardRuns, BoardFails, ReceiverActs
    <3> QED
      BY <2>1, <3>1, ReceiverKeepsSimCommands
  <2> QED
    BY <2>2, <2>3 DEF SimLinks, SimInv
<1>3. CASE LineStep
  <2>1. /\ \A b \in Board : Reduced(toHost[b], toHost'[b]) /\ Reduced(toBoard[b], toBoard'[b])
        /\ UNCHANGED <<senderVars, receiverVars, simVars>>
    BY <1>3, FaultyLines DEF LineStep, SimLinks, SimInv
  <2> QED
    BY <2>1, LossesKeepSimCommands DEF simVars
<1>4. CASE Restart
  <2>1. restarts' # 0 /\ tool' = tool
    BY <1>4, MaxRestartsAssumption DEF Restart, SimLinks, SimInv
  <2>2. CASE RerunSim
    <3>1. PICK rest \in LeftOf(toHost[TestedBoard]) :
            toHost' = [toHost EXCEPT ![TestedBoard] = rest]
      BY <2>2 DEF RerunSim
    <3>2. Reduced(toHost[TestedBoard], rest)
      BY TestedBoardIsBoard, SimLinesTyped, LeftIsReduced DEF SimLinks
    <3>3. \A b \in Board : Reduced(toHost[b], toHost'[b])
      BY <3>1, <3>2, SimLinesTyped DEF SimLinks
    <3>4. toBoard' = toBoard \/ toBoard' = AddTo(toBoard, TestedBoard, Partial)
      BY <2>2 DEF RerunSim, StoppedOnto
    <3>5. \A b \in Board : \/ Reduced(toBoard[b], toBoard'[b])
                           \/ toBoard'[b] = Append(toBoard[b], Partial)
      BY <3>4, TestedBoardIsBoard, SimLinesTyped DEF SimLinks, AddTo
    <3>6. sim' \in {"start", "waiting"} /\ UNCHANGED <<senderVars, receiverVars>>
      BY <2>2 DEF RerunSim, SimStart
    <3> QED
      BY <2>1, <3>3, <3>5, <3>6, LossesKeepSimCommands
  <2>3. CASE ResetSender /\ UNCHANGED <<receiverVars, sim>>
    BY <2>1, <2>3, SenderKeepsSimCommands DEF SenderActs
  <2>4. CASE ResetReceiver /\ UNCHANGED <<senderVars, sim>>
    BY <2>1, <2>4, ReceiverKeepsSimCommands DEF ReceiverActs
  <2> QED
    BY <1>4, <2>2, <2>3, <2>4 DEF Restart
<1>5. CASE UNCHANGED vars
  <2>1. UNCHANGED <<tool, sim, restarts, senderVars, receiverVars, toHost, toBoard>>
    BY <1>5 DEF vars, simVars, linkVars
  <2> QED
    BY <2>1, SimLinesTyped, LossesKeepSimCommands DEF SimLinks
<1> QED
  BY <1>1, <1>2, <1>3, <1>4, <1>5 DEF Next

LEMMA SimCommandsInitially ==
  ASSUME Init
  PROVE  SimCommandsInv
<1>1. toHost["receiver"] = <<>> /\ toHost["sender"] = <<>>
      /\ toBoard["receiver"] = <<>> /\ toBoard["sender"] = <<>>
  BY OnlyTyped DEF Init, LinksInit
<1>2. \A commands : <<>> \in Seq(Only(commands))
  BY EmptySeq
<1> QED
  BY <1>1, <1>2 DEF Init, SenderInit, ReceiverInit, SimStart, SimCommandsInv

(* SimSpeaksBoardsCommands: with a firmware that reports nothing but       *)
(* success, no loss and no restart makes a board or sender-sim refuse a    *)
(* command, and receiver-sim refuses one only after a restart.             *)
THEOREM SimsKeepToCommands ==
  ASSUME StatusMeansOk
  PROVE  Spec => []SimSpeaksBoardsCommands
<1>1. Init => SimCommandsInv
  BY SimCommandsInitially
<1>2. SimInv /\ SimCommandsInv /\ [Next]_vars => SimCommandsInv'
  BY SimCommandsKept DEF SimLinks
<1>3. SimCommandsInv => SimSpeaksBoardsCommands
  BY DEF SimCommandsInv, SimSpeaksBoardsCommands
<1> QED
  BY <1>1, <1>2, <1>3, SimInvariance, PTL DEF Spec
=============================================================================
