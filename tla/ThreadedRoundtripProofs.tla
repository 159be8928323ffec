------------------------ MODULE ThreadedRoundtripProofs ------------------------
(***************************************************************************)
(* The two roles in two threads, for every set of requests and whatever    *)
(* the roles have against them.                                            *)
(***************************************************************************)
EXTENDS ThreadedRoundtrip, BoardsProofs

(* Where the two roles can be at the same time, and what their queues then *)
(* hold.                                                                   *)
Queues(toReceiver, toSender) ==
  toBoard["receiver"] = toReceiver /\ toBoard["sender"] = toSender

AtStart ==
  /\ sender = "start" /\ receiver = "waiting" /\ Queues(<<>>, <<>>)
  /\ requested = {} /\ proposed = {} /\ finalized = {}
  /\ main = "joinReceiver"

NotSent ==
  /\ sender = "Payjoin" /\ receiver \in {"waiting", "Transport"} /\ Queues(<<>>, <<>>)
  /\ request \in Unbuildable \cup LongRequests
  /\ requested = {} /\ proposed = {} /\ finalized = {}

Asked ==
  /\ sender = "waiting" /\ receiver = "waiting"
  /\ Queues(<<Translated(RequestFrame(request))>>, <<>>)
  /\ requested = {request} /\ proposed = {} /\ finalized = {}

Refused ==
  /\ sender \in {"waiting", "Transport"} /\ receiver = "Payjoin" /\ Queues(<<>>, <<>>)
  /\ request \in Rejected \cup LongProposals
  /\ requested = {request} /\ proposed = {} /\ finalized = {}

Answered ==
  /\ sender = "waiting" /\ receiver = "Ok"
  /\ Queues(<<>>, <<Translated(ProposalFrame(request))>>)
  /\ requested = {request} /\ proposed = {request} /\ finalized = {}

NotAccepted ==
  /\ sender = "Payjoin" /\ receiver = "Ok" /\ Queues(<<>>, <<>>)
  /\ request \in Distrusted
  /\ requested = {request} /\ proposed = {request} /\ finalized = {}

Done ==
  /\ sender = "Ok" /\ receiver = "Ok" /\ Queues(<<>>, <<>>)
  /\ requested = {request} /\ proposed = {request} /\ finalized = {request}

Together == AtStart \/ NotSent \/ Asked \/ Refused \/ Answered \/ NotAccepted \/ Done

(* What the test has seen when it is where it is. *)
MainInv ==
  /\ main \in {"joinReceiver", "joinSender", "passed", "failed"}
  /\ main = "joinSender" => receiver = "Ok"
  /\ main = "passed" => Done
  /\ main = "failed" => NotSent \/ Refused \/ NotAccepted

Typed ==
  /\ LinksTypeOK
  /\ SenderTypeOK
  /\ request # None \/ sender = "start"

IInv == Typed /\ Together /\ MainInv

-----------------------------------------------------------------------------
LEMMA Boards == "sender" \in Board /\ "receiver" \in Board
BY SenderLinkAssumption, ReceiverLinkAssumption

(* What the commands become on their way. *)
LEMMA TranslatedFrames ==
  ASSUME NEW r \in Requests
  PROVE  /\ Translated(RequestFrame(r)) = [command |-> "OriginalPsbt", payload |-> Body(r)]
         /\ Translated(RequestFrame(r)) \in WireFrame
         /\ Translated(ProposalFrame(r)) = [command |-> "InResponse",
                                            payload |-> Base64(Proposal(r))]
         /\ Translated(ProposalFrame(r)) \in WireFrame
<1>1. /\ Translated(RequestFrame(r)) = [command |-> "OriginalPsbt", payload |-> Body(r)]
      /\ Translated(ProposalFrame(r)) = [command |-> "InResponse",
                                         payload |-> Base64(Proposal(r))]
  BY DEF Translated, RequestFrame, ProposalFrame, Answer
<1> QED
  BY <1>1 DEF WireFrame, RequestPayload, AnswerPayload, Body, Base64, Proposal

(* A queue of one frame. *)
LEMMA OneItem ==
  ASSUME NEW S, NEW item \in S
  PROVE  /\ <<item>> # <<>> /\ Head(<<item>>) = item /\ Tail(<<item>>) = <<>>
         /\ LeftOf(<<>>) = {<<>>}
<1>1. <<item>> # <<>> /\ Head(<<item>>) = item /\ Tail(<<item>>) = <<>>
  OBVIOUS
<1>2. \A rest \in LeftOf(<<>>) : rest = <<>>
  <2>1. <<>> \in Seq(Marks) /\ Marks \subseteq Marks
    BY EmptySeq
  <2>2. \A rest \in LeftOf(<<>>) : Reduced(<<>>, rest)
    BY <2>1, LeftIsReduced
  <2> TAKE rest \in LeftOf(<<>>)
  <2>3. rest \in Seq(Marks) /\ Len(rest) <= Len(<<>>) /\ Len(<<>>) = 0
    BY <2>1, <2>2, ReducedStays, EmptySeq DEF Reduced
  <2> QED
    BY <2>3, EmptySeq
<1>3. <<>> \in LeftOf(<<>>)
  <2>1. Len(<<>>) = 0 /\ SubSeq(<<>>, 1, 0) = <<>>
    BY EmptySeq, SubSeqEmpty
  <2> QED
    BY <2>1 DEF LeftOf
<1> QED
  BY <1>1, <1>2, <1>3

LEMMA Initially == Init => IInv
<1> SUFFICES ASSUME Init PROVE IInv
  OBVIOUS
<1>1. toHost \in [Board -> Seq(Item)] /\ toBoard \in [Board -> Seq(Item)]
  BY EmptySeq DEF Init, LinksInit
<1>2. Queues(<<>>, <<>>)
  BY Boards DEF Init, LinksInit, Queues
<1>3. Typed
  <2>1. LinksTypeOK
    BY <1>1, MaxFaultsAssumption DEF Init, LinksInit, LinksTypeOK
  <2>2. SenderTypeOK
    BY DEF Init, SenderInit, SenderTypeOK
  <2> QED
    BY <2>1, <2>2 DEF Init, SenderInit, Typed
<1>4. AtStart
  BY <1>2 DEF Init, SenderInit, ReceiverInit, AtStart
<1> QED
  BY <1>3, <1>4 DEF Init, IInv, Together, MainInv

-----------------------------------------------------------------------------
LEMMA SenderThreadKeepsIInv ==
  ASSUME IInv, SenderThread
  PROVE  IInv'
<1> USE Boards
<1>1. UNCHANGED <<receiver, proposed, main>>
  BY DEF SenderThread, receiverVars
<1>2. ASSUME NEW r \in Requests, ThreadSends(r)
      PROVE  IInv'
  <2>1. AtStart
    BY <1>2 DEF ThreadSends, IInv, Together, NotSent, Asked, Refused, Answered, NotAccepted, Done
  <2>2. /\ sender' = "waiting" /\ request' = r /\ requested' = {r}
        /\ toBoard' = AddTo(toBoard, "receiver", Translated(RequestFrame(r)))
        /\ UNCHANGED <<toHost, faults, reported, finalized>>
    BY <1>2, <2>1 DEF ThreadSends, AtStart, Returned, HarnessErrors
  <2>3. Translated(RequestFrame(r)) \in Item
    BY TranslatedFrames DEF Item
  <2>4. Typed'
    <3>1. toBoard' \in [Board -> Seq(Item)]
      BY <2>2, <2>3, AddToLines DEF IInv, Typed, LinksTypeOK
    <3> QED
      BY <2>2, <3>1, NoneAssumption DEF IInv, Typed, LinksTypeOK, SenderTypeOK
  <2>5. Asked'
    <3>1. /\ toBoard'["receiver"] = Append(<<>>, Translated(RequestFrame(r)))
          /\ toBoard'["sender"] = <<>>
      BY <2>1, <2>2 DEF AddTo, AtStart, Queues, IInv, Typed, LinksTypeOK
    <3>2. Append(<<>>, Translated(RequestFrame(r))) = <<Translated(RequestFrame(r))>>
      OBVIOUS
    <3>3. Queues(<<Translated(RequestFrame(request))>>, <<>>)'
      BY <2>2, <3>1, <3>2 DEF Queues, Translated, RequestFrame
    <3> QED
      BY <1>1, <2>1, <2>2, <3>3 DEF Asked, AtStart
  <2> QED
    BY <1>1, <2>1, <2>4, <2>5 DEF IInv, Together, MainInv, AtStart
<1>3. ASSUME NEW r \in Requests, RefuseRequest(r)
      PROVE  IInv'
  <2>1. AtStart
    BY <1>3 DEF RefuseRequest, IInv, Together, NotSent, Asked, Refused, Answered, NotAccepted, Done
  <2>2. NotSent'
    BY <1>1, <1>3, <2>1 DEF RefuseRequest, AtStart, NotSent, Queues, linkVars
  <2>3. Typed'
    BY <1>3, NoneAssumption
       DEF RefuseRequest, IInv, Typed, LinksTypeOK, SenderTypeOK, linkVars, Returned,
           HarnessErrors
  <2> QED
    BY <1>1, <2>1, <2>2, <2>3 DEF IInv, Together, MainInv, AtStart
<1>4. CASE ReceiveResponse
  <2>1. sender = "waiting" /\ toBoard["sender"] # <<>>
    BY <1>4 DEF ReceiveResponse, HasFrame
  <2>2. Answered
    BY <2>1 DEF IInv, Together, AtStart, NotSent, Asked, Refused, NotAccepted, Done, Queues
  <2>3. request \in Requests
    BY <2>1 DEF IInv, Typed, SenderTypeOK
  <2> DEFINE f == Translated(ProposalFrame(request))
  <2>4. toBoard["sender"] = <<f>> /\ toBoard["receiver"] = <<>>
    BY <2>2 DEF Answered, Queues
  <2>5. /\ f.command = "InResponse" /\ f.payload = Base64(Proposal(request))
        /\ f \in WireFrame
    BY <2>3, TranslatedFrames
  <2> HIDE DEF f
  <2>6. Head(toBoard["sender"]) = f /\ LeftOf(Tail(toBoard["sender"])) = {<<>>}
    BY <2>4, <2>5, OneItem
  <2>7. toBoard' = [toBoard EXCEPT !["sender"] = <<>>]
    BY <1>4, <2>6 DEF ReceiveResponse
  <2>8. /\ Queues(<<>>, <<>>)'
        /\ toBoard' \in [Board -> Seq(Item)]
    <3>1. <<>> \in Seq(Item)
      BY EmptySeq
    <3> QED
      BY <2>4, <2>7, <3>1 DEF Queues, IInv, Typed, LinksTypeOK
  <2>9. \/ sender' = "Payjoin" /\ request \in Distrusted /\ finalized' = finalized
        \/ sender' = "Ok" /\ finalized' = finalized \cup {request}
    BY <1>4, <2>5, <2>6 DEF ReceiveResponse, AcceptsResponse
  <2>10. UNCHANGED <<toHost, faults, request, reported, requested>>
    BY <1>4 DEF ReceiveResponse
  <2>11. Typed'
    BY <2>3, <2>8, <2>9, <2>10, NoneAssumption
       DEF IInv, Typed, LinksTypeOK, SenderTypeOK, Returned, HarnessErrors
  <2>12. NotAccepted' \/ Done'
    BY <1>1, <2>2, <2>8, <2>9, <2>10 DEF Answered, NotAccepted, Done
  <2>13. main \in {"joinReceiver", "joinSender"}
    BY <2>2 DEF IInv, MainInv, Answered, Done, NotSent, Refused, NotAccepted
  <2> QED
    BY <1>1, <2>2, <2>11, <2>12, <2>13 DEF IInv, Together, MainInv, Answered
<1>5. CASE SenderHungUp
  <2>1. sender = "waiting" /\ receiver \in Returned /\ toBoard["sender"] = <<>>
    BY <1>5 DEF SenderHungUp, HungUp, Unread
  <2>2. Refused
    BY <2>1 DEF IInv, Together, AtStart, NotSent, Asked, Answered, NotAccepted, Done, Queues,
                Returned, HarnessErrors
  <2>3. /\ sender' = "Transport"
        /\ UNCHANGED <<toHost, toBoard, faults, request, reported, requested, finalized>>
    BY <1>5 DEF SenderHungUp, linkVars
  <2>4. Refused'
    BY <1>1, <2>2, <2>3 DEF Refused, Queues
  <2>5. Typed'
    BY <2>1, <2>3 DEF IInv, Typed, LinksTypeOK, SenderTypeOK, Returned, HarnessErrors
  <2>6. main \in {"joinReceiver", "failed"}
    BY <2>2 DEF IInv, MainInv, Refused, Done
  <2> QED
    BY <1>1, <2>4, <2>5, <2>6 DEF IInv, Together, MainInv
<1> QED
  BY <1>2, <1>3, <1>4, <1>5 DEF SenderThread

LEMMA ReceiverThreadKeepsIInv ==
  ASSUME IInv, ReceiverThread
  PROVE  IInv'
<1> USE Boards
<1>1. /\ UNCHANGED <<sender, request, reported, requested, finalized, main>>
      /\ UNCHANGED <<toHost, faults>>
  BY DEF ReceiverThread, senderVars, linkVars, ThreadAnswers, ReceiverHungUp
<1>2. CASE ThreadAnswers
  <2>1. receiver = "waiting" /\ toBoard["receiver"] # <<>>
    BY <1>2 DEF ThreadAnswers, Unread
  <2>2. Asked
    BY <2>1 DEF IInv, Together, AtStart, NotSent, Refused, Answered, NotAccepted, Done, Queues
  <2>3. request \in Requests /\ sender = "waiting" /\ main = "joinReceiver"
    BY <2>2 DEF Asked, Done, NotSent, Refused, NotAccepted, IInv, Typed, SenderTypeOK, MainInv
  <2> DEFINE f == Translated(RequestFrame(request))
             answer == Translated(ProposalFrame(request))
  <2>4. toBoard["receiver"] = <<f>> /\ toBoard["sender"] = <<>>
    BY <2>2 DEF Asked, Queues
  <2>5. /\ f = [command |-> "OriginalPsbt", payload |-> Body(request)]
        /\ f \in WireFrame /\ answer \in WireFrame
    BY <2>3, TranslatedFrames
  <2> HIDE DEF f, answer
  <2>6. Head(toBoard["receiver"]) = f /\ Tail(toBoard["receiver"]) = <<>>
    BY <2>4, <2>5, OneItem
  <2>7. TakeFrom(toBoard, "receiver") = [toBoard EXCEPT !["receiver"] = <<>>]
    BY <2>6 DEF TakeFrom
  <2>8. f.payload.of = request /\ f.payload.is = "request" /\ f.command = "OriginalPsbt"
    BY <2>5 DEF Body
  <2>9. \/ /\ request \in Rejected \cup LongProposals
           /\ Outcome(f) = "Payjoin"
        \/ Outcome(f) = "Ok"
    BY <2>3, <2>8 DEF Outcome, AcceptsRequest, Returned, HarnessErrors
  <2>10. /\ receiver' = Outcome(f)
         /\ toBoard' = IF receiver' = "Ok"
                         THEN AddTo([toBoard EXCEPT !["receiver"] = <<>>], "sender", answer)
                         ELSE [toBoard EXCEPT !["receiver"] = <<>>]
         /\ proposed' = IF receiver' \in {"Ok", "Transport"}
                          THEN proposed \cup {request} ELSE proposed
    BY <1>2, <2>6, <2>7, <2>8 DEF ThreadAnswers, answer
  <2>11. toBoard \in [Board -> Seq(Item)] /\ <<>> \in Seq(Item)
    BY EmptySeq DEF IInv, Typed, LinksTypeOK
  <2>12. Append(<<>>, answer) = <<answer>> /\ <<answer>> \in Seq(Item)
    BY <2>5 DEF Item
  <2>13. answer = Translated(ProposalFrame(request))'
    BY <1>1 DEF answer, Translated, ProposalFrame, Answer
  <2>14. CASE Outcome(f) = "Ok"
    <3>1. /\ toBoard'["receiver"] = <<>> /\ toBoard'["sender"] = <<answer>>
          /\ toBoard' \in [Board -> Seq(Item)]
      BY <2>4, <2>10, <2>11, <2>12, <2>14 DEF AddTo
    <3>2. Answered'
      BY <1>1, <2>2, <2>10, <2>13, <2>14, <3>1 DEF Answered, Asked, Queues
    <3> QED
      BY <1>1, <2>3, <3>1, <3>2
         DEF IInv, Typed, LinksTypeOK, SenderTypeOK, Together, MainInv
  <2>15. CASE Outcome(f) = "Payjoin" /\ request \in Rejected \cup LongProposals
    <3>1. /\ toBoard'["receiver"] = <<>> /\ toBoard'["sender"] = <<>>
          /\ toBoard' \in [Board -> Seq(Item)]
      BY <2>4, <2>10, <2>11, <2>15
    <3>2. Refused'
      BY <1>1, <2>2, <2>10, <2>15, <3>1 DEF Refused, Asked, Queues
    <3> QED
      BY <1>1, <2>3, <3>1, <3>2
         DEF IInv, Typed, LinksTypeOK, SenderTypeOK, Together, MainInv
  <2> QED
    BY <2>9, <2>14, <2>15
<1>3. CASE ReceiverHungUp
  <2>1. receiver = "waiting" /\ sender \in Returned /\ toBoard["receiver"] = <<>>
    BY <1>3 DEF ReceiverHungUp, HungUp, Unread
  <2>2. NotSent
    BY <2>1 DEF IInv, Together, AtStart, Asked, Refused, Answered, NotAccepted, Done, Returned,
                HarnessErrors
  <2>3. receiver' = "Transport" /\ UNCHANGED <<toBoard, proposed>>
    BY <1>3 DEF ReceiverHungUp, linkVars
  <2>4. NotSent'
    BY <1>1, <2>2, <2>3 DEF NotSent, Queues
  <2>5. main \in {"joinReceiver", "failed"}
    BY <2>2 DEF IInv, MainInv, NotSent, Done
  <2> QED
    BY <1>1, <2>3, <2>4, <2>5
       DEF IInv, Typed, LinksTypeOK, SenderTypeOK, Together, MainInv
<1> QED
  BY <1>2, <1>3 DEF ReceiverThread

LEMMA MainKeepsIInv ==
  ASSUME IInv, Main
  PROVE  IInv'
<1>1. /\ UNCHANGED <<toHost, toBoard, faults>>
      /\ UNCHANGED <<sender, request, reported, requested, finalized, receiver, proposed>>
  BY DEF Main, linkVars, senderVars, receiverVars
<1>2. Typed'
  BY <1>1 DEF IInv, Typed, LinksTypeOK, SenderTypeOK
<1>3. sender # "start"
  BY DEF Main, JoinReceiver, JoinSender, IInv, Together, MainInv, AtStart, NotSent, Asked,
         Refused, Answered, NotAccepted, Done, Returned, HarnessErrors
<1>4. /\ NotSent => NotSent'
      /\ Asked => Asked'
      /\ Refused => Refused'
      /\ Answered => Answered'
      /\ NotAccepted => NotAccepted'
      /\ Done => Done'
  <2>1. Translated(RequestFrame(request))' = Translated(RequestFrame(request))
    BY <1>1 DEF Translated, RequestFrame
  <2>2. Translated(ProposalFrame(request))' = Translated(ProposalFrame(request))
    BY <1>1 DEF Translated, ProposalFrame, Answer
  <2> QED
    BY <1>1, <2>1, <2>2
       DEF NotSent, Asked, Refused, Answered, NotAccepted, Done, Queues
<1>5. NotSent \/ Asked \/ Refused \/ Answered \/ NotAccepted \/ Done
  BY <1>3 DEF IInv, Together, AtStart
<1>6. MainInv'
  <2>1. CASE JoinReceiver
    <3>1. CASE receiver = "Ok"
      BY <1>1, <2>1, <3>1 DEF JoinReceiver, MainInv
    <3>2. CASE receiver # "Ok"
      <4>1. NotSent \/ Refused
        BY <1>5, <2>1, <3>2
           DEF JoinReceiver, Asked, Answered, NotAccepted, Done, Returned, HarnessErrors
      <4> QED
        BY <1>4, <2>1, <3>2, <4>1 DEF JoinReceiver, MainInv
    <3> QED
      BY <3>1, <3>2
  <2>2. CASE JoinSender
    <3>1. receiver = "Ok" /\ sender \in Returned
      BY <2>2 DEF JoinSender, IInv, MainInv
    <3>2. NotAccepted \/ Done
      BY <1>5, <3>1 DEF NotSent, Asked, Refused, Answered, Returned, HarnessErrors
    <3>3. CASE Done
      BY <1>4, <2>2, <3>3 DEF JoinSender, MainInv, Done
    <3>4. CASE NotAccepted
      BY <1>4, <2>2, <3>4 DEF JoinSender, MainInv, NotAccepted
    <3> QED
      BY <3>2, <3>3, <3>4
  <2> QED
    BY <2>1, <2>2 DEF Main
<1> QED
  BY <1>2, <1>4, <1>5, <1>6 DEF IInv, Together

LEMMA StutterKeepsIInv ==
  ASSUME IInv, UNCHANGED vars
  PROVE  IInv'
<1>1. /\ UNCHANGED <<toHost, toBoard, faults, main>>
      /\ UNCHANGED <<sender, request, reported, requested, finalized, receiver, proposed>>
  BY DEF vars, linkVars, senderVars, receiverVars
<1>2. Translated(RequestFrame(request))' = Translated(RequestFrame(request))
  BY <1>1 DEF Translated, RequestFrame
<1>3. Translated(ProposalFrame(request))' = Translated(ProposalFrame(request))
  BY <1>1 DEF Translated, ProposalFrame, Answer
<1> QED
  BY <1>1, <1>2, <1>3
     DEF IInv, Typed, LinksTypeOK, SenderTypeOK, Together, MainInv, AtStart, NotSent, Asked,
         Refused, Answered, NotAccepted, Done, Queues

LEMMA IInvKept == IInv /\ [Next]_vars => IInv'
BY SenderThreadKeepsIInv, ReceiverThreadKeepsIInv, MainKeepsIInv, StutterKeepsIInv DEF Next

(* The invariant holds of what the two threads and the test can do. *)
THEOREM Invariance == Init /\ [][Next]_vars => []IInv
BY Initially, IInvKept, PTL

-----------------------------------------------------------------------------
(* TypeOK: every variable of the two threads keeps its type.              *)
THEOREM TypeCorrect == FairSpec => []TypeOK
<1>1. IInv => TypeOK
  BY DEF IInv, Typed, Together, MainInv, TypeOK, ReceiverTypeOK, AtStart, NotSent, Asked,
         Refused, Answered, NotAccepted, Done, SenderTypeOK, Returned, HarnessErrors
<1> QED
  BY <1>1, Invariance, PTL DEF FairSpec

(* HangUpsHaveACause: for every set of requests and every reason to refuse *)
(* one, a role returns Transport only when the other had refused.          *)
THEOREM HangUpsAreCaused == FairSpec => []HangUpsHaveACause
<1>1. IInv => HangUpsHaveACause
  BY DEF IInv, Together, HangUpsHaveACause, AtStart, NotSent, Asked, Refused, Answered,
         NotAccepted, Done
<1> QED
  BY <1>1, Invariance, PTL DEF FairSpec

(* FailsOnlyWhenRefused: a request that neither role has a reason to       *)
(* refuse never makes the test fail.                                       *)
THEOREM FailuresAreRefusals == FairSpec => []FailsOnlyWhenRefused
<1>1. IInv => FailsOnlyWhenRefused
  BY DEF IInv, MainInv, FailsOnlyWhenRefused, NotSent, Refused, NotAccepted
<1> QED
  BY <1>1, Invariance, PTL DEF FairSpec

(* ImplementsExchange: every step of the two threads is one of the abstract *)
(* exchange or leaves it alone.                                             *)
THEOREM ImplementsExchangeSafety == FairSpec => ImplementsExchange
<1>1. Init => Exchange!Init
  BY DEF Init, SenderInit, ReceiverInit, Exchange!Init
<1>2. IInv /\ IInv' /\ [Next]_vars => [Exchange!Next]_(Exchange!vars)
  <2> SUFFICES ASSUME IInv, IInv', [Next]_vars
               PROVE  [Exchange!Next]_(Exchange!vars)
    OBVIOUS
  <2> USE DEF Exchange!Next, Exchange!vars
  <2>1. CASE SenderThread
    <3>1. UNCHANGED <<proposed, main>>
      BY <2>1 DEF SenderThread, receiverVars
    <3>2. ASSUME NEW r \in Requests, ThreadSends(r)
          PROVE  Exchange!Request(r)
      BY <3>1, <3>2
         DEF ThreadSends, Exchange!Request, IInv, MainInv, Done
    <3>3. ASSUME NEW r \in Requests, RefuseRequest(r)
          PROVE  UNCHANGED Exchange!vars
      BY <3>1, <3>3 DEF RefuseRequest, IInv, MainInv, Done
    <3>4. CASE ReceiveResponse \/ SenderHungUp
      <4>1. UNCHANGED <<requested, request>>
        BY <3>4 DEF ReceiveResponse, SenderHungUp
      <4>2. CASE finalized' = finalized
        BY <3>1, <4>1, <4>2
      <4>3. CASE finalized' # finalized
        <5>1. finalized' = finalized \cup {request}
          BY <3>4, <4>3 DEF ReceiveResponse, SenderHungUp
        <5>2. request \in finalized'
          BY <5>1
        <5>3. Done'
          BY <5>2 DEF IInv, Together, AtStart, NotSent, Asked, Refused, Answered, NotAccepted
        <5>4. request \in proposed /\ request \in Requests
          BY <3>1, <4>1, <5>3 DEF Done, IInv, Typed, SenderTypeOK
        <5>5. Exchange!Finalize(request)
          BY <3>1, <4>1, <5>1, <5>4 DEF Exchange!Finalize
        <5> QED
          BY <5>4, <5>5
      <4> QED
        BY <4>2, <4>3
    <3> QED
      BY <2>1, <3>2, <3>3, <3>4 DEF SenderThread
  <2>2. CASE ReceiverThread
    <3>1. UNCHANGED <<requested, finalized, request, main>>
      BY <2>2 DEF ReceiverThread, senderVars
    <3>2. CASE proposed' = proposed
      BY <3>1, <3>2
    <3>3. CASE proposed' # proposed
      <4>1. PICK r : proposed' = proposed \cup {r}
        BY <2>2, <3>3 DEF ReceiverThread, ThreadAnswers, ReceiverHungUp
      <4>2. r \in requested /\ r \in Requests
        <5>1. r \in proposed'
          BY <4>1
        <5>2. proposed' \subseteq requested'
          BY DEF IInv, Together, AtStart, NotSent, Asked, Refused, Answered, NotAccepted, Done
        <5>3. requested \subseteq Requests
          BY DEF IInv, Typed, SenderTypeOK
        <5> QED
          BY <3>1, <5>1, <5>2, <5>3
      <4>3. Exchange!Propose(r)
        BY <3>1, <4>1, <4>2 DEF Exchange!Propose
      <4> QED
        BY <4>2, <4>3
    <3> QED
      BY <3>2, <3>3
  <2>3. CASE Main
    <3>1. UNCHANGED <<requested, proposed, finalized, request>>
      BY <2>3 DEF Main, senderVars, receiverVars
    <3>2. CASE main' = "passed"
      <4>1. Done'
        BY <3>2 DEF IInv, MainInv
      <4>2. request \in finalized /\ request \in Requests /\ main # "passed"
        BY <2>3, <3>1, <4>1
           DEF Done, IInv, Typed, SenderTypeOK, Main, JoinReceiver, JoinSender
      <4>3. Exchange!Confirm(request)
        BY <3>1, <3>2, <4>2 DEF Exchange!Confirm
      <4> QED
        BY <4>2, <4>3
    <3>3. CASE main' # "passed"
      BY <2>3, <3>1, <3>3 DEF Main, JoinReceiver, JoinSender
    <3> QED
      BY <3>2, <3>3
  <2>4. CASE UNCHANGED vars
    BY <2>4 DEF vars, senderVars, receiverVars
  <2> QED
    BY <2>1, <2>2, <2>3, <2>4 DEF Next
<1> QED
  BY <1>1, <1>2, Invariance, PTL DEF FairSpec, ImplementsExchange, Exchange!Spec
================================================================================
