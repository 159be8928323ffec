------------------------------ MODULE Simulators ------------------------------
(***************************************************************************)
(* One board and no host in between: sender-sim against the receiver's     *)
(* board, or receiver-sim against the sender's.  Each tool plays the role  *)
(* of the missing board and speaks the commands that harness-host would    *)
(* have made of that board's.                                              *)
(*                                                                         *)
(* The loops of the tools read on after a timeout and after any other      *)
(* error of read(), so that a read which fails changes nothing.            *)
(***************************************************************************)
EXTENDS BoardSender, BoardReceiver

CONSTANTS
  Fixture,     \* original_psbt_fixture(), the request of sender-sim
  MaxRestarts  \* bound: runs of the tool and resets of the board

ASSUME FixtureAssumption == Fixture \in Requests \ (Unbuildable \cup LongRequests)

ASSUME MaxRestartsAssumption == MaxRestarts \in Nat

VARIABLES
  tool,      \* the tool on the host
  sim,       \* where it is, or how it ended
  restarts

simVars == <<tool, sim, restarts>>

vars == <<linkVars, senderVars, receiverVars, simVars>>

(* The board on the other end, and the tool's first state. *)
TestedBoard == IF tool = "sender-sim" THEN "receiver" ELSE "sender"
SimStart    == IF tool = "sender-sim" THEN "start" ELSE "waiting"

TypeOK ==
  /\ LinksTypeOK
  /\ SenderTypeOK
  /\ ReceiverTypeOK
  /\ tool \in {"sender-sim", "receiver-sim"}
  /\ sim \in {"start", "waiting"} \cup Returned
  /\ restarts \in 0 .. MaxRestarts

Init ==
  /\ LinksInit /\ SenderInit /\ ReceiverInit
  /\ tool \in {"sender-sim", "receiver-sim"}
  /\ sim = SimStart
  /\ restarts = 0

-----------------------------------------------------------------------------
(* sender-sim *)

OriginalFrameAsRequest ==   \* mutant: in run_sender's vocabulary
  [command |-> "OutRequest", payload |-> Body(Fixture)]

OriginalFrame == [command |-> "OriginalPsbt", payload |-> Body(Fixture)]

WriteOriginal ==
  /\ tool = "sender-sim" /\ sim = "start"
  /\ requested' = requested \cup {Fixture}
  /\ \/ /\ toBoard' = AddTo(toBoard, "receiver", OriginalFrame)
        /\ sim' = "waiting"
        /\ UNCHANGED faults
     \/ /\ Fault
        /\ toBoard' \in FailedOnto(toBoard, "receiver", OriginalFrame)
        /\ sim' = "Transport"
  /\ UNCHANGED <<toHost, sender, request, reported, finalized>>

(* process_response of the context of the fixture. *)
FixtureAccepts(payload) ==
  payload = Base64(Proposal(Fixture)) /\ Fixture \notin Distrusted

(* The tool leaves its loop with the first frame, and ends. *)
TakeAnswer ==
  /\ tool = "sender-sim" /\ sim = "waiting"
  /\ HasFrame(toHost["receiver"])
  /\ \E rest \in LeftOf(Tail(toHost["receiver"])) :
       toHost' = [toHost EXCEPT !["receiver"] = rest]
  /\ LET f == Head(toHost["receiver"]) IN
       \/ /\ f.command # "SignedPsbt"
          /\ sim' = "UnexpectedCommand"
          /\ UNCHANGED finalized
       \/ /\ f.command = "SignedPsbt"
          /\ ~FixtureAccepts(f.payload)
          /\ sim' = "Payjoin"
          /\ UNCHANGED finalized
       \/ /\ f.command = "SignedPsbt"
          /\ FixtureAccepts(f.payload)
          /\ sim' = "Ok"
          /\ finalized' = finalized \cup {Fixture}
  /\ UNCHANGED <<toBoard, faults, sender, request, reported, requested>>

-----------------------------------------------------------------------------
(* receiver-sim *)

ResponseFrame(r) == [command |-> "InResponse", payload |-> Answer(r)]

(* Mutant: the response is written and never flushed. *)
WrittenUnflushed(r) == toBoard' = toBoard

Written(r) == toBoard' = AddTo(toBoard, "sender", ResponseFrame(r))

(* It is complete for the tool once the response is written. *)
AnswerRequest ==
  /\ tool = "receiver-sim" /\ sim = "waiting"
  /\ HasFrame(toHost["sender"])
  /\ \E rest \in LeftOf(Tail(toHost["sender"])) :
       toHost' = [toHost EXCEPT !["sender"] = rest]
  /\ LET f == Head(toHost["sender"])
         r == f.payload.of IN
       \/ /\ f.command # "OutRequest"
          /\ sim' = "UnexpectedCommand"
          /\ UNCHANGED <<toBoard, faults, proposed>>
       \/ /\ f.command = "OutRequest"
          /\ ~AcceptsRequest(f.payload) \/ r \in LongProposals
          /\ sim' = "Payjoin"
          /\ UNCHANGED <<toBoard, faults, proposed>>
       \/ /\ f.command = "OutRequest"
          /\ AcceptsRequest(f.payload) /\ r \notin LongProposals
          /\ proposed' = proposed \cup {r}
          /\ \/ /\ Written(r)
                /\ sim' = "Ok"
                /\ UNCHANGED faults
             \/ /\ Fault
                /\ toBoard' \in FailedOnto(toBoard, "sender", ResponseFrame(r))
                /\ sim' = "Transport"
  /\ UNCHANGED receiver

-----------------------------------------------------------------------------
SimFramingError ==
  /\ sim = "waiting"
  /\ HasBroken(toHost[TestedBoard])
  /\ sim' = "Framing"
  /\ UNCHANGED linkVars

(* The tool is started again; what it had read is gone. *)
RerunSim ==
  /\ sim' = SimStart
  /\ \E rest \in LeftOf(toHost[TestedBoard]) :
       toHost' = [toHost EXCEPT ![TestedBoard] = rest]
  /\ toBoard' \in StoppedOnto(toBoard, TestedBoard,
                             sim = "start" \/ (tool = "receiver-sim" /\ sim = "waiting"
                                                 /\ HasFrame(toHost["sender"])))
  /\ UNCHANGED <<faults, senderVars, receiverVars>>

SimRuns ==
  \/ WriteOriginal /\ UNCHANGED receiverVars
  \/ TakeAnswer /\ UNCHANGED receiverVars
  \/ AnswerRequest /\ UNCHANGED senderVars
  \/ SimFramingError /\ UNCHANGED <<senderVars, receiverVars>>

(* The board under test runs its role. *)
BoardRuns ==
  \/ /\ tool = "receiver-sim"
     /\ \/ \E r \in Requests : SendRequest(r) \/ RefuseRequest(r)
        \/ ReceiveResponse
        \/ ReportStatus
     /\ UNCHANGED receiverVars
  \/ /\ tool = "sender-sim"
     /\ ReceiveRequest
     /\ UNCHANGED senderVars

BoardFails ==
  \/ /\ tool = "receiver-sim"
     /\ (\E r \in Requests : FailRequest(r)) \/ SenderFramingError \/ SenderReadFails
     /\ UNCHANGED receiverVars
  \/ /\ tool = "sender-sim"
     /\ ReceiverFramingError \/ ReceiverReadFails
     /\ UNCHANGED senderVars

SimStep   == SimRuns /\ UNCHANGED <<tool, restarts>>
BoardStep == (BoardRuns \/ BoardFails) /\ UNCHANGED simVars

LineStep ==
  /\ \E b \in Board :
       DamageToHost(b) \/ DamageToBoard(b) \/ LoseToHost(b) \/ LoseToBoard(b)
  /\ UNCHANGED <<senderVars, receiverVars, simVars>>

Restart ==
  /\ restarts < MaxRestarts
  /\ restarts' = restarts + 1
  /\ UNCHANGED tool
  /\ \/ RerunSim
     \/ tool = "receiver-sim" /\ ResetSender /\ UNCHANGED <<receiverVars, sim>>
     \/ tool = "sender-sim" /\ ResetReceiver /\ UNCHANGED <<senderVars, sim>>

Next == SimStep \/ BoardStep \/ LineStep \/ Restart

Spec == Init /\ [][Next]_vars

(* Tool and board go on while they can. *)
FairSpec ==
  /\ Spec
  /\ WF_vars(SimStep)
  /\ WF_vars(BoardRuns /\ UNCHANGED simVars)

-----------------------------------------------------------------------------
(* As in the round trip through the host: a proposal is accepted only for  *)
(* the request it was made to, whatever an earlier run left on the line.   *)
SimCausality == finalized \subseteq proposed /\ proposed \subseteq requested

(* Each tool speaks the vocabulary of its board: whatever is lost or run   *)
(* again, no board receives a command that it does not expect, and nor     *)
(* does sender-sim.  receiver-sim does not until something is restarted:   *)
(* nothing reads the Status that the sender's firmware sends at the end,   *)
(* so that the next run may find it.                                       *)
SimSpeaksBoardsCommands ==
  /\ "UnexpectedCommand" \notin {sender, receiver}
  /\ restarts = 0 \/ tool = "sender-sim" => sim # "UnexpectedCommand"

Undisturbed == faults = 0 /\ restarts = 0

(* Left alone, a request that nobody has a reason to refuse is finalized,  *)
(* whichever side the tool plays.                                          *)
SimRoundTripCompletes ==
  []Undisturbed =>
    \A r \in Requests \ (Rejected \cup LongProposals \cup Distrusted) :
      r \in requested ~> r \in finalized /\ sim = "Ok"

(* Left alone, nobody is left waiting: the tool only by a board that       *)
(* returned an error, the board only by a tool that ended with one.        *)
NobodyStranded ==
  []Undisturbed =>
    /\ sim = "waiting" ~> sim \in Returned \/ HarnessErrors \cap {sender, receiver} # {}
    /\ sender = "waiting" ~> sender \in Returned \/ sim \in HarnessErrors
===============================================================================
