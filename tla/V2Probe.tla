-------------------------------- MODULE V2Probe --------------------------------
(***************************************************************************)
(* harness-host in v2-probe mode against one board: the host hands it a    *)
(* seed and shows the ShortId that comes back.  The two run_v2_probe       *)
(* functions borrow the commands OriginalPsbt and SignedPsbt.  The host    *)
(* does not compute the ShortId itself; that an answer belongs to the seed *)
(* of its run rests on the order of the frames alone.                      *)
(***************************************************************************)
EXTENDS SerialLinks

CONSTANTS
  LongSeeds,   \* seeds that exceed MAX_PAYLOAD_LEN
  Patient,     \* the host's read timeout never beats an answer under way
  MaxRestarts  \* bound: restarts of the host and resets of the board

ASSUME ProbeLinkAssumption == Board = {"device"}

ASSUME ProbeAssumption ==
  /\ LongSeeds \subseteq Requests
  /\ Patient \in BOOLEAN
  /\ MaxRestarts \in Nat

VARIABLES
  host,      \* where the host's run_v2_probe is, or how it ended
  seed,      \* the seed of this run
  device,    \* where the board's run_v2_probe is, or how it returned
  given,     \* history: the seeds handed to the port, in order
  shown,     \* history: the ShortIds that runs returned, in order
  restarts

hostVars == <<host, seed, given, shown>>

vars == <<linkVars, hostVars, device, restarts>>

HostErrors == {"EncodeFailed", "WriteFailed", "ReadFailed", "Framing", "Unexpected"}
HostEnded  == {"done"} \cup HostErrors

TypeOK ==
  /\ LinksTypeOK
  /\ host \in {"start", "awaiting"} \cup HostEnded
  /\ seed \in Requests \cup {None}
  /\ device \in {"waiting"} \cup Returned
  /\ given \in Seq(Requests)
  /\ shown \in Seq(AnswerPayload)
  /\ restarts \in 0 .. MaxRestarts

Init ==
  /\ LinksInit
  /\ host = "start" /\ seed = None
  /\ device = "waiting"
  /\ given = <<>> /\ shown = <<>>
  /\ restarts = 0

-----------------------------------------------------------------------------
(* The host's side. *)

SeedFrame(s) == [command |-> "OriginalPsbt", payload |-> Body(s)]

SendSeed(s) ==
  /\ host = "start" /\ s \notin LongSeeds
  /\ seed' = s
  /\ given' = Append(given, s)
  /\ \/ /\ toBoard' = AddTo(toBoard, "device", SeedFrame(s))
        /\ host' = "awaiting"
        /\ UNCHANGED faults
     \/ /\ Fault
        /\ toBoard' \in FailedOnto(toBoard, "device", SeedFrame(s))
        /\ host' = "WriteFailed"
  /\ UNCHANGED <<toHost, shown>>

(* encode refuses the seed. *)
RefuseSeed(s) ==
  /\ host = "start" /\ s \in LongSeeds
  /\ seed' = s
  /\ host' = "EncodeFailed"
  /\ UNCHANGED <<linkVars, given, shown>>

(* The answer is text whenever it is a ShortId, so that the UTF-8 check    *)
(* behind the check of the command never fails on it.                      *)
TakeShortId ==
  /\ host = "awaiting"
  /\ HasFrame(toHost["device"])
  /\ toHost' = TakeFrom(toHost, "device")
  /\ LET f == Head(toHost["device"]) IN
       \/ /\ f.command = "SignedPsbt"
          /\ shown' = Append(shown, f.payload)
          /\ host' = "done"
       \/ /\ f.command # "SignedPsbt"
          /\ host' = "Unexpected"
          /\ UNCHANGED shown
  /\ UNCHANGED <<toBoard, faults, seed, given>>

ProbeFramingError ==
  /\ host = "awaiting"
  /\ HasBroken(toHost["device"])
  /\ host' = "Framing"
  /\ UNCHANGED <<linkVars, seed, given, shown>>

(* The device is about to answer. *)
Busy == device = "waiting" /\ HasFrame(toBoard["device"])

(* Mutant: the port is opened without a timeout. *)
ProbeReadBlocks == FALSE

(* A read fails when its 30 s are over, and may for other reasons. *)
ProbeReadFails ==
  /\ host = "awaiting"
  /\ Patient => ~HasFrame(toHost["device"]) /\ ~Busy
  /\ host' = "ReadFailed"
  /\ UNCHANGED <<linkVars, seed, given, shown>>

-----------------------------------------------------------------------------
(* The board's side. *)

(* Mutant: the frame that was read stays at the front of the line. *)
ReadWithoutTaking(line) == line

ReadFrom(line) == Tail(line)

(* Mutant: answered in the vocabulary of the v1 relay. *)
RelayedAnswerFrame(s) == [command |-> "InResponse", payload |-> ShortId(s)]

ShortIdFrame(s) == [command |-> "SignedPsbt", payload |-> ShortId(s)]

AnswerSeed ==
  /\ device = "waiting"
  /\ HasFrame(toBoard["device"])
  /\ \E rest \in LeftOf(ReadFrom(toBoard["device"])) :
       toBoard' = [toBoard EXCEPT !["device"] = rest]
  /\ LET f == Head(toBoard["device"]) IN
       \/ /\ f.command # "OriginalPsbt"
          /\ device' = "UnexpectedCommand"
          /\ UNCHANGED <<toHost, faults>>
       \/ /\ f.command = "OriginalPsbt"
          /\ \/ /\ toHost' = AddTo(toHost, "device", ShortIdFrame(f.payload.of))
                /\ device' = "Ok"
                /\ UNCHANGED faults
             \/ /\ Fault
                /\ toHost' \in FailedOnto(toHost, "device", ShortIdFrame(f.payload.of))
                /\ device' = "Transport"

DeviceFails ==
  /\ device = "waiting"
  /\ \/ /\ HasBroken(toBoard["device"])
        /\ device' = "Framing"
        /\ UNCHANGED faults
     \/ Fault /\ device' = "Transport"
  /\ \E rest \in LeftOf(toBoard["device"]) :
       toBoard' = [toBoard EXCEPT !["device"] = rest]
  /\ UNCHANGED toHost

-----------------------------------------------------------------------------
RerunHost ==
  /\ host' = "start" /\ seed' = None
  /\ \E rest \in LeftOf(toHost["device"]) :
       toHost' = [toHost EXCEPT !["device"] = rest]
  /\ toBoard' \in StoppedOnto(toBoard, "device", host = "start")
  /\ UNCHANGED <<faults, given, shown, device>>

ResetDevice ==
  /\ device' = "waiting"
  /\ \E rest \in LeftOf(toBoard["device"]) :
       toBoard' = [toBoard EXCEPT !["device"] = rest]
  /\ toHost' \in StoppedOnto(toHost, "device", Busy)
  /\ UNCHANGED <<faults, hostVars>>

ProbeRuns ==
  \/ \E s \in Requests : SendSeed(s) \/ RefuseSeed(s)
  \/ TakeShortId
  \/ ProbeFramingError
  \/ ProbeReadFails

HostStep   == ProbeRuns /\ UNCHANGED <<device, restarts>>
DeviceStep == (AnswerSeed \/ DeviceFails) /\ UNCHANGED <<hostVars, restarts>>

LineStep ==
  /\ \E b \in Board :
       DamageToHost(b) \/ DamageToBoard(b) \/ LoseToHost(b) \/ LoseToBoard(b)
  /\ UNCHANGED <<hostVars, device, restarts>>

Restart ==
  /\ restarts < MaxRestarts
  /\ restarts' = restarts + 1
  /\ RerunHost \/ ResetDevice

Next == HostStep \/ DeviceStep \/ LineStep \/ Restart

Spec == Init /\ [][Next]_vars

(* Both programs go on while they can; a read of the host ends. *)
FairSpec ==
  /\ Spec
  /\ WF_vars(HostStep)
  /\ WF_vars(AnswerSeed /\ UNCHANGED <<hostVars, restarts>>)

-----------------------------------------------------------------------------
(* The ShortIds shown are those of the seeds given, in the order in which  *)
(* they were given and each at most once: whatever is lost, reset or run   *)
(* again, no answer is shown twice and none overtakes another: the probe   *)
(* implements the lossy channel from seeds given to answers shown.  (A run *)
(* behind one that gave up may still show the ShortId of that one's seed.) *)
Answers == INSTANCE LossyChannel
             WITH Item <- {ShortId(s) : s \in Requests},
                  sent <- [i \in DOMAIN given |-> ShortId(given[i])],
                  got <- shown,
                  broken <- FALSE
AnswersInOrder == Answers!Spec

(* A probe never hangs, whatever the device does. *)
ProbeEnds == <>[](host \in HostEnded)

(* Left alone, a seed that fits a frame is answered with its ShortId. *)
ProbeCompletes ==
  [](faults = 0 /\ restarts = 0) =>
    (host = "awaiting" ~> host = "done" /\ shown = <<ShortId(seed)>>)
===============================================================================
