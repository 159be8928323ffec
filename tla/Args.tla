--------------------------------- MODULE Args ---------------------------------
(***************************************************************************)
(* The command line of harness-host: Args::parse_from takes it word by     *)
(* word, and main opens the ports it names before it starts a role.        *)
(*                                                                         *)
(* Which words there are is found out as they are taken; line is the       *)
(* history of them.                                                        *)
(***************************************************************************)
EXTENDS Integers, Sequences

CONSTANTS
  Words,     \* what may stand on a command line
  NumberOf,  \* the words that parse as a u32, with their number
  None,      \* a field that was not given
  MaxWords   \* bound: the words of a command line

Flags == {"--mode", "--sender-port", "--receiver-port", "--device-port", "--seed", "--baud"}

ModeOf == [w \in {"v1", "v2-probe"} |-> IF w = "v1" THEN "V1" ELSE "V2Probe"]
Modes  == {"V1", "V2Probe"}

ASSUME WordsAssumption == Flags \cup DOMAIN ModeOf \subseteq Words

ASSUME NoneAssumption == None \notin Words

ASSUME NumberOfAssumption == NumberOf \in [DOMAIN NumberOf -> Nat]

ASSUME MaxWordsAssumption == MaxWords \in Nat

VARIABLES
  line,     \* the words taken so far
  pending,  \* the flag whose value is the next word, or None
  args,     \* the fields of Args, by flag
  stage,    \* where the program is, or how it ended
  opened    \* the ports opened, with their baud rate

vars == <<line, pending, args, stage, opened>>

Stages == {"parsing", "parsed", "opening", "running", "refused", "panicked", "failed"}

Default ==
  [f \in Flags |-> CASE f = "--mode" -> "V1" [] f = "--baud" -> 115200 [] OTHER -> None]

Init ==
  /\ line = <<>>
  /\ pending = None
  /\ args = Default
  /\ stage = "parsing"
  /\ opened = <<>>

-----------------------------------------------------------------------------
(* parse_from *)

(* The words that flag f takes for a value, and what it makes of one. *)
Accepts(f, w) ==
  /\ f = "--mode" => w \in DOMAIN ModeOf
  /\ f = "--baud" => w \in DOMAIN NumberOf

ValueOf(f, w) ==
  CASE f = "--mode" -> ModeOf[w] [] f = "--baud" -> NumberOf[w] [] OTHER -> w

NextWord(w) ==
  /\ stage = "parsing"
  /\ Len(line) < MaxWords
  /\ line' = Append(line, w)

(* Mutant: an unknown argument is skipped, with the word behind it. *)
TakeAnyFlag(w) ==
  /\ NextWord(w)
  /\ pending = None
  /\ pending' = w
  /\ UNCHANGED <<args, stage, opened>>

TakeFlag(w) ==
  /\ NextWord(w)
  /\ pending = None /\ w \in Flags
  /\ pending' = w
  /\ UNCHANGED <<args, stage, opened>>

(* Mutant: a field that was given stays. *)
TakeValueOnce(w) ==
  /\ NextWord(w)
  /\ pending # None /\ Accepts(pending, w)
  /\ args' = IF args[pending] = Default[pending]
               THEN [args EXCEPT ![pending] = ValueOf(pending, w)] ELSE args
  /\ pending' = None
  /\ UNCHANGED <<stage, opened>>

(* The next word is the value, even when it is a flag. *)
TakeValue(w) ==
  /\ NextWord(w)
  /\ pending # None /\ Accepts(pending, w)
  /\ args' = [args EXCEPT ![pending] = ValueOf(pending, w)]
  /\ pending' = None
  /\ UNCHANGED <<stage, opened>>

RefuseWord(w) ==
  /\ NextWord(w)
  /\ IF pending = None THEN w \notin Flags ELSE ~Accepts(pending, w)
  /\ stage' = "refused"
  /\ UNCHANGED <<pending, args, opened>>

(* Mutant: checked as if the mode were the default one. *)
RequiredByDefault(mode) == {"--sender-port", "--receiver-port"}

Required(mode) ==
  IF mode = "V1" THEN {"--sender-port", "--receiver-port"} ELSE {"--device-port", "--seed"}

HasAll(flags) == \A f \in flags : args[f] # None

(* Mutant: the line may end behind a flag. *)
EndLineLoosely ==
  /\ stage = "parsing"
  /\ stage' = IF HasAll(Required(args["--mode"])) THEN "parsed" ELSE "refused"
  /\ UNCHANGED <<line, pending, args, opened>>

EndLine ==
  /\ stage = "parsing"
  /\ stage' = IF pending = None /\ HasAll(Required(args["--mode"]))
                THEN "parsed" ELSE "refused"
  /\ UNCHANGED <<line, pending, args, opened>>

-----------------------------------------------------------------------------
(* main *)

(* What main's expect calls take for granted, and the ports it then opens. *)
Expected(mode) ==
  IF mode = "V1" THEN {"--sender-port", "--receiver-port"} ELSE {"--device-port", "--seed"}

Ports(mode) ==
  IF mode = "V1" THEN <<"--sender-port", "--receiver-port">> ELSE <<"--device-port">>

Dispatch ==
  /\ stage = "parsed"
  /\ stage' = IF HasAll(Expected(args["--mode"])) THEN "opening" ELSE "panicked"
  /\ UNCHANGED <<line, pending, args, opened>>

OpenPort ==
  /\ stage = "opening"
  /\ LET ports == Ports(args["--mode"]) IN
       /\ opened' = Append(opened, [name |-> args[ports[Len(opened) + 1]],
                                    baud |-> args["--baud"]])
       /\ stage' = IF Len(opened) + 1 = Len(ports) THEN "running" ELSE "opening"
  /\ UNCHANGED <<line, pending, args>>

(* The program ends; what it had opened is closed. *)
OpenFails ==
  /\ stage = "opening"
  /\ stage' = "failed"
  /\ opened' = <<>>
  /\ UNCHANGED <<line, pending, args>>

Next ==
  \/ \E w \in Words : TakeFlag(w) \/ TakeValue(w) \/ RefuseWord(w)
  \/ EndLine
  \/ Dispatch
  \/ OpenPort
  \/ OpenFails

Spec == Init /\ [][Next]_vars

-----------------------------------------------------------------------------
TypeOK ==
  /\ line \in Seq(Words)
  /\ pending \in Flags \cup {None}
  /\ DOMAIN args = Flags
  /\ args["--mode"] \in Modes
  /\ args["--baud"] \in Nat
  /\ stage \in Stages
  /\ Len(opened) <= Len(Ports(args["--mode"]))

(* main unwraps what parse_from has checked: no command line makes it      *)
(* panic, whichever mode the line ends up with and however often it names  *)
(* one ("validated by Args::parse").  A word is Unicode here, as what      *)
(* std::env::args yields is.                                               *)
NoPanic == stage # "panicked"

(* Flags and values alternate, so that a line from which one word is       *)
(* missing is refused: the flag that lacks its value takes the next word   *)
(* for it, and what follows, or the end of the line, gives it away.        *)
AcceptedLinesPairUp ==
  stage \in {"parsed", "opening", "running", "failed"} => Len(line) % 2 = 0

(* What the words of a line say of f: the value behind its last occurrence *)
(* as a flag, which every second word is, or the default.                  *)
GivenAt(words, f, k) == k % 2 = 1 /\ k + 1 \in DOMAIN words /\ words[k] = f

Says(words, f, v) ==
  \/ /\ \A k \in DOMAIN words : ~GivenAt(words, f, k)
     /\ v = Default[f]
  \/ \E k \in DOMAIN words :
       /\ GivenAt(words, f, k) /\ v = ValueOf(f, words[k + 1])
       /\ \A j \in DOMAIN words : j > k => ~GivenAt(words, f, j)

(* Ports are opened for the mode the line says, in the order of the roles, *)
(* under the names and with the rate it says; and a line that leaves a     *)
(* port out opens none.                                                    *)
OpensWhatTheLineSays ==
  opened # <<>> =>
    \E mode \in Modes :
      /\ Says(line, "--mode", mode)
      /\ \A i \in DOMAIN opened :
           /\ Says(line, Ports(mode)[i], opened[i].name)
           /\ Says(line, "--baud", opened[i].baud)
           /\ opened[i].name # None
===============================================================================
