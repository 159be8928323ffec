------------------------------- MODULE ArgsProofs -------------------------------
(* What harness-host makes of its command line, for every line of any length. *)
EXTENDS Args, SequenceTheorems, TLAPS

(* The inductive invariant.  While parse_from runs, a flag waits for its    *)
(* value exactly when an odd number of words was taken; until it refuses    *)
(* one, each field is what the words so far say; what main opened are       *)
(* fields.                                                                  *)
WaitsForValue ==
  stage = "parsing" =>
    IF Len(line) % 2 = 0 THEN pending = None
    ELSE pending \in Flags /\ line[Len(line)] = pending

FieldsAsSaid == stage # "refused" => \A f \in Flags : Says(line, f, args[f])

Accepted == {"parsed", "opening", "running", "failed"}

Checked == stage \in Accepted => Len(line) % 2 = 0 /\ HasAll(Required(args["--mode"]))

OpenedFields ==
  /\ opened # <<>> => stage \in {"opening", "running"}
  /\ stage = "opening" => Len(opened) < Len(Ports(args["--mode"]))
  /\ \A i \in DOMAIN opened :
       opened[i] = [name |-> args[Ports(args["--mode"])[i]], baud |-> args["--baud"]]

Entries == [name : Words \cup {None}, baud : Nat]

Types ==
  /\ line \in Seq(Words)
  /\ pending \in Flags \cup {None}
  /\ DOMAIN args = Flags /\ args = [f \in Flags |-> args[f]]
  /\ args["--mode"] \in Modes
  /\ args["--baud"] \in Nat
  /\ \A f \in Flags \ {"--mode", "--baud"} : args[f] \in Words \cup {None}
  /\ stage \in Stages
  /\ opened \in Seq(Entries)
  /\ Len(opened) <= Len(Ports(args["--mode"]))

IInv == Types /\ WaitsForValue /\ FieldsAsSaid /\ Checked /\ NoPanic /\ OpenedFields

-----------------------------------------------------------------------------
LEMMA PortsShape ==
  ASSUME NEW mode \in Modes
  PROVE  /\ Len(Ports(mode)) \in 1 .. 2
         /\ \A i \in 1 .. Len(Ports(mode)) :
              Ports(mode)[i] \in Required(mode) /\ Ports(mode)[i] \in Flags \ {"--mode", "--baud"}
<1>1. CASE mode = "V1"
  BY <1>1 DEF Ports, Required, Flags
<1>2. CASE mode = "V2Probe"
  BY <1>2 DEF Ports, Required, Flags
<1> QED
  BY <1>1, <1>2 DEF Modes

(* A word that is taken goes behind the others. *)
LEMMA LineGrows ==
  ASSUME line \in Seq(Words), NEW w \in Words, NextWord(w)
  PROVE  /\ line' \in Seq(Words)
         /\ Len(line) \in Nat /\ Len(line') = Len(line) + 1
         /\ DOMAIN line = 1 .. Len(line) /\ DOMAIN line' = 1 .. Len(line) + 1
         /\ \A k \in 1 .. Len(line) : line'[k] = line[k]
         /\ line'[Len(line) + 1] = w
  BY AppendProperties, LenProperties DEF NextWord

(* A word that is no value of f changes nothing of what is said of f. *)
LEMMA SaysTheSame ==
  ASSUME line \in Seq(Words), NEW w \in Words, NextWord(w),
         NEW f \in Flags, NEW v, Says(line, f, v),
         \A k \in DOMAIN line : GivenAt(line', f, k) <=> GivenAt(line, f, k)
  PROVE  Says(line', f, v)
<1>1. ~GivenAt(line', f, Len(line) + 1)
  BY LineGrows DEF GivenAt
<1>2. CASE \A k \in DOMAIN line : ~GivenAt(line, f, k)
  <2>1. \A k \in DOMAIN line' : ~GivenAt(line', f, k)
    BY <1>1, <1>2, LineGrows
  <2>2. v = Default[f]
    BY <1>2 DEF Says
  <2> QED
    BY <2>1, <2>2 DEF Says
<1>3. CASE \E k \in DOMAIN line : GivenAt(line, f, k)
  <2>1. PICK k \in DOMAIN line :
          /\ GivenAt(line, f, k) /\ v = ValueOf(f, line[k + 1])
          /\ \A j \in DOMAIN line : j > k => ~GivenAt(line, f, j)
    BY <1>3 DEF Says
  <2>2. k \in DOMAIN line' /\ GivenAt(line', f, k)
    BY <2>1, LineGrows
  <2>3. line'[k + 1] = line[k + 1]
    <3>1. k + 1 \in DOMAIN line
      BY <2>1 DEF GivenAt
    <3> QED
      BY <3>1, LineGrows
  <2>4. \A j \in DOMAIN line' : j > k => ~GivenAt(line', f, j)
    BY <1>1, <2>1, LineGrows
  <2> QED
    BY <2>1, <2>2, <2>3, <2>4 DEF Says
<1> QED
  BY <1>2, <1>3

(* A flag says nothing yet. *)
LEMMA FlagSaysNothing ==
  ASSUME line \in Seq(Words), NEW w \in Words, NextWord(w), Len(line) % 2 = 0,
         NEW f \in Flags, NEW v, Says(line, f, v)
  PROVE  Says(line', f, v)
<1>1. \A k \in DOMAIN line : GivenAt(line', f, k) <=> GivenAt(line, f, k)
  BY LineGrows DEF GivenAt
<1> QED
  BY <1>1, SaysTheSame

(* The value behind a flag is what the line says of it, and says nothing of *)
(* the others.                                                              *)
LEMMA ValueSays ==
  ASSUME line \in Seq(Words), NEW w \in Words, NextWord(w), Len(line) % 2 = 1,
         NEW g \in Flags, line[Len(line)] = g
  PROVE  /\ Says(line', g, ValueOf(g, w))
         /\ \A f \in Flags \ {g} : \A v : Says(line, f, v) => Says(line', f, v)
<1>1. Len(line) \in DOMAIN line' /\ GivenAt(line', g, Len(line)) /\ line'[Len(line) + 1] = w
  <2>1. Len(line) >= 1
    BY LineGrows
  <2> QED
    BY <2>1, LineGrows DEF GivenAt
<1>2. \A j \in DOMAIN line' : j > Len(line) => ~GivenAt(line', g, j)
  BY LineGrows DEF GivenAt
<1>3. Says(line', g, ValueOf(g, w))
  BY <1>1, <1>2 DEF Says
<1>4. ASSUME NEW f \in Flags \ {g}, NEW v, Says(line, f, v)
      PROVE  Says(line', f, v)
  <2>1. \A k \in DOMAIN line : GivenAt(line', f, k) <=> GivenAt(line, f, k)
    BY LineGrows DEF GivenAt
  <2> QED
    BY <1>4, <2>1, SaysTheSame
<1> QED
  BY <1>3, <1>4

-----------------------------------------------------------------------------
LEMMA InitIInv == Init => IInv
<1> SUFFICES ASSUME Init PROVE IInv
  OBVIOUS
<1>1. /\ DOMAIN args = Flags /\ args = [f \in Flags |-> args[f]]
      /\ args["--mode"] = "V1" /\ args["--baud"] = 115200
      /\ \A f \in Flags \ {"--mode", "--baud"} : args[f] = None
  BY DEF Init, Default, Flags
<1>2. Len(line) = 0 /\ line \in Seq(Words) /\ DOMAIN line = {}
  BY DEF Init
<1>3. Types
  BY <1>1, <1>2 DEF Init, Types, Modes, Stages, Entries, Ports
<1>4. WaitsForValue
  BY <1>2 DEF Init, WaitsForValue
<1>5. FieldsAsSaid
  BY <1>2 DEF Init, FieldsAsSaid, Says
<1>6. Checked /\ NoPanic /\ OpenedFields
  BY DEF Init, Checked, Accepted, NoPanic, OpenedFields
<1> QED
  BY <1>3, <1>4, <1>5, <1>6 DEF IInv

LEMMA TakeFlagStep ==
  ASSUME IInv, NEW w \in Words, TakeFlag(w)
  PROVE  IInv'
<1>1. line \in Seq(Words) /\ NextWord(w) /\ stage = "parsing" /\ w \in Flags
      /\ pending' = w /\ UNCHANGED <<args, stage, opened>>
  BY DEF IInv, Types, TakeFlag, NextWord
<1>2. Len(line) % 2 = 0
  BY <1>1, NoneAssumption, WordsAssumption DEF IInv, WaitsForValue, TakeFlag
<1>3. Types'
  BY <1>1, LineGrows DEF IInv, Types
<1>4. WaitsForValue'
  BY <1>1, <1>2, LineGrows DEF WaitsForValue
<1>5. FieldsAsSaid'
  BY <1>1, <1>2, FlagSaysNothing DEF IInv, FieldsAsSaid
<1>6. Checked' /\ NoPanic' /\ OpenedFields'
  BY <1>1 DEF IInv, Checked, Accepted, NoPanic, OpenedFields, HasAll
<1> QED
  BY <1>3, <1>4, <1>5, <1>6 DEF IInv

LEMMA TakeValueStep ==
  ASSUME IInv, NEW w \in Words, TakeValue(w)
  PROVE  IInv'
<1> DEFINE g == pending
<1>1. /\ line \in Seq(Words) /\ NextWord(w) /\ stage = "parsing"
      /\ g \in Flags /\ Accepts(g, w)
      /\ args' = [args EXCEPT ![g] = ValueOf(g, w)]
      /\ pending' = None /\ UNCHANGED <<stage, opened>>
  BY DEF IInv, Types, TakeValue, NextWord
<1>2. Len(line) % 2 = 1 /\ line[Len(line)] = g
  <2>1. Len(line) \in Nat
    BY <1>1, LenProperties
  <2> QED
    BY <1>1, <2>1, NoneAssumption, WordsAssumption DEF IInv, WaitsForValue
<1>3. opened = <<>>
  BY <1>1 DEF IInv, OpenedFields
<1>4. ValueOf(g, w) \in IF g = "--mode" THEN Modes ELSE IF g = "--baud" THEN Nat ELSE Words
  BY <1>1, NumberOfAssumption DEF Accepts, ValueOf, ModeOf, Modes
<1> HIDE DEF g
<1>5. /\ DOMAIN args' = Flags /\ args'[g] = ValueOf(g, w)
      /\ args' = [f \in Flags |-> args'[f]]
      /\ \A f \in Flags \ {g} : args'[f] = args[f]
  BY <1>1 DEF IInv, Types
<1>6. Types'
  <2>1. args'["--mode"] \in Modes /\ args'["--baud"] \in Nat
    BY <1>4, <1>5 DEF IInv, Types, Flags
  <2>2. \A f \in Flags \ {"--mode", "--baud"} : args'[f] \in Words \cup {None}
    BY <1>4, <1>5 DEF IInv, Types
  <2>3. Len(opened) <= Len(Ports(args'["--mode"]))
    BY <1>3, <2>1, PortsShape
  <2> QED
    BY <1>1, <1>5, <2>1, <2>2, <2>3, LineGrows DEF IInv, Types
<1>7. WaitsForValue'
  <2>1. Len(line') % 2 = 0
    BY <1>1, <1>2, LineGrows
  <2> QED
    BY <1>1, <2>1 DEF WaitsForValue
<1>8. FieldsAsSaid'
  BY <1>1, <1>2, <1>5, ValueSays DEF IInv, FieldsAsSaid
<1>9. Checked' /\ NoPanic' /\ OpenedFields'
  BY <1>1, <1>3 DEF IInv, Checked, Accepted, NoPanic, OpenedFields
<1> QED
  BY <1>6, <1>7, <1>8, <1>9 DEF IInv

LEMMA RefuseWordStep ==
  ASSUME IInv, NEW w \in Words, RefuseWord(w)
  PROVE  IInv'
<1>1. /\ line \in Seq(Words) /\ NextWord(w) /\ stage = "parsing"
      /\ stage' = "refused" /\ UNCHANGED <<pending, args, opened>>
  BY DEF IInv, Types, RefuseWord, NextWord
<1>2. Types'
  BY <1>1, LineGrows DEF IInv, Types, Stages
<1> QED
  BY <1>1, <1>2
     DEF IInv, WaitsForValue, FieldsAsSaid, Checked, Accepted, NoPanic, OpenedFields

(* The line is accepted when no flag waits: it is then of even length. *)
LEMMA EndLineStep ==
  ASSUME IInv, EndLine
  PROVE  IInv'
<1>1. /\ stage = "parsing" /\ UNCHANGED <<line, pending, args, opened>>
      /\ \/ stage' = "parsed" /\ pending = None /\ HasAll(Required(args["--mode"]))
         \/ stage' = "refused"
  BY DEF EndLine
<1>2. stage' = "parsed" => Len(line) % 2 = 0
  BY <1>1, NoneAssumption, WordsAssumption DEF IInv, WaitsForValue
<1>3. Types' /\ WaitsForValue' /\ FieldsAsSaid' /\ NoPanic' /\ OpenedFields'
  BY <1>1 DEF IInv, Types, Stages, WaitsForValue, FieldsAsSaid, NoPanic, OpenedFields
<1>4. Checked'
  BY <1>1, <1>2 DEF Checked, Accepted, HasAll
<1> QED
  BY <1>3, <1>4 DEF IInv

(* What main expects is what parse_from required. *)
LEMMA DispatchStep ==
  ASSUME IInv, Dispatch
  PROVE  IInv'
<1>1. stage = "parsed" /\ UNCHANGED <<line, pending, args, opened>>
  BY DEF Dispatch
<1>2. stage' = "opening"
  BY <1>1 DEF Dispatch, IInv, Checked, Accepted, Required, Expected
<1>3. opened = <<>>
  BY <1>1 DEF IInv, OpenedFields
<1>4. OpenedFields'
  <2>1. args["--mode"] \in Modes /\ Len(opened) = 0
    BY <1>3 DEF IInv, Types
  <2>2. Len(opened) < Len(Ports(args["--mode"]))
    BY <2>1, PortsShape
  <2> QED
    BY <1>1, <1>3, <2>2 DEF OpenedFields
<1>5. Types' /\ WaitsForValue' /\ FieldsAsSaid' /\ NoPanic' /\ Checked'
  BY <1>1, <1>2
     DEF IInv, Types, Stages, WaitsForValue, FieldsAsSaid, NoPanic, Checked, Accepted, HasAll
<1> QED
  BY <1>4, <1>5 DEF IInv

LEMMA OpenPortStep ==
  ASSUME IInv, OpenPort
  PROVE  IInv'
<1> DEFINE mode  == args["--mode"]
           ports == Ports(mode)
           entry == [name |-> args[ports[Len(opened) + 1]], baud |-> args["--baud"]]
<1>1. /\ stage = "opening" /\ UNCHANGED <<line, pending, args>>
      /\ opened' = Append(opened, entry)
      /\ stage' = IF Len(opened) + 1 = Len(ports) THEN "running" ELSE "opening"
  BY DEF OpenPort
<1>2. /\ mode \in Modes /\ opened \in Seq(Entries) /\ Len(opened) \in Nat
      /\ Len(opened) < Len(ports) /\ Len(ports) \in 1 .. 2
      /\ args["--baud"] \in Nat
  BY <1>1, PortsShape, LenProperties DEF IInv, Types, OpenedFields
<1>3. entry \in Entries
  <2>1. ports[Len(opened) + 1] \in Flags \ {"--mode", "--baud"}
    BY <1>2, PortsShape
  <2> QED
    BY <1>2, <2>1 DEF IInv, Types, Entries
<1> HIDE DEF mode, ports, entry
<1>4. /\ opened' \in Seq(Entries) /\ Len(opened') = Len(opened) + 1
      /\ DOMAIN opened' = 1 .. Len(opened) + 1
      /\ \A i \in 1 .. Len(opened) : opened'[i] = opened[i]
      /\ opened'[Len(opened) + 1] = entry
  BY <1>1, <1>2, <1>3, AppendProperties, LenProperties
<1>5. Types'
  BY <1>1, <1>2, <1>4 DEF IInv, Types, Stages, mode, ports
<1>6. OpenedFields'
  <2>1. \A i \in DOMAIN opened : opened[i] = [name |-> args[ports[i]], baud |-> args["--baud"]]
    BY DEF IInv, OpenedFields, mode, ports
  <2>2. \A i \in DOMAIN opened' : opened'[i] = [name |-> args[ports[i]], baud |-> args["--baud"]]
    BY <1>2, <1>4, <2>1, LenProperties DEF entry
  <2>3. stage' = "opening" => Len(opened') < Len(ports)
    BY <1>1, <1>2, <1>4
  <2> QED
    BY <1>1, <2>2, <2>3 DEF OpenedFields, mode, ports
<1>7. WaitsForValue' /\ FieldsAsSaid' /\ NoPanic' /\ Checked'
  BY <1>1 DEF IInv, WaitsForValue, FieldsAsSaid, NoPanic, Checked, Accepted, HasAll
<1> QED
  BY <1>5, <1>6, <1>7 DEF IInv

LEMMA OpenFailsStep ==
  ASSUME IInv, OpenFails
  PROVE  IInv'
<1>1. /\ stage = "opening" /\ stage' = "failed" /\ opened' = <<>>
      /\ UNCHANGED <<line, pending, args>>
  BY DEF OpenFails
<1>2. Types'
  <2>1. Len(opened') <= Len(Ports(args["--mode"]))
    BY <1>1, PortsShape DEF IInv, Types
  <2> QED
    BY <1>1, <2>1 DEF IInv, Types, Stages
<1>3. WaitsForValue' /\ FieldsAsSaid' /\ NoPanic' /\ Checked' /\ OpenedFields'
  BY <1>1
     DEF IInv, WaitsForValue, FieldsAsSaid, NoPanic, Checked, Accepted, HasAll, OpenedFields
<1> QED
  BY <1>2, <1>3 DEF IInv

LEMMA Invariance == Spec => []IInv
<1>1. IInv /\ [Next]_vars => IInv'
  <2> SUFFICES ASSUME IInv, [Next]_vars PROVE IInv'
    OBVIOUS
  <2>1. CASE UNCHANGED vars
    BY <2>1
       DEF vars, IInv, Types, WaitsForValue, FieldsAsSaid, Checked, HasAll, NoPanic,
           OpenedFields
  <2> QED
    BY <2>1, TakeFlagStep, TakeValueStep, RefuseWordStep, EndLineStep, DispatchStep,
       OpenPortStep, OpenFailsStep
       DEF Next
<1> QED
  BY InitIInv, <1>1, PTL DEF Spec

-----------------------------------------------------------------------------
(* The type invariant, for command lines of any length. *)
THEOREM TypeCorrect == Spec => []TypeOK
<1>1. IInv => TypeOK
  BY DEF IInv, Types, TypeOK
<1> QED
  BY <1>1, Invariance, PTL

(* NoPanic, for every command line: main's expects never fail. *)
THEOREM MainNeverPanics == Spec => []NoPanic
<1>1. IInv => NoPanic
  BY DEF IInv
<1> QED
  BY <1>1, Invariance, PTL

(* AcceptedLinesPairUp, for every command line: a line from which any one   *)
(* word got lost is refused.                                                *)
THEOREM LostWordIsNoticed == Spec => []AcceptedLinesPairUp
<1>1. IInv => AcceptedLinesPairUp
  BY DEF IInv, Checked, Accepted, AcceptedLinesPairUp
<1> QED
  BY <1>1, Invariance, PTL

(* OpensWhatTheLineSays, for every command line.                            *)
THEOREM OpensAsSaid == Spec => []OpensWhatTheLineSays
<1>1. IInv => OpensWhatTheLineSays
  <2> SUFFICES ASSUME IInv, opened # <<>> PROVE OpensWhatTheLineSays
    BY DEF OpensWhatTheLineSays
  <2> DEFINE mode == args["--mode"]
  <2>1. /\ mode \in Modes /\ stage \in {"opening", "running"}
        /\ HasAll(Required(mode)) /\ \A f \in Flags : Says(line, f, args[f])
    BY DEF IInv, Types, OpenedFields, Checked, Accepted, FieldsAsSaid
  <2>2. DOMAIN opened = 1 .. Len(opened) /\ Len(opened) \in Nat
        /\ Len(opened) <= Len(Ports(mode)) /\ Len(Ports(mode)) \in 1 .. 2
    BY <2>1, LenProperties, PortsShape DEF IInv, Types
  <2>3. ASSUME NEW i \in DOMAIN opened
        PROVE  /\ Says(line, Ports(mode)[i], opened[i].name)
               /\ Says(line, "--baud", opened[i].baud)
               /\ opened[i].name # None
    <3>1. opened[i] = [name |-> args[Ports(mode)[i]], baud |-> args["--baud"]]
      BY DEF IInv, OpenedFields
    <3>2. Ports(mode)[i] \in Required(mode) /\ Ports(mode)[i] \in Flags
      BY <2>1, <2>2, PortsShape
    <3> QED
      BY <2>1, <3>1, <3>2 DEF HasAll, Flags
  <2>4. Says(line, "--mode", mode)
    BY <2>1 DEF Flags
  <2> QED
    BY <2>1, <2>3, <2>4 DEF OpensWhatTheLineSays
<1> QED
  BY <1>1, Invariance, PTL
===============================================================================
