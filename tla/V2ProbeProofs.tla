----------------------------- MODULE V2ProbeProofs -----------------------------
(***************************************************************************)
(* An answer is told apart by its place alone: why no answer of the probe  *)
(* is shown twice and none overtakes another, for any number of seeds,     *)
(* faults and restarts.                                                    *)
(***************************************************************************)
EXTENDS V2Probe, SerialLinksProofs

(* The frames of a line, leaving out its marks, were made of the seeds at  *)
(* ever later places of seeds, from the one behind lo up to hi.            *)
DrawnAt(place, line, seeds, lo, hi) ==
  \A i \in DOMAIN line : line[i] \notin Marks =>
    /\ place[i] \in lo + 1 .. hi
    /\ line[i].payload.of = seeds[place[i]]
    /\ \A j \in DOMAIN line : i < j /\ line[j] \notin Marks => place[i] < place[j]

Drawn(line, seeds, lo, hi) ==
  \E place : DrawnAt(place, line, seeds, lo, hi)

LEMMA DrawnFromNothing ==
  ASSUME NEW seeds, NEW lo \in Nat, NEW hi \in Nat
  PROVE  Drawn(<<>>, seeds, lo, hi)
<1>1. DrawnAt(<<>>, <<>>, seeds, lo, hi)
  BY DEF DrawnAt
<1> QED
  BY <1>1 DEF Drawn

LEMMA DrawnLater ==
  ASSUME NEW line, NEW seeds, NEW more, NEW lo \in Nat, NEW hi \in Nat,
         \A n \in 1 .. hi : more[n] = seeds[n],
         Drawn(line, seeds, lo, hi)
  PROVE  Drawn(line, more, lo, hi)
<1>1. PICK place : DrawnAt(place, line, seeds, lo, hi)
  BY DEF Drawn
<1>2. ASSUME NEW i \in DOMAIN line, line[i] \notin Marks
      PROVE  more[place[i]] = seeds[place[i]]
  <2>1. place[i] \in lo + 1 .. hi
    BY <1>1, <1>2 DEF DrawnAt
  <2> QED
    BY <2>1
<1>3. DrawnAt(place, line, more, lo, hi)
  BY <1>1, <1>2 DEF DrawnAt
<1> QED
  BY <1>3 DEF Drawn

LEMMA DrawnWider ==
  ASSUME NEW line, NEW seeds, NEW lo \in Nat, NEW hi \in Nat, NEW high \in Nat,
         hi <= high, Drawn(line, seeds, lo, hi)
  PROVE  Drawn(line, seeds, lo, high)
<1>1. PICK place : DrawnAt(place, line, seeds, lo, hi)
  BY DEF Drawn
<1>2. \A n \in lo + 1 .. hi : n \in lo + 1 .. high
  OBVIOUS
<1>3. DrawnAt(place, line, seeds, lo, high)
  BY <1>1, <1>2 DEF DrawnAt
<1> QED
  BY <1>3 DEF Drawn

(* Items that are dropped or damaged leave the others in their places. *)
LEMMA DrawnLeft ==
  ASSUME NEW S, Marks \subseteq S, NEW line \in Seq(S), NEW rest \in LeftOf(line),
         NEW seeds, NEW lo \in Nat, NEW hi \in Nat, Drawn(line, seeds, lo, hi)
  PROVE  Drawn(rest, seeds, lo, hi)
<1>1. PICK place : DrawnAt(place, line, seeds, lo, hi)
  BY DEF Drawn
<1>2. PICK k \in 0 .. Len(line) :
        /\ Len(rest) = Len(line) - k
        /\ \A i \in 1 .. Len(rest) : rest[i] = line[i + k] \/ (i = 1 /\ rest[i] \in Marks)
  BY LeftIsTail
<1>3. rest \in Seq(S)
  BY LeftIsTail
<1>4. /\ DOMAIN line = 1 .. Len(line) /\ DOMAIN rest = 1 .. Len(rest)
      /\ Len(line) \in Nat /\ Len(rest) \in Nat
  BY <1>3, LenProperties
<1> DEFINE later == [i \in Nat |-> place[i + k]]
<1> HIDE DEF later
<1>5. \A i \in Nat : later[i] = place[i + k]
  <2>1. k \in Nat
    BY <1>4
  <2> QED
    BY <2>1 DEF later
<1>6. ASSUME NEW i \in 1 .. Len(rest)
      PROVE  i \in Nat /\ i + k \in Nat /\ i + k \in 1 .. Len(line)
  <2>1. Len(rest) = Len(line) - k
    BY <1>2
  <2> QED
    BY <1>4, <2>1
<1>7. DrawnAt(later, rest, seeds, lo, hi)
  <2> SUFFICES ASSUME NEW i \in 1 .. Len(rest), rest[i] \notin Marks
               PROVE  /\ later[i] \in lo + 1 .. hi
                      /\ rest[i].payload.of = seeds[later[i]]
                      /\ \A j \in 1 .. Len(rest) :
                           i < j /\ rest[j] \notin Marks => later[i] < later[j]
    BY <1>4 DEF DrawnAt
  <2>1. rest[i] = line[i + k] /\ i + k \in 1 .. Len(line)
    BY <1>2, <1>6
  <2>2. /\ place[i + k] \in lo + 1 .. hi
        /\ line[i + k].payload.of = seeds[place[i + k]]
        /\ \A j \in 1 .. Len(line) : i + k < j /\ line[j] \notin Marks => place[i + k] < place[j]
    BY <1>1, <1>4, <2>1 DEF DrawnAt
  <2>3. ASSUME NEW j \in 1 .. Len(rest), i < j, rest[j] \notin Marks
        PROVE  later[i] < later[j]
    <3>1. rest[j] = line[j + k] /\ j + k \in 1 .. Len(line) /\ i + k < j + k
      BY <1>2, <1>4, <1>6, <2>3
    <3> QED
      BY <1>5, <1>6, <2>2, <2>3, <3>1
  <2> QED
    BY <1>5, <1>6, <2>1, <2>2, <2>3
<1> QED
  BY <1>7 DEF Drawn

LEMMA DrawnDamaged ==
  ASSUME NEW S, Marks \subseteq S, NEW line \in Seq(S), NEW after \in Damaged(line),
         NEW seeds, NEW lo \in Nat, NEW hi \in Nat, Drawn(line, seeds, lo, hi)
  PROVE  Drawn(after, seeds, lo, hi)
<1>1. PICK place : DrawnAt(place, line, seeds, lo, hi)
  BY DEF Drawn
<1>2. PICK i \in DOMAIN line, mark \in {Garbled, Partial} : after = [line EXCEPT ![i] = mark]
  BY DEF Damaged
<1>3. /\ DOMAIN after = DOMAIN line
      /\ \A j \in DOMAIN line : after[j] \notin Marks => after[j] = line[j]
  BY <1>2 DEF Marks
<1>4. DrawnAt(place, after, seeds, lo, hi)
  BY <1>1, <1>3 DEF DrawnAt
<1> QED
  BY <1>4 DEF Drawn

(* What is written takes a place behind all others, or none. *)
LEMMA DrawnTorn ==
  ASSUME NEW S, NEW line \in Seq(S), NEW seeds, NEW lo \in Nat, NEW hi \in Nat,
         Drawn(line, seeds, lo, hi)
  PROVE  Drawn(Append(line, Partial), seeds, lo, hi)
<1>1. PICK place : DrawnAt(place, line, seeds, lo, hi)
  BY DEF Drawn
<1> DEFINE after == Append(line, Partial)
<1>2. /\ Len(after) = Len(line) + 1 /\ after[Len(line) + 1] = Partial
      /\ \A i \in 1 .. Len(line) : after[i] = line[i]
  BY AppendedItem
<1>3. after \in Seq(S \cup {Partial}) /\ Len(line) \in Nat /\ DOMAIN line = 1 .. Len(line)
  <2>1. line \in Seq(S \cup {Partial})
    BY SeqMonotonic
  <2> QED
    BY <2>1, AppendProperties, LenProperties
<1> HIDE DEF after
<1>4. DOMAIN after = 1 .. Len(line) + 1
  BY <1>2, <1>3, LenProperties
<1>5. DrawnAt(place, after, seeds, lo, hi)
  <2>1. ASSUME NEW i \in 1 .. Len(line) + 1, after[i] \notin Marks
        PROVE  i \in 1 .. Len(line) /\ after[i] = line[i]
    <3>1. i # Len(line) + 1
      BY <1>2, <2>1 DEF Marks
    <3>2. i \in 1 .. Len(line)
      BY <1>3, <3>1
    <3> QED
      BY <1>2, <3>2
  <2> QED
    BY <1>1, <1>3, <1>4, <2>1 DEF DrawnAt
<1> QED
  BY <1>5 DEF Drawn, after

LEMMA DrawnWritten ==
  ASSUME NEW S, NEW line \in Seq(S), NEW seeds, NEW lo \in Nat, NEW hi \in Nat,
         Drawn(line, seeds, lo, hi),
         NEW n \in Nat, lo <= hi, hi < n, NEW f, f.payload.of = seeds[n]
  PROVE  Drawn(Append(line, f), seeds, lo, n)
<1>1. PICK place : DrawnAt(place, line, seeds, lo, hi)
  BY DEF Drawn
<1> DEFINE after == Append(line, f)
           longer == [i \in 1 .. Len(line) + 1 |-> IF i = Len(line) + 1 THEN n ELSE place[i]]
<1>2. /\ Len(after) = Len(line) + 1 /\ after[Len(line) + 1] = f
      /\ \A i \in 1 .. Len(line) : after[i] = line[i]
  BY AppendedItem
<1>3. after \in Seq(S \cup {f}) /\ Len(line) \in Nat /\ DOMAIN line = 1 .. Len(line)
  <2>1. line \in Seq(S \cup {f})
    BY SeqMonotonic
  <2> QED
    BY <2>1, AppendProperties, LenProperties
<1> HIDE DEF after, longer
<1>4. longer[Len(line) + 1] = n /\ \A i \in 1 .. Len(line) : longer[i] = place[i]
  <2>1. \A i \in 1 .. Len(line) : i # Len(line) + 1
    BY <1>3
  <2> QED
    BY <1>3, <2>1 DEF longer
<1>5. DOMAIN after = 1 .. Len(line) + 1
  BY <1>2, <1>3, LenProperties
<1>6. \A i \in 1 .. Len(line) : line[i] \notin Marks =>
        /\ place[i] \in lo + 1 .. hi /\ line[i].payload.of = seeds[place[i]]
        /\ \A j \in 1 .. Len(line) : i < j /\ line[j] \notin Marks => place[i] < place[j]
  BY <1>1, <1>3 DEF DrawnAt
<1>7. DrawnAt(longer, after, seeds, lo, n)
  <2> SUFFICES ASSUME NEW i \in 1 .. Len(line) + 1, after[i] \notin Marks
               PROVE  /\ longer[i] \in lo + 1 .. n
                      /\ after[i].payload.of = seeds[longer[i]]
                      /\ \A j \in 1 .. Len(line) + 1 :
                           i < j /\ after[j] \notin Marks => longer[i] < longer[j]
    BY <1>5 DEF DrawnAt
  <2>1. CASE i = Len(line) + 1
    <3>1. \A j \in 1 .. Len(line) + 1 : ~(i < j)
      BY <1>3, <2>1
    <3>2. longer[i] = n /\ after[i] = f
      BY <1>2, <1>4, <2>1
    <3>3. n \in lo + 1 .. n
      OBVIOUS
    <3> QED
      BY <3>1, <3>2, <3>3
  <2>2. CASE i \in 1 .. Len(line)
    <3>1. /\ place[i] \in lo + 1 .. hi /\ line[i].payload.of = seeds[place[i]]
          /\ \A j \in 1 .. Len(line) : i < j /\ line[j] \notin Marks => place[i] < place[j]
      BY <1>2, <1>6, <2>2
    <3>2. place[i] \in Int /\ place[i] < n
      BY <3>1
    <3>3. ASSUME NEW j \in 1 .. Len(line) + 1, i < j, after[j] \notin Marks
          PROVE  longer[i] < longer[j]
      <4>1. CASE j = Len(line) + 1
        <5>1. longer[j] = n /\ longer[i] = place[i]
          BY <1>4, <2>2, <4>1
        <5> QED
          BY <3>1, <3>2, <5>1
      <4>2. CASE j \in 1 .. Len(line)
        <5>1. longer[j] = place[j] /\ longer[i] = place[i] /\ line[j] = after[j]
          BY <1>2, <1>4, <2>2, <4>2
        <5> QED
          BY <3>1, <3>3, <4>2, <5>1
      <4>3. j = Len(line) + 1 \/ j \in 1 .. Len(line)
        BY <1>3
      <4> QED
        BY <4>1, <4>2, <4>3
    <3>4. longer[i] = place[i] /\ after[i] = line[i]
      BY <1>2, <1>4, <2>2
    <3>5. place[i] \in lo + 1 .. n
      BY <3>1, <3>2
    <3> QED
      BY <3>1, <3>3, <3>4, <3>5
  <2>3. i = Len(line) + 1 \/ i \in 1 .. Len(line)
    BY <1>3
  <2> QED
    BY <2>1, <2>2, <2>3
<1> QED
  BY <1>7 DEF Drawn, after

(* The frame at the head of a line comes before all that are behind it. *)
LEMMA DrawnHead ==
  ASSUME NEW S, NEW line \in Seq(S), line # <<>>, line[1] \notin Marks,
         NEW seeds, NEW lo \in Nat, NEW hi \in Nat, Drawn(line, seeds, lo, hi)
  PROVE  \E n \in lo + 1 .. hi :
           /\ Head(line).payload.of = seeds[n]
           /\ Drawn(Tail(line), seeds, n, hi)
<1>1. PICK place : DrawnAt(place, line, seeds, lo, hi)
  BY DEF Drawn
<1> DEFINE tail == Tail(line)
           later == [i \in Nat |-> place[i + 1]]
           n == place[1]
<1>2. /\ DOMAIN line = 1 .. Len(line) /\ Len(line) \in Nat \ {0} /\ Head(line) = line[1]
      /\ tail \in Seq(S) /\ Len(tail) = Len(line) - 1
      /\ \A i \in 1 .. Len(tail) : tail[i] = line[i + 1]
  BY LenProperties, EmptySeq, HeadTailProperties
<1> HIDE DEF tail
<1>3. DOMAIN tail = 1 .. Len(tail)
  BY <1>2, LenProperties
<1>4. \A i \in 1 .. Len(line) : line[i] \notin Marks =>
        /\ place[i] \in lo + 1 .. hi /\ line[i].payload.of = seeds[place[i]]
        /\ \A j \in 1 .. Len(line) : i < j /\ line[j] \notin Marks => place[i] < place[j]
  BY <1>1, <1>2 DEF DrawnAt
<1> HIDE DEF later, n
<1>5. n \in Nat /\ n \in lo + 1 .. hi /\ Head(line).payload.of = seeds[n]
  <2>1. 1 \in 1 .. Len(line)
    BY <1>2
  <2>2. n \in lo + 1 .. hi /\ line[1].payload.of = seeds[n]
    BY <1>4, <2>1 DEF n
  <2> QED
    BY <1>2, <2>2
<1>6. \A i \in Nat : later[i] = place[i + 1]
  BY DEF later
<1>7. DrawnAt(later, tail, seeds, n, hi)
  <2> SUFFICES ASSUME NEW i \in 1 .. Len(tail), tail[i] \notin Marks
               PROVE  /\ later[i] \in n + 1 .. hi
                      /\ tail[i].payload.of = seeds[later[i]]
                      /\ \A j \in 1 .. Len(tail) :
                           i < j /\ tail[j] \notin Marks => later[i] < later[j]
    BY <1>3 DEF DrawnAt
  <2>1. tail[i] = line[i + 1]
    BY <1>2
  <2>2. i \in Nat /\ i + 1 \in 1 .. Len(line) /\ 1 < i + 1 /\ 1 \in 1 .. Len(line)
    BY <1>2
  <2>3. /\ place[i + 1] \in lo + 1 .. hi /\ line[i + 1].payload.of = seeds[place[i + 1]]
        /\ \A j \in 1 .. Len(line) : i + 1 < j /\ line[j] \notin Marks => place[i + 1] < place[j]
    BY <1>4, <2>1, <2>2
  <2>4. n < place[i + 1]
    BY <1>4, <2>1, <2>2 DEF n
  <2>5. ASSUME NEW j \in 1 .. Len(tail), i < j, tail[j] \notin Marks
        PROVE  later[i] < later[j]
    <3>1. tail[j] = line[j + 1]
      BY <1>2
    <3>2. j \in Nat /\ j + 1 \in 1 .. Len(line) /\ i + 1 < j + 1
      BY <1>2, <2>5
    <3> QED
      BY <1>6, <2>2, <2>3, <2>5, <3>1, <3>2
  <2>6. place[i + 1] \in n + 1 .. hi
    BY <1>5, <2>3, <2>4
  <2> QED
    BY <1>6, <2>1, <2>2, <2>3, <2>5, <2>6
<1> QED
  BY <1>5, <1>7 DEF Drawn, tail

-----------------------------------------------------------------------------
(* The lines of the probe. *)

SeedItem   == Marks \cup {SeedFrame(s) : s \in Requests}
AnswerItem == Marks \cup {ShortIdFrame(s) : s \in Requests}
Ids        == {ShortId(s) : s \in Requests}

Typed ==
  /\ toHost \in [Board -> Seq(AnswerItem)]
  /\ toBoard \in [Board -> Seq(SeedItem)]
  /\ faults \in 0 .. MaxFaults
  /\ host \in {"start", "awaiting"} \cup HostEnded
  /\ seed \in Requests \cup {None}
  /\ device \in {"waiting"} \cup Returned
  /\ given \in Seq(Requests)
  /\ shown \in Seq(Ids)
  /\ restarts \in 0 .. MaxRestarts

(* Answers, as the frames in which they came. *)
FramesOf(answers) == [i \in DOMAIN answers |-> ShortIdFrame(answers[i].of)]

(* What was shown is of earlier seeds than the answers under way, and      *)
(* these are of earlier seeds than the seeds under way.                    *)
InOrder ==
  \E a, b \in 0 .. Len(given) :
    /\ a <= b
    /\ Drawn(FramesOf(shown), given, 0, a)
    /\ Drawn(toHost["device"], given, a, b)
    /\ Drawn(toBoard["device"], given, b, Len(given))

ProbeInv == Typed /\ InOrder

LEMMA ItemsTyped ==
  /\ Marks \subseteq SeedItem /\ Marks \subseteq AnswerItem
  /\ Partial \in Marks /\ "device" \in Board /\ Board = {"device"}
  /\ \A s \in Requests :
       /\ SeedFrame(s) \in SeedItem /\ SeedFrame(s).payload.of = s
       /\ ShortIdFrame(s) \in AnswerItem /\ ShortIdFrame(s).payload.of = s
BY ProbeLinkAssumption DEF SeedItem, AnswerItem, Marks, SeedFrame, ShortIdFrame, Body, ShortId

(* A whole frame on a line is a seed's, or the answer to one. *)
LEMMA FramesTyped ==
  /\ \A f \in SeedItem \cap WireFrame :
       /\ f \notin Marks /\ f.command = "OriginalPsbt"
       /\ f.payload.of \in Requests /\ f = SeedFrame(f.payload.of)
  /\ \A f \in AnswerItem \cap WireFrame :
       /\ f \notin Marks /\ f.command = "SignedPsbt"
       /\ f.payload.of \in Requests /\ f = ShortIdFrame(f.payload.of)
       /\ f.payload = ShortId(f.payload.of)
<1>1. \A f \in WireFrame : f \notin Marks
  BY DEF WireFrame, Marks, Garbled, Partial
<1>2. \A f \in SeedItem \cap WireFrame : \E s \in Requests : f = SeedFrame(s)
  BY <1>1 DEF SeedItem
<1>3. \A f \in AnswerItem \cap WireFrame : \E s \in Requests : f = ShortIdFrame(s)
  BY <1>1 DEF AnswerItem
<1> QED
  BY <1>1, <1>2, <1>3 DEF SeedFrame, ShortIdFrame, Body, ShortId

LEMMA AnswerFrames ==
  ASSUME NEW answers \in Seq(Ids)
  PROVE  /\ FramesOf(answers) \in Seq(AnswerItem)
         /\ Len(FramesOf(answers)) = Len(answers) /\ Len(answers) \in Nat
         /\ \A i \in 1 .. Len(answers) :
              /\ answers[i] \in Ids
              /\ FramesOf(answers)[i] = ShortIdFrame(answers[i].of)
              /\ FramesOf(answers)[i] \notin Marks
<1>1. /\ Len(answers) \in Nat /\ DOMAIN answers = 1 .. Len(answers)
      /\ \A i \in 1 .. Len(answers) : answers[i] \in Ids
  BY LenProperties, ElementOfSeq
<1>2. \A i \in 1 .. Len(answers) : answers[i].of \in Requests
  BY <1>1 DEF Ids, ShortId
<1>3. \A i \in 1 .. Len(answers) : ShortIdFrame(answers[i].of) \in AnswerItem
  BY <1>2, ItemsTyped
<1>4. FramesOf(answers) \in Seq(AnswerItem) /\ Len(FramesOf(answers)) = Len(answers)
  BY <1>1, <1>3 DEF FramesOf
<1>5. \A s : ShortIdFrame(s) \notin Marks
  BY DEF ShortIdFrame, Marks, Garbled, Partial
<1> QED
  BY <1>1, <1>4, <1>5 DEF FramesOf

(* What is left of a line to which no frame is added. *)
NoMoreThan(line) ==
  LeftOf(line) \cup Damaged(line) \cup {line, Append(line, Partial)}

LEMMA DrawnNoMore ==
  ASSUME NEW S, Marks \subseteq S, NEW line \in Seq(S), NEW after \in NoMoreThan(line),
         NEW seeds, NEW lo \in Nat, NEW hi \in Nat, Drawn(line, seeds, lo, hi)
  PROVE  Drawn(after, seeds, lo, hi)
<1>1. CASE after \in LeftOf(line)
  BY <1>1, DrawnLeft
<1>2. CASE after \in Damaged(line)
  BY <1>2, DrawnDamaged
<1>3. CASE after = line
  BY <1>3
<1>4. CASE after = Append(line, Partial)
  BY <1>4, DrawnTorn
<1> QED
  BY <1>1, <1>2, <1>3, <1>4 DEF NoMoreThan

(* Steps that add no seed and no answer keep the order, whatever they drop *)
(* of a line, damage on it or tear.                                        *)
LEMMA LossesKeepOrder ==
  ASSUME ProbeInv, UNCHANGED <<given, shown>>,
         toHost'["device"] \in NoMoreThan(toHost["device"]),
         toBoard'["device"] \in NoMoreThan(toBoard["device"])
  PROVE  InOrder'
<1>1. PICK a \in 0 .. Len(given), b \in 0 .. Len(given) :
        /\ a <= b
        /\ Drawn(FramesOf(shown), given, 0, a)
        /\ Drawn(toHost["device"], given, a, b)
        /\ Drawn(toBoard["device"], given, b, Len(given))
  BY DEF ProbeInv, InOrder
<1>2. a \in Nat /\ b \in Nat /\ Len(given) \in Nat
  BY LenProperties DEF ProbeInv, Typed
<1>3. toHost["device"] \in Seq(AnswerItem) /\ toBoard["device"] \in Seq(SeedItem)
  BY ItemsTyped DEF ProbeInv, Typed
<1>4. Drawn(toHost'["device"], given, a, b)
  BY <1>1, <1>2, <1>3, ItemsTyped, DrawnNoMore
<1>5. Drawn(toBoard'["device"], given, b, Len(given))
  BY <1>1, <1>2, <1>3, ItemsTyped, DrawnNoMore
<1> QED
  BY <1>1, <1>4, <1>5 DEF InOrder

-----------------------------------------------------------------------------
(* The host. *)

LEMMA SendSeedKeeps ==
  ASSUME ProbeInv, NEW s \in Requests, SendSeed(s), UNCHANGED <<device, restarts>>
  PROVE  ProbeInv'
<1> DEFINE last == Len(given) + 1
<1>1. /\ toHost \in [Board -> Seq(AnswerItem)] /\ toBoard \in [Board -> Seq(SeedItem)]
      /\ given \in Seq(Requests) /\ SeedFrame(s) \in SeedItem /\ Marks \subseteq SeedItem
  BY ItemsTyped DEF ProbeInv, Typed
<1>2. /\ given' = Append(given, s) /\ shown' = shown /\ toHost' = toHost
      /\ toBoard' \in FailedOnto(toBoard, "device", SeedFrame(s))
      /\ faults' \in 0 .. MaxFaults /\ host' \in {"awaiting", "WriteFailed"} /\ seed' = s
  BY MaxFaultsAssumption DEF SendSeed, FailedOnto, Fault, ProbeInv, Typed
<1>3. toBoard' \in [Board -> Seq(SeedItem)] /\ given' \in Seq(Requests)
  BY <1>1, <1>2, FailedOntoLines, ItemsTyped, AppendProperties
<1>4. Typed'
  BY <1>2, <1>3 DEF ProbeInv, Typed, HostEnded, HostErrors
<1>5. /\ Len(given) \in Nat /\ Len(given') = last /\ given'[last] = s
      /\ \A n \in 1 .. Len(given) : given'[n] = given[n]
  BY <1>1, <1>2, AppendedItem, LenProperties
<1>6. PICK a \in 0 .. Len(given), b \in 0 .. Len(given) :
        /\ a <= b
        /\ Drawn(FramesOf(shown), given, 0, a)
        /\ Drawn(toHost["device"], given, a, b)
        /\ Drawn(toBoard["device"], given, b, Len(given))
  BY DEF ProbeInv, InOrder
<1>7. /\ a \in Nat /\ b \in Nat /\ a \in 0 .. last /\ b \in 0 .. last /\ last \in Nat
      /\ b <= Len(given) /\ Len(given) < last
      /\ \A n \in 1 .. a : given'[n] = given[n]
      /\ \A n \in 1 .. b : given'[n] = given[n]
  BY <1>5, <1>6
<1> HIDE DEF last
<1>8. Drawn(FramesOf(shown'), given', 0, a)
  BY <1>2, <1>6, <1>7, DrawnLater
<1>9. Drawn(toHost'["device"], given', a, b)
  BY <1>2, <1>6, <1>7, DrawnLater
<1>10. Drawn(toBoard'["device"], given', b, last)
  <2>1. toBoard["device"] \in Seq(SeedItem)
    BY <1>1, ItemsTyped
  <2>2. /\ Drawn(toBoard["device"], given', b, Len(given))
        /\ Drawn(toBoard["device"], given', b, last)
    BY <1>5, <1>6, <1>7, DrawnLater, DrawnWider
  <2>3. Drawn(Append(toBoard["device"], Partial), given', b, last)
    BY <1>7, <2>1, <2>2, DrawnTorn
  <2>4. SeedFrame(s).payload.of = given'[last]
    BY <1>5, ItemsTyped
  <2>5. Drawn(Append(toBoard["device"], SeedFrame(s)), given', b, last)
    BY <1>5, <1>7, <2>1, <2>2, <2>4, DrawnWritten
  <2>6. toBoard'["device"] \in {toBoard["device"], Append(toBoard["device"], Partial),
                                Append(toBoard["device"], SeedFrame(s))}
    BY <1>1, <1>2, ItemsTyped DEF FailedOnto, AddTo
  <2> QED
    BY <2>2, <2>3, <2>5, <2>6
<1> QED
  BY <1>4, <1>5, <1>6, <1>7, <1>8, <1>9, <1>10 DEF ProbeInv, InOrder

(* An answer that is shown moves from the line to the end of those shown.  *)
LEMMA TakeShortIdKeeps ==
  ASSUME ProbeInv, TakeShortId, UNCHANGED <<device, restarts>>
  PROVE  ProbeInv'
<1> DEFINE line == toHost["device"]
           f == Head(line)
<1>1. /\ toHost \in [Board -> Seq(AnswerItem)] /\ line \in Seq(AnswerItem)
      /\ line # <<>> /\ line[1] \in WireFrame /\ f = line[1]
      /\ toHost' = TakeFrom(toHost, "device")
      /\ UNCHANGED <<toBoard, faults, seed, given>>
  BY ItemsTyped DEF ProbeInv, Typed, TakeShortId, HasFrame
<1>2. f \in AnswerItem \cap WireFrame
  BY <1>1, ItemsTyped, TakeFromLines
<1>3. /\ f \notin Marks /\ f.command = "SignedPsbt" /\ f.payload.of \in Requests
      /\ f = ShortIdFrame(f.payload.of) /\ f.payload = ShortId(f.payload.of)
  BY <1>2, FramesTyped
<1>4. shown' = Append(shown, f.payload) /\ host' = "done"
  BY <1>3 DEF TakeShortId
<1>5. toHost'["device"] = Tail(line) /\ toHost' \in [Board -> Seq(AnswerItem)]
  BY <1>1, ItemsTyped, TakeFromLines DEF TakeFrom
<1>6. f.payload \in Ids /\ shown' \in Seq(Ids)
  <2>1. f.payload \in Ids
    BY <1>3 DEF Ids
  <2> QED
    BY <1>4, <2>1, AppendProperties DEF ProbeInv, Typed
<1>7. Typed'
  BY <1>1, <1>4, <1>5, <1>6 DEF ProbeInv, Typed, HostEnded
<1>8. PICK a \in 0 .. Len(given), b \in 0 .. Len(given) :
        /\ a <= b
        /\ Drawn(FramesOf(shown), given, 0, a)
        /\ Drawn(line, given, a, b)
        /\ Drawn(toBoard["device"], given, b, Len(given))
  BY DEF ProbeInv, InOrder
<1>9. a \in Nat /\ b \in Nat /\ Len(given) \in Nat
  BY LenProperties DEF ProbeInv, Typed
<1> HIDE DEF f, line
<1>10. PICK n \in a + 1 .. b : f.payload.of = given[n] /\ Drawn(Tail(line), given, n, b)
  BY <1>1, <1>3, <1>8, <1>9, DrawnHead DEF f
<1>11. n \in Nat /\ a < n /\ n \in 0 .. Len(given) /\ n <= b
  BY <1>8, <1>9, <1>10
<1>12. FramesOf(shown') = Append(FramesOf(shown), f)
  <2> DEFINE longer == Append(FramesOf(shown), f)
  <2>1. /\ FramesOf(shown) \in Seq(AnswerItem) /\ Len(FramesOf(shown)) = Len(shown)
        /\ Len(shown) \in Nat
        /\ \A i \in 1 .. Len(shown) : FramesOf(shown)[i] = ShortIdFrame(shown[i].of)
    BY AnswerFrames DEF ProbeInv, Typed
  <2>2. /\ FramesOf(shown') \in Seq(AnswerItem) /\ Len(FramesOf(shown')) = Len(shown')
        /\ \A i \in 1 .. Len(shown') : FramesOf(shown')[i] = ShortIdFrame(shown'[i].of)
    BY <1>6, AnswerFrames
  <2>3. /\ Len(shown') = Len(shown) + 1 /\ shown'[Len(shown) + 1] = f.payload
        /\ \A i \in 1 .. Len(shown) : shown'[i] = shown[i]
    BY <1>4, AppendedItem DEF ProbeInv, Typed
  <2>4. /\ longer \in Seq(AnswerItem) /\ Len(longer) = Len(shown) + 1
        /\ longer[Len(shown) + 1] = f
        /\ \A i \in 1 .. Len(shown) : longer[i] = FramesOf(shown)[i]
    <3>1. longer \in Seq(AnswerItem)
      BY <1>2, <2>1, AppendProperties
    <3> QED
      BY <2>1, <3>1, AppendedItem
  <2> HIDE DEF longer
  <2>5. ASSUME NEW i \in 1 .. Len(shown) + 1 PROVE FramesOf(shown')[i] = longer[i]
    <3>1. CASE i = Len(shown) + 1
      BY <1>3, <2>1, <2>2, <2>3, <2>4, <3>1
    <3>2. CASE i \in 1 .. Len(shown)
      BY <2>1, <2>2, <2>3, <2>4, <3>2
    <3> QED
      BY <2>1, <3>1, <3>2
  <2>6. FramesOf(shown') = longer
    BY <2>2, <2>3, <2>4, <2>5, SeqEqual
  <2> QED
    BY <2>6 DEF longer
<1>13. Drawn(FramesOf(shown'), given, 0, n)
  <2>1. FramesOf(shown) \in Seq(AnswerItem)
    BY AnswerFrames DEF ProbeInv, Typed
  <2> QED
    BY <1>8, <1>9, <1>10, <1>11, <1>12, <2>1, DrawnWritten
<1> QED
  BY <1>1, <1>5, <1>7, <1>8, <1>10, <1>11, <1>13 DEF ProbeInv, InOrder

-----------------------------------------------------------------------------
(* The device. *)

(* A seed that is answered leaves its line, and the answer takes its place *)
(* behind all answers under way.                                           *)
LEMMA AnswerSeedKeeps ==
  ASSUME ProbeInv, AnswerSeed, UNCHANGED <<hostVars, restarts>>
  PROVE  ProbeInv'
<1> DEFINE line == toBoard["device"]
           f == Head(line)
           answer == ShortIdFrame(f.payload.of)
<1>1. /\ toHost \in [Board -> Seq(AnswerItem)] /\ toBoard \in [Board -> Seq(SeedItem)]
      /\ line \in Seq(SeedItem) /\ line # <<>> /\ line[1] \in WireFrame /\ f = line[1]
      /\ UNCHANGED <<host, seed, given, shown, restarts>>
  BY ItemsTyped DEF ProbeInv, Typed, AnswerSeed, HasFrame, hostVars
<1>2. f \in SeedItem \cap WireFrame /\ Tail(line) \in Seq(SeedItem)
  BY <1>1, HeadTailProperties
<1>3. f \notin Marks /\ f.command = "OriginalPsbt" /\ f.payload.of \in Requests
  BY <1>2, FramesTyped
<1>4. answer \in AnswerItem /\ answer.payload.of = f.payload.of
  BY <1>3, ItemsTyped
<1>5. PICK rest \in LeftOf(Tail(line)) : toBoard' = [toBoard EXCEPT !["device"] = rest]
  BY DEF AnswerSeed, ReadFrom
<1>6. toBoard' \in [Board -> Seq(SeedItem)] /\ toBoard'["device"] = rest
  BY <1>1, <1>2, <1>5, ItemsTyped, LeftOnLines
<1>7. /\ toHost' \in FailedOnto(toHost, "device", answer)
      /\ device' \in {"Ok", "Transport"} /\ faults' \in 0 .. MaxFaults
  BY <1>3, MaxFaultsAssumption DEF AnswerSeed, FailedOnto, Fault, ProbeInv, Typed
<1> HIDE DEF f, line, answer
<1>8. toHost' \in [Board -> Seq(AnswerItem)]
  BY <1>1, <1>4, <1>7, ItemsTyped, FailedOntoLines
<1>9. Typed'
  BY <1>1, <1>6, <1>7, <1>8 DEF ProbeInv, Typed, Returned, HarnessErrors
<1>10. PICK a \in 0 .. Len(given), b \in 0 .. Len(given) :
         /\ a <= b
         /\ Drawn(FramesOf(shown), given, 0, a)
         /\ Drawn(toHost["device"], given, a, b)
         /\ Drawn(line, given, b, Len(given))
  BY DEF ProbeInv, InOrder, line
<1>11. a \in Nat /\ b \in Nat /\ Len(given) \in Nat /\ toHost["device"] \in Seq(AnswerItem)
  BY <1>1, ItemsTyped, LenProperties DEF ProbeInv, Typed
<1>12. PICK n \in b + 1 .. Len(given) :
         f.payload.of = given[n] /\ Drawn(Tail(line), given, n, Len(given))
  BY <1>1, <1>3, <1>10, <1>11, DrawnHead DEF f
<1>13. n \in Nat /\ b < n /\ b <= n /\ a <= n /\ n \in 0 .. Len(given)
  BY <1>10, <1>11, <1>12
<1>14. Drawn(toBoard'["device"], given, n, Len(given))
  BY <1>2, <1>6, <1>11, <1>12, <1>13, ItemsTyped, DrawnLeft
<1>15. Drawn(toHost'["device"], given, a, n)
  <2>1. Drawn(toHost["device"], given, a, n)
    BY <1>10, <1>11, <1>13, DrawnWider
  <2>2. Drawn(Append(toHost["device"], Partial), given, a, n)
    BY <1>11, <1>13, <2>1, DrawnTorn
  <2>3. Drawn(Append(toHost["device"], answer), given, a, n)
    BY <1>4, <1>10, <1>11, <1>12, <1>13, DrawnWritten
  <2>4. toHost'["device"] \in {toHost["device"], Append(toHost["device"], Partial),
                               Append(toHost["device"], answer)}
    BY <1>1, <1>7, ItemsTyped DEF FailedOnto, AddTo
  <2> QED
    BY <2>1, <2>2, <2>3, <2>4
<1> QED
  BY <1>1, <1>9, <1>10, <1>13, <1>14, <1>15 DEF ProbeInv, InOrder

-----------------------------------------------------------------------------
(* What is left of the lines when something fails, or is started again. *)

LEMMA DeviceFailsKeeps ==
  ASSUME ProbeInv, DeviceFails, UNCHANGED <<hostVars, restarts>>
  PROVE  ProbeInv'
<1>1. /\ toHost' = toHost /\ faults' \in 0 .. MaxFaults /\ device' \in {"Framing", "Transport"}
      /\ UNCHANGED <<host, seed, given, shown, restarts>>
  BY MaxFaultsAssumption DEF DeviceFails, Fault, hostVars, ProbeInv, Typed
<1>2. PICK rest \in LeftOf(toBoard["device"]) :
        toBoard' = [toBoard EXCEPT !["device"] = rest]
  BY DEF DeviceFails
<1>3. toBoard' \in [Board -> Seq(SeedItem)] /\ toBoard'["device"] = rest
  BY <1>2, ItemsTyped, LeftOnLines DEF ProbeInv, Typed
<1>4. InOrder'
  BY <1>1, <1>2, <1>3, LossesKeepOrder DEF NoMoreThan
<1> QED
  BY <1>1, <1>3, <1>4 DEF ProbeInv, Typed, Returned, HarnessErrors

LEMMA LineStepKeeps ==
  ASSUME ProbeInv, LineStep
  PROVE  ProbeInv'
<1>1. UNCHANGED <<host, seed, given, shown, device, restarts>>
  BY DEF LineStep, hostVars
<1>2. \/ DamageToHost("device") \/ DamageToBoard("device")
      \/ LoseToHost("device") \/ LoseToBoard("device")
  BY ItemsTyped DEF LineStep
<1>3. /\ toHost \in [Board -> Seq(AnswerItem)] /\ toBoard \in [Board -> Seq(SeedItem)]
      /\ toHost["device"] \in Seq(AnswerItem) /\ toBoard["device"] \in Seq(SeedItem)
      /\ "device" \in Board
  BY ItemsTyped DEF ProbeInv, Typed
<1>4. faults' \in 0 .. MaxFaults
  BY <1>2, MaxFaultsAssumption
     DEF DamageToHost, DamageToBoard, LoseToHost, LoseToBoard, Fault, ProbeInv, Typed
<1>5. /\ toHost' \in [Board -> Seq(AnswerItem)]
      /\ toHost'["device"] \in NoMoreThan(toHost["device"])
  <2>1. CASE DamageToHost("device")
    <3>1. PICK line \in Damaged(toHost["device"]) : toHost' = [toHost EXCEPT !["device"] = line]
      BY <2>1 DEF DamageToHost
    <3> QED
      BY <1>3, <3>1, ItemsTyped, DamagedLines DEF NoMoreThan
  <2>2. CASE LoseToHost("device")
    <3>1. toHost["device"] # <<>> /\ toHost' = TakeFrom(toHost, "device")
      BY <2>2 DEF LoseToHost
    <3>2. toHost'["device"] = Tail(toHost["device"])
      BY <1>3, <3>1 DEF TakeFrom
    <3> QED
      BY <1>3, <3>1, <3>2, TakeFromLines, TailIsLeft DEF NoMoreThan
  <2>3. CASE toHost' = toHost
    BY <1>3, <2>3 DEF NoMoreThan
  <2> QED
    BY <1>2, <2>1, <2>2, <2>3 DEF DamageToBoard, LoseToBoard
<1>6. /\ toBoard' \in [Board -> Seq(SeedItem)]
      /\ toBoard'["device"] \in NoMoreThan(toBoard["device"])
  <2>1. CASE DamageToBoard("device")
    <3>1. PICK line \in Damaged(toBoard["device"]) :
            toBoard' = [toBoard EXCEPT !["device"] = line]
      BY <2>1 DEF DamageToBoard
    <3> QED
      BY <1>3, <3>1, ItemsTyped, DamagedLines DEF NoMoreThan
  <2>2. CASE LoseToBoard("device")
    <3>1. toBoard["device"] # <<>> /\ toBoard' = TakeFrom(toBoard, "device")
      BY <2>2 DEF LoseToBoard
    <3>2. toBoard'["device"] = Tail(toBoard["device"])
      BY <1>3, <3>1 DEF TakeFrom
    <3> QED
      BY <1>3, <3>1, <3>2, TakeFromLines, TailIsLeft DEF NoMoreThan
  <2>3. CASE toBoard' = toBoard
    BY <1>3, <2>3 DEF NoMoreThan
  <2> QED
    BY <1>2, <2>1, <2>2, <2>3 DEF DamageToHost, LoseToHost
<1>7. InOrder'
  BY <1>1, <1>5, <1>6, LossesKeepOrder
<1> QED
  BY <1>1, <1>4, <1>5, <1>6, <1>7 DEF ProbeInv, Typed

LEMMA RestartKeeps ==
  ASSUME ProbeInv, Restart
  PROVE  ProbeInv'
<1>1. /\ toHost \in [Board -> Seq(AnswerItem)] /\ toBoard \in [Board -> Seq(SeedItem)]
      /\ toHost["device"] \in Seq(AnswerItem) /\ toBoard["device"] \in Seq(SeedItem)
      /\ "device" \in Board
  BY ItemsTyped DEF ProbeInv, Typed
<1>2. restarts' \in 0 .. MaxRestarts
  BY ProbeAssumption DEF Restart, ProbeInv, Typed
<1>3. CASE RerunHost
  <2>1. /\ UNCHANGED <<faults, given, shown, device>> /\ host' = "start" /\ seed' = None
        /\ toBoard' \in StoppedOnto(toBoard, "device", host = "start")
    BY <1>3 DEF RerunHost
  <2>2. PICK rest \in LeftOf(toHost["device"]) : toHost' = [toHost EXCEPT !["device"] = rest]
    BY <1>3 DEF RerunHost
  <2>3. toHost' \in [Board -> Seq(AnswerItem)] /\ toHost'["device"] = rest
    BY <1>1, <2>2, ItemsTyped, LeftOnLines
  <2>4. toBoard' \in [Board -> Seq(SeedItem)]
    BY <1>1, <2>1, ItemsTyped, StoppedOntoLines
  <2>5. toBoard'["device"] \in NoMoreThan(toBoard["device"])
    BY <1>1, <2>1 DEF StoppedOnto, AddTo, NoMoreThan
  <2>6. InOrder'
    BY <2>1, <2>2, <2>3, <2>5, LossesKeepOrder DEF NoMoreThan
  <2> QED
    BY <1>2, <2>1, <2>3, <2>4, <2>6 DEF ProbeInv, Typed
<1>4. CASE ResetDevice
  <2>1. /\ UNCHANGED <<faults, host, seed, given, shown>> /\ device' = "waiting"
        /\ toHost' \in StoppedOnto(toHost, "device", Busy) /\ Busy \in BOOLEAN
    BY <1>4 DEF ResetDevice, hostVars, Busy, HasFrame
  <2>2. PICK rest \in LeftOf(toBoard["device"]) :
          toBoard' = [toBoard EXCEPT !["device"] = rest]
    BY <1>4 DEF ResetDevice
  <2>3. toBoard' \in [Board -> Seq(SeedItem)] /\ toBoard'["device"] = rest
    BY <1>1, <2>2, ItemsTyped, LeftOnLines
  <2>4. toHost' \in [Board -> Seq(AnswerItem)]
    BY <1>1, <2>1, ItemsTyped, StoppedOntoLines
  <2>5. toHost'["device"] \in NoMoreThan(toHost["device"])
    BY <1>1, <2>1 DEF StoppedOnto, AddTo, NoMoreThan
  <2>6. InOrder'
    BY <2>1, <2>2, <2>3, <2>5, LossesKeepOrder DEF NoMoreThan
  <2> QED
    BY <1>2, <2>1, <2>3, <2>4, <2>6 DEF ProbeInv, Typed
<1> QED
  BY <1>3, <1>4 DEF Restart

(* The host's other steps leave lines and histories alone. *)
LEMMA ProbeInvStutters ==
  ASSUME ProbeInv, UNCHANGED <<linkVars, given, shown>>,
         host' \in {"start", "awaiting"} \cup HostEnded, seed' \in Requests \cup {None},
         device' = device, restarts' = restarts
  PROVE  ProbeInv'
<1>1. InOrder'
  BY LossesKeepOrder DEF NoMoreThan, linkVars
<1> QED
  BY <1>1 DEF ProbeInv, Typed, linkVars

-----------------------------------------------------------------------------
LEMMA ProbeInvInitially ==
  ASSUME Init
  PROVE  ProbeInv
<1>1. /\ toHost["device"] = <<>> /\ toBoard["device"] = <<>> /\ given = <<>> /\ shown = <<>>
      /\ host = "start" /\ seed = None /\ device = "waiting" /\ restarts = 0 /\ faults = 0
  BY ItemsTyped DEF Init, LinksInit
<1>2. \A S : <<>> \in Seq(S)
  BY EmptySeq
<1>3. toHost \in [Board -> Seq(AnswerItem)] /\ toBoard \in [Board -> Seq(SeedItem)]
  BY <1>2 DEF Init, LinksInit
<1>4. Typed
  BY <1>1, <1>2, <1>3, MaxFaultsAssumption, ProbeAssumption DEF Typed, Init
<1>5. FramesOf(shown) = <<>>
  <2>1. FramesOf(<<>>) \in Seq(AnswerItem) /\ Len(FramesOf(<<>>)) = 0
    BY <1>2, AnswerFrames, EmptySeq
  <2> QED
    BY <1>1, <2>1, EmptySeq
<1>6. Len(given) = 0 /\ 0 \in 0 .. Len(given) /\ 0 <= 0 /\ Drawn(<<>>, given, 0, 0)
  BY <1>1, EmptySeq, DrawnFromNothing
<1> QED
  BY <1>1, <1>4, <1>5, <1>6 DEF ProbeInv, InOrder

LEMMA ProbeInvKept ==
  ASSUME ProbeInv, [Next]_vars
  PROVE  ProbeInv'
<1>1. CASE HostStep
  <2>1. ASSUME NEW s \in Requests, SendSeed(s) PROVE ProbeInv'
    BY <1>1, <2>1, SendSeedKeeps DEF HostStep
  <2>2. ASSUME NEW s \in Requests, RefuseSeed(s) PROVE ProbeInv'
    BY <1>1, <2>2, ProbeInvStutters DEF HostStep, RefuseSeed, HostEnded, HostErrors
  <2>3. CASE TakeShortId
    BY <1>1, <2>3, TakeShortIdKeeps DEF HostStep
  <2>4. CASE ProbeFramingError \/ ProbeReadFails
    <3>1. /\ UNCHANGED <<linkVars, seed, given, shown, device, restarts>>
          /\ host' \in {"Framing", "ReadFailed"}
      BY <1>1, <2>4 DEF HostStep, ProbeFramingError, ProbeReadFails
    <3> QED
      BY <3>1, ProbeInvStutters DEF HostEnded, HostErrors, ProbeInv, Typed
  <2> QED
    BY <1>1, <2>1, <2>2, <2>3, <2>4 DEF HostStep, ProbeRuns
<1>2. CASE DeviceStep
  BY <1>2, AnswerSeedKeeps, DeviceFailsKeeps DEF DeviceStep
<1>3. CASE LineStep
  BY <1>3, LineStepKeeps
<1>4. CASE Restart
  BY <1>4, RestartKeeps
<1>5. CASE UNCHANGED vars
  BY <1>5, ProbeInvStutters DEF vars, hostVars, ProbeInv, Typed
<1> QED
  BY <1>1, <1>2, <1>3, <1>4, <1>5 DEF Next

THEOREM ProbeInvariance == Spec => []ProbeInv
BY ProbeInvInitially, ProbeInvKept, PTL DEF Spec

(* TypeOK of the probe. *)
THEOREM ProbeTypeCorrect == Spec => []TypeOK
<1>1. SeedItem \subseteq Item /\ AnswerItem \subseteq Item /\ Ids \subseteq AnswerPayload
  BY DEF SeedItem, AnswerItem, Ids, Marks, Item, WireFrame, SeedFrame, ShortIdFrame, Body,
         ShortId, RequestPayload, AnswerPayload
<1>2. ProbeInv => TypeOK
  <2> SUFFICES ASSUME ProbeInv PROVE TypeOK
    OBVIOUS
  <2>1. /\ \A line \in Seq(SeedItem) : line \in Seq(Item)
        /\ \A line \in Seq(AnswerItem) : line \in Seq(Item)
        /\ \A answers \in Seq(Ids) : answers \in Seq(AnswerPayload)
    BY <1>1, SeqMonotonic
  <2>2. toHost \in [Board -> Seq(Item)] /\ toBoard \in [Board -> Seq(Item)]
    BY <2>1 DEF ProbeInv, Typed
  <2> QED
    BY <2>1, <2>2 DEF ProbeInv, Typed, TypeOK, LinksTypeOK
<1> QED
  BY <1>2, ProbeInvariance, PTL

-----------------------------------------------------------------------------
(* The refinement. *)

AnswersOf(seeds) == [i \in DOMAIN seeds |-> ShortId(seeds[i])]

LEMMA AnswersOfSeeds ==
  ASSUME NEW seeds \in Seq(Requests)
  PROVE  /\ AnswersOf(seeds) \in Seq(Ids) /\ Len(AnswersOf(seeds)) = Len(seeds)
         /\ Len(seeds) \in Nat /\ DOMAIN AnswersOf(seeds) = 1 .. Len(seeds)
         /\ \A i \in 1 .. Len(seeds) :
              seeds[i] \in Requests /\ AnswersOf(seeds)[i] = ShortId(seeds[i])
<1>1. /\ Len(seeds) \in Nat /\ DOMAIN seeds = 1 .. Len(seeds)
      /\ \A i \in 1 .. Len(seeds) : seeds[i] \in Requests
  BY LenProperties, ElementOfSeq
<1>2. \A i \in 1 .. Len(seeds) : ShortId(seeds[i]) \in Ids
  BY <1>1 DEF Ids
<1>3. AnswersOf(seeds) \in Seq(Ids) /\ Len(AnswersOf(seeds)) = Len(seeds)
  BY <1>1, <1>2 DEF AnswersOf
<1> QED
  BY <1>1, <1>3 DEF AnswersOf

LEMMA AnswersOfOneMore ==
  ASSUME NEW seeds \in Seq(Requests), NEW s \in Requests
  PROVE  AnswersOf(Append(seeds, s)) = Append(AnswersOf(seeds), ShortId(s))
<1> DEFINE more == Append(seeds, s)
           longer == Append(AnswersOf(seeds), ShortId(s))
<1>1. /\ more \in Seq(Requests) /\ Len(more) = Len(seeds) + 1 /\ more[Len(seeds) + 1] = s
      /\ \A i \in 1 .. Len(seeds) : more[i] = seeds[i]
  BY AppendProperties, AppendedItem
<1>2. ShortId(s) \in Ids
  BY DEF Ids
<1>3. /\ longer \in Seq(Ids) /\ Len(longer) = Len(seeds) + 1
      /\ longer[Len(seeds) + 1] = ShortId(s)
      /\ \A i \in 1 .. Len(seeds) : longer[i] = AnswersOf(seeds)[i]
  <2>1. AnswersOf(seeds) \in Seq(Ids) /\ Len(AnswersOf(seeds)) = Len(seeds)
    BY AnswersOfSeeds
  <2> QED
    BY <1>2, <2>1, AppendProperties, AppendedItem
<1> HIDE DEF more, longer
<1>4. /\ AnswersOf(more) \in Seq(Ids) /\ Len(AnswersOf(more)) = Len(seeds) + 1
      /\ \A i \in 1 .. Len(seeds) + 1 : AnswersOf(more)[i] = ShortId(more[i])
  BY <1>1, AnswersOfSeeds
<1>5. ASSUME NEW i \in 1 .. Len(seeds) + 1 PROVE AnswersOf(more)[i] = longer[i]
  <2>1. CASE i = Len(seeds) + 1
    BY <1>1, <1>3, <1>4, <2>1
  <2>2. CASE i \in 1 .. Len(seeds)
    BY <1>1, <1>3, <1>4, <2>2, AnswersOfSeeds
  <2> QED
    BY <2>1, <2>2, AnswersOfSeeds
<1>6. AnswersOf(more) = longer
  BY <1>3, <1>4, <1>5, SeqEqual
<1> QED
  BY <1>6 DEF more, longer

LEMMA ShownIsDrawn ==
  ASSUME NEW answers \in Seq(Ids), NEW seeds \in Seq(Requests), NEW a \in 0 .. Len(seeds),
         Drawn(FramesOf(answers), seeds, 0, a)
  PROVE  Answers!DrawnFrom(answers, AnswersOf(seeds))
<1>1. PICK place : DrawnAt(place, FramesOf(answers), seeds, 0, a)
  BY DEF Drawn
<1>2. /\ DOMAIN FramesOf(answers) = DOMAIN answers /\ DOMAIN answers = 1 .. Len(answers)
      /\ \A i \in DOMAIN answers :
           /\ answers[i] \in Ids /\ FramesOf(answers)[i] \notin Marks
           /\ FramesOf(answers)[i].payload = ShortId(answers[i].of)
  BY AnswerFrames, LenProperties DEF FramesOf, ShortIdFrame
<1>3. /\ DOMAIN AnswersOf(seeds) = 1 .. Len(seeds) /\ Len(seeds) \in Nat
      /\ \A n \in 1 .. Len(seeds) : AnswersOf(seeds)[n] = ShortId(seeds[n])
  BY AnswersOfSeeds
<1>4. ASSUME NEW i \in DOMAIN answers
      PROVE  /\ place[i] \in DOMAIN AnswersOf(seeds)
             /\ answers[i] = AnswersOf(seeds)[place[i]]
             /\ \A j \in DOMAIN answers : i < j => place[i] < place[j]
  <2>1. /\ place[i] \in 0 + 1 .. a
        /\ FramesOf(answers)[i].payload.of = seeds[place[i]]
        /\ \A j \in DOMAIN answers : i < j => place[i] < place[j]
    BY <1>1, <1>2 DEF DrawnAt
  <2>2. place[i] \in 1 .. Len(seeds)
    BY <1>3, <2>1
  <2>3. answers[i] = ShortId(seeds[place[i]])
    BY <1>2, <2>1 DEF Ids, ShortId
  <2> QED
    BY <1>3, <2>1, <2>2, <2>3
<1> DEFINE chosen == [i \in DOMAIN answers |-> place[i]]
<1>5. chosen \in [DOMAIN answers -> DOMAIN AnswersOf(seeds)]
  BY <1>4
<1>6. /\ \A i, j \in DOMAIN answers : i < j => chosen[i] < chosen[j]
      /\ \A i \in DOMAIN answers : answers[i] = AnswersOf(seeds)[chosen[i]]
  BY <1>4
<1> HIDE DEF chosen
<1> QED
  BY <1>5, <1>6 DEF Answers!DrawnFrom

(* AnswersInOrder: for any number of seeds, faults and restarts, the       *)
(* ShortIds that runs of the host's run_v2_probe return are those of the   *)
(* seeds handed to the port, in their order and each at most once.         *)
THEOREM ProbeAnswersInOrder == Spec => AnswersInOrder
<1>1. Init => Answers!Init
  <2> SUFFICES ASSUME Init PROVE Answers!Init
    OBVIOUS
  <2>1. given = <<>> /\ shown = <<>>
    BY DEF Init
  <2>2. AnswersOf(given) \in Seq(Ids) /\ Len(AnswersOf(given)) = 0
    BY <2>1, EmptySeq, AnswersOfSeeds
  <2>3. AnswersOf(given) = <<>>
    BY <2>2, EmptySeq
  <2> QED
    BY <2>1, <2>3 DEF Answers!Init, AnswersOf
<1>2. ProbeInv /\ ProbeInv' /\ [Next]_vars =>
        [Answers!Next]_<<[i \in DOMAIN given |-> ShortId(given[i])], shown, FALSE>>
  <2> SUFFICES ASSUME ProbeInv, ProbeInv', [Next]_vars
               PROVE  \/ Answers!Next
                      \/ AnswersOf(given') = AnswersOf(given) /\ shown' = shown
    BY DEF AnswersOf
  <2>1. ASSUME NEW s \in Requests, SendSeed(s) PROVE Answers!Send
    <3>1. given' = Append(given, s) /\ shown' = shown /\ given \in Seq(Requests)
      BY <2>1 DEF SendSeed, ProbeInv, Typed
    <3>2. AnswersOf(given') = Append(AnswersOf(given), ShortId(s))
      BY <3>1, AnswersOfOneMore
    <3> QED
      BY <3>1, <3>2 DEF Answers!Send, AnswersOf
  <2>2. ASSUME TakeShortId PROVE Answers!Deliver \/ UNCHANGED <<given, shown>>
    <3>1. CASE UNCHANGED shown
      BY <2>2, <3>1 DEF TakeShortId
    <3>2. CASE shown' = Append(shown, Head(toHost["device"]).payload)
      <4> DEFINE x == Head(toHost["device"]).payload
      <4>1. /\ given' = given /\ toHost["device"] \in Seq(AnswerItem)
            /\ toHost["device"] # <<>> /\ toHost["device"][1] \in WireFrame
        BY <2>2, ItemsTyped DEF TakeShortId, HasFrame, ProbeInv, Typed
      <4>2. Head(toHost["device"]) \in AnswerItem \cap WireFrame
        BY <4>1, HeadTailProperties
      <4>3. x \in Ids
        BY <4>2, FramesTyped DEF Ids
      <4>4. /\ shown' \in Seq(Ids) /\ given \in Seq(Requests)
            /\ \E a \in 0 .. Len(given) : Drawn(FramesOf(shown'), given, 0, a)
        BY <4>1 DEF ProbeInv, Typed, InOrder
      <4>5. Answers!DrawnFrom(shown', AnswersOf(given))
        BY <4>4, ShownIsDrawn
      <4> HIDE DEF x
      <4>6. shown' = Append(shown, x)
        BY <3>2 DEF x
      <4> QED
        BY <4>1, <4>3, <4>5, <4>6 DEF Answers!Deliver, AnswersOf, Ids
    <3> QED
      BY <2>2, <3>1, <3>2 DEF TakeShortId
  <2>3. \/ \E s \in Requests : SendSeed(s)
        \/ TakeShortId
        \/ UNCHANGED <<given, shown>>
    BY DEF Next, vars, hostVars, HostStep, ProbeRuns, RefuseSeed, ProbeFramingError,
           ProbeReadFails, DeviceStep, LineStep, Restart, RerunHost, ResetDevice
  <2> QED
    BY <2>1, <2>2, <2>3 DEF Answers!Next
<1> QED
  BY <1>1, <1>2, ProbeInvariance, PTL DEF Spec, AnswersInOrder, Answers!Spec
===============================================================================
