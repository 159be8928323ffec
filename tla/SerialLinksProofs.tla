--------------------------- MODULE SerialLinksProofs ---------------------------
(***************************************************************************)
(* What the operators of SerialLinks do to a line, whatever items it       *)
(* carries.                                                                *)
(***************************************************************************)
EXTENDS SerialLinks, SequenceTheorems, TLAPS

Marks == {Garbled, Partial}

-----------------------------------------------------------------------------
(* Lines over any set of items. *)

LEMMA AddToLines ==
  ASSUME NEW S, NEW lines \in [Board -> Seq(S)], NEW b \in Board, NEW item \in S
  PROVE  AddTo(lines, b, item) \in [Board -> Seq(S)]
<1>1. Append(lines[b], item) \in Seq(S)
  BY AppendProperties
<1> QED
  BY <1>1 DEF AddTo

LEMMA TakeFromLines ==
  ASSUME NEW S, NEW lines \in [Board -> Seq(S)], NEW b \in Board, lines[b] # <<>>
  PROVE  /\ TakeFrom(lines, b) \in [Board -> Seq(S)]
         /\ Head(lines[b]) \in S
<1>1. Tail(lines[b]) \in Seq(S) /\ Head(lines[b]) \in S
  BY HeadTailProperties
<1> QED
  BY <1>1 DEF TakeFrom

LEMMA SuffixOfLine ==
  ASSUME NEW S, NEW line \in Seq(S), NEW k \in 1 .. Len(line) + 1
  PROVE  SubSeq(line, k, Len(line)) \in Seq(S)
<1>1. Len(line) \in Nat
  BY LenProperties
<1>2. \A i \in k .. Len(line) : line[i] \in S
  BY <1>1, ElementOfSeq
<1> QED
  BY <1>1, <1>2, SubSeqProperties

LEMMA CutLine ==
  ASSUME NEW S, NEW mark \in S, NEW line \in Seq(S), NEW rest \in CutAs(mark, line)
  PROVE  rest \in Seq(S)
<1>1. PICK k \in DOMAIN line : rest = <<mark>> \o SubSeq(line, k + 1, Len(line))
  BY DEF CutAs
<1>2. k + 1 \in 1 .. Len(line) + 1
  BY LenProperties
<1>3. SubSeq(line, k + 1, Len(line)) \in Seq(S)
  BY <1>2, SuffixOfLine
<1>4. <<mark>> \in Seq(S)
  OBVIOUS
<1> QED
  BY <1>1, <1>3, <1>4, ConcatProperties

LEMMA LeftOfLine ==
  ASSUME NEW S, Marks \subseteq S, NEW line \in Seq(S), NEW rest \in LeftOf(line)
  PROVE  rest \in Seq(S)
<1>1. CASE \E k \in 1 .. Len(line) + 1 : rest = SubSeq(line, k, Len(line))
  BY <1>1, SuffixOfLine
<1>2. CASE rest \in CutAs(Garbled, line) \cup CutAs(Partial, line)
  BY <1>2, CutLine DEF Marks
<1> QED
  BY <1>1, <1>2 DEF LeftOf

LEMMA LeftOnLines ==
  ASSUME NEW S, Marks \subseteq S, NEW lines \in [Board -> Seq(S)], NEW b \in Board,
         NEW line \in Seq(S), NEW rest \in LeftOf(line)
  PROVE  [lines EXCEPT ![b] = rest] \in [Board -> Seq(S)]
<1>1. rest \in Seq(S)
  BY LeftOfLine
<1> QED
  BY <1>1

LEMMA FailedOntoLines ==
  ASSUME NEW S, Marks \subseteq S, NEW lines \in [Board -> Seq(S)], NEW b \in Board,
         NEW item \in S, NEW after \in FailedOnto(lines, b, item)
  PROVE  after \in [Board -> Seq(S)]
<1>1. Partial \in S
  BY DEF Marks
<1>2. AddTo(lines, b, item) \in [Board -> Seq(S)] /\ AddTo(lines, b, Partial) \in [Board -> Seq(S)]
  BY <1>1, AddToLines
<1> QED
  BY <1>2 DEF FailedOnto

LEMMA StoppedOntoLines ==
  ASSUME NEW S, Marks \subseteq S, NEW lines \in [Board -> Seq(S)], NEW b \in Board,
         NEW writing \in BOOLEAN, NEW after \in StoppedOnto(lines, b, writing)
  PROVE  after \in [Board -> Seq(S)]
<1>1. Partial \in S
  BY DEF Marks
<1>2. AddTo(lines, b, Partial) \in [Board -> Seq(S)]
  BY <1>1, AddToLines
<1> QED
  BY <1>2 DEF StoppedOnto

LEMMA DamagedLines ==
  ASSUME NEW S, Marks \subseteq S, NEW lines \in [Board -> Seq(S)], NEW b \in Board,
         NEW line \in Damaged(lines[b])
  PROVE  [lines EXCEPT ![b] = line] \in [Board -> Seq(S)]
<1>1. PICK i \in DOMAIN lines[b], mark \in Marks : line = [lines[b] EXCEPT ![i] = mark]
  BY DEF Damaged, Marks
<1>2. i \in 1 .. Len(lines[b])
  BY LenProperties
<1>3. line \in Seq(S)
  BY <1>1, <1>2, ExceptSeq
<1> QED
  BY <1>3

-----------------------------------------------------------------------------
(* How a step changes a line: what its reader or a fault does to it leaves *)
(* some of its items, or marks in their place; a writer adds an item or a  *)
(* part of one.                                                            *)

ItemsOf(line) == {line[i] : i \in DOMAIN line}

Reduced(old, new) == new \in Seq(Marks \cup ItemsOf(old)) /\ Len(new) <= Len(old)

Extended(old, item) == {old, Append(old, item), Append(old, Partial)}

LEMMA OwnItems ==
  ASSUME NEW T, NEW line \in Seq(T)
  PROVE  line \in Seq(Marks \cup ItemsOf(line)) /\ Reduced(line, line)
<1>1. Len(line) \in Nat /\ DOMAIN line = 1 .. Len(line)
  BY LenProperties
<1>2. \A i \in 1 .. Len(line) : line[i] \in Marks \cup ItemsOf(line)
  BY <1>1 DEF ItemsOf
<1>3. line = SubSeq(line, 1, Len(line))
  BY <1>1, SubSeqFull
<1>4. SubSeq(line, 1, Len(line)) \in Seq(Marks \cup ItemsOf(line))
  BY <1>1, <1>2, SubSeqProperties
<1> QED
  BY <1>1, <1>3, <1>4 DEF Reduced

LEMMA ReducedStays ==
  ASSUME NEW S, Marks \subseteq S, NEW old \in Seq(S), NEW new, Reduced(old, new)
  PROVE  new \in Seq(S) /\ Len(new) \in Nat /\ (old = <<>> => new = <<>>)
<1>1. ItemsOf(old) \subseteq S
  BY LenProperties, ElementOfSeq DEF ItemsOf
<1>2. new \in Seq(S)
  BY <1>1, SeqMonotonic DEF Reduced
<1>3. ASSUME old = <<>> PROVE new = <<>>
  BY <1>2, <1>3, EmptySeq DEF Reduced
<1> QED
  BY <1>2, <1>3, LenProperties

LEMMA ExtendedStays ==
  ASSUME NEW S, Marks \subseteq S, NEW old \in Seq(S), NEW item \in S,
         NEW new \in Extended(old, item)
  PROVE  new \in Seq(S) /\ Len(new) <= Len(old) + 1
<1>1. Partial \in S
  BY DEF Marks
<1> QED
  BY <1>1, AppendProperties, LenProperties DEF Extended

LEMMA LeftIsReduced ==
  ASSUME NEW T, NEW line \in Seq(T), NEW rest \in LeftOf(line)
  PROVE  Reduced(line, rest)
<1> DEFINE S == Marks \cup ItemsOf(line)
<1>1. line \in Seq(S) /\ Len(line) \in Nat /\ DOMAIN line = 1 .. Len(line)
  BY OwnItems, LenProperties
<1>2. rest \in Seq(S)
  <2> HIDE DEF S
  <2>1. Marks \subseteq S
    BY DEF S
  <2> QED
    BY <1>1, <2>1, LeftOfLine
<1>3. \A k \in 1 .. Len(line) + 1 :
        /\ SubSeq(line, k, Len(line)) \in Seq(S)
        /\ Len(SubSeq(line, k, Len(line))) <= Len(line) + 1 - k
  <2> HIDE DEF S
  <2> TAKE k \in 1 .. Len(line) + 1
  <2>1. \A i \in k .. Len(line) : line[i] \in S
    BY <1>1, ElementOfSeq
  <2>2. k \in Int /\ Len(line) \in Int
    BY <1>1
  <2> QED
    BY <1>1, <2>1, <2>2, SubSeqProperties
<1>4. CASE \E k \in 1 .. Len(line) + 1 : rest = SubSeq(line, k, Len(line))
  <2> HIDE DEF S
  <2> QED
    BY <1>1, <1>2, <1>3, <1>4 DEF Reduced, S
<1>5. ASSUME NEW mark \in Marks, rest \in CutAs(mark, line)
      PROVE  Len(rest) <= Len(line)
  <2>1. PICK k \in DOMAIN line : rest = <<mark>> \o SubSeq(line, k + 1, Len(line))
    BY <1>5 DEF CutAs
  <2>2. k + 1 \in 1 .. Len(line) + 1 /\ k \in 1 .. Len(line)
    BY <1>1
  <2>3. /\ SubSeq(line, k + 1, Len(line)) \in Seq(S)
        /\ Len(SubSeq(line, k + 1, Len(line))) <= Len(line) + 1 - (k + 1)
    BY <1>3, <2>2
  <2>4. <<mark>> \in Seq(S) /\ Len(<<mark>>) = 1
    OBVIOUS
  <2> HIDE DEF S
  <2>5. Len(rest) = Len(<<mark>>) + Len(SubSeq(line, k + 1, Len(line)))
    BY <2>1, <2>3, <2>4, ConcatProperties
  <2>6. Len(SubSeq(line, k + 1, Len(line))) \in Nat
    BY <2>3, LenProperties
  <2> QED
    BY <1>1, <2>2, <2>3, <2>4, <2>5, <2>6
<1> QED
  BY <1>2, <1>4, <1>5 DEF LeftOf, Reduced, Marks

LEMMA TailIsReduced ==
  ASSUME NEW T, NEW line \in Seq(T), line # <<>>
  PROVE  /\ Reduced(line, Tail(line))
         /\ \A rest \in LeftOf(Tail(line)) : Reduced(line, rest)
<1> DEFINE S == Marks \cup ItemsOf(line)
<1>1. line \in Seq(S)
  BY OwnItems
<1> HIDE DEF S
<1>2. Tail(line) \in Seq(S) /\ Len(Tail(line)) <= Len(line) /\ Len(line) \in Nat
      /\ Len(Tail(line)) \in Nat
  BY <1>1, HeadTailProperties, LenProperties
<1>3. \A rest \in LeftOf(Tail(line)) : rest \in Seq(S) /\ Len(rest) <= Len(Tail(line))
  <2> TAKE rest \in LeftOf(Tail(line))
  <2>1. Reduced(Tail(line), rest)
    BY <1>2, LeftIsReduced
  <2>2. Marks \subseteq S
    BY DEF S
  <2> QED
    BY <1>2, <2>1, <2>2, ReducedStays DEF Reduced
<1>4. \A rest \in LeftOf(Tail(line)) : Len(rest) <= Len(line)
  <2> TAKE rest \in LeftOf(Tail(line))
  <2>1. rest \in Seq(S) /\ Len(rest) <= Len(Tail(line))
    BY <1>3
  <2> QED
    BY <1>2, <2>1, LenProperties
<1> QED
  BY <1>2, <1>3, <1>4 DEF Reduced, S

LEMMA DamagedIsReduced ==
  ASSUME NEW T, NEW line \in Seq(T), NEW after \in Damaged(line)
  PROVE  Reduced(line, after)
<1> DEFINE S == Marks \cup ItemsOf(line)
<1>1. line \in Seq(S)
  BY OwnItems
<1>2. PICK i \in DOMAIN line, mark \in Marks : after = [line EXCEPT ![i] = mark]
  BY DEF Damaged, Marks
<1>3. mark \in S
  OBVIOUS
<1> HIDE DEF S
<1>4. i \in 1 .. Len(line) /\ Len(line) \in Nat
  BY LenProperties
<1>5. after \in Seq(S) /\ Len(after) = Len(line)
  BY <1>1, <1>2, <1>3, <1>4, ExceptSeq
<1> QED
  BY <1>4, <1>5 DEF Reduced, S

-----------------------------------------------------------------------------
(* The items a line may carry of which only these commands are frames. *)
Only(commands) == Marks \cup {f \in WireFrame : f.command \in commands}

(* A frame on a line of such commands has one of them. *)
LEMMA OnlyTheseFrames ==
  ASSUME NEW commands, NEW line \in Seq(Only(commands)), HasFrame(line)
  PROVE  /\ Head(line) \in WireFrame /\ Head(line).command \in commands
         /\ line # <<>> /\ Head(line) = line[1]
<1>1. line # <<>> /\ line[1] \in WireFrame
  BY DEF HasFrame
<1>2. Head(line) \in Only(commands) /\ Head(line) = line[1]
  BY <1>1, HeadTailProperties
<1>3. line[1] \notin Marks
  BY <1>1 DEF WireFrame, Marks, Garbled, Partial
<1> QED
  BY <1>1, <1>2, <1>3 DEF Only

LEMMA AppendedItem ==
  ASSUME NEW S, NEW line \in Seq(S), NEW item
  PROVE  /\ Append(line, item) # <<>>
         /\ Len(Append(line, item)) = Len(line) + 1
         /\ Append(line, item)[Len(line) + 1] = item
         /\ \A i \in 1 .. Len(line) : Append(line, item)[i] = line[i]
<1>1. line \in Seq(S \cup {item})
  BY SeqMonotonic
<1> QED
  BY <1>1, AppendProperties

LEMMA TailIsLeft ==
  ASSUME NEW S, NEW line \in Seq(S), line # <<>>
  PROVE  Tail(line) \in LeftOf(line)
<1>1. Tail(line) = SubSeq(line, 2, Len(line)) /\ 2 \in 1 .. Len(line) + 1
  BY TailIsSubSeq, EmptySeq
<1> QED
  BY <1>1 DEF LeftOf

(* What a dropped read buffer leaves of a line, item by item: a tail of it, *)
(* of which the first item may have become a mark.                         *)
LEMMA LeftIsTail ==
  ASSUME NEW S, Marks \subseteq S, NEW line \in Seq(S), NEW rest \in LeftOf(line)
  PROVE  /\ rest \in Seq(S)
         /\ \E k \in 0 .. Len(line) :
              /\ Len(rest) = Len(line) - k
              /\ \A i \in 1 .. Len(rest) : rest[i] = line[i + k] \/ (i = 1 /\ rest[i] \in Marks)
<1>1. Len(line) \in Nat /\ DOMAIN line = 1 .. Len(line) /\ rest \in Seq(S)
  BY LenProperties, LeftOfLine
<1>2. ASSUME NEW m \in 1 .. Len(line) + 1
      PROVE  /\ SubSeq(line, m, Len(line)) \in Seq(S)
             /\ Len(SubSeq(line, m, Len(line))) = Len(line) - m + 1
             /\ \A i \in 1 .. Len(line) - m + 1 : SubSeq(line, m, Len(line))[i] = line[i + m - 1]
  <2>1. \A i \in m .. Len(line) : line[i] \in S
    BY <1>1, ElementOfSeq
  <2>2. m \in Int /\ Len(line) \in Int
    BY <1>1
  <2> QED
    BY <1>1, <2>1, <2>2, SubSeqProperties
<1>3. CASE \E m \in 1 .. Len(line) + 1 : rest = SubSeq(line, m, Len(line))
  <2>1. PICK m \in 1 .. Len(line) + 1 : rest = SubSeq(line, m, Len(line))
    BY <1>3
  <2>2. m - 1 \in 0 .. Len(line)
    BY <1>1
  <2>3. /\ Len(rest) = Len(line) - (m - 1)
        /\ \A i \in 1 .. Len(rest) : rest[i] = line[i + (m - 1)]
    BY <1>1, <1>2, <2>1
  <2> QED
    BY <1>1, <2>2, <2>3
<1>4. ASSUME NEW mark \in Marks, rest \in CutAs(mark, line)
      PROVE  \E k \in 0 .. Len(line) :
               /\ Len(rest) = Len(line) - k
               /\ \A i \in 1 .. Len(rest) : rest[i] = line[i + k] \/ (i = 1 /\ rest[i] \in Marks)
  <2>1. PICK m \in DOMAIN line : rest = <<mark>> \o SubSeq(line, m + 1, Len(line))
    BY <1>4 DEF CutAs
  <2> DEFINE tail == SubSeq(line, m + 1, Len(line))
  <2>2. m \in 1 .. Len(line) /\ m + 1 \in 1 .. Len(line) + 1
    BY <1>1
  <2>3. /\ tail \in Seq(S) /\ Len(tail) = Len(line) - m
        /\ \A i \in 1 .. Len(tail) : tail[i] = line[i + m]
    BY <1>1, <1>2, <2>2
  <2>4. <<mark>> \in Seq(S) /\ Len(<<mark>>) = 1 /\ <<mark>>[1] = mark
    OBVIOUS
  <2> HIDE DEF tail
  <2>5. rest = <<mark>> \o tail
    BY <2>1 DEF tail
  <2>6. Len(rest) = 1 + Len(tail) /\ Len(tail) \in Nat
    BY <2>3, <2>4, <2>5, ConcatProperties, LenProperties
  <2>7. \A i \in 1 .. Len(rest) :
          rest[i] = IF i <= 1 THEN <<mark>>[i] ELSE tail[i - 1]
    BY <2>3, <2>4, <2>5, <2>6, ConcatProperties
  <2>8. \A i \in 1 .. Len(rest) : rest[i] = line[i + (m - 1)] \/ (i = 1 /\ rest[i] \in Marks)
    <3> TAKE i \in 1 .. Len(rest)
    <3>1. CASE i = 1
      BY <2>4, <2>7, <3>1
    <3>2. CASE i # 1
      <4>1. rest[i] = tail[i - 1] /\ i - 1 \in 1 .. Len(tail)
        BY <2>6, <2>7, <3>2
      <4>2. tail[i - 1] = line[(i - 1) + m]
        BY <2>3, <4>1
      <4>3. (i - 1) + m = i + (m - 1)
        BY <1>1, <2>2, <2>6
      <4> QED
        BY <4>1, <4>2, <4>3
    <3> QED
      BY <3>1, <3>2
  <2>9. m - 1 \in 0 .. Len(line) /\ Len(rest) = Len(line) - (m - 1)
    BY <1>1, <2>2, <2>3, <2>6
  <2> QED
    BY <2>8, <2>9
<1> QED
  BY <1>1, <1>3, <1>4 DEF LeftOf, Marks
===============================================================================
