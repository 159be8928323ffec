--------------------------- MODULE FrameStreamProofs ---------------------------
(***************************************************************************)
(* What encode writes and what decode makes of it, and what the framed     *)
(* streams are built on them to do: for every size of payload, buffer and  *)
(* chunk, every set of payloads, every checksum and any number of frames.  *)
(* The last part is about the checksum itself and what decode gains by it. *)
(***************************************************************************)
EXTENDS FrameStream, CrcLoop, SequenceTheorems, WellFoundedInduction, TLAPS

(* Encode and decode. *)

(* Concatenation, position by position. *)
LEMMA ConcatAt ==
  ASSUME NEW s \in Seq(Byte), NEW t \in Seq(Byte)
  PROVE  /\ s \o t \in Seq(Byte)
         /\ Len(s \o t) = Len(s) + Len(t)
         /\ \A k \in 1 .. Len(s) : (s \o t)[k] = s[k]
         /\ \A k \in 1 .. Len(t) : (s \o t)[Len(s) + k] = t[k]
<1>1. Len(s) \in Nat /\ Len(t) \in Nat
  BY LenProperties
<1>2. s \o t \in Seq(Byte) /\ Len(s \o t) = Len(s) + Len(t)
  BY ConcatProperties
<1>3. \A k \in 1 .. Len(s) : (s \o t)[k] = s[k]
  OBVIOUS
<1>4. ASSUME NEW k \in 1 .. Len(t)
      PROVE  (s \o t)[Len(s) + k] = t[k]
  OBVIOUS
<1>5. QED
  BY <1>2, <1>3, <1>4

LEMMA ConcatBytesAssociative ==
  ASSUME NEW s \in Seq(Byte), NEW t \in Seq(Byte), NEW u \in Seq(Byte)
  PROVE  (s \o t) \o u = s \o (t \o u)
BY ConcatAssociative

(* A u16 survives to_le_bytes and from_le_bytes. *)
LEMMA LittleEndianRoundTrip ==
  ASSUME NEW w \in Word
  PROVE  /\ LowByte(w) \in Byte
         /\ HighByte(w) \in Byte
         /\ FromLittleEndian(LowByte(w), HighByte(w)) = w
BY DEF Word, Byte, LowByte, HighByte, FromLittleEndian

(* The commands are told apart by their byte. *)
LEMMA CommandOfItsByte ==
  ASSUME NEW c \in Command
  PROVE  /\ CommandByte[c] \in Byte
         /\ CommandsOf(CommandByte[c]) # {}
         /\ (CHOOSE d \in Command : CommandByte[d] = CommandByte[c]) = c
<1>1. \A d \in Command : CommandByte[d] = CommandByte[c] => d = c
  BY DEF Command, CommandByte
<1>2. CommandByte[c] \in Byte
  BY DEF Command, CommandByte, Byte
<1>3. QED
  BY <1>1, <1>2 DEF CommandsOf

(* The three bytes in front of a payload. *)
LEMMA HeaderShape ==
  ASSUME NEW a \in Byte, NEW b \in Byte, NEW d \in Byte
  PROVE  /\ <<a>> \o <<b, d>> \in Seq(Byte)
         /\ Len(<<a>> \o <<b, d>>) = 3
         /\ (<<a>> \o <<b, d>>)[1] = a
         /\ (<<a>> \o <<b, d>>)[2] = b
         /\ (<<a>> \o <<b, d>>)[3] = d
OBVIOUS

(* A word in little endian, behind a sequence. *)
LEMMA TrailerShape ==
  ASSUME NEW s \in Seq(Byte), NEW w \in Word
  PROVE  /\ s \o LittleEndian(w) \in Seq(Byte)
         /\ Len(s \o LittleEndian(w)) = Len(s) + 2
         /\ \A k \in 1 .. Len(s) : (s \o LittleEndian(w))[k] = s[k]
         /\ (s \o LittleEndian(w))[Len(s) + 1] = LowByte(w)
         /\ (s \o LittleEndian(w))[Len(s) + 2] = HighByte(w)
<1>1. LowByte(w) \in Byte /\ HighByte(w) \in Byte
  BY LittleEndianRoundTrip
<1>2. ASSUME NEW lo \in Byte, NEW hi \in Byte
      PROVE  /\ s \o <<lo, hi>> \in Seq(Byte)
             /\ Len(s \o <<lo, hi>>) = Len(s) + 2
             /\ \A k \in 1 .. Len(s) : (s \o <<lo, hi>>)[k] = s[k]
  OBVIOUS
<1>3. ASSUME NEW lo \in Byte, NEW hi \in Byte
      PROVE  /\ (s \o <<lo, hi>>)[Len(s) + 1] = lo
             /\ (s \o <<lo, hi>>)[Len(s) + 2] = hi
  OBVIOUS
<1>4. QED
  BY <1>1, <1>2, <1>3 DEF LittleEndian

(* What encode writes for a frame, byte by byte. *)
LEMMA EncodeShape ==
  ASSUME NEW f \in Frame
  PROVE  /\ f.command \in Command
         /\ f.payload \in Seq(Byte)
         /\ Len(f.payload) \in 0 .. MaxPayloadLen
         /\ Len(f.payload) \in Word
         /\ FrameLen(f) \in Nat
         /\ FrameLen(f) = FrameOverhead + Len(f.payload)
         /\ Crc16(Covered(f.command, f.payload)) \in Word
         /\ Covered(f.command, f.payload) \in Seq(Byte)
         /\ Len(Covered(f.command, f.payload)) = 3 + Len(f.payload)
         /\ Encode(f) \in Seq(Byte)
         /\ Len(Encode(f)) = FrameLen(f)
         /\ \A k \in 1 .. 3 + Len(f.payload) :
              Encode(f)[k] = Covered(f.command, f.payload)[k]
         /\ Encode(f)[1] = CommandByte[f.command]
         /\ Encode(f)[2] = LowByte(Len(f.payload))
         /\ Encode(f)[3] = HighByte(Len(f.payload))
         /\ \A k \in 1 .. Len(f.payload) : Encode(f)[3 + k] = f.payload[k]
         /\ Encode(f)[4 + Len(f.payload)] = LowByte(Crc16(Covered(f.command, f.payload)))
         /\ Encode(f)[5 + Len(f.payload)] = HighByte(Crc16(Covered(f.command, f.payload)))
<1> DEFINE c == f.command
           p == f.payload
           n == Len(p)
           head == <<CommandByte[c]>> \o LittleEndian(n)
           cov == Covered(c, p)
           crc == Crc16(cov)
<1>1. c \in Command /\ p \in Payloads /\ n <= MaxPayloadLen
  BY DEF Frame
<1>2. p \in Seq(Byte) /\ n \in Nat
  BY <1>1, PayloadsAssumption, LenProperties
<1>3. crc \in Word
  BY CrcAssumption
<1>4. cov = (<<CommandByte[c]>> \o LittleEndian(n % 65536)) \o p
  BY DEF Covered
<1>5. Encode(f) = cov \o LittleEndian(crc)
  BY DEF Encode, EncodedBytes
<1>6. FrameLen(f) = FrameOverhead + n
  BY DEF FrameLen
<1> HIDE DEF c, p, n, cov, crc
<1>7. n \in Word /\ n \in 0 .. MaxPayloadLen
  BY <1>1, <1>2, MaxPayloadLenAssumption DEF Word
<1>8. n % 65536 = n
  BY <1>7 DEF Word
<1>9. CommandByte[c] \in Byte /\ LowByte(n) \in Byte /\ HighByte(n) \in Byte
  BY <1>1, <1>7, CommandOfItsByte, LittleEndianRoundTrip
<1>10. /\ head \in Seq(Byte)
       /\ Len(head) = 3
       /\ head[1] = CommandByte[c] /\ head[2] = LowByte(n) /\ head[3] = HighByte(n)
  BY <1>9, HeaderShape DEF LittleEndian
<1>11. cov = head \o p
  BY <1>4, <1>8
<1> HIDE DEF head
<1>12. Len(p) = n
  BY DEF n
<1>13. cov \in Seq(Byte) /\ Len(cov) = 3 + n
  <2>1. cov \in Seq(Byte) /\ Len(cov) = Len(head) + Len(p)
    BY <1>2, <1>10, <1>11, ConcatAt
  <2>2. QED
    BY <1>10, <1>12, <2>1
<1>14. cov[1] = CommandByte[c] /\ cov[2] = LowByte(n) /\ cov[3] = HighByte(n)
  <2>1. \A k \in 1 .. Len(head) : cov[k] = head[k]
    BY <1>2, <1>10, <1>11, ConcatAt
  <2>2. QED
    BY <1>10, <2>1
<1>15. \A k \in 1 .. n : cov[3 + k] = p[k]
  <2>1. \A k \in 1 .. Len(p) : (head \o p)[Len(head) + k] = p[k]
    BY <1>2, <1>10, ConcatAt
  <2>2. QED
    BY <1>10, <1>11, <1>12, <2>1
<1>16. /\ Encode(f) \in Seq(Byte)
       /\ Len(Encode(f)) = 5 + n
       /\ \A k \in 1 .. 3 + n : Encode(f)[k] = cov[k]
       /\ Encode(f)[4 + n] = LowByte(crc)
       /\ Encode(f)[5 + n] = HighByte(crc)
  <2>1. (3 + n) + 1 = 4 + n /\ (3 + n) + 2 = 5 + n
    BY <1>2
  <2>2. /\ Encode(f) \in Seq(Byte)
        /\ Len(Encode(f)) = Len(cov) + 2
        /\ \A k \in 1 .. Len(cov) : Encode(f)[k] = cov[k]
        /\ Encode(f)[Len(cov) + 1] = LowByte(crc)
        /\ Encode(f)[Len(cov) + 2] = HighByte(crc)
    BY <1>3, <1>5, <1>13, TrailerShape
  <2>3. QED
    BY <1>2, <1>13, <2>1, <2>2
<1>17. /\ Encode(f)[1] = CommandByte[c]
       /\ Encode(f)[2] = LowByte(n)
       /\ Encode(f)[3] = HighByte(n)
  BY <1>2, <1>14, <1>16
<1>18. \A k \in 1 .. n : Encode(f)[3 + k] = p[k]
  BY <1>2, <1>15, <1>16
<1>19. FrameLen(f) = 5 + n /\ FrameLen(f) \in Nat
  BY <1>2, <1>6 DEF FrameOverhead
<1>20. QED
  BY <1>1, <1>2, <1>3, <1>6, <1>7, <1>13, <1>16, <1>17, <1>18, <1>19
     DEF c, p, n, cov, crc

(* A buffer that starts with the header of f claims the length of f. *)
LEMMA ClaimedLenOfFrame ==
  ASSUME NEW f \in Frame, NEW b \in Seq(Byte), FrameOverhead <= Len(b),
         \A k \in 1 .. 3 : b[k] = Encode(f)[k]
  PROVE  ClaimedLen(b) = Len(f.payload)
<1>1. b[2] = LowByte(Len(f.payload)) /\ b[3] = HighByte(Len(f.payload))
  BY EncodeShape
<1>2. Len(f.payload) \in Word
  BY EncodeShape
<1>3. QED
  BY <1>1, <1>2, LittleEndianRoundTrip DEF ClaimedLen

(* decode calls a proper prefix of a frame Incomplete, wherever it is cut. *)
LEMMA DecodePart ==
  ASSUME NEW f \in Frame, NEW b \in Seq(Byte), Len(b) < FrameLen(f),
         \A k \in 1 .. Len(b) : b[k] = Encode(f)[k]
  PROVE  DecodeResult(b) = "Incomplete"
<1>1. /\ Len(b) \in Nat /\ Len(f.payload) \in 0 .. MaxPayloadLen
      /\ FrameLen(f) = FrameOverhead + Len(f.payload)
  BY EncodeShape, LenProperties
<1>2. CASE Len(b) < FrameOverhead
  BY <1>1, <1>2 DEF DecodeResult, HasHeader, FrameOverhead
<1>3. CASE FrameOverhead <= Len(b)
  <2>1. \A k \in 1 .. 3 : b[k] = Encode(f)[k]
    BY <1>1, <1>3 DEF FrameOverhead
  <2>2. ClaimedLen(b) = Len(f.payload)
    BY <1>3, <2>1, ClaimedLenOfFrame
  <2>3. LenAllowed(b) /\ ~HasBody(b)
    BY <1>1, <2>2, MaxPayloadLenAssumption DEF LenAllowed, HasBody, FrameOverhead, Word
  <2>4. QED
    BY <2>3 DEF DecodeResult
<1>4. QED
  BY <1>1, <1>2, <1>3 DEF FrameOverhead

(* decode returns the frame a buffer starts with, whatever follows it. *)
LEMMA DecodeWhole ==
  ASSUME NEW f \in Frame, NEW b \in Seq(Byte), FrameLen(f) <= Len(b),
         \A k \in 1 .. FrameLen(f) : b[k] = Encode(f)[k]
  PROVE  /\ DecodeResult(b) = "Ok"
         /\ DecodedFrame(b) = f
         /\ ConsumedLen(b) = FrameLen(f)
<1> DEFINE n == Len(f.payload)
           cov == Covered(f.command, f.payload)
           crc == Crc16(cov)
<1>1. /\ Len(b) \in Nat /\ n \in 0 .. MaxPayloadLen /\ n \in Nat
      /\ FrameLen(f) = FrameOverhead + n
  BY EncodeShape, LenProperties
<1>2. FrameOverhead <= Len(b)
  BY <1>1 DEF FrameOverhead
<1>3. ClaimedLen(b) = n
  <2>1. \A k \in 1 .. 3 : b[k] = Encode(f)[k]
    BY <1>1 DEF FrameOverhead
  <2>2. QED
    BY <1>2, <2>1, ClaimedLenOfFrame
<1>4. LenAllowed(b) /\ HasBody(b) /\ HasHeader(b)
  BY <1>1, <1>2, <1>3, MaxPayloadLenAssumption DEF LenAllowed, HasBody, HasHeader, Word
<1>5. SubSeq(b, 1, 3 + n) = cov
  <2>1. 3 + n <= Len(b) /\ 3 + n \in Nat /\ \A i \in 1 .. 3 + n : b[i] \in Byte
    BY <1>1 DEF FrameOverhead
  <2>2. /\ SubSeq(b, 1, 3 + n) \in Seq(Byte)
        /\ Len(SubSeq(b, 1, 3 + n)) = 3 + n
        /\ \A i \in 1 .. 3 + n : SubSeq(b, 1, 3 + n)[i] = b[i]
    BY <1>1, <2>1
  <2>3. cov \in Seq(Byte) /\ Len(cov) = 3 + n /\ \A i \in 1 .. 3 + n : Encode(f)[i] = cov[i]
    BY EncodeShape
  <2>4. \A i \in 1 .. 3 + n : b[i] = Encode(f)[i]
    BY <1>1 DEF FrameOverhead
  <2>5. \A i \in 1 .. 3 + n : SubSeq(b, 1, 3 + n)[i] = cov[i]
    BY <2>2, <2>3, <2>4
  <2> HIDE DEF cov
  <2>6. QED
    BY <2>2, <2>3, <2>5, SeqEqual
<1>6. CrcMatches(b)
  <2>1. b[4 + n] = Encode(f)[4 + n] /\ b[5 + n] = Encode(f)[5 + n]
    BY <1>1 DEF FrameOverhead
  <2>2. b[4 + n] = LowByte(crc) /\ b[5 + n] = HighByte(crc) /\ crc \in Word
    BY <2>1, EncodeShape
  <2>3. FromLittleEndian(b[4 + n], b[5 + n]) = crc
    BY <2>2, LittleEndianRoundTrip
  <2>4. QED
    BY <1>3, <1>5, <2>3 DEF CrcMatches
<1>7. b[1] = CommandByte[f.command] /\ f.command \in Command
  <2>1. b[1] = Encode(f)[1]
    BY <1>1 DEF FrameOverhead
  <2>2. QED
    BY <2>1, EncodeShape
<1>8. DecodeResult(b) = "Ok"
  BY <1>4, <1>6, <1>7, CommandOfItsByte DEF DecodeResult
<1>9. SubSeq(b, 4, 3 + n) = f.payload
  <2>1. 3 + n <= Len(b) /\ 3 + n \in Nat /\ \A i \in 4 .. 3 + n : b[i] \in Byte
    BY <1>1 DEF FrameOverhead
  <2>2. /\ SubSeq(b, 4, 3 + n) \in Seq(Byte)
        /\ Len(SubSeq(b, 4, 3 + n)) = n
        /\ \A i \in 1 .. n : SubSeq(b, 4, 3 + n)[i] = b[3 + i]
    BY <1>1, <2>1
  <2>3. \A i \in 1 .. n : b[3 + i] = Encode(f)[3 + i]
    BY <1>1 DEF FrameOverhead
  <2>4. f.payload \in Seq(Byte) /\ \A i \in 1 .. n : Encode(f)[3 + i] = f.payload[i]
    BY EncodeShape
  <2>5. \A i \in 1 .. n : SubSeq(b, 4, 3 + n)[i] = f.payload[i]
    BY <2>2, <2>3, <2>4
  <2>6. QED
    BY <2>2, <2>4, <2>5, SeqEqual
<1>10. DecodedFrame(b) = f
  <2>1. (CHOOSE c \in Command : CommandByte[c] = b[1]) = f.command
    BY <1>7, CommandOfItsByte
  <2>2. DecodedFrame(b) = [command |-> f.command, payload |-> f.payload]
    BY <1>3, <1>9, <2>1 DEF DecodedFrame
  <2>3. f = [command |-> f.command, payload |-> f.payload]
    BY DEF Frame
  <2>4. QED
    BY <2>2, <2>3
<1>11. ConsumedLen(b) = FrameLen(f)
  BY <1>1, <1>3 DEF ConsumedLen
<1>12. QED
  BY <1>8, <1>10, <1>11

(* A buffer of the size that every role and simulator uses, once full, is   *)
(* never Incomplete: decode returns a frame or an error whatever the bytes. *)
(* Hence the loops of sender-sim and receiver-sim, which lack recv_frame's  *)
(* check for a full buffer, never call read() with no room left.            *)
THEOREM FullBufferIsJudged ==
  ASSUME NEW b \in Seq(Byte), Len(b) >= MaxPayloadLen + FrameOverhead
  PROVE  DecodeResult(b) # "Incomplete"
<1>1. Len(b) \in Nat /\ MaxPayloadLen \in Nat
  BY LenProperties, MaxPayloadLenAssumption DEF Word
<1>2. HasHeader(b)
  BY <1>1 DEF HasHeader, FrameOverhead
<1>3. ClaimedLen(b) \in Nat
  <2>1. b[2] \in Byte /\ b[3] \in Byte
    BY <1>1, <1>2, ElementOfSeq DEF HasHeader, FrameOverhead
  <2> QED
    BY <2>1 DEF ClaimedLen, FromLittleEndian, Byte
<1>4. LenAllowed(b) => HasBody(b)
  BY <1>1, <1>3 DEF LenAllowed, HasBody, FrameOverhead
<1> QED
  BY <1>2, <1>4 DEF DecodeResult

-----------------------------------------------------------------------------
(* Whatever the line does to the bytes. *)

(* A call that ended in a framing error left a buffer in which decode finds *)
(* an error, or one that is full and holds no complete frame.               *)
BufferStuck ==
  outcome \in FatalDecodeErrors =>
    \/ DecodeResult(buf) \in FatalDecodeErrors
    \/ Reader = "board" /\ DecodeResult(buf) = "Incomplete" /\ Len(buf) = BufLen

(* Whatever the line did, no action of the reader or of the line unsticks   *)
(* the buffer, and a stuck buffer yields no frame: BufferStuck is inductive *)
(* (recv_frame's and read_frame's early returns leave the buffer alone).    *)
LEMMA StuckStays ==
  ASSUME BufferStuck, [Next]_vars
  PROVE  BufferStuck' /\ (outcome \in FatalDecodeErrors => UNCHANGED got)
<1>1. CASE ReturnFrame
  <2>1. outcome \notin FatalDecodeErrors
    BY <1>1 DEF ReturnFrame, ReturnLeaving, BufferStuck, FatalDecodeErrors
  <2>2. outcome' \notin FatalDecodeErrors
    BY <1>1 DEF ReturnFrame, ReturnLeaving, FatalDecodeErrors
  <2> QED
    BY <2>1, <2>2 DEF BufferStuck
<1>2. CASE FailFraming
  BY <1>2 DEF FailFraming, BufferStuck, DecodeResult
<1>3. CASE FailBufferFull
  BY <1>3 DEF FailBufferFull, BufferStuck, DecodeResult
<1>4. CASE ReadBytes
  <2>1. outcome \notin FatalDecodeErrors
    <3>1. PICK n \in 1 .. Len(wire) : n <= Room
      BY <1>4 DEF ReadBytes
    <3>2. ~(Reader = "board" /\ Len(buf) = BufLen)
      BY <3>1, BufLenAssumption DEF Room
    <3> QED
      BY <1>4, <3>2 DEF ReadBytes, BufferStuck, FatalDecodeErrors
  <2> QED
    BY <1>4, <2>1 DEF ReadBytes, BufferStuck
<1>5. CASE FailRead
  <2>1. outcome' \notin FatalDecodeErrors
    BY <1>5 DEF FailRead, FatalDecodeErrors
  <2> QED
    BY <1>5, <2>1 DEF FailRead, BufferStuck
<1>6. CASE UNCHANGED <<buf, outcome, got>>
  BY <1>6 DEF BufferStuck, DecodeResult, HasHeader, LenAllowed, HasBody, CrcMatches,
              ClaimedLen
<1> QED
  BY <1>1, <1>2, <1>3, <1>4, <1>5, <1>6
     DEF Next, vars, AlterByte, LoseBytes, ReopenWriter,
         WriteFrame, RefuseFrame, TearFrame

(* NoFrameAfterFramingError, for every alteration and loss of bytes: a      *)
(* reader that reported a framing error returns no further frame from that  *)
(* buffer.                                                                  *)
THEOREM StuckReaderReturnsNothing == Spec => NoFrameAfterFramingError
<1>1. Init => BufferStuck
  BY DEF Init, BufferStuck, FatalDecodeErrors
<1>2. BufferStuck /\ [Next]_vars =>
        BufferStuck' /\ [(outcome \in FatalDecodeErrors) => UNCHANGED got]_vars
  BY StuckStays
<1> QED
  BY <1>1, <1>2, PTL DEF Spec, NoFrameAfterFramingError

-----------------------------------------------------------------------------
(* Whatever the line did, what is read are bytes. *)
BytesOnly == wire \in Seq(Byte) /\ buf \in Seq(Byte)

LEMMA SomeBytes ==
  ASSUME NEW s \in Seq(Byte), NEW m \in Nat, NEW n \in Nat, m > 0, n <= Len(s)
  PROVE  SubSeq(s, m, n) \in Seq(Byte)
<1>1. \A i \in m .. n : s[i] \in Byte
  <2>1. \A i \in m .. n : i \in 1 .. Len(s)
    BY LenProperties
  <2> QED
    BY <2>1, ElementOfSeq
<1> QED
  BY <1>1, LenProperties

LEMMA WrittenAreBytes ==
  ASSUME NEW c \in Command, NEW p \in Payloads, Len(p) <= MaxPayloadLen
  PROVE  EncodedBytes(c, p) \in Seq(Byte)
<1> DEFINE f == [command |-> c, payload |-> p]
<1>1. f \in Frame
  BY DEF Frame
<1>2. Encode(f) \in Seq(Byte)
  BY <1>1, EncodeShape
<1> QED
  BY <1>2 DEF Encode

LEMMA NextBytes ==
  ASSUME BytesOnly, [Next]_vars
  PROVE  BytesOnly'
<1>1. Len(wire) \in Nat /\ Len(buf) \in Nat
  BY LenProperties DEF BytesOnly
<1>2. ASSUME NEW c \in Sends, NEW p \in Payloads, WriteFrame(c, p) \/ TearFrame(c, p)
      PROVE  BytesOnly'
  <2> DEFINE e == EncodedBytes(c, p)
  <2>1. p \in Seq(Byte) /\ Len(p) \in Nat /\ MaxPayloadLen \in Nat
    BY PayloadsAssumption, MaxPayloadLenAssumption, LenProperties DEF Word
  <2>2. Len(p) <= MaxPayloadLen
    BY <1>2, <2>1 DEF WriteFrame, TearFrame, EncodeError
  <2>3. e \in Seq(Byte)
    BY <2>2, SendsAssumption, WrittenAreBytes
  <2>4. Len(e) = FrameOverhead + Len(p)
    <3>1. [command |-> c, payload |-> p] \in Frame
      BY <2>2, SendsAssumption DEF Frame
    <3> QED
      BY <3>1, EncodeShape DEF Encode
  <2> HIDE DEF e
  <2>5. CASE WriteFrame(c, p)
    BY <2>3, <2>5, ConcatAt DEF WriteFrame, BytesOnly, e
  <2>6. CASE TearFrame(c, p)
    <3>1. PICK n \in 0 .. FrameOverhead + Len(p) - 1 : wire' = wire \o SubSeq(e, 1, n)
      BY <2>6 DEF TearFrame, e
    <3>2. n \in Nat /\ n <= Len(e)
      BY <2>1, <2>4 DEF FrameOverhead
    <3>3. SubSeq(e, 1, n) \in Seq(Byte)
      BY <2>3, <3>2, SomeBytes
    <3> QED
      BY <2>6, <3>1, <3>3, ConcatAt DEF TearFrame, BytesOnly
  <2> QED
    BY <1>2, <2>5, <2>6
<1>3. CASE ReturnFrame
  <2>1. HasHeader(buf)
    BY <1>3 DEF ReturnFrame, ReturnLeaving, DecodeResult
  <2>2. buf[2] \in Byte /\ buf[3] \in Byte
    BY <1>1, <2>1, ElementOfSeq DEF BytesOnly, HasHeader, FrameOverhead
  <2>3. ConsumedLen(buf) + 1 \in Nat /\ ConsumedLen(buf) + 1 > 0
    BY <2>2 DEF ConsumedLen, ClaimedLen, FromLittleEndian, FrameOverhead, Byte
  <2> QED
    BY <1>1, <1>3, <2>3, SomeBytes DEF ReturnFrame, ReturnLeaving, BytesOnly
<1>4. CASE ReadBytes
  <2>1. PICK n \in 1 .. Len(wire) : /\ buf' = buf \o SubSeq(wire, 1, n)
                                    /\ wire' = SubSeq(wire, n + 1, Len(wire))
    BY <1>4 DEF ReadBytes
  <2>2. SubSeq(wire, 1, n) \in Seq(Byte) /\ SubSeq(wire, n + 1, Len(wire)) \in Seq(Byte)
    BY <1>1, SomeBytes DEF BytesOnly
  <2> QED
    BY <2>1, <2>2, ConcatAt DEF BytesOnly
<1>5. CASE AlterByte
  BY <1>5, NoiseAssumption DEF AlterByte, BytesOnly
<1>6. CASE LoseBytes
  <2>1. PICK n \in DOMAIN wire : wire' = SubSeq(wire, n + 1, Len(wire))
    BY <1>6 DEF LoseBytes
  <2>2. n + 1 \in Nat /\ n + 1 > 0
    BY <1>1 DEF BytesOnly
  <2> QED
    BY <1>1, <1>6, <2>1, <2>2, SomeBytes DEF LoseBytes, BytesOnly
<1>7. CASE UNCHANGED <<wire, buf>>
  BY <1>7 DEF BytesOnly
<1> QED
  BY <1>2, <1>3, <1>4, <1>5, <1>6, <1>7
     DEF Next, vars, ReopenWriter, RefuseFrame, FailFraming,
         FailBufferFull, FailRead

(* NoEmptyRead, for a buffer of the roles' size and whatever the bytes are: *)
(* neither recv_frame nor the loops of sender-sim and receiver-sim, which   *)
(* lack its check for a full buffer, ask a port for no bytes at all.        *)
THEOREM RoomToRead ==
  ASSUME RoleBuffer
  PROVE  Spec => []NoEmptyRead
<1>1. Init => BytesOnly
  BY StaleAssumption DEF Init, BytesOnly
<1>2. BytesOnly /\ [Next]_vars => BytesOnly'
  BY NextBytes
<1>3. BytesOnly => NoEmptyRead
  <2> SUFFICES ASSUME BytesOnly, DecodeResult(buf) = "Incomplete"
               PROVE  Room > 0
    BY DEF NoEmptyRead
  <2>1. Len(buf) \in Nat /\ MaxPayloadLen \in Nat
    BY LenProperties, MaxPayloadLenAssumption DEF BytesOnly, Word
  <2>2. Len(buf) < MaxPayloadLen + FrameOverhead
    BY <2>1, FullBufferIsJudged DEF BytesOnly, FrameOverhead
  <2> QED
    BY <2>1, <2>2, BufLenAssumption, ReadChunkAssumption DEF Room, RoleBuffer, FrameOverhead
<1> QED
  BY <1>1, <1>2, <1>3, PTL DEF Spec

-----------------------------------------------------------------------------
(* On a clean line. *)

(* The inductive invariant. *)
IInv == TypeOK /\ FramesInOrder /\ BytesAccounted

-----------------------------------------------------------------------------
(* What the invariant says in numbers. *)
LEMMA Positions ==
  ASSUME IInv
  PROVE  /\ Len(got) \in Nat /\ Len(sent) \in Nat /\ Len(got) <= Len(sent)
         /\ Len(buf) \in Nat /\ Len(wire) \in Nat
         /\ Len(starts) = Len(sent) + 1
         /\ \A i \in 1 .. Len(sent) + 1 : starts[i] \in Nat
         /\ Base \in Nat
         /\ \A i \in Len(got) + 1 .. Len(sent) + 1 : starts[i] - Base \in Nat
         /\ \A i \in 1 .. Len(sent) : sent[i] \in Frame
         /\ Unread \in Seq(Byte)
         /\ Len(Unread) = Len(buf) + Len(wire)
         /\ \A k \in 1 .. Len(buf) : Unread[k] = buf[k]
<1>1. /\ got \in Seq(Frame) /\ sent \in Seq(Frame) /\ starts \in Seq(Nat)
      /\ buf \in Seq(Byte) /\ wire \in Seq(Byte)
  BY DEF IInv, TypeOK
<1>2. /\ Len(got) \in Nat /\ Len(sent) \in Nat /\ Len(got) <= Len(sent)
      /\ Len(buf) \in Nat /\ Len(wire) \in Nat
      /\ Len(starts) = Len(sent) + 1
  BY <1>1, LenProperties DEF IInv, FramesInOrder, BytesAccounted, StartsInv
<1>3. \A i \in 1 .. Len(sent) + 1 : starts[i] \in Nat
  BY <1>1, <1>2
<1>4. Base \in Nat
  BY <1>2, <1>3 DEF Base
<1>5. \A i, j \in 1 .. Len(sent) + 1 : i <= j => starts[i] <= starts[j]
  BY <1>2 DEF IInv, BytesAccounted, StartsInv
<1>6. \A i \in Len(got) + 1 .. Len(sent) + 1 : starts[i] - Base \in Nat
  BY <1>2, <1>3, <1>4, <1>5 DEF Base
<1>7. \A i \in 1 .. Len(sent) : sent[i] \in Frame
  BY <1>1
<1>8. /\ Unread \in Seq(Byte)
      /\ Len(Unread) = Len(buf) + Len(wire)
      /\ \A k \in 1 .. Len(buf) : Unread[k] = buf[k]
  BY <1>1, ConcatAt DEF Unread
<1>9. QED
  BY <1>2, <1>3, <1>4, <1>6, <1>7, <1>8

(* The reader sees a frame exactly when the next one is all there: its     *)
(* buffer decodes to that frame, or is a proper prefix of a frame.         *)
LEMMA ReaderView ==
  ASSUME IInv
  PROVE  \/ /\ DecodeResult(buf) = "Incomplete"
            /\ Len(buf) < MaxPayloadLen + FrameOverhead
         \/ /\ Len(got) < Len(sent)
            /\ DecodeResult(buf) = "Ok"
            /\ DecodedFrame(buf) = sent[Len(got) + 1]
            /\ ConsumedLen(buf) = FrameLen(sent[Len(got) + 1])
            /\ ConsumedLen(buf) <= Len(buf)
<1>1. ASSUME NEW f \in Frame, NEW n \in Nat, HoldsAt(Unread, f, 0, n), n <= FrameLen(f)
      PROVE  \A k \in 1 .. Len(buf) : k <= n => buf[k] = Encode(f)[k]
  <2>1. TAKE k \in 1 .. Len(buf)
  <2>2. HAVE k <= n
  <2>3. k \in 1 .. n /\ 0 + k = k /\ Unread[k] = buf[k]
    BY <2>2, Positions
  <2>4. QED
    BY <1>1, <2>3 DEF HoldsAt
<1>2. \A f \in Frame : FrameLen(f) \in Nat /\ FrameLen(f) <= MaxPayloadLen + FrameOverhead
  <2>1. TAKE f \in Frame
  <2>2. FrameLen(f) = FrameOverhead + Len(f.payload) /\ Len(f.payload) \in 0 .. MaxPayloadLen
    BY EncodeShape
  <2>3. QED
    BY <2>2, MaxPayloadLenAssumption DEF FrameOverhead, Word
<1>3. buf \in Seq(Byte) /\ Len(buf) \in Nat
  BY Positions DEF IInv, TypeOK
<1>4. CASE Len(got) < Len(sent)
  <2> DEFINE f == sent[Len(got) + 1]
  <2>1. f \in Frame /\ FrameLen(f) \in Nat
    BY <1>2, <1>4, Positions
  <2>2. HoldsAt(Unread, f, 0, FrameLen(f))
    <3>1. Len(got) + 1 \in Len(got) + 1 .. Len(sent)
      BY <1>4, Positions
    <3>2. HoldsAt(Unread, f, starts[Len(got) + 1] - Base, FrameLen(f))
      BY <3>1 DEF IInv, BytesAccounted, PendingInv
    <3>3. starts[Len(got) + 1] - Base = 0
      BY Positions DEF Base
    <3>4. QED
      BY <3>2, <3>3
  <2> HIDE DEF f
  <2>3. \A k \in 1 .. Len(buf) : k <= FrameLen(f) => buf[k] = Encode(f)[k]
    BY <1>1, <2>1, <2>2
  <2>4. CASE Len(buf) < FrameLen(f)
    <3>1. \A k \in 1 .. Len(buf) : buf[k] = Encode(f)[k]
      BY <1>3, <2>1, <2>3, <2>4
    <3>2. DecodeResult(buf) = "Incomplete"
      BY <1>3, <2>1, <2>4, <3>1, DecodePart
    <3>3. Len(buf) < MaxPayloadLen + FrameOverhead
      BY <1>2, <1>3, <2>1, <2>4, MaxPayloadLenAssumption DEF FrameOverhead, Word
    <3>4. QED
      BY <3>2, <3>3
  <2>5. CASE FrameLen(f) <= Len(buf)
    <3>1. \A k \in 1 .. FrameLen(f) : buf[k] = Encode(f)[k]
      BY <1>3, <2>1, <2>3, <2>5
    <3>2. /\ DecodeResult(buf) = "Ok"
          /\ DecodedFrame(buf) = f
          /\ ConsumedLen(buf) = FrameLen(f)
      BY <1>3, <2>1, <2>5, <3>1, DecodeWhole
    <3>3. QED
      BY <1>4, <2>5, <3>2 DEF f
  <2>6. QED
    BY <1>3, <2>1, <2>4, <2>5
<1>5. CASE Len(got) = Len(sent)
  <2>1. Base = starts[Len(starts)] /\ Base \in Nat
    BY <1>5, Positions DEF Base
  <2>2. starts[Len(starts)] - Base = 0 /\ TailLen = Len(Unread) /\ Len(buf) <= TailLen
    BY <2>1, Positions DEF TailLen
  <2>3. CASE TailLen > 0
    <3>1. PICK f \in Frame : TailLen < FrameLen(f) /\ HoldsAt(Unread, f, 0, TailLen)
      BY <2>2, <2>3 DEF IInv, BytesAccounted, TailInv
    <3>2. TailLen \in Nat /\ Len(buf) < FrameLen(f) /\ TailLen <= FrameLen(f)
      BY <1>2, <1>3, <2>2, <3>1, Positions
    <3>3. \A k \in 1 .. Len(buf) : k <= TailLen => buf[k] = Encode(f)[k]
      BY <1>1, <3>1, <3>2
    <3>4. \A k \in 1 .. Len(buf) : buf[k] = Encode(f)[k]
      BY <1>3, <2>2, <3>2, <3>3
    <3>5. DecodeResult(buf) = "Incomplete"
      BY <1>3, <3>2, <3>4, DecodePart
    <3>6. QED
      BY <1>2, <1>3, <3>2, <3>5, MaxPayloadLenAssumption DEF FrameOverhead, Word
  <2>4. CASE TailLen <= 0
    <3>1. Len(buf) = 0
      BY <1>3, <2>2, <2>4, Positions
    <3>2. QED
      BY <3>1, MaxPayloadLenAssumption DEF DecodeResult, HasHeader, FrameOverhead, Word
  <2>5. QED
    BY <2>2, <2>3, <2>4, Positions
<1>6. QED
  BY <1>4, <1>5, Positions

-----------------------------------------------------------------------------
(* Steps that leave the bytes, the frames and their places alone. *)
LEMMA SameBytes ==
  ASSUME IInv, TypeOK', UNCHANGED <<wire, buf, sent, got, starts>>,
         writer = "failed" => writer' = "failed"
  PROVE  IInv'
<1>1. /\ Len(got') = Len(got) /\ Len(sent') = Len(sent) /\ Len(starts') = Len(starts)
      /\ Base' = Base /\ Unread' = Unread
  BY DEF Base, Unread
<1>2. FramesInOrder'
  BY DEF IInv, FramesInOrder
<1>3. StartsInv'
  BY DEF IInv, BytesAccounted, StartsInv
<1>4. PendingInv'
  BY <1>1 DEF IInv, BytesAccounted, PendingInv, HoldsAt
<1>5. TailInv'
  BY <1>1 DEF IInv, BytesAccounted, TailInv, TailLen, HoldsAt
<1>6. QED
  BY <1>2, <1>3, <1>4, <1>5 DEF IInv, BytesAccounted

(* Bytes written go behind the unread ones. *)
LEMMA WrittenBytes ==
  ASSUME IInv, NEW e \in Seq(Byte), buf' = buf, wire' = wire \o e
  PROVE  /\ wire' \in Seq(Byte)
         /\ Unread' \in Seq(Byte)
         /\ Len(Unread') = Len(Unread) + Len(e)
         /\ Len(e) \in Nat
         /\ \A k \in 1 .. Len(Unread) : Unread'[k] = Unread[k]
         /\ \A k \in 1 .. Len(e) : Unread'[Len(Unread) + k] = e[k]
<1>1. buf \in Seq(Byte) /\ wire \in Seq(Byte) /\ wire \o e \in Seq(Byte)
  BY ConcatAt DEF IInv, TypeOK
<1>2. Unread' = Unread \o e
  <2>1. buf \o (wire \o e) = (buf \o wire) \o e
    BY <1>1, ConcatBytesAssociative
  <2>2. QED
    BY <2>1 DEF Unread
<1>3. Unread \in Seq(Byte)
  BY Positions
<1>4. QED
  BY <1>1, <1>2, <1>3, ConcatAt, LenProperties

(* A frame that lies in some bytes still does when more are added. *)
LEMMA HoldsAtGrows ==
  ASSUME NEW u \in Seq(Byte), NEW v \in Seq(Byte), Len(u) <= Len(v),
         \A k \in 1 .. Len(u) : v[k] = u[k],
         NEW f \in Frame, NEW off \in Nat, NEW n \in Nat, HoldsAt(u, f, off, n)
  PROVE  HoldsAt(v, f, off, n)
<1>1. Len(u) \in Nat /\ Len(v) \in Nat
  BY LenProperties
<1>2. off + n <= Len(u) /\ \A k \in 1 .. n : u[off + k] = Encode(f)[k]
  BY DEF HoldsAt
<1>3. off + n <= Len(v)
  BY <1>1, <1>2
<1>4. \A k \in 1 .. n : off + k \in 1 .. Len(u)
  BY <1>1, <1>2
<1>5. QED
  BY <1>2, <1>3, <1>4 DEF HoldsAt

LEMMA WriteFrameStep ==
  ASSUME IInv, NEW c \in Sends, NEW p \in Payloads, WriteFrame(c, p)
  PROVE  IInv'
<1> DEFINE f == [command |-> c, payload |-> p]
<1> PICK last \in Nat : last = Len(sent) + 1
  BY Positions
<1>1. f \in Frame /\ Encode(f) = EncodedBytes(c, p) /\ FrameLen(f) = FrameOverhead + Len(p)
  <2>1. p \in Seq(Byte) /\ Len(p) \in Nat
    BY PayloadsAssumption, LenProperties
  <2>2. Len(p) <= MaxPayloadLen
    BY <2>1, MaxPayloadLenAssumption DEF WriteFrame, EncodeError, Word
  <2>3. QED
    BY <2>2, SendsAssumption DEF Frame, Encode, FrameLen
<1>2. /\ writer = "open"
      /\ writer' \in {"open", "failed"} /\ UNCHANGED <<buf, outcome, noise, got>>
      /\ wire' = wire \o Encode(f)
      /\ sent' = Append(sent, f)
      /\ starts' = Append(starts, starts[last] + FrameLen(f))
  <2>1. /\ writer = "open"
        /\ writer' \in {"open", "failed"} /\ UNCHANGED <<buf, outcome, noise, got>>
        /\ wire' = wire \o Encode(f)
        /\ sent' = Append(sent, f)
        /\ starts' = Append(starts, starts[Len(starts)] + FrameOverhead + Len(p))
    BY <1>1 DEF WriteFrame, CanWrite
  <2>2. /\ Len(starts) = last /\ starts[last] \in Nat
        /\ p \in Seq(Byte) /\ Len(p) \in Nat
    BY Positions, PayloadsAssumption, LenProperties
  <2>3. starts[Len(starts)] + FrameOverhead + Len(p) = starts[last] + FrameLen(f)
    BY <1>1, <2>2 DEF FrameOverhead
  <2>4. QED
    BY <2>1, <2>3
<1>3. /\ Encode(f) \in Seq(Byte) /\ Len(Encode(f)) = FrameLen(f) /\ FrameLen(f) \in Nat
      /\ FrameLen(f) > 0
  BY <1>1, EncodeShape DEF FrameOverhead
<1> HIDE DEF f
<1>4. /\ wire' \in Seq(Byte)
      /\ Unread \in Seq(Byte) /\ Unread' \in Seq(Byte)
      /\ Len(Unread') = Len(Unread) + FrameLen(f)
      /\ \A k \in 1 .. Len(Unread) : Unread'[k] = Unread[k]
      /\ \A k \in 1 .. FrameLen(f) : Unread'[Len(Unread) + k] = Encode(f)[k]
  BY <1>2, <1>3, WrittenBytes, Positions
<1>5. /\ sent \in Seq(Frame) /\ sent' \in Seq(Frame) /\ Len(sent') = last
      /\ \A i \in 1 .. Len(sent) : sent'[i] = sent[i]
      /\ sent'[last] = f
  BY <1>1, <1>2, AppendProperties DEF IInv, TypeOK
<1>6. /\ starts' \in Seq(Nat) /\ Len(starts') = last + 1
      /\ \A i \in 1 .. last : starts'[i] = starts[i]
      /\ starts'[last + 1] = starts[last] + FrameLen(f)
      /\ starts'[last + 1] \in Nat
      /\ Len(starts) = last
  <2>1. starts[last] + FrameLen(f) \in Nat /\ starts \in Seq(Nat) /\ Len(starts) = last
    BY <1>3, Positions DEF IInv, TypeOK
  <2>2. QED
    BY <1>2, <2>1, AppendProperties
<1>7. TypeOK'
  BY <1>2, <1>4, <1>5, <1>6 DEF IInv, TypeOK
<1>n. /\ Len(sent) \in Nat /\ Len(got) \in Nat /\ Len(got) <= Len(sent)
      /\ Len(Unread) \in Nat /\ Base \in Nat
      /\ starts[last] \in Nat /\ starts[last] - Base \in Nat
      /\ \A i \in 1 .. last : starts[i] \in Nat
  BY Positions, LenProperties
<1>8. Len(got') = Len(got) /\ Len(got) + 1 \in 1 .. last /\ Base' = Base
  BY <1>2, <1>6, Positions DEF Base
<1>9. FramesInOrder'
  <2>1. Len(got) \in Nat /\ Len(sent) \in Nat /\ Len(got) <= Len(sent)
    BY Positions
  <2>2. QED
    BY <1>2, <1>5, <2>1 DEF IInv, FramesInOrder
<1>10. TailLen = 0 /\ Len(Unread) = starts[last] - Base
  <2>1. TailLen \in Int
    BY <1>6, Positions DEF TailLen
  <2>2. TailLen = 0
    BY <1>2, <2>1 DEF IInv, BytesAccounted, TailInv
  <2>3. QED
    BY <1>6, <1>n, <2>2 DEF TailLen
<1>11. StartsInv'
  <2>1. \A i \in 1 .. last : starts'[i + 1] = starts'[i] + FrameLen(sent'[i])
    <3>1. TAKE i \in 1 .. last
    <3>2. CASE i = last
      BY <1>5, <1>6, <3>2, <1>n
    <3>3. CASE i \in 1 .. Len(sent)
      <4>1. starts[i + 1] = starts[i] + FrameLen(sent[i])
        BY <3>3 DEF IInv, BytesAccounted, StartsInv
      <4>2. i \in 1 .. last /\ i + 1 \in 1 .. last
        BY <1>n, <3>3
      <4>3. starts'[i + 1] = starts[i + 1] /\ starts'[i] = starts[i]
        BY <1>6, <4>2
      <4>4. sent'[i] = sent[i]
        BY <1>5, <3>3
      <4>5. QED
        BY <4>1, <4>3, <4>4
    <3>4. QED
      BY <3>2, <3>3, <1>n
  <2>2. \A i, j \in 1 .. last + 1 : i <= j => starts'[i] <= starts'[j]
    <3>1. \A i, j \in 1 .. last : i <= j => starts[i] <= starts[j]
      BY <1>6 DEF IInv, BytesAccounted, StartsInv
    <3>2. \A i \in 1 .. last : starts[i] \in Nat
      BY Positions
    <3>3. last \in 1 .. last /\ starts[last] <= starts'[last + 1]
      BY <1>3, <1>6, <3>2, <1>n
    <3>4. SUFFICES ASSUME NEW i \in 1 .. last + 1, NEW j \in 1 .. last + 1, i <= j
                   PROVE  starts'[i] <= starts'[j]
      OBVIOUS
    <3>5. CASE j <= last
      <4>1. i \in 1 .. last /\ j \in 1 .. last
        BY <3>4, <3>5
      <4>2. starts'[i] = starts[i] /\ starts'[j] = starts[j]
        BY <1>6, <4>1
      <4>3. QED
        BY <3>1, <3>4, <4>1, <4>2
    <3>6. CASE j = last + 1 /\ i <= last
      <4>1. i \in 1 .. last /\ starts'[i] = starts[i]
        BY <1>6, <3>6
      <4>2. starts[i] <= starts[last] /\ starts[i] \in Nat
        BY <3>1, <3>2, <3>3, <4>1
      <4>3. starts[last] \in Nat /\ starts'[last + 1] \in Nat
        BY <1>6, <1>n
      <4>4. starts'[i] <= starts'[last + 1]
        BY <3>3, <4>1, <4>2, <4>3
      <4>5. QED
        BY <3>6, <4>4
    <3>7. CASE j = last + 1 /\ i = last + 1
      BY <1>3, <1>6, <1>n, <3>7
    <3>8. QED
      BY <3>5, <3>6, <3>7
  <2>3. QED
    BY <1>5, <1>6, <2>1, <2>2 DEF StartsInv
<1>12. PendingInv'
  <2>1. SUFFICES ASSUME NEW i \in Len(got) + 1 .. last
                 PROVE  HoldsAt(Unread', sent'[i], starts'[i] - Base, FrameLen(sent'[i]))
    BY <1>2, <1>5, <1>8 DEF PendingInv
  <2>2. CASE i \in Len(got) + 1 .. Len(sent)
    <3>1. HoldsAt(Unread, sent[i], starts[i] - Base, FrameLen(sent[i]))
      BY <2>2 DEF IInv, BytesAccounted, PendingInv
    <3>2. sent[i] \in Frame /\ starts[i] - Base \in Nat
      BY <1>n, <2>2, Positions
    <3>3. FrameLen(sent[i]) \in Nat
      BY <3>2, EncodeShape
    <3>4. Len(Unread) <= Len(Unread')
      BY <1>3, <1>4, LenProperties
    <3>5. HoldsAt(Unread', sent[i], starts[i] - Base, FrameLen(sent[i]))
      BY <1>4, <3>1, <3>2, <3>3, <3>4, HoldsAtGrows
    <3>6. i \in 1 .. Len(sent) /\ i \in 1 .. last
      BY <1>n, <2>2
    <3>7. sent'[i] = sent[i] /\ starts'[i] = starts[i]
      BY <1>5, <1>6, <3>6
    <3>8. QED
      BY <3>5, <3>7
  <2>3. CASE i = last
    <3>1. sent'[i] = f /\ starts'[i] - Base = Len(Unread)
      <4>1. last \in 1 .. last
        BY <1>n
      <4>2. sent'[last] = f /\ starts'[last] = starts[last]
        BY <1>5, <1>6, <4>1
      <4>3. QED
        BY <1>10, <2>3, <4>2
    <3>2. HoldsAt(Unread', f, Len(Unread), FrameLen(f))
      <4>1. Len(Unread) \in Nat /\ FrameLen(f) \in Nat
        BY <1>3, <1>4, LenProperties
      <4>2. Len(Unread) + FrameLen(f) <= Len(Unread')
        BY <1>4, <4>1
      <4>3. QED
        BY <1>4, <4>2 DEF HoldsAt
    <3>3. QED
      BY <3>1, <3>2
  <2>4. QED
    BY <2>2, <2>3, <1>n
<1>13. TailInv'
  <2>1. TailLen' = Len(Unread') - (starts'[last + 1] - Base)
    BY <1>6, <1>8 DEF TailLen
  <2>2. TailLen' = 0
    <3>1. Len(Unread') = Len(Unread) + FrameLen(f)
      BY <1>4
    <3>2. starts'[last + 1] = starts[last] + FrameLen(f)
      BY <1>6
    <3>3. QED
      BY <1>3, <1>10, <1>n, <2>1, <3>1, <3>2
  <2>3. QED
    BY <2>2 DEF TailInv
<1>14. QED
  BY <1>7, <1>9, <1>11, <1>12, <1>13 DEF IInv, BytesAccounted

LEMMA TearFrameStep ==
  ASSUME IInv, NEW c \in Sends, NEW p \in Payloads, TearFrame(c, p)
  PROVE  IInv'
<1> DEFINE f == [command |-> c, payload |-> p]
<1>1. f \in Frame /\ Encode(f) = EncodedBytes(c, p) /\ FrameLen(f) = FrameOverhead + Len(p)
  <2>1. p \in Seq(Byte) /\ Len(p) \in Nat
    BY PayloadsAssumption, LenProperties
  <2>2. Len(p) <= MaxPayloadLen
    BY <2>1, MaxPayloadLenAssumption DEF TearFrame, EncodeError, Word
  <2>3. QED
    BY <2>2, SendsAssumption DEF Frame, Encode, FrameLen
<1> HIDE DEF f
<1>2. /\ writer = "open" /\ writer' = "failed"
      /\ UNCHANGED <<buf, outcome, noise, sent, got, starts>>
      /\ \E n \in 0 .. FrameLen(f) - 1 : wire' = wire \o SubSeq(Encode(f), 1, n)
  <2>1. PICK n \in 0 .. FrameOverhead + Len(p) - 1 :
          wire' = wire \o SubSeq(EncodedBytes(c, p), 1, n)
    BY DEF TearFrame
  <2>2. n \in 0 .. FrameLen(f) - 1
    BY <1>1, PayloadsAssumption, LenProperties DEF FrameOverhead
  <2>3. wire' = wire \o SubSeq(Encode(f), 1, n)
    BY <1>1, <2>1
  <2>4. QED
    BY <2>2, <2>3 DEF TearFrame, CanWrite
<1>3. Encode(f) \in Seq(Byte) /\ Len(Encode(f)) = FrameLen(f) /\ FrameLen(f) \in Nat
  BY <1>1, EncodeShape
<1>4. PICK n \in 0 .. FrameLen(f) - 1 : wire' = wire \o SubSeq(Encode(f), 1, n)
  BY <1>2
<1> DEFINE e == SubSeq(Encode(f), 1, n)
<1>5. n \in Nat /\ n < FrameLen(f)
  BY <1>3
<1>6. e \in Seq(Byte) /\ Len(e) = n /\ \A k \in 1 .. n : e[k] = Encode(f)[k]
  <2>1. \A i \in 1 .. n : Encode(f)[i] \in Byte
    BY <1>3, <1>5
  <2>2. QED
    BY <1>3, <1>5, <2>1
<1> HIDE DEF e
<1>7. /\ wire' \in Seq(Byte)
      /\ Unread \in Seq(Byte) /\ Unread' \in Seq(Byte)
      /\ Len(Unread') = Len(Unread) + n
      /\ \A k \in 1 .. Len(Unread) : Unread'[k] = Unread[k]
      /\ \A k \in 1 .. n : Unread'[Len(Unread) + k] = Encode(f)[k]
  <2>1. wire' = wire \o e
    BY <1>4 DEF e
  <2>2. /\ wire' \in Seq(Byte)
        /\ Unread' \in Seq(Byte)
        /\ Len(Unread') = Len(Unread) + Len(e)
        /\ \A k \in 1 .. Len(Unread) : Unread'[k] = Unread[k]
        /\ \A k \in 1 .. Len(e) : Unread'[Len(Unread) + k] = e[k]
    BY <1>2, <1>6, <2>1, WrittenBytes
  <2>3. QED
    BY <1>6, <2>2, Positions
<1>8. TypeOK'
  BY <1>2, <1>7 DEF IInv, TypeOK
<1>9. Len(got') = Len(got) /\ Len(sent') = Len(sent) /\ Len(starts') = Len(starts) /\ Base' = Base
  BY <1>2 DEF Base
<1>10. FramesInOrder' /\ StartsInv'
  BY <1>2 DEF IInv, FramesInOrder, BytesAccounted, StartsInv
<1>11. Len(Unread) \in Nat /\ starts[Len(starts)] - Base \in Nat
  BY Positions, LenProperties
<1>12. Len(Unread) = starts[Len(starts)] - Base
  <2>1. TailLen \in Int
    BY <1>11 DEF TailLen
  <2>2. TailLen = 0
    BY <1>2, <2>1 DEF IInv, BytesAccounted, TailInv
  <2>3. QED
    BY <1>11, <2>2 DEF TailLen
<1>13. PendingInv'
  <2>1. SUFFICES ASSUME NEW i \in Len(got) + 1 .. Len(sent)
                 PROVE  HoldsAt(Unread', sent[i], starts[i] - Base, FrameLen(sent[i]))
    BY <1>2, <1>9 DEF PendingInv
  <2>2. HoldsAt(Unread, sent[i], starts[i] - Base, FrameLen(sent[i]))
    BY DEF IInv, BytesAccounted, PendingInv
  <2>3. sent[i] \in Frame /\ starts[i] - Base \in Nat
    BY Positions
  <2>4. FrameLen(sent[i]) \in Nat
    BY <2>3, EncodeShape
  <2>5. Len(Unread) <= Len(Unread')
    BY <1>5, <1>7, <1>11
  <2>6. QED
    BY <1>7, <2>2, <2>3, <2>4, <2>5, HoldsAtGrows
<1>14. TailInv'
  <2>1. TailLen' = Len(Unread') - (starts[Len(starts)] - Base)
    BY <1>2, <1>9 DEF TailLen
  <2>2. TailLen' = n
    <3>1. Len(Unread') = Len(Unread) + n
      BY <1>7
    <3>2. QED
      BY <1>5, <1>11, <1>12, <2>1, <3>1
  <2>3. HoldsAt(Unread', f, Len(Unread), n)
    BY <1>5, <1>7, <1>11 DEF HoldsAt
  <2>4. HoldsAt(Unread', f, starts'[Len(starts')] - Base', TailLen')
    BY <1>2, <1>9, <1>12, <2>2, <2>3
  <2>5. f \in Frame /\ TailLen' < FrameLen(f) /\ TailLen' >= 0
    BY <1>1, <1>5, <2>2 DEF f
  <2>6. QED
    BY <1>2, <2>4, <2>5 DEF TailInv
<1>15. QED
  BY <1>8, <1>10, <1>13, <1>14 DEF IInv, BytesAccounted

(* A read moves bytes and leaves the unread ones as they are. *)
LEMMA ReadBytesStep ==
  ASSUME IInv, ReadBytes
  PROVE  IInv'
<1>1. PICK n \in 1 .. Len(wire) : /\ buf' = buf \o SubSeq(wire, 1, n)
                                  /\ wire' = SubSeq(wire, n + 1, Len(wire))
  BY DEF ReadBytes
<1>2. UNCHANGED <<writer, outcome, noise, sent, got, starts>>
  BY DEF ReadBytes
<1>3. buf \in Seq(Byte) /\ wire \in Seq(Byte) /\ Len(wire) \in Nat
  BY LenProperties DEF IInv, TypeOK
<1> DEFINE l == SubSeq(wire, 1, n)
           r == SubSeq(wire, n + 1, Len(wire))
<1>4. l \in Seq(Byte) /\ r \in Seq(Byte)
  <2>1. \A i \in 1 .. Len(wire) : wire[i] \in Byte
    BY <1>3
  <2>2. QED
    BY <1>3, <2>1
<1>5. l \o r = wire
  <2>1. /\ 1 \in 1 .. Len(wire) + 1 /\ n \in 1 - 1 .. Len(wire) /\ Len(wire) \in n .. Len(wire)
    BY <1>3
  <2>2. l \o r = SubSeq(wire, 1, Len(wire))
    BY <1>3, <2>1, ConcatAdjacentSubSeq
  <2>3. QED
    BY <1>3, <2>2, SubSeqFull
<1> HIDE DEF l, r
<1>6. buf' = buf \o l /\ wire' = r
  BY <1>1 DEF l, r
<1>7. Unread' = Unread
  <2>1. (buf \o l) \o r = buf \o (l \o r)
    BY <1>3, <1>4, ConcatBytesAssociative
  <2>2. QED
    BY <1>5, <1>6, <2>1 DEF Unread
<1>8. TypeOK'
  BY <1>2, <1>3, <1>4, <1>6, ConcatAt DEF IInv, TypeOK
<1>9. FramesInOrder' /\ StartsInv'
  BY <1>2 DEF IInv, FramesInOrder, BytesAccounted, StartsInv
<1>10. Base' = Base
  BY <1>2 DEF Base
<1>11. PendingInv'
  BY <1>2, <1>7, <1>10 DEF IInv, BytesAccounted, PendingInv
<1>12. TailInv'
  <2>1. TailLen' = TailLen
    BY <1>2, <1>7, <1>10 DEF TailLen
  <2>2. QED
    BY <1>2, <1>7, <1>10, <2>1 DEF IInv, BytesAccounted, TailInv
<1>13. QED
  BY <1>8, <1>9, <1>11, <1>12 DEF IInv, BytesAccounted

(* Consuming the first L bytes of u moves what lies behind them to the     *)
(* front by L.                                                             *)
LEMMA HoldsAtShifts ==
  ASSUME NEW u \in Seq(Byte), NEW v \in Seq(Byte), NEW L \in Nat, Len(u) = Len(v) + L,
         \A k \in 1 .. Len(v) : v[k] = u[L + k],
         NEW f \in Frame, NEW off \in Nat, NEW n \in Nat, HoldsAt(u, f, off + L, n)
  PROVE  HoldsAt(v, f, off, n)
<1>1. Len(u) \in Nat /\ Len(v) \in Nat
  BY LenProperties
<1>2. (off + L) + n <= Len(u) /\ \A k \in 1 .. n : u[(off + L) + k] = Encode(f)[k]
  BY DEF HoldsAt
<1>3. off + n <= Len(v)
  BY <1>1, <1>2
<1>4. ASSUME NEW k \in 1 .. n
      PROVE  v[off + k] = Encode(f)[k]
  <2>1. off + k \in 1 .. Len(v) /\ L + (off + k) = (off + L) + k
    BY <1>1, <1>3
  <2>2. v[off + k] = u[L + (off + k)]
    BY <2>1
  <2>3. QED
    BY <1>2, <2>1, <2>2
<1>5. QED
  BY <1>3, <1>4 DEF HoldsAt

(* What is unread after the reader has consumed L bytes of its buffer. *)
LEMMA ConsumedBytes ==
  ASSUME IInv, NEW L \in Nat, L <= Len(buf),
         buf' = SubSeq(buf, L + 1, Len(buf)), wire' = wire
  PROVE  /\ buf' \in Seq(Byte)
         /\ Unread' \in Seq(Byte)
         /\ Len(Unread) = Len(Unread') + L
         /\ \A k \in 1 .. Len(Unread') : Unread'[k] = Unread[L + k]
<1>1. buf \in Seq(Byte) /\ wire \in Seq(Byte) /\ Len(buf) \in Nat /\ Len(wire) \in Nat
  BY LenProperties DEF IInv, TypeOK
<1>2. PICK m \in Nat : m = Len(buf) - L
  BY <1>1
<1>3. /\ buf' \in Seq(Byte) /\ Len(buf') = m
      /\ \A k \in 1 .. m : buf'[k] = buf[L + k]
  <2>1. \A i \in L + 1 .. Len(buf) : buf[i] \in Byte
    BY <1>1
  <2>2. SubSeq(buf, L + 1, Len(buf)) \in Seq(Byte)
    BY <1>1, <2>1
  <2>3. Len(SubSeq(buf, L + 1, Len(buf))) = m
    BY <1>1, <1>2
  <2>4. \A k \in 1 .. m : SubSeq(buf, L + 1, Len(buf))[k] = buf[L + k]
    BY <1>1, <1>2
  <2>5. QED
    BY <2>2, <2>3, <2>4
<1>4. /\ Unread \in Seq(Byte) /\ Len(Unread) = Len(buf) + Len(wire)
      /\ \A k \in 1 .. Len(buf) : Unread[k] = buf[k]
      /\ \A k \in 1 .. Len(wire) : Unread[Len(buf) + k] = wire[k]
  BY <1>1, ConcatAt DEF Unread
<1>5. /\ buf' \o wire \in Seq(Byte) /\ Len(buf' \o wire) = m + Len(wire)
      /\ \A k \in 1 .. m : (buf' \o wire)[k] = buf'[k]
      /\ \A k \in 1 .. Len(wire) : (buf' \o wire)[m + k] = wire[k]
  BY <1>1, <1>3, ConcatAt
<1>6. Unread' = buf' \o wire
  BY DEF Unread
<1>7. Unread' \in Seq(Byte) /\ Len(Unread') = m + Len(wire) /\ Len(Unread) = Len(Unread') + L
  BY <1>1, <1>2, <1>4, <1>5, <1>6
<1>8. ASSUME NEW k \in 1 .. m + Len(wire)
      PROVE  (buf' \o wire)[k] = Unread[L + k]
  <2>1. CASE k <= m
    <3>1. k \in 1 .. m /\ L + k \in 1 .. Len(buf)
      BY <1>1, <1>2, <2>1
    <3>2. QED
      BY <1>3, <1>4, <1>5, <3>1
  <2>2. CASE k > m
    <3>1. PICK j \in 1 .. Len(wire) : k = m + j
      <4>1. k - m \in 1 .. Len(wire) /\ k = m + (k - m)
        BY <1>1, <1>2, <2>2
      <4>2. QED
        BY <4>1
    <3>2. L + k = Len(buf) + j
      BY <1>1, <1>2, <3>1
    <3>3. QED
      BY <1>4, <1>5, <3>1, <3>2
  <2>3. QED
    BY <1>1, <1>2, <2>1, <2>2
<1>9. QED
  BY <1>3, <1>6, <1>7, <1>8

LEMMA ReturnFrameStep ==
  ASSUME IInv, ReturnFrame
  PROVE  /\ IInv'
         /\ Len(got) < Len(sent)
         /\ got' = Append(got, sent[Len(got) + 1])
<1> DEFINE f == sent[Len(got) + 1]
           L == FrameLen(f)
<1>1. /\ Len(got) < Len(sent)
      /\ DecodedFrame(buf) = f
      /\ ConsumedLen(buf) = L
      /\ L <= Len(buf)
  BY ReaderView DEF ReturnFrame, ReturnLeaving
<1>2. /\ got' = Append(got, f)
      /\ buf' = SubSeq(buf, L + 1, Len(buf))
      /\ outcome' = "frame"
      /\ UNCHANGED <<wire, writer, noise, sent, starts>>
  BY <1>1 DEF ReturnFrame, ReturnLeaving
<1>3. f \in Frame /\ L \in Nat
  <2>1. f \in Frame
    BY <1>1, Positions
  <2>2. QED
    BY <2>1, EncodeShape
<1>4. /\ Len(got) \in Nat /\ Len(sent) \in Nat /\ Len(starts) = Len(sent) + 1
      /\ \A i \in 1 .. Len(sent) + 1 : starts[i] \in Nat
      /\ \A i \in Len(got) + 1 .. Len(sent) + 1 : starts[i] - Base \in Nat
      /\ Base \in Nat
  BY Positions
<1>5. /\ got' \in Seq(Frame) /\ Len(got') = Len(got) + 1
      /\ \A i \in 1 .. Len(got) : got'[i] = got[i]
      /\ got'[Len(got) + 1] = f
  BY <1>2, <1>3, AppendProperties DEF IInv, TypeOK
<1>6. Base' = Base + L
  <2>1. Len(got) + 1 \in 1 .. Len(sent)
    BY <1>1, <1>4
  <2>2. starts[(Len(got) + 1) + 1] = starts[Len(got) + 1] + L
    BY <2>1 DEF IInv, BytesAccounted, StartsInv
  <2>3. QED
    BY <1>2, <1>5, <2>2 DEF Base
<1>m. \A i \in Len(got) + 2 .. Len(sent) + 1 : (starts[i] - Base') \in Nat
  <2>1. SUFFICES ASSUME NEW i \in Len(got) + 2 .. Len(sent) + 1
                 PROVE  starts[i] - Base' \in Nat
    OBVIOUS
  <2>2. Base' = starts[Len(got) + 2]
    BY <1>2, <1>4, <1>5 DEF Base
  <2>3. Len(got) + 2 \in 1 .. Len(sent) + 1 /\ i \in 1 .. Len(sent) + 1 /\ Len(got) + 2 <= i
    BY <1>4
  <2>4. starts[Len(got) + 2] <= starts[i]
    BY <1>4, <2>3 DEF IInv, BytesAccounted, StartsInv
  <2>5. QED
    BY <1>4, <2>2, <2>3, <2>4
<1> HIDE DEF L
<1>7. /\ buf' \in Seq(Byte)
      /\ Unread' \in Seq(Byte)
      /\ Len(Unread) = Len(Unread') + L
      /\ \A k \in 1 .. Len(Unread') : Unread'[k] = Unread[L + k]
  BY <1>1, <1>2, <1>3, ConsumedBytes
<1>8. Unread \in Seq(Byte) /\ Len(Unread) \in Nat /\ Len(Unread') \in Nat
  BY <1>7, Positions, LenProperties
<1>9. TypeOK'
  BY <1>2, <1>5, <1>7 DEF IInv, TypeOK, Outcomes
<1>10. FramesInOrder'
  <2>1. Len(got') <= Len(sent')
    BY <1>1, <1>2, <1>4, <1>5
  <2>2. \A i \in 1 .. Len(got') : got'[i] = sent'[i]
    <3>1. TAKE i \in 1 .. Len(got')
    <3>2. CASE i \in 1 .. Len(got)
      BY <1>2, <1>5, <3>2 DEF IInv, FramesInOrder
    <3>3. CASE i = Len(got) + 1
      BY <1>2, <1>5, <3>3
    <3>4. QED
      BY <1>4, <1>5, <3>2, <3>3
  <2>3. QED
    BY <2>1, <2>2 DEF FramesInOrder
<1>11. StartsInv'
  BY <1>2 DEF IInv, BytesAccounted, StartsInv
<1> HIDE DEF f
<1>12. PendingInv'
  <2>1. SUFFICES ASSUME NEW i \in Len(got) + 2 .. Len(sent)
                 PROVE  HoldsAt(Unread', sent[i], starts[i] - Base', FrameLen(sent[i]))
    BY <1>2, <1>4, <1>5 DEF PendingInv
  <2>2. HoldsAt(Unread, sent[i], starts[i] - Base, FrameLen(sent[i]))
    BY <1>4 DEF IInv, BytesAccounted, PendingInv
  <2>3. sent[i] \in Frame /\ starts[i] - Base' \in Nat
    BY <1>4, <1>m, Positions
  <2>4. FrameLen(sent[i]) \in Nat
    BY <2>3, EncodeShape
  <2>5. starts[i] - Base = (starts[i] - Base') + L
    BY <1>3, <1>4, <1>6
  <2>6. HoldsAt(Unread, sent[i], (starts[i] - Base') + L, FrameLen(sent[i]))
    BY <2>2, <2>5
  <2>7. QED
    BY <1>3, <1>7, <1>8, <2>3, <2>4, <2>6, HoldsAtShifts
<1>13. TailInv'
  <2> DEFINE o == starts[Len(starts)] - Base'
  <2>1. o \in Nat /\ starts[Len(starts)] - Base = o + L
    BY <1>1, <1>3, <1>4, <1>6, <1>m
  <2>2. TailLen' = Len(Unread') - o
    BY <1>2 DEF TailLen
  <2>3. TailLen = Len(Unread) - (o + L)
    BY <2>1 DEF TailLen
  <2> HIDE DEF o
  <2>4. TailLen' = TailLen /\ TailLen \in Int
    BY <1>3, <1>7, <1>8, <2>1, <2>2, <2>3
  <2>5. TailLen >= 0
    BY DEF IInv, BytesAccounted, TailInv
  <2>6. CASE TailLen > 0
    <3>1. writer = "failed"
      BY <2>6 DEF IInv, BytesAccounted, TailInv
    <3>2. PICK g \in Frame : TailLen < FrameLen(g) /\ HoldsAt(Unread, g, o + L, TailLen)
      BY <2>1, <2>6 DEF IInv, BytesAccounted, TailInv
    <3>3. HoldsAt(Unread', g, o, TailLen)
      <4>1. o \in Nat /\ TailLen \in Nat
        BY <2>1, <2>4, <2>5
      <4>2. HoldsAt(Unread, g, o + L, TailLen)
        BY <3>2
      <4>3. QED
        BY <1>3, <1>7, <1>8, <4>1, <4>2, HoldsAtShifts
    <3>4. HoldsAt(Unread', g, starts'[Len(starts')] - Base', TailLen')
      BY <1>2, <2>4, <3>3 DEF o
    <3>5. QED
      BY <1>2, <2>4, <2>5, <3>1, <3>2, <3>4 DEF TailInv
  <2>7. CASE ~(TailLen > 0)
    BY <2>4, <2>5, <2>7 DEF TailInv
  <2>8. QED
    BY <2>6, <2>7
<1>14. QED
  BY <1>1, <1>2, <1>9, <1>10, <1>11, <1>12, <1>13 DEF IInv, BytesAccounted, f

-----------------------------------------------------------------------------
LEMMA InitIInv ==
  ASSUME CleanLine
  PROVE  Init => IInv
<1> SUFFICES ASSUME Init PROVE IInv
  OBVIOUS
<1>2. TypeOK
  BY DEF Init, CleanLine, TypeOK, Outcomes
<1>3. /\ Len(got) = 0 /\ Len(sent) = 0 /\ Len(starts) = 1 /\ starts[1] = 0
      /\ Unread = <<>>
  BY DEF Init, CleanLine, Unread
<1>4. FramesInOrder
  BY <1>3 DEF FramesInOrder
<1>5. StartsInv /\ PendingInv
  BY <1>3 DEF StartsInv, PendingInv
<1>6. TailInv
  BY <1>3 DEF TailInv, TailLen, Base
<1>7. QED
  BY <1>2, <1>4, <1>5, <1>6 DEF IInv, BytesAccounted

(* A line that delivers is never disturbed. *)
LEMMA NoDisturbance ==
  ASSUME CleanLine, IInv
  PROVE  ~AlterByte /\ ~LoseBytes /\ ~ReopenWriter
<1>1. ~Disturb
  BY DEF CleanLine, IInv, TypeOK, Disturb
<1>2. QED
  BY <1>1 DEF AlterByte, LoseBytes, ReopenWriter

LEMMA NextIInv ==
  ASSUME CleanLine
  PROVE  IInv /\ [Next]_vars => IInv'
<1> SUFFICES ASSUME IInv, [Next]_vars PROVE IInv'
  OBVIOUS
<1>2. CASE \E c \in Sends, p \in Payloads : WriteFrame(c, p)
  BY <1>2, WriteFrameStep
<1>3. CASE \E p \in Payloads : RefuseFrame(p)
  <2>1. TypeOK'
    BY <1>3 DEF RefuseFrame, IInv, TypeOK
  <2>2. QED
    BY <1>3, <2>1, SameBytes DEF RefuseFrame
<1>4. CASE \E c \in Sends, p \in Payloads : TearFrame(c, p)
  BY <1>4, TearFrameStep
<1>5. CASE ReturnFrame
  BY <1>5, ReturnFrameStep
<1>6. CASE FailFraming
  <2>1. TypeOK'
    BY <1>6 DEF FailFraming, IInv, TypeOK, Outcomes
  <2>2. QED
    BY <1>6, <2>1, SameBytes DEF FailFraming
<1>7. CASE FailBufferFull
  <2>1. TypeOK'
    BY <1>7 DEF FailBufferFull, IInv, TypeOK, Outcomes, FatalDecodeErrors
  <2>2. QED
    BY <1>7, <2>1, SameBytes DEF FailBufferFull
<1>8. CASE ReadBytes
  BY <1>8, ReadBytesStep
<1>9. CASE FailRead
  <2>1. TypeOK'
    BY <1>9 DEF FailRead, IInv, TypeOK, Outcomes
  <2>2. QED
    BY <1>9, <2>1, SameBytes DEF FailRead
<1>10. CASE UNCHANGED vars
  <2>1. TypeOK'
    BY <1>10 DEF vars, IInv, TypeOK
  <2>2. QED
    BY <1>10, <2>1, SameBytes DEF vars
<1>11. QED
  BY <1>2, <1>3, <1>4, <1>5, <1>6, <1>7, <1>8, <1>9, <1>10, NoDisturbance DEF Next

THEOREM Invariance ==
  ASSUME CleanLine
  PROVE  Spec => []IInv
<1>1. Init => IInv
  BY InitIInv
<1>2. QED
  BY <1>1, NextIInv, PTL DEF Spec

(* The variables keep their types: in particular, whatever decode returned *)
(* is a frame that encode accepts.                                         *)
THEOREM TypeCorrect ==
  ASSUME CleanLine
  PROVE  Spec => []TypeOK
<1>1. IInv => TypeOK
  BY DEF IInv
<1>2. Spec => []IInv
  BY Invariance
<1>3. QED
  BY <1>1, <1>2, PTL

(* The frames recv_frame and read_frame return are the ones written, in    *)
(* their order, for every payload, buffer and chunk size.                  *)
THEOREM FramesReturnedInOrder ==
  ASSUME CleanLine
  PROVE  Spec => []FramesInOrder
<1>1. IInv => FramesInOrder
  BY DEF IInv
<1>2. Spec => []IInv
  BY Invariance
<1>3. QED
  BY <1>1, <1>2, PTL

(* No byte is lost between two calls of the reader: each unread byte has   *)
(* its place in a frame not yet returned, or in the one torn at the end.   *)
THEOREM NoByteLost ==
  ASSUME CleanLine
  PROVE  Spec => []BytesAccounted
<1>1. IInv => BytesAccounted
  BY DEF IInv
<1>2. Spec => []IInv
  BY Invariance
<1>3. QED
  BY <1>1, <1>2, PTL

(* A read_buf of MAX_PAYLOAD_LEN + FRAME_OVERHEAD bytes, the size all the  *)
(* roles use, is enough: recv_frame never reports a buffer that filled up, *)
(* and no cut of the bytes reads as a framing error.                       *)
THEOREM RoleBufferSuffices ==
  ASSUME CleanLine, RoleBuffer
  PROVE  Spec => []NoFramingError
<1>1. Init => NoFramingError
  BY DEF Init, NoFramingError, FatalDecodeErrors
<1>2. IInv /\ NoFramingError /\ [Next]_vars => NoFramingError'
  <2> SUFFICES ASSUME IInv, NoFramingError, [Next]_vars PROVE NoFramingError'
    OBVIOUS
  <2>2. DecodeResult(buf) \in {"Incomplete", "Ok"}
        /\ (DecodeResult(buf) = "Incomplete" => Len(buf) < MaxPayloadLen + FrameOverhead)
    BY ReaderView
  <2>3. ~FailFraming
    BY <2>2 DEF FailFraming, FatalDecodeErrors
  <2>4. ~FailBufferFull
    <3>1. Len(buf) \in Nat /\ BufLen \in Nat /\ MaxPayloadLen \in Nat
      BY BufLenAssumption, MaxPayloadLenAssumption, Positions DEF Word
    <3>2. QED
      BY <2>2, <3>1 DEF FailBufferFull, RoleBuffer, FrameOverhead
  <2>5. outcome' \in {outcome, "frame", "io"}
    BY <2>3, <2>4
       DEF Next, vars, WriteFrame, RefuseFrame, TearFrame, ReturnFrame,
           ReturnLeaving, ReadBytes, FailRead, AlterByte, LoseBytes, ReopenWriter
  <2>6. QED
    BY <2>5 DEF NoFramingError, FatalDecodeErrors
<1>3. Spec => []IInv
  BY Invariance
<1>4. QED
  BY <1>1, <1>2, <1>3, PTL DEF Spec

(* The byte stream implements the channel of whole frames: a write that    *)
(* succeeded sends, a frame returned is the next one sent, and every other *)
(* step leaves the channel alone.                                          *)
THEOREM ImplementsChannelSafety ==
  ASSUME CleanLine
  PROVE  Spec => Channel!Spec
<1>1. Init => Channel!Init
  BY DEF Init, Channel!Init
<1>2. IInv /\ [Next]_vars => [Channel!Next]_<<sent, got>>
  <2> SUFFICES ASSUME IInv, [Next]_vars PROVE [Channel!Next]_<<sent, got>>
    OBVIOUS
  <2>2. ASSUME NEW c \in Sends, NEW p \in Payloads, WriteFrame(c, p)
        PROVE  Channel!Send
    <3>1. [command |-> c, payload |-> p] \in Frame
      <4>1. p \in Seq(Byte) /\ Len(p) \in Nat
        BY PayloadsAssumption, LenProperties
      <4>2. Len(p) <= MaxPayloadLen
        BY <2>2, <4>1, MaxPayloadLenAssumption DEF WriteFrame, EncodeError, Word
      <4>3. QED
        BY <4>2, SendsAssumption DEF Frame
    <3>2. QED
      BY <2>2, <3>1 DEF WriteFrame, Channel!Send
  <2>3. ASSUME ReturnFrame
        PROVE  Channel!Deliver
    BY <2>3, ReturnFrameStep DEF ReturnFrame, ReturnLeaving, Channel!Deliver
  <2>4. QED
    BY <2>2, <2>3
       DEF Next, vars, RefuseFrame, TearFrame, FailFraming, FailBufferFull, ReadBytes,
           FailRead, AlterByte, LoseBytes, ReopenWriter, Channel!Next
<1>3. Spec => []IInv
  BY Invariance
<1>4. QED
  BY <1>1, <1>2, <1>3, PTL DEF Spec, Channel!Spec

-----------------------------------------------------------------------------
(* The checksum. *)

(* Recursive functions over 0 .. N are handled by two facts: a set of       *)
(* numbers with 0 and with n + 1 for each of its n has all of them, since   *)
(* < is well-founded; and a step on S determines a function into S.         *)
Before == OpToRel(<, Nat)

LEMMA SmallestOf ==
  ASSUME NEW T \in SUBSET Nat, T # {}
  PROVE  \E m \in T : \A n \in T : m <= n
<1>1. IsWellFoundedOn(Before, Nat)
  BY NatLessThanWellFounded, Zenon DEF Before
<1>2. PICK m \in T : \A n \in T : ~(<<n, m>> \in Before)
  BY <1>1, WFMin
<1>3. \A n \in Nat : <<n, m>> \in Before <=> n < m
  BY DEF Before, OpToRel
<1>4. \A n \in T : ~(n < m)
  BY <1>2, <1>3
<1>5. \A n \in T : n \in Nat /\ m \in Nat
  OBVIOUS
<1>6. QED
  BY <1>4, <1>5

LEMMA Induct ==
  ASSUME NEW N \in Nat, NEW T, 0 \in T,
         \A n \in 0 .. N - 1 : n \in T => n + 1 \in T
  PROVE  0 .. N \subseteq T
<1> DEFINE Out == {n \in 0 .. N : n \notin T}
<1> SUFFICES ASSUME Out # {} PROVE FALSE
  OBVIOUS
<1>1. PICK m \in Out : \A n \in Out : m <= n
  <2>1. Out \in SUBSET Nat
    OBVIOUS
  <2>2. QED
    BY <2>1, SmallestOf
<1>2. m # 0 /\ m - 1 \in 0 .. N - 1 /\ m - 1 \in T
  BY <1>1
<1>3. QED
  BY <1>1, <1>2

(* The functions that start at x and follow step up to N. *)
Solutions(S, N, x, step) ==
  {r \in [0 .. N -> S] : r[0] = x /\ \A n \in 1 .. N : r[n] = step[n][r[n - 1]]}

LEMMA RecursionExists ==
  ASSUME NEW S, NEW N \in Nat, NEW x \in S,
         NEW step \in [1 .. N -> [S -> S]]
  PROVE  Solutions(S, N, x, step) # {}
<1> DEFINE Steps(r, n) == r[0] = x /\ \A k \in 1 .. n : r[k] = step[k][r[k - 1]]
           T == {n \in 0 .. N : \E r \in [0 .. n -> S] : Steps(r, n)}
<1>1. 0 \in T
  <2> DEFINE r == [i \in 0 .. 0 |-> x]
  <2>1. r \in [0 .. 0 -> S] /\ Steps(r, 0)
    OBVIOUS
  <2> HIDE DEF r, Steps
  <2>2. QED
    BY <2>1
<1>2. ASSUME NEW n \in 0 .. N - 1, n \in T
      PROVE  n + 1 \in T
  <2>1. PICK r \in [0 .. n -> S] : Steps(r, n)
    BY <1>2
  <2> DEFINE y == step[n + 1][r[n]]
             q == [i \in 0 .. n + 1 |-> IF i = n + 1 THEN y ELSE r[i]]
  <2>2. y \in S
    OBVIOUS
  <2>3. q \in [0 .. n + 1 -> S]
    BY <2>2
  <2>4. Steps(q, n + 1)
    <3>1. q[0] = x
      BY <2>1
    <3>2. ASSUME NEW k \in 1 .. n + 1
          PROVE  q[k] = step[k][q[k - 1]]
      <4>1. k - 1 \in 0 .. n /\ q[k - 1] = r[k - 1]
        OBVIOUS
      <4>2. CASE k = n + 1
        <5>1. k - 1 = n /\ q[k] = y
          BY <4>2
        <5>2. QED
          BY <4>1, <5>1, <4>2
      <4>3. CASE k \in 1 .. n
        BY <4>1, <4>3, <2>1
      <4>4. QED
        BY <4>2, <4>3
    <3>3. QED
      BY <3>1, <3>2
  <2> HIDE DEF q, Steps
  <2>5. QED
    BY <2>3, <2>4
<1>3. 0 .. N \subseteq T
  BY <1>1, <1>2, Induct
<1>4. N \in T
  BY <1>3
<1>5. PICK r \in [0 .. N -> S] : Steps(r, N)
  BY <1>4
<1>6. r \in Solutions(S, N, x, step)
  BY <1>5 DEF Solutions
<1>7. QED
  BY <1>6

(* r follows step for as long as it stays in S. *)
Iterates(r, S, N, x, step) ==
  /\ r = [n \in 0 .. N |-> r[n]]
  /\ r[0] = x
  /\ \A n \in 1 .. N : r[n - 1] \in S => r[n] = step[n][r[n - 1]]

LEMMA RecursionTyped ==
  ASSUME NEW S, NEW N \in Nat, NEW x \in S,
         NEW step \in [1 .. N -> [S -> S]],
         NEW r, Iterates(r, S, N, x, step)
  PROVE  r \in [0 .. N -> S]
<1> USE DEF Iterates
<1> DEFINE T == {n \in 0 .. N : r[n] \in S}
<1>1. 0 \in T
  OBVIOUS
<1>2. ASSUME NEW n \in 0 .. N - 1, n \in T
      PROVE  n + 1 \in T
  <2>1. n + 1 \in 1 .. N /\ (n + 1) - 1 = n
    OBVIOUS
  <2>2. r[n + 1] = step[n + 1][r[n]]
    BY <1>2, <2>1
  <2>3. step[n + 1][r[n]] \in S
    BY <1>2, <2>1
  <2>4. QED
    BY <2>2, <2>3
<1>3. 0 .. N \subseteq T
  BY <1>1, <1>2, Induct
<1>4. QED
  BY <1>3

(* The inner loop of crc16 on the registers it can hold. *)
LEMMA ShiftBitIsWord ==
  ASSUME NEW w \in SUBSET Bits
  PROVE  ShiftBit(w) \in SUBSET Bits
BY DEF ShiftBit, Left, Bits, Poly, SymDiff

LEMMA ShiftsUnfold ==
  ASSUME NEW w \in SUBSET Bits
  PROVE  /\ Shifts(w) \in [0 .. 8 -> SUBSET Bits]
         /\ Shifts(w)[0] = w
         /\ \A n \in 1 .. 8 : Shifts(w)[n] = ShiftBit(Shifts(w)[n - 1])
<1> DEFINE Eqn(r) == r = [n \in 0 .. 8 |-> IF n = 0 THEN w ELSE ShiftBit(r[n - 1])]
           Words == SUBSET Bits
           step == [n \in 1 .. 8 |-> [word \in Words |-> ShiftBit(word)]]
<1>1. step \in [1 .. 8 -> [Words -> Words]]
  BY ShiftBitIsWord
<1>2. Shifts(w) = CHOOSE r : Eqn(r)
  BY DEF Shifts
<1>3. PICK r \in [0 .. 8 -> SUBSET Bits] :
        r[0] = w /\ \A n \in 1 .. 8 : r[n] = step[n][r[n - 1]]
  <2>1. step \in [1 .. 8 -> [Words -> Words]] /\ w \in Words /\ 8 \in Nat
    BY <1>1
  <2> HIDE DEF step, Words
  <2>2. Solutions(Words, 8, w, step) # {}
    BY <2>1, RecursionExists
  <2>3. QED
    BY <2>2 DEF Words, Solutions
<1>4. Eqn(r)
  <2>1. \A n \in 1 .. 8 : r[n] = ShiftBit(r[n - 1])
    BY <1>3
  <2>2. QED
    BY <1>3, <2>1
<1>5. Eqn(Shifts(w))
  <2> HIDE DEF Eqn
  <2>1. QED
    BY <1>2, <1>4
<1>6. Shifts(w) \in [0 .. 8 -> SUBSET Bits]
  <2>1. \A n \in 1 .. 8 : Shifts(w)[n - 1] \in SUBSET Bits => Shifts(w)[n] = step[n][Shifts(w)[n - 1]]
    BY <1>5
  <2>2. Shifts(w)[0] = w /\ Shifts(w) = [n \in 0 .. 8 |-> Shifts(w)[n]]
    BY <1>5
  <2>3. Iterates(Shifts(w), Words, 8, w, step)
    BY <2>1, <2>2 DEF Iterates
  <2> HIDE DEF Eqn, step
  <2>4. QED
    BY <1>1, <2>3, RecursionTyped
<1>7. QED
  BY <1>5, <1>6

(* words u and v agree on the bits of I *)
AgreeOn(u, v, I) == \A i \in I : i \in u <=> i \in v

LEMMA ShiftBitAt ==
  ASSUME NEW w \in SUBSET Bits
  PROVE  /\ 0 \in ShiftBit(w) <=> 15 \in w
         /\ \A i \in 1 .. 15 :
              i \in ShiftBit(w) <=> ((i - 1 \in w) # (15 \in w /\ i \in Poly))
BY DEF ShiftBit, Left, Bits, Poly, SymDiff

LEMMA SameWord ==
  ASSUME NEW u \in SUBSET Bits, NEW v \in SUBSET Bits, AgreeOn(u, v, Bits)
  PROVE  u = v
BY DEF AgreeOn

(* Two registers that differ, after a shift, in the 8 bits from k on only,  *)
(* differed before it in the 8 bits from k - 1 on.                          *)
LEMMA ShiftBitBack ==
  ASSUME NEW u \in SUBSET Bits, NEW v \in SUBSET Bits, NEW k \in 1 .. 9,
         AgreeOn(ShiftBit(u), ShiftBit(v), Bits \ (k .. k + 7))
  PROVE  AgreeOn(u, v, Bits \ (k - 1 .. k + 6))
<1>1. 15 \in u <=> 15 \in v
  <2>1. 0 \in Bits \ (k .. k + 7)
    BY DEF Bits
  <2>2. QED
    BY <2>1, ShiftBitAt DEF AgreeOn
<1>2. ASSUME NEW i \in 0 .. 14, i \notin k - 1 .. k + 6
      PROVE  i \in u <=> i \in v
  <2>1. i + 1 \in Bits \ (k .. k + 7) /\ i + 1 \in 1 .. 15 /\ (i + 1) - 1 = i
    BY <1>2 DEF Bits
  <2>2. i + 1 \in ShiftBit(u) <=> i + 1 \in ShiftBit(v)
    BY <2>1 DEF AgreeOn
  <2>3. QED
    BY <1>1, <2>1, <2>2, ShiftBitAt
<1>3. QED
  BY <1>1, <1>2 DEF AgreeOn, Bits

(* No shift, and no run of 8 of them, makes different registers equal. *)
LEMMA ShiftBitInjective ==
  ASSUME NEW u \in SUBSET Bits, NEW v \in SUBSET Bits,
         ShiftBit(u) = ShiftBit(v)
  PROVE  u = v
<1>1. ShiftBit(u) \in SUBSET Bits /\ ShiftBit(v) \in SUBSET Bits
  BY ShiftBitIsWord
<1>2. 15 \in u <=> 15 \in v
  BY ShiftBitAt
<1>3. ASSUME NEW i \in 0 .. 14
      PROVE  i \in u <=> i \in v
  <2>1. i + 1 \in 1 .. 15 /\ (i + 1) - 1 = i
    OBVIOUS
  <2>2. QED
    BY <1>2, <2>1, ShiftBitAt
<1>4. AgreeOn(u, v, Bits)
  BY <1>2, <1>3 DEF AgreeOn, Bits
<1>5. QED
  BY <1>4, SameWord

LEMMA ShiftsInjective ==
  ASSUME NEW u \in SUBSET Bits, NEW v \in SUBSET Bits,
         Shifts(u)[8] = Shifts(v)[8]
  PROVE  u = v
<1> DEFINE T == {n \in 0 .. 8 : Shifts(u)[8 - n] = Shifts(v)[8 - n]}
<1>1. 0 \in T
  OBVIOUS
<1>2. ASSUME NEW n \in 0 .. 7, n \in T
      PROVE  n + 1 \in T
  <2> DEFINE k == 8 - n
  <2>1. k \in 1 .. 8 /\ k - 1 \in 0 .. 8 /\ 8 - (n + 1) = k - 1
    OBVIOUS
  <2>2. Shifts(u)[k] = ShiftBit(Shifts(u)[k - 1]) /\ Shifts(v)[k] = ShiftBit(Shifts(v)[k - 1])
    BY <2>1, ShiftsUnfold
  <2>3. Shifts(u)[k - 1] \in SUBSET Bits /\ Shifts(v)[k - 1] \in SUBSET Bits
    BY <2>1, ShiftsUnfold
  <2>4. Shifts(u)[k] = Shifts(v)[k]
    BY <1>2
  <2>5. Shifts(u)[k - 1] = Shifts(v)[k - 1]
    <3> HIDE DEF k
    <3>1. ShiftBit(Shifts(u)[k - 1]) = ShiftBit(Shifts(v)[k - 1])
      BY <2>2, <2>4
    <3>2. QED
      BY <3>1, <2>3, ShiftBitInjective
  <2>6. QED
    BY <2>1, <2>5
<1>3. 0 .. 8 \subseteq T
  BY <1>1, <1>2, Induct
<1>4. Shifts(u)[0] = Shifts(v)[0]
  BY <1>3
<1>5. QED
  BY <1>4, ShiftsUnfold

(* Registers that differ in the upper byte only have lower bytes that       *)
(* differ 8 shifts later: the next byte, which enters at the top, cannot    *)
(* make up for it.                                                          *)
LEMMA NeighboursDiffer ==
  ASSUME NEW u \in SUBSET Bits, NEW v \in SUBSET Bits,
         AgreeOn(u, v, 0 .. 7),
         AgreeOn(Shifts(u)[8], Shifts(v)[8], 0 .. 7)
  PROVE  u = v
<1> DEFINE T == {n \in 0 .. 8 : AgreeOn(Shifts(u)[8 - n], Shifts(v)[8 - n], Bits \ (8 - n .. 15 - n))}
<1>1. 0 \in T
  <2>1. Bits \ (8 .. 15) = 0 .. 7
    BY DEF Bits
  <2>2. QED
    BY <2>1
<1>2. ASSUME NEW n \in 0 .. 7, n \in T
      PROVE  n + 1 \in T
  <2> DEFINE k == 8 - n
  <2>1. k \in 1 .. 8 /\ k - 1 \in 0 .. 8 /\ 8 - (n + 1) = k - 1 /\ 15 - n = k + 7 /\ 15 - (n + 1) = k + 6
    OBVIOUS
  <2>2. Shifts(u)[k] = ShiftBit(Shifts(u)[k - 1]) /\ Shifts(v)[k] = ShiftBit(Shifts(v)[k - 1])
    BY <2>1, ShiftsUnfold
  <2>3. Shifts(u)[k - 1] \in SUBSET Bits /\ Shifts(v)[k - 1] \in SUBSET Bits
    BY <2>1, ShiftsUnfold
  <2>4. AgreeOn(Shifts(u)[k], Shifts(v)[k], Bits \ (k .. k + 7))
    BY <1>2, <2>1
  <2>5. AgreeOn(Shifts(u)[k - 1], Shifts(v)[k - 1], Bits \ (k - 1 .. k + 6))
    <3> HIDE DEF k
    <3>0. k \in 1 .. 9
      BY <2>1
    <3>1. QED
      BY <3>0, <2>2, <2>3, <2>4, ShiftBitBack
  <2>6. QED
    BY <2>1, <2>5
<1>3. 0 .. 8 \subseteq T
  BY <1>1, <1>2, Induct
<1>4. AgreeOn(Shifts(u)[0], Shifts(v)[0], Bits \ (0 .. 7))
  BY <1>3
<1>5. AgreeOn(u, v, Bits)
  BY <1>4, ShiftsUnfold DEF AgreeOn
<1>6. QED
  BY <1>5, SameWord

(* A byte is determined by its bits. *)
LEMMA HalvesUnfold ==
  ASSUME NEW byte \in 0 .. 255
  PROVE  /\ Halves(byte) \in [0 .. 7 -> 0 .. 255]
         /\ Halves(byte)[0] = byte
         /\ \A i \in 1 .. 7 : Halves(byte)[i] = Halves(byte)[i - 1] \div 2
<1> DEFINE Half(b) == b \div 2
           Eqn(r) == r = [i \in 0 .. 7 |-> IF i = 0 THEN byte ELSE Half(r[i - 1])]
           Bytes == 0 .. 255
           step == [i \in 1 .. 7 |-> [b \in Bytes |-> Half(b)]]
<1>1. step \in [1 .. 7 -> [Bytes -> Bytes]] /\ byte \in Bytes /\ 7 \in Nat
  OBVIOUS
<1>2. Halves(byte) = CHOOSE r : Eqn(r)
  BY DEF Halves
<1> HIDE DEF Half
<1>3. PICK r \in [0 .. 7 -> Bytes] :
        r[0] = byte /\ \A i \in 1 .. 7 : r[i] = step[i][r[i - 1]]
  <2> HIDE DEF step, Bytes
  <2>1. Solutions(Bytes, 7, byte, step) # {}
    BY <1>1, RecursionExists
  <2>2. QED
    BY <2>1 DEF Solutions
<1>4. Eqn(r)
  <2>1. \A i \in 1 .. 7 : r[i] = Half(r[i - 1])
    BY <1>3
  <2>2. QED
    BY <1>3, <2>1
<1>5. Eqn(Halves(byte))
  <2> HIDE DEF Eqn
  <2>1. QED
    BY <1>2, <1>4
<1>6. /\ Halves(byte)[0] = byte
      /\ Halves(byte) = [i \in 0 .. 7 |-> Halves(byte)[i]]
      /\ \A i \in 1 .. 7 : Halves(byte)[i] = Half(Halves(byte)[i - 1])
  BY <1>5
<1>7. Halves(byte) \in [0 .. 7 -> Bytes]
  <2>1. \A i \in 1 .. 7 : Halves(byte)[i - 1] \in Bytes
                           => Halves(byte)[i] = step[i][Halves(byte)[i - 1]]
    BY <1>6
  <2>2. Iterates(Halves(byte), Bytes, 7, byte, step)
    BY <1>6, <2>1 DEF Iterates
  <2> HIDE DEF Eqn, step, Bytes
  <2>3. QED
    BY <1>1, <2>2, RecursionTyped
<1>8. QED
  <2> HIDE DEF Eqn
  <2>1. QED
    BY <1>6, <1>7, Zenon DEF Half

LEMMA HalvesRunOut ==
  ASSUME NEW byte \in 0 .. 255
  PROVE  Halves(byte)[7] \in 0 .. 1
<1> DEFINE h == Halves(byte)
           B0 == 0 .. 255
           B1 == 0 .. 127
           B2 == 0 .. 63
           B3 == 0 .. 31
           B4 == 0 .. 15
           B5 == 0 .. 7
           B6 == 0 .. 3
           B7 == 0 .. 1
<1>1. /\ \A p \in B0 : p \div 2 \in B1
      /\ \A p \in B1 : p \div 2 \in B2
      /\ \A p \in B2 : p \div 2 \in B3
      /\ \A p \in B3 : p \div 2 \in B4
      /\ \A p \in B4 : p \div 2 \in B5
      /\ \A p \in B5 : p \div 2 \in B6
      /\ \A p \in B6 : p \div 2 \in B7
  OBVIOUS
<1>2. h[0] \in B0 /\ \A i \in 1 .. 7 : h[i] = h[i - 1] \div 2
  BY HalvesUnfold
<1> HIDE DEF h, B0, B1, B2, B3, B4, B5, B6, B7
<1>3. /\ h[1] = h[0] \div 2 /\ h[2] = h[1] \div 2 /\ h[3] = h[2] \div 2
      /\ h[4] = h[3] \div 2 /\ h[5] = h[4] \div 2 /\ h[6] = h[5] \div 2
      /\ h[7] = h[6] \div 2
  BY <1>2
<1>4. h[1] \in B1 /\ h[2] \in B2 /\ h[3] \in B3
  BY <1>1, <1>2, <1>3, Zenon
<1>5. h[4] \in B4 /\ h[5] \in B5 /\ h[6] \in B6 /\ h[7] \in B7
  BY <1>1, <1>3, <1>4, Zenon
<1>6. QED
  BY <1>5 DEF h, B7

LEMMA Unhalve ==
  ASSUME NEW p \in 0 .. 255, NEW q \in 0 .. 255,
         p % 2 = 1 <=> q % 2 = 1, p \div 2 = q \div 2
  PROVE  p = q
OBVIOUS

LEMMA BitsOfInjective ==
  ASSUME NEW a \in 0 .. 255, NEW b \in 0 .. 255, BitsOf(a) = BitsOf(b)
  PROVE  a = b
<1> DEFINE h == Halves(a)
           g == Halves(b)
           T == {n \in 0 .. 7 : h[7 - n] = g[7 - n]}
<1>1. \A i \in 0 .. 7 : h[i] % 2 = 1 <=> g[i] % 2 = 1
  BY DEF BitsOf
<1>2. /\ h[0] = a /\ g[0] = b
      /\ \A i \in 1 .. 7 : h[i] = h[i - 1] \div 2 /\ g[i] = g[i - 1] \div 2
  BY HalvesUnfold, Zenon
<1>3. h \in [0 .. 7 -> 0 .. 255] /\ g \in [0 .. 7 -> 0 .. 255]
  BY HalvesUnfold, Zenon
<1>4. h[7] \in 0 .. 1 /\ g[7] \in 0 .. 1
  BY HalvesRunOut, Zenon
<1> HIDE DEF h, g
<1>5. 0 \in T
  BY <1>1, <1>4
<1>6. ASSUME NEW n \in 0 .. 6, n \in T
      PROVE  n + 1 \in T
  <2> DEFINE i == 7 - n
  <2>1. i \in 1 .. 7 /\ i - 1 \in 0 .. 7 /\ 7 - (n + 1) = i - 1
    OBVIOUS
  <2>2. h[i] = g[i]
    BY <1>6
  <2> HIDE DEF i
  <2>3. h[i - 1] \div 2 = g[i - 1] \div 2
    BY <1>2, <2>1, <2>2, Zenon
  <2>4. h[i - 1] \in 0 .. 255 /\ g[i - 1] \in 0 .. 255
    BY <1>3, <2>1
  <2>5. h[i - 1] % 2 = 1 <=> g[i - 1] % 2 = 1
    BY <1>1, <2>1, Zenon
  <2>6. h[i - 1] = g[i - 1]
    BY <2>3, <2>4, <2>5, Unhalve
  <2>7. QED
    BY <2>1, <2>6
<1>7. 0 .. 7 \subseteq T
  BY <1>5, <1>6, Induct
<1>8. 7 \in T
  BY <1>7
<1>9. QED
  BY <1>2, <1>8

(* The register once byte is in, ahead of the shifts. *)
Entered(w, byte) == SymDiff(w, Left(BitsOf(byte), 8))

LEMMA EnteredBits ==
  ASSUME NEW w \in SUBSET Bits, NEW byte
  PROVE  /\ Entered(w, byte) \in SUBSET Bits
         /\ \A i \in 0 .. 7 : i \in Entered(w, byte) <=> i \in w
         /\ \A i \in 0 .. 7 : i + 8 \in Entered(w, byte) <=> ((i + 8 \in w) # (i \in BitsOf(byte)))
<1> DEFINE b == BitsOf(byte)
<1>1. b \in SUBSET (0 .. 7)
  BY DEF BitsOf
<1> HIDE DEF b
<1>2. Left(b, 8) \in SUBSET (8 .. 15) /\ \A i \in 0 .. 7 : i + 8 \in Left(b, 8) <=> i \in b
  BY <1>1 DEF Left
<1>3. SymDiff(w, Left(b, 8)) \in SUBSET Bits
  <2>1. Left(b, 8) \in SUBSET Bits
    BY <1>2 DEF Bits
  <2>2. QED
    BY <2>1 DEF SymDiff
<1>4. \A i \in 0 .. 7 : i \in SymDiff(w, Left(b, 8)) <=> i \in w
  BY <1>2 DEF SymDiff
<1>5. \A i \in 0 .. 7 : i + 8 \in SymDiff(w, Left(b, 8)) <=> ((i + 8 \in w) # (i \in b))
  BY <1>2 DEF SymDiff
<1>6. QED
  BY <1>3, <1>4, <1>5 DEF Entered, b

LEMMA EnteredIsWord ==
  ASSUME NEW w \in SUBSET Bits, NEW byte
  PROVE  Entered(w, byte) \in SUBSET Bits
BY EnteredBits

LEMMA FeedByteIsWord ==
  ASSUME NEW w \in SUBSET Bits, NEW byte
  PROVE  FeedByte(w, byte) = Shifts(Entered(w, byte))[8] /\ FeedByte(w, byte) \in SUBSET Bits
<1>1. FeedByte(w, byte) = Shifts(Entered(w, byte))[8]
  BY DEF FeedByte, Entered
<1>2. Entered(w, byte) \in SUBSET Bits
  BY EnteredBits
<1>3. Shifts(Entered(w, byte)) \in [0 .. 8 -> SUBSET Bits]
  BY <1>2, ShiftsUnfold
<1>4. QED
  BY <1>1, <1>3

(* Neither the byte nor the register before it is lost in a step. *)
LEMMA SameByte ==
  ASSUME NEW w \in SUBSET Bits, NEW a \in 0 .. 255, NEW b \in 0 .. 255,
         Entered(w, a) = Entered(w, b)
  PROVE  a = b
<1>1. \A i \in 0 .. 7 : i \in BitsOf(a) <=> i \in BitsOf(b)
  BY EnteredBits
<1>2. BitsOf(a) = BitsOf(b)
  BY <1>1 DEF BitsOf
<1>3. QED
  BY <1>2, BitsOfInjective

LEMMA SameBefore ==
  ASSUME NEW u \in SUBSET Bits, NEW v \in SUBSET Bits, NEW byte,
         FeedByte(u, byte) = FeedByte(v, byte)
  PROVE  u = v
<1>1. Entered(u, byte) = Entered(v, byte)
  BY FeedByteIsWord, EnteredBits, ShiftsInjective
<1>2. \A i \in 0 .. 7 : i \in u <=> i \in v
  BY <1>1, EnteredBits
<1>3. \A i \in 0 .. 7 : i + 8 \in u <=> i + 8 \in v
  BY <1>1, EnteredBits
<1>4. ASSUME NEW j \in Bits
      PROVE  j \in u <=> j \in v
  <2>1. CASE j \in 0 .. 7
    BY <1>2, <2>1
  <2>2. CASE j \notin 0 .. 7
    <3>1. j - 8 \in 0 .. 7 /\ (j - 8) + 8 = j
      BY <2>2 DEF Bits
    <3>2. QED
      BY <1>3, <3>1
  <2>3. QED
    BY <2>1, <2>2
<1>5. QED
  BY <1>4, SameWord DEF AgreeOn

(* The outer loop of crc16. *)
LEMMA RegistersUnfold ==
  ASSUME NEW data \in Seq(0 .. 255)
  PROVE  /\ Registers(data) \in [0 .. Len(data) -> SUBSET Bits]
         /\ Registers(data)[0] = InitCrc
         /\ \A n \in 1 .. Len(data) :
              Registers(data)[n] = FeedByte(Registers(data)[n - 1], data[n])
<1> DEFINE N == Len(data)
           Eqn(r) == r = [n \in 0 .. N |->
                            IF n = 0 THEN InitCrc ELSE FeedByte(r[n - 1], data[n])]
           Words == SUBSET Bits
           step == [n \in 1 .. N |-> [w \in Words |-> FeedByte(w, data[n])]]
<1>1. step \in [1 .. N -> [Words -> Words]] /\ InitCrc \in Words /\ N \in Nat
  BY FeedByteIsWord DEF InitCrc
<1>2. Registers(data) = CHOOSE r : Eqn(r)
  BY DEF Registers
<1> HIDE DEF N
<1>3. PICK r \in [0 .. N -> Words] :
        r[0] = InitCrc /\ \A n \in 1 .. N : r[n] = step[n][r[n - 1]]
  <2> HIDE DEF step, Words
  <2>1. Solutions(Words, N, InitCrc, step) # {}
    BY <1>1, RecursionExists
  <2>2. QED
    BY <2>1 DEF Solutions
<1>4. Eqn(r)
  <2>1. \A n \in 1 .. N : r[n - 1] \in Words
    BY <1>1
  <2>2. \A n \in 1 .. N : r[n] = FeedByte(r[n - 1], data[n])
    BY <1>3, <2>1
  <2>3. QED
    BY <1>1, <1>3, <2>2
<1>5. Eqn(Registers(data))
  <2> HIDE DEF Eqn
  <2>1. QED
    BY <1>2, <1>4
<1>6. /\ Registers(data)[0] = InitCrc
      /\ Registers(data) = [n \in 0 .. N |-> Registers(data)[n]]
      /\ \A n \in 1 .. N : Registers(data)[n] = FeedByte(Registers(data)[n - 1], data[n])
  BY <1>1, <1>5
<1>7. Registers(data) \in [0 .. N -> Words]
  <2>1. \A n \in 1 .. N : Registers(data)[n - 1] \in Words
                           => Registers(data)[n] = step[n][Registers(data)[n - 1]]
    BY <1>6
  <2>2. Iterates(Registers(data), Words, N, InitCrc, step)
    BY <1>6, <2>1 DEF Iterates
  <2> HIDE DEF Eqn, step, Words
  <2>3. QED
    BY <1>1, <2>2, RecursionTyped
<1>8. QED
  BY <1>6, <1>7 DEF N

(* Equal data, equal registers; and backwards from an equal checksum. *)
LEMMA EqualSoFar ==
  ASSUME NEW data \in Seq(0 .. 255), NEW other \in Seq(0 .. 255), NEW m \in Nat,
         m <= Len(data), m <= Len(other),
         \A k \in 1 .. m : data[k] = other[k]
  PROVE  \A n \in 0 .. m : Registers(data)[n] = Registers(other)[n]
<1> DEFINE T == {n \in 0 .. m : Registers(data)[n] = Registers(other)[n]}
<1>0. Len(data) \in Nat /\ Len(other) \in Nat
  OBVIOUS
<1>1. 0 \in T
  BY RegistersUnfold
<1>2. ASSUME NEW n \in 0 .. m - 1, n \in T
      PROVE  n + 1 \in T
  <2>1. n + 1 \in 1 .. m /\ (n + 1) - 1 = n /\ n + 1 \in 1 .. Len(data) /\ n + 1 \in 1 .. Len(other)
    BY <1>0
  <2>2. Registers(data)[n + 1] = FeedByte(Registers(data)[n], data[n + 1])
    BY <2>1, RegistersUnfold
  <2>3. Registers(other)[n + 1] = FeedByte(Registers(other)[n], other[n + 1])
    BY <2>1, RegistersUnfold
  <2>4. data[n + 1] = other[n + 1] /\ Registers(data)[n] = Registers(other)[n]
    BY <1>2, <2>1
  <2>5. QED
    BY <2>1, <2>2, <2>3, <2>4
<1>3. 0 .. m \subseteq T
  BY <1>1, <1>2, Induct
<1>4. QED
  BY <1>3

LEMMA EqualToTheEnd ==
  ASSUME NEW data \in Seq(0 .. 255), NEW other \in Seq(0 .. 255),
         Len(other) = Len(data), NEW m \in 0 .. Len(data),
         \A k \in m + 1 .. Len(data) : data[k] = other[k],
         CrcBits(data) = CrcBits(other)
  PROVE  Registers(data)[m] = Registers(other)[m]
<1> DEFINE N == Len(data)
           T == {n \in 0 .. N - m : Registers(data)[N - n] = Registers(other)[N - n]}
<1>0. N \in Nat /\ m \in Nat /\ N - m \in Nat
  OBVIOUS
<1>1. 0 \in T
  <2>1. Registers(data)[N] = Registers(other)[N]
    BY DEF CrcBits
  <2>2. N - 0 = N /\ 0 \in 0 .. N - m
    BY <1>0
  <2> HIDE DEF N
  <2>3. QED
    BY <2>1, <2>2
<1>2. ASSUME NEW n \in 0 .. N - m - 1, n \in T
      PROVE  n + 1 \in T
  <2> DEFINE k == N - n
  <2>1. k \in m + 1 .. N /\ k \in 1 .. N /\ k - 1 \in 0 .. N /\ N - (n + 1) = k - 1 /\ n + 1 \in 0 .. N - m
    BY <1>0
  <2>2. Registers(data)[k] = FeedByte(Registers(data)[k - 1], data[k])
    BY <2>1, RegistersUnfold
  <2>3. Registers(other)[k] = FeedByte(Registers(other)[k - 1], other[k])
    BY <2>1, RegistersUnfold
  <2>4. Registers(data)[k - 1] \in SUBSET Bits /\ Registers(other)[k - 1] \in SUBSET Bits
    BY <2>1, RegistersUnfold
  <2>5. data[k] = other[k] /\ Registers(data)[k] = Registers(other)[k]
    BY <1>2, <2>1
  <2> HIDE DEF k
  <2>6. FeedByte(Registers(data)[k - 1], data[k]) = FeedByte(Registers(other)[k - 1], data[k])
    BY <2>2, <2>3, <2>5
  <2>7. Registers(data)[k - 1] = Registers(other)[k - 1]
    BY <2>4, <2>6, SameBefore
  <2>8. QED
    BY <2>1, <2>7
<1>3. 0 .. N - m \subseteq T
  BY <1>0, <1>1, <1>2, Induct
<1>4. N - m \in T
  <2>1. N - m \in 0 .. N - m
    BY <1>0
  <2> HIDE DEF T
  <2>2. QED
    BY <1>3, <2>1
<1>5. N - (N - m) = m
  BY <1>0
<1>6. QED
  BY <1>4, <1>5

(* Data that differs from other data in one byte, or in two neighbours,     *)
(* has another checksum.                                                    *)
LEMMA AlterationShows ==
  ASSUME NEW data \in Seq(0 .. 255), NEW other \in Seq(0 .. 255),
         Len(other) = Len(data), NEW i \in 1 .. Len(data),
         \A k \in 1 .. Len(data) : k # i /\ k # i + 1 => data[k] = other[k],
         CrcBits(data) = CrcBits(other)
  PROVE  data = other
<1> DEFINE N == Len(data)
           R == Registers(data)
           Q == Registers(other)
<1>1. N \in Nat /\ i \in 1 .. N /\ i - 1 \in 0 .. N /\ i - 1 \in Nat
  OBVIOUS
<1>2. R[i - 1] = Q[i - 1]
  <2>1. \A k \in 1 .. i - 1 : data[k] = other[k]
    BY <1>1
  <2>2. i - 1 <= Len(data) /\ i - 1 <= Len(other) /\ i - 1 \in 0 .. i - 1
    BY <1>1
  <2>3. \A n \in 0 .. i - 1 : Registers(data)[n] = Registers(other)[n]
    BY <1>1, <2>1, <2>2, EqualSoFar
  <2>4. QED
    BY <2>2, <2>3
<1>3. /\ R[i] = FeedByte(R[i - 1], data[i]) /\ Q[i] = FeedByte(Q[i - 1], other[i])
      /\ R[i - 1] \in SUBSET Bits /\ R[i] \in SUBSET Bits /\ Q[i] \in SUBSET Bits
  <2>1. i \in 1 .. Len(other) /\ i - 1 \in 0 .. Len(other) /\ i \in 0 .. Len(data)
    BY <1>1
  <2>2. R[i] = FeedByte(R[i - 1], data[i]) /\ R[i - 1] \in SUBSET Bits /\ R[i] \in SUBSET Bits
    BY <2>1, <1>1, RegistersUnfold
  <2>3. Q[i] = FeedByte(Q[i - 1], other[i]) /\ Q[i] \in SUBSET Bits
    BY <2>1, RegistersUnfold
  <2>4. QED
    BY <2>2, <2>3
<1>4. \A k \in 1 .. N : data[k] \in 0 .. 255 /\ other[k] \in 0 .. 255
  BY ElementOfSeq
<1> HIDE DEF R, Q
<1> DEFINE u == Entered(R[i - 1], data[i])
           v == Entered(R[i - 1], other[i])
<1>5. /\ u \in SUBSET Bits /\ v \in SUBSET Bits
      /\ R[i] = Shifts(u)[8] /\ Q[i] = Shifts(v)[8]
      /\ AgreeOn(u, v, 0 .. 7)
  <2>1. u \in SUBSET Bits /\ v \in SUBSET Bits
    BY <1>3, EnteredIsWord
  <2>2. R[i] = Shifts(u)[8] /\ Q[i] = Shifts(v)[8]
    BY <1>2, <1>3, FeedByteIsWord
  <2>3. AgreeOn(u, v, 0 .. 7)
    BY <1>3, EnteredBits DEF AgreeOn
  <2>4. QED
    BY <2>1, <2>2, <2>3
<1>6. u = v => data[i] = other[i]
  BY <1>1, <1>3, <1>4, SameByte
<1>7. CASE i = N
  <2>1. R[N] = Q[N]
    BY DEF CrcBits, R, Q
  <2>2. u = v
    <3> HIDE DEF u, v
    <3>1. Shifts(u)[8] = Shifts(v)[8]
      BY <1>5, <1>7, <2>1
    <3>2. QED
      BY <1>5, <3>1, ShiftsInjective
  <2>3. data[i] = other[i]
    BY <1>6, <2>2
  <2>4. \A k \in 1 .. N : data[k] = other[k]
    BY <1>1, <1>7, <2>3
  <2>5. QED
    BY <2>4
<1>8. CASE i # N
  <2>0. i + 1 \in 1 .. N /\ (i + 1) - 1 = i
    BY <1>1, <1>8
  <2>1. R[i + 1] = Q[i + 1]
    <3>1. \A k \in (i + 1) + 1 .. Len(data) : data[k] = other[k]
      BY <1>1
    <3>2. i + 1 \in 0 .. Len(data)
      BY <2>0
    <3>3. QED
      BY <3>1, <3>2, EqualToTheEnd DEF R, Q
  <2>2. R[i + 1] = FeedByte(R[i], data[i + 1]) /\ Q[i + 1] = FeedByte(Q[i], other[i + 1])
    BY <2>0, RegistersUnfold DEF R, Q
  <2>3. data[i + 1] \in 0 .. 255 /\ other[i + 1] \in 0 .. 255
    BY <1>4, <2>0
  <2>4. Entered(R[i], data[i + 1]) = Entered(Q[i], other[i + 1])
    <3>1. Shifts(Entered(R[i], data[i + 1]))[8] = Shifts(Entered(Q[i], other[i + 1]))[8]
      BY <1>3, <2>1, <2>2, FeedByteIsWord
    <3>2. Entered(R[i], data[i + 1]) \in SUBSET Bits /\ Entered(Q[i], other[i + 1]) \in SUBSET Bits
      BY <1>3, EnteredIsWord
    <3>3. QED
      BY <3>1, <3>2, ShiftsInjective
  <2>5. AgreeOn(Shifts(u)[8], Shifts(v)[8], 0 .. 7)
    <3>1. \A j \in 0 .. 7 : j \in R[i] <=> j \in Q[i]
      BY <1>3, <2>4, EnteredBits
    <3> HIDE DEF u, v
    <3>2. QED
      BY <1>5, <3>1 DEF AgreeOn
  <2>6. u = v
    <3> HIDE DEF u, v
    <3>1. QED
      BY <1>5, <2>5, NeighboursDiffer
  <2>7. data[i] = other[i] /\ R[i] = Q[i]
    BY <1>5, <1>6, <2>6
  <2>8. data[i + 1] = other[i + 1]
    BY <1>3, <2>3, <2>4, <2>7, SameByte
  <2>9. \A k \in 1 .. N : data[k] = other[k]
    BY <1>1, <2>7, <2>8
  <2>10. QED
    BY <2>9
<1>9. QED
  BY <1>7, <1>8

LEMMA CrcOfAppend ==
  ASSUME NEW data \in Seq(0 .. 255), NEW byte \in 0 .. 255
  PROVE  CrcBits(Append(data, byte)) = FeedByte(CrcBits(data), byte)
<1> DEFINE all == Append(data, byte)
           n == Len(data)
<1>1. /\ all \in Seq(0 .. 255) /\ n \in Nat /\ Len(all) = n + 1
      /\ all[n + 1] = byte
      /\ \A k \in 1 .. n : all[k] = data[k]
  OBVIOUS
<1> HIDE DEF all
<1>2. Registers(all)[n] = Registers(data)[n]
  <2>1. n <= Len(all) /\ n <= Len(data) /\ n \in 0 .. n
    BY <1>1
  <2>2. \A k \in 0 .. n : Registers(all)[k] = Registers(data)[k]
    <3> HIDE DEF n
    <3>1. QED
      BY <1>1, <2>1, EqualSoFar
  <2>3. QED
    BY <2>1, <2>2
<1>3. Registers(all)[n + 1] = FeedByte(Registers(all)[n], all[n + 1])
  <2>1. n + 1 \in 1 .. Len(all) /\ (n + 1) - 1 = n
    BY <1>1
  <2>2. Registers(all)[n + 1] = FeedByte(Registers(all)[(n + 1) - 1], all[n + 1])
    BY <1>1, <2>1, RegistersUnfold
  <2>3. QED
    BY <2>1, <2>2
<1>4. QED
  BY <1>1, <1>2, <1>3 DEF CrcBits, all

(* The division that crc16 is compared with. *)
LEMMA DivisionUnfold ==
  ASSUME NEW poly \in SUBSET Nat, NEW steps \in Nat
  PROVE  /\ Division(poly, steps) \in [0 .. steps -> SUBSET Nat]
         /\ Division(poly, steps)[0] = poly
         /\ \A n \in 1 .. steps :
              Division(poly, steps)[n] =
                IF 16 + steps - n \in Division(poly, steps)[n - 1]
                THEN SymDiff(Division(poly, steps)[n - 1], Left(Divisor, steps - n))
                ELSE Division(poly, steps)[n - 1]
<1> DEFINE Reduce(rest, n) == IF 16 + steps - n \in rest
                              THEN SymDiff(rest, Left(Divisor, steps - n))
                              ELSE rest
           Eqn(r) == r = [n \in 0 .. steps |-> IF n = 0 THEN poly ELSE Reduce(r[n - 1], n)]
           Polys == SUBSET Nat
           step == [n \in 1 .. steps |-> [rest \in Polys |-> Reduce(rest, n)]]
<1>1. \A n \in 1 .. steps, rest \in Polys : Reduce(rest, n) \in Polys
  <2> TAKE n \in 1 .. steps, rest \in Polys
  <2>1. Left(Divisor, steps - n) \in SUBSET Nat
    BY DEF Left, Divisor
  <2>2. QED
    BY <2>1 DEF SymDiff
<1>2. Division(poly, steps) = CHOOSE r : Eqn(r)
  BY DEF Division
<1> HIDE DEF Reduce
<1>3. step \in [1 .. steps -> [Polys -> Polys]] /\ poly \in Polys
  BY <1>1
<1>4. PICK r \in [0 .. steps -> Polys] :
        r[0] = poly /\ \A n \in 1 .. steps : r[n] = step[n][r[n - 1]]
  <2> HIDE DEF step, Polys
  <2>1. Solutions(Polys, steps, poly, step) # {}
    BY <1>3, RecursionExists
  <2>2. QED
    BY <2>1 DEF Solutions
<1>5. Eqn(r)
  <2>1. \A n \in 1 .. steps : r[n - 1] \in Polys
    OBVIOUS
  <2>2. \A n \in 1 .. steps : r[n] = Reduce(r[n - 1], n)
    BY <1>4, <2>1
  <2>3. QED
    BY <1>4, <2>2
<1>6. Eqn(Division(poly, steps))
  <2> HIDE DEF Eqn
  <2>1. QED
    BY <1>2, <1>5
<1> DEFINE d == Division(poly, steps)
<1> HIDE DEF d
<1>7. /\ d[0] = poly
      /\ d = [n \in 0 .. steps |-> d[n]]
      /\ \A n \in 1 .. steps : d[n] = Reduce(d[n - 1], n)
  BY <1>6 DEF d
<1>8. d \in [0 .. steps -> Polys]
  <2>1. \A n \in 1 .. steps : d[n - 1] \in Polys => d[n] = step[n][d[n - 1]]
    BY <1>7
  <2>2. Iterates(d, Polys, steps, poly, step)
    BY <1>7, <2>1 DEF Iterates
  <2> HIDE DEF Eqn, step, Polys
  <2>3. QED
    BY <1>3, <2>2, RecursionTyped
<1>9. QED
  BY <1>7, <1>8 DEF d, Reduce

(* Polynomials over {0, 1}: how shifts and sums of them mix. *)
Polys == SUBSET Nat

LEMMA LeftAt ==
  ASSUME NEW A \in Polys, NEW n \in Nat
  PROVE  /\ Left(A, n) \in Polys
         /\ \A x \in Left(A, n) : x \in Nat /\ x - n \in A /\ x >= n
         /\ \A x \in Int : x \in Left(A, n) <=> x - n \in A
<1>1. Left(A, n) \in Polys /\ \A x \in Left(A, n) : x \in Nat /\ x - n \in A /\ x >= n
  BY DEF Left, Polys
<1>2. ASSUME NEW x \in Int, x - n \in A
      PROVE  x \in Left(A, n)
  <2>1. x = (x - n) + n
    OBVIOUS
  <2>2. QED
    BY <1>2, <2>1 DEF Left
<1>3. QED
  BY <1>1, <1>2

LEMMA SamePoly ==
  ASSUME NEW A \in Polys, NEW B \in Polys, \A x \in Nat : x \in A <=> x \in B
  PROVE  A = B
BY DEF Polys

LEMMA SymDiffIsPoly ==
  ASSUME NEW A \in Polys, NEW B \in Polys
  PROVE  SymDiff(A, B) \in Polys
BY DEF SymDiff, Polys

LEMMA LeftLeft ==
  ASSUME NEW A \in Polys, NEW m \in Nat, NEW n \in Nat
  PROVE  Left(Left(A, m), n) = Left(A, m + n)
<1>1. m + n \in Nat
  OBVIOUS
<1>2. Left(A, m) \in Polys /\ Left(Left(A, m), n) \in Polys /\ Left(A, m + n) \in Polys
  BY <1>1, LeftAt
<1>3. ASSUME NEW x \in Nat
      PROVE  x \in Left(Left(A, m), n) <=> x \in Left(A, m + n)
  <2>1. x \in Left(Left(A, m), n) <=> x - n \in Left(A, m)
    BY <1>2, LeftAt
  <2>2. x - n \in Left(A, m) <=> (x - n) - m \in A
    BY LeftAt
  <2>3. x \in Left(A, m + n) <=> x - (m + n) \in A
    BY LeftAt
  <2>4. (x - n) - m = x - (m + n)
    OBVIOUS
  <2>5. QED
    BY <2>1, <2>2, <2>3, <2>4
<1>4. QED
  BY <1>2, <1>3, SamePoly

LEMMA LeftSymDiff ==
  ASSUME NEW A \in Polys, NEW B \in Polys, NEW n \in Nat
  PROVE  Left(SymDiff(A, B), n) = SymDiff(Left(A, n), Left(B, n))
<1>1. SymDiff(A, B) \in Polys
  BY SymDiffIsPoly
<1>2. Left(A, n) \in Polys /\ Left(B, n) \in Polys /\ Left(SymDiff(A, B), n) \in Polys
  BY <1>1, LeftAt
<1>3. SymDiff(Left(A, n), Left(B, n)) \in Polys
  BY <1>2, SymDiffIsPoly
<1>4. ASSUME NEW x \in Nat
      PROVE  x \in Left(SymDiff(A, B), n) <=> x \in SymDiff(Left(A, n), Left(B, n))
  <2>1. x \in Left(SymDiff(A, B), n) <=> x - n \in SymDiff(A, B)
    BY <1>1, LeftAt
  <2>2. (x \in Left(A, n) <=> x - n \in A) /\ (x \in Left(B, n) <=> x - n \in B)
    BY LeftAt
  <2>3. QED
    BY <2>1, <2>2 DEF SymDiff
<1>5. QED
  BY <1>2, <1>3, <1>4, SamePoly

LEMMA SymDiffSwap ==
  ASSUME NEW A, NEW B, NEW C
  PROVE  /\ SymDiff(SymDiff(A, B), C) = SymDiff(SymDiff(A, C), B)
         /\ A \cap B = {} => A \cup B = SymDiff(A, B)
BY DEF SymDiff

LEMMA BitsOfBounded ==
  ASSUME NEW byte
  PROVE  BitsOf(byte) \in SUBSET (0 .. 7) /\ BitsOf(byte) \in Polys
BY DEF BitsOf, Polys

(* The coefficients the bytes stand for, without the initial value. *)
Padded(bytes) ==
  UNION {Left(BitsOf(bytes[k]), 16 + 8 * Len(bytes) - 8 * k) : k \in DOMAIN bytes}

LEMMA DividendParts ==
  ASSUME NEW data \in Seq(0 .. 255)
  PROVE  /\ Dividend(data) = SymDiff(Padded(data), 8 * Len(data) .. 8 * Len(data) + 15)
         /\ Padded(data) \in Polys
         /\ \A x \in Padded(data) : x >= 16
         /\ Dividend(data) \in Polys
<1>1. Dividend(data) = SymDiff(Padded(data), 8 * Len(data) .. 8 * Len(data) + 15)
  BY DEF Dividend, Padded
<1>2. ASSUME NEW x \in Padded(data)
      PROVE  x \in Nat /\ x >= 16
  <2>1. PICK k \in DOMAIN data : x \in Left(BitsOf(data[k]), 16 + 8 * Len(data) - 8 * k)
    BY DEF Padded
  <2>2. k \in 1 .. Len(data) /\ Len(data) \in Nat
    OBVIOUS
  <2> DEFINE m == 16 + 8 * Len(data) - 8 * k
  <2>3. m \in Nat /\ m >= 16
    BY <2>2
  <2> HIDE DEF m
  <2>4. x \in Left(BitsOf(data[k]), m)
    BY <2>1 DEF m
  <2>5. BitsOf(data[k]) \in Polys
    BY BitsOfBounded
  <2>6. x \in Nat /\ x >= m
    BY <2>3, <2>4, <2>5, LeftAt
  <2>7. QED
    BY <2>3, <2>6
<1>3. Padded(data) \in Polys
  BY <1>2 DEF Polys
<1>4. Dividend(data) \in Polys
  <2>1. 8 * Len(data) .. 8 * Len(data) + 15 \in Polys
    BY DEF Polys
  <2>2. QED
    BY <1>1, <1>3, <2>1, SymDiffIsPoly
<1>5. QED
  BY <1>1, <1>2, <1>3, <1>4

(* One more byte moves the dividend up by 8 and enters below it. *)
LEMMA DividendOfAppend ==
  ASSUME NEW data \in Seq(0 .. 255), NEW byte \in 0 .. 255
  PROVE  Dividend(Append(data, byte)) =
           SymDiff(Left(Dividend(data), 8), Left(BitsOf(byte), 16))
<1> DEFINE all == Append(data, byte)
           L == Len(data)
           P == Padded(data)
           M == 8 * L .. 8 * L + 15
           C == Left(BitsOf(byte), 16)
<1>1. /\ all \in Seq(0 .. 255) /\ L \in Nat /\ Len(all) = L + 1
      /\ DOMAIN all = 1 .. L + 1 /\ DOMAIN data = 1 .. L
      /\ all[L + 1] = byte
      /\ \A k \in 1 .. L : all[k] = data[k]
  OBVIOUS
<1> HIDE DEF all, L
<1>2. P \in Polys /\ M \in Polys
  BY <1>1, DividendParts DEF Polys
<1>3. C \in SUBSET (16 .. 23) /\ C \in Polys
  BY BitsOfBounded DEF Left, Polys
<1>4. Padded(all) = Left(P, 8) \cup C
  <2> DEFINE At(k) == Left(BitsOf(data[k]), 16 + 8 * L - 8 * k)
             Above(k) == Left(BitsOf(all[k]), 16 + 8 * (L + 1) - 8 * k)
  <2>1. ASSUME NEW k \in 1 .. L
        PROVE  Above(k) = Left(At(k), 8)
    <3>1. 16 + 8 * L - 8 * k \in Nat /\ 16 + 8 * (L + 1) - 8 * k = (16 + 8 * L - 8 * k) + 8
      BY <1>1
    <3>2. all[k] = data[k] /\ BitsOf(data[k]) \in Polys
      BY <1>1, BitsOfBounded
    <3>3. QED
      BY <3>1, <3>2, LeftLeft
  <2>2. Above(L + 1) = C
    <3>1. 16 + 8 * (L + 1) - 8 * (L + 1) = 16
      BY <1>1
    <3>2. QED
      BY <1>1, <3>1
  <2>3. Padded(all) = UNION {Above(k) : k \in 1 .. L + 1}
    BY <1>1 DEF Padded
  <2>4. P = UNION {At(k) : k \in 1 .. L}
    BY <1>1 DEF Padded, L
  <2> HIDE DEF At, Above, P, C
  <2>5. 1 .. L + 1 = (1 .. L) \cup {L + 1}
    BY <1>1
  <2>6. Padded(all) = (UNION {Above(k) : k \in 1 .. L}) \cup C
    BY <2>2, <2>3, <2>5
  <2>7. Left(P, 8) = UNION {Left(At(k), 8) : k \in 1 .. L}
    BY <2>4 DEF Left
  <2>8. QED
    BY <2>1, <2>6, <2>7
<1>5. Left(P, 8) \cup C = SymDiff(Left(P, 8), C)
  <2>1. ASSUME NEW x \in Left(P, 8)
        PROVE  x \notin C
    <3>1. x \in Nat /\ x - 8 \in P
      BY <1>2, LeftAt
    <3>2. x - 8 >= 16
      BY <3>1, DividendParts
    <3> HIDE DEF P, C
    <3>3. QED
      BY <1>3, <3>1, <3>2
  <2>2. Left(P, 8) \cap C = {}
    <3> HIDE DEF P, C
    <3>1. QED
      BY <2>1
  <2>3. QED
    BY <2>2, SymDiffSwap
<1>6. 8 * (L + 1) .. 8 * (L + 1) + 15 = Left(M, 8)
  <2> DEFINE M2 == 8 * (L + 1) .. 8 * (L + 1) + 15
  <2>1. M2 \in Polys
    BY <1>1 DEF Polys
  <2>2. \A x \in Nat : x - 8 \in M <=> x \in M2
    BY <1>1
  <2> HIDE DEF M, M2
  <2>3. Left(M, 8) \in Polys
    BY <1>2, LeftAt
  <2>4. ASSUME NEW x \in Nat
        PROVE  x \in M2 <=> x \in Left(M, 8)
    <3>1. x \in Int /\ 8 \in Nat
      OBVIOUS
    <3>2. x \in Left(M, 8) <=> x - 8 \in M
      BY <1>2, <3>1, LeftAt
    <3>3. QED
      BY <2>2, <3>2
  <2>5. M2 = Left(M, 8)
    BY <2>1, <2>3, <2>4, SamePoly
  <2>6. QED
    BY <2>5 DEF M2
<1>7. Dividend(all) = SymDiff(SymDiff(Left(P, 8), C), Left(M, 8))
  <2>1. Dividend(all) = SymDiff(Padded(all), 8 * Len(all) .. 8 * Len(all) + 15)
    BY <1>1, DividendParts
  <2>2. Dividend(all) = SymDiff(Padded(all), 8 * (L + 1) .. 8 * (L + 1) + 15)
    BY <1>1, <2>1
  <2> HIDE DEF P, M, C
  <2>3. QED
    BY <1>4, <1>5, <1>6, <2>2
<1>8. Left(Dividend(data), 8) = SymDiff(Left(P, 8), Left(M, 8))
  <2>1. Dividend(data) = SymDiff(P, M)
    BY DividendParts DEF L
  <2> HIDE DEF P, M
  <2>2. QED
    BY <1>2, <2>1, LeftSymDiff
<1>9. QED
  BY <1>7, <1>8, SymDiffSwap DEF all

LEMMA DivisorIsPoly == Divisor \in Polys
BY DEF Divisor, Polys

LEMMA WordIsPoly ==
  ASSUME NEW w \in SUBSET Bits
  PROVE  w \in Polys
BY DEF Bits, Polys

LEMMA DivisionStep ==
  ASSUME NEW poly \in Polys, NEW steps \in Nat, NEW n \in 1 .. steps
  PROVE  /\ Division(poly, steps)[n - 1] \in Polys
         /\ Division(poly, steps)[n] \in Polys
         /\ 16 + steps - n \in Division(poly, steps)[n - 1] =>
              Division(poly, steps)[n] =
                SymDiff(Division(poly, steps)[n - 1], Left(Divisor, steps - n))
         /\ 16 + steps - n \notin Division(poly, steps)[n - 1] =>
              Division(poly, steps)[n] = Division(poly, steps)[n - 1]
<1>1. n - 1 \in 0 .. steps /\ n \in 0 .. steps
  OBVIOUS
<1>2. QED
  BY <1>1, DivisionUnfold DEF Polys

LEMMA ShiftBitReduces ==
  ASSUME NEW w \in SUBSET Bits
  PROVE  /\ 15 \in w => SymDiff(Left(w, 1), Divisor) = ShiftBit(w)
         /\ 15 \notin w => Left(w, 1) = ShiftBit(w)
<1>1. Left(w, 1) \in SUBSET (0 .. 16) /\ (16 \in Left(w, 1) <=> 15 \in w)
  BY DEF Left, Bits
<1>2. Divisor = Poly \cup {16}
  BY DEF Divisor, Poly
<1>3. Poly \in SUBSET (0 .. 15)
  BY DEF Poly
<1> DEFINE s == Left(w, 1)
<1>4. CASE 15 \in w
  <2>1. s = (s \cap Bits) \cup {16}
    BY <1>1, <1>4 DEF Bits
  <2> HIDE DEF s
  <2>2. SymDiff(s, Divisor) = SymDiff(s \cap Bits, Poly)
    BY <1>2, <1>3, <2>1 DEF SymDiff, Bits
  <2>3. QED
    BY <1>4, <2>2 DEF ShiftBit, s
<1>5. CASE 15 \notin w
  <2>1. s = s \cap Bits
    BY <1>1, <1>5 DEF Bits
  <2>2. QED
    BY <1>5, <2>1 DEF ShiftBit
<1>6. QED
  BY <1>4, <1>5

(* The division of the longer dividend does what that of the shorter one    *)
(* does, 8 coefficients higher ...                                          *)
LEMMA DivisionBefore ==
  ASSUME NEW P \in Polys, NEW N \in Nat, NEW C \in SUBSET (16 .. 23),
         NEW P2, P2 = SymDiff(Left(P, 8), C)
  PROVE  \A n \in 0 .. N : Division(P2, N + 8)[n] = SymDiff(Left(Division(P, N)[n], 8), C)
<1> DEFINE R == Division(P, N)
           Q == Division(P2, N + 8)
           T == {n \in 0 .. N : Q[n] = SymDiff(Left(R[n], 8), C)}
<1>1. P2 \in Polys /\ C \in Polys /\ N + 8 \in Nat
  <2>1. C \in Polys /\ 8 \in Nat
    BY DEF Polys
  <2>2. Left(P, 8) \in Polys
    BY <2>1, LeftAt
  <2>3. QED
    BY <2>1, <2>2, SymDiffIsPoly
<1>2. 0 \in T
  <2>1. P \in SUBSET Nat /\ P2 \in SUBSET Nat
    BY <1>1 DEF Polys
  <2>2. R[0] = P /\ Q[0] = P2
    BY <1>1, <2>1, DivisionUnfold
  <2>3. QED
    BY <2>2
<1>3. ASSUME NEW n \in 0 .. N - 1, n \in T
      PROVE  n + 1 \in T
  <2> DEFINE m == n + 1
             shift == N - m
  <2>1. /\ m \in 1 .. N /\ m \in 1 .. N + 8 /\ m - 1 = n /\ m \in 0 .. N
        /\ shift \in Nat /\ shift + 8 \in Nat /\ 8 \in Nat
        /\ 16 + N - m = 16 + shift /\ 16 + (N + 8) - m = 24 + shift
        /\ (N + 8) - m = shift + 8
    OBVIOUS
  <2>2. Q[n] = SymDiff(Left(R[n], 8), C)
    BY <1>3
  <2> HIDE DEF T, m, shift
  <2>3. /\ R[n] \in Polys
        /\ 16 + shift \in R[n] => R[m] = SymDiff(R[n], Left(Divisor, shift))
        /\ 16 + shift \notin R[n] => R[m] = R[n]
    <3>1. R[m - 1] \in Polys
      BY <2>1, DivisionStep
    <3>2. 16 + N - m \in R[m - 1] => R[m] = SymDiff(R[m - 1], Left(Divisor, N - m))
      BY <2>1, DivisionStep
    <3>3. 16 + N - m \notin R[m - 1] => R[m] = R[m - 1]
      BY <2>1, DivisionStep
    <3>4. QED
      BY <2>1, <3>1, <3>2, <3>3 DEF shift
  <2>4. /\ 24 + shift \in Q[n] => Q[m] = SymDiff(Q[n], Left(Divisor, shift + 8))
        /\ 24 + shift \notin Q[n] => Q[m] = Q[n]
    <3>1. 16 + (N + 8) - m \in Q[m - 1] => Q[m] = SymDiff(Q[m - 1], Left(Divisor, (N + 8) - m))
      BY <1>1, <2>1, DivisionStep
    <3>2. 16 + (N + 8) - m \notin Q[m - 1] => Q[m] = Q[m - 1]
      BY <1>1, <2>1, DivisionStep
    <3>3. QED
      BY <2>1, <3>1, <3>2
  <2>5. 24 + shift \in Q[n] <=> 16 + shift \in R[n]
    <3>1. 24 + shift \in Int /\ 24 + shift \notin C /\ (24 + shift) - 8 = 16 + shift
      BY <2>1
    <3>2. 24 + shift \in Left(R[n], 8) <=> (24 + shift) - 8 \in R[n]
      BY <2>1, <2>3, <3>1, LeftAt
    <3>3. QED
      BY <2>2, <3>1, <3>2 DEF SymDiff
  <2>6. CASE 16 + shift \in R[n]
    <3>1. Left(R[m], 8) = SymDiff(Left(R[n], 8), Left(Divisor, shift + 8))
      <4>1. Left(Divisor, shift) \in Polys /\ Left(Left(Divisor, shift), 8) = Left(Divisor, shift + 8)
        BY <2>1, DivisorIsPoly, LeftAt, LeftLeft
      <4>2. Left(SymDiff(R[n], Left(Divisor, shift)), 8) = SymDiff(Left(R[n], 8), Left(Left(Divisor, shift), 8))
        BY <2>1, <2>3, <4>1, LeftSymDiff
      <4>3. QED
        BY <2>3, <2>6, <4>1, <4>2
    <3>2. Q[m] = SymDiff(SymDiff(Left(R[n], 8), C), Left(Divisor, shift + 8))
      BY <2>2, <2>4, <2>5, <2>6
    <3>3. Q[m] = SymDiff(Left(R[m], 8), C)
      BY <3>1, <3>2, SymDiffSwap
    <3>4. QED
      BY <2>1, <3>3 DEF T, m
  <2>7. CASE 16 + shift \notin R[n]
    <3>1. Q[m] = SymDiff(Left(R[m], 8), C)
      BY <2>2, <2>3, <2>4, <2>5, <2>7
    <3>2. QED
      BY <2>1, <3>1 DEF T, m
  <2>8. QED
    BY <2>6, <2>7
<1>4. 0 .. N \subseteq T
  BY <1>2, <1>3, Induct
<1>5. QED
  BY <1>4

(* ... and its last 8 steps are the 8 shifts of the inner loop. *)
LEMMA DivisionBehind ==
  ASSUME NEW P \in Polys, NEW N \in Nat, NEW w \in SUBSET Bits,
         Division(P, N + 8)[N] = Left(w, 8)
  PROVE  Division(P, N + 8)[N + 8] = Shifts(w)[8]
<1> DEFINE Q == Division(P, N + 8)
           T == {k \in 0 .. 8 : Q[N + k] = Left(Shifts(w)[k], 8 - k)}
<1>1. 0 \in T
  BY ShiftsUnfold
<1>2. ASSUME NEW j \in 0 .. 7, j \in T
      PROVE  j + 1 \in T
  <2> DEFINE k == j + 1
             n == N + k
             s == Shifts(w)[j]
             d == 8 - k
  <2>1. /\ k \in 0 .. 8 /\ k \in 1 .. 8 /\ k - 1 = j /\ j \in 0 .. 8 /\ d \in Nat /\ 1 + d \in Nat /\ 1 \in Nat
        /\ 8 - j = 1 + d
        /\ n \in 1 .. N + 8 /\ n - 1 = N + j
        /\ 16 + (N + 8) - n = 16 + d /\ (N + 8) - n = d /\ N + 8 \in Nat
    OBVIOUS
  <2>2. Q[N + j] = Left(s, 8 - j)
    BY <1>2
  <2> HIDE DEF T, n, k, d
  <2>3. s \in SUBSET Bits /\ Shifts(w)[k] = ShiftBit(s)
    BY <2>1, ShiftsUnfold
  <2> HIDE DEF s
  <2>4. s \in Polys /\ Left(s, 1) \in Polys /\ Q[n - 1] = Left(Left(s, 1), d)
    <3>1. s \in Polys
      BY <2>3, WordIsPoly
    <3>2. Left(Left(s, 1), d) = Left(s, 1 + d)
      BY <2>1, <3>1, LeftLeft
    <3>3. QED
      BY <2>1, <2>2, <3>1, <3>2, LeftAt
  <2>5. /\ 16 + d \in Q[n - 1] => Q[n] = SymDiff(Q[n - 1], Left(Divisor, d))
        /\ 16 + d \notin Q[n - 1] => Q[n] = Q[n - 1]
    <3>1. 16 + (N + 8) - n \in Q[n - 1] => Q[n] = SymDiff(Q[n - 1], Left(Divisor, (N + 8) - n))
      BY <2>1, DivisionStep
    <3>2. 16 + (N + 8) - n \notin Q[n - 1] => Q[n] = Q[n - 1]
      BY <2>1, DivisionStep
    <3>3. QED
      BY <2>1, <3>1, <3>2
  <2>6. 16 + d \in Q[n - 1] <=> 15 \in s
    <3>1. 16 + d \in Int /\ (16 + d) - d = 16 /\ 16 \in Int /\ 16 - 1 = 15
      BY <2>1
    <3>2. 16 + d \in Left(Left(s, 1), d) <=> (16 + d) - d \in Left(s, 1)
      BY <2>1, <2>4, <3>1, LeftAt
    <3>3. 16 \in Left(s, 1) <=> 16 - 1 \in s
      BY <2>1, <2>4, <3>1, LeftAt
    <3>4. QED
      BY <2>4, <3>1, <3>2, <3>3
  <2>7. CASE 15 \in s
    <3>1. Q[n] = SymDiff(Left(Left(s, 1), d), Left(Divisor, d))
      BY <2>4, <2>5, <2>6, <2>7
    <3>2. Q[n] = Left(SymDiff(Left(s, 1), Divisor), d)
      BY <2>1, <2>4, <3>1, DivisorIsPoly, LeftSymDiff
    <3>3. Q[n] = Left(Shifts(w)[k], d)
      BY <2>3, <2>7, <3>2, ShiftBitReduces
    <3>4. QED
      BY <2>1, <3>3 DEF T, n, k, d
  <2>8. CASE 15 \notin s
    <3>1. Q[n] = Left(Shifts(w)[k], d)
      BY <2>3, <2>4, <2>5, <2>6, <2>8, ShiftBitReduces
    <3>2. QED
      BY <2>1, <3>1 DEF T, n, k, d
  <2>9. QED
    BY <2>7, <2>8
<1>3. 0 .. 8 \subseteq T
  BY <1>1, <1>2, Induct
<1>4. Q[N + 8] = Left(Shifts(w)[8], 0)
  <2>1. 8 \in T
    BY <1>3
  <2>2. QED
    BY <2>1
<1>5. Left(Shifts(w)[8], 0) = Shifts(w)[8]
  <2>1. Shifts(w)[8] \in SUBSET Bits
    BY ShiftsUnfold
  <2>2. QED
    BY <2>1 DEF Left, Bits
<1>6. QED
  BY <1>4, <1>5

LEMMA EnteredAbove ==
  ASSUME NEW w \in SUBSET Bits, NEW byte
  PROVE  Left(Entered(w, byte), 8) = SymDiff(Left(w, 8), Left(BitsOf(byte), 16))
<1>1. w \in Polys /\ BitsOf(byte) \in Polys /\ 8 \in Nat
  BY WordIsPoly, BitsOfBounded
<1>2. Left(BitsOf(byte), 8) \in Polys /\ Left(Left(BitsOf(byte), 8), 8) = Left(BitsOf(byte), 8 + 8)
  BY <1>1, LeftAt, LeftLeft
<1>3. Left(SymDiff(w, Left(BitsOf(byte), 8)), 8) = SymDiff(Left(w, 8), Left(Left(BitsOf(byte), 8), 8))
  BY <1>1, <1>2, LeftSymDiff
<1>4. 8 + 8 = 16
  OBVIOUS
<1>5. QED
  BY <1>2, <1>3, <1>4 DEF Entered

(* So one turn of the outer loop takes a remainder to the next one. *)
LEMMA RemainderOfAppend ==
  ASSUME NEW data \in Seq(0 .. 255), NEW byte \in 0 .. 255, NEW w \in SUBSET Bits,
         w = Remainder(Dividend(data), 8 * Len(data))
  PROVE  FeedByte(w, byte) =
           Remainder(Dividend(Append(data, byte)), 8 * Len(Append(data, byte)))
<1> DEFINE P == Dividend(data)
           N == 8 * Len(data)
           C == Left(BitsOf(byte), 16)
           P2 == Dividend(Append(data, byte))
<1>1. N \in Nat /\ N \in 0 .. N /\ 8 * Len(Append(data, byte)) = N + 8
  OBVIOUS
<1>2. P \in Polys /\ P2 = SymDiff(Left(P, 8), C) /\ P2 \in Polys
  <2>1. Append(data, byte) \in Seq(0 .. 255)
    OBVIOUS
  <2>2. QED
    BY <2>1, DividendParts, DividendOfAppend
<1>3. C \in SUBSET (16 .. 23)
  BY BitsOfBounded DEF Left
<1>4. Division(P, N)[N] = w
  BY DEF Remainder
<1>5. Entered(w, byte) \in SUBSET Bits /\ FeedByte(w, byte) = Shifts(Entered(w, byte))[8]
  BY EnteredIsWord, FeedByteIsWord
<1>6. Left(Entered(w, byte), 8) = SymDiff(Left(w, 8), C)
  BY EnteredAbove
<1> HIDE DEF P, N, C, P2
<1>7. Division(P2, N + 8)[N] = Left(Entered(w, byte), 8)
  <2>1. Division(P2, N + 8)[N] = SymDiff(Left(Division(P, N)[N], 8), C)
    BY <1>1, <1>2, <1>3, DivisionBefore
  <2>2. QED
    BY <1>4, <1>6, <2>1
<1>8. Division(P2, N + 8)[N + 8] = FeedByte(w, byte)
  BY <1>1, <1>2, <1>5, <1>7, DivisionBehind
<1>9. QED
  BY <1>1, <1>8 DEF Remainder, P2

-----------------------------------------------------------------------------
(* The invariant of the loop: the register is also the value of crc16 as a  *)
(* function of the data, which the altered data is compared through.        *)
LoopInv ==
  /\ fed \in Seq(FedBytes)
  /\ register = CrcBits(fed)
  /\ RegisterIsRemainder

LEMMA CrcIsWord ==
  ASSUME NEW data \in Seq(0 .. 255)
  PROVE  CrcBits(data) \in SUBSET Bits
<1>1. Len(data) \in 0 .. Len(data)
  OBVIOUS
<1>2. QED
  BY <1>1, RegistersUnfold DEF CrcBits

LEMMA FedAreBytes ==
  ASSUME NEW data \in Seq(FedBytes)
  PROVE  data \in Seq(0 .. 255)
<1> DEFINE All == 0 .. 255
<1>1. FedBytes \subseteq All
  BY FedBytesAssumption DEF FedBytesAssumption
<1> HIDE DEF All
<1>2. data \in Seq(All)
  BY <1>1, SeqMonotonic, Zenon
<1>3. QED
  BY <1>2 DEF All

LEMMA LoopInitInv == LoopInit => LoopInv
<1> SUFFICES ASSUME LoopInit PROVE LoopInv
  OBVIOUS
<1>1. fed = <<>> /\ register = InitCrc
  BY DEF LoopInit
<1>2. <<>> \in Seq(FedBytes) /\ <<>> \in Seq(0 .. 255) /\ Len(<<>>) = 0
  OBVIOUS
<1>3. CrcBits(<<>>) = InitCrc
  BY <1>2, RegistersUnfold DEF CrcBits
<1>4. Dividend(<<>>) = InitCrc
  <2>1. Dividend(<<>>) = SymDiff(Padded(<<>>), 8 * Len(<<>>) .. 8 * Len(<<>>) + 15)
    BY <1>2, DividendParts
  <2>2. Padded(<<>>) = {}
    BY DEF Padded
  <2>3. 8 * Len(<<>>) .. 8 * Len(<<>>) + 15 = 0 .. 15
    BY <1>2
  <2>4. SymDiff({}, 0 .. 15) = 0 .. 15
    BY DEF SymDiff
  <2>5. QED
    BY <2>1, <2>2, <2>3, <2>4 DEF InitCrc, Bits
<1>5. Remainder(Dividend(<<>>), 8 * Len(<<>>)) = InitCrc
  <2>1. InitCrc \in SUBSET Nat /\ 0 \in Nat /\ 8 * Len(<<>>) = 0
    BY <1>2 DEF InitCrc, Bits
  <2>2. Division(InitCrc, 0)[0] = InitCrc
    BY <2>1, DivisionUnfold
  <2>3. QED
    BY <1>4, <2>1, <2>2 DEF Remainder
<1>6. QED
  BY <1>1, <1>2, <1>3, <1>5 DEF LoopInv, RegisterIsRemainder

LEMMA LoopNextInv == LoopInv /\ [LoopNext]_loopVars => LoopInv'
<1> SUFFICES ASSUME LoopInv, [LoopNext]_loopVars PROVE LoopInv'
  OBVIOUS
<1>1. CASE UNCHANGED loopVars
  BY <1>1 DEF LoopInv, RegisterIsRemainder, loopVars
<1>2. ASSUME NEW byte \in FedBytes, Feed(byte)
      PROVE  LoopInv'
  <2>1. /\ fed' = Append(fed, byte) /\ register' = FeedByte(register, byte)
        /\ fed \in Seq(FedBytes) /\ fed \in Seq(0 .. 255) /\ byte \in 0 .. 255
    BY <1>2, FedBytesAssumption, FedAreBytes DEF Feed, LoopInv, FedBytesAssumption
  <2>2. fed' \in Seq(FedBytes)
    BY <2>1
  <2>3. register' = CrcBits(fed')
    BY <2>1, CrcOfAppend DEF LoopInv
  <2>4. register \in SUBSET Bits
    BY <2>1, CrcIsWord DEF LoopInv
  <2>5. register = Remainder(Dividend(fed), 8 * Len(fed))
    BY DEF LoopInv, RegisterIsRemainder
  <2>6. register' = Remainder(Dividend(fed'), 8 * Len(fed'))
    BY <2>1, <2>4, <2>5, RemainderOfAppend
  <2>7. QED
    BY <2>2, <2>3, <2>6 DEF LoopInv, RegisterIsRemainder
<1>3. QED
  BY <1>1, <1>2 DEF LoopNext

(* crc16 is CRC-16/CCITT-FALSE, whatever the data and however long it is:   *)
(* after each byte its loop holds the remainder of the division that        *)
(* defines this checksum, the bits its u16 shifts out included.             *)
THEOREM CrcIsTheRemainder == LoopSpec => []RegisterIsRemainder
<1>1. LoopInv => RegisterIsRemainder
  BY DEF LoopInv
<1>2. QED
  BY <1>1, LoopInitInv, LoopNextInv, PTL DEF LoopSpec

LEMMA ByteInterval == Byte = 0 .. 255
<1>1. \A x : x \in Byte <=> x \in 0 .. 255
  BY DEF Byte
<1>2. QED
  BY <1>1

LEMMA BytesOfWord ==
  ASSUME NEW lo \in Byte, NEW hi \in Byte
  PROVE  lo = LowByte(lo + 256 * hi) /\ hi = HighByte(lo + 256 * hi)
BY DEF Byte, LowByte, HighByte

(* Different registers are different numbers. *)
LEMMA TopsUnfold ==
  ASSUME NEW w \in SUBSET Bits
  PROVE  /\ Tops(w) \in [0 .. 16 -> Nat]
         /\ \A n \in 1 .. 16 :
              Tops(w)[n] = 2 * Tops(w)[n - 1] + (IF 16 - n \in w THEN 1 ELSE 0)
<1> DEFINE More(v, n) == 2 * v + (IF 16 - n \in w THEN 1 ELSE 0)
           Eqn(r) == r = [n \in 0 .. 16 |-> IF n = 0 THEN 0 ELSE More(r[n - 1], n)]
           step == [n \in 1 .. 16 |-> [v \in Nat |-> More(v, n)]]
<1>1. \A n \in 1 .. 16, v \in Nat : More(v, n) \in Nat
  OBVIOUS
<1>2. Tops(w) = CHOOSE r : Eqn(r)
  BY DEF Tops
<1> HIDE DEF More
<1>3. step \in [1 .. 16 -> [Nat -> Nat]] /\ 0 \in Nat /\ 16 \in Nat
  BY <1>1
<1>4. PICK r \in [0 .. 16 -> Nat] :
        r[0] = 0 /\ \A n \in 1 .. 16 : r[n] = step[n][r[n - 1]]
  <2> HIDE DEF step
  <2>1. Solutions(Nat, 16, 0, step) # {}
    BY <1>3, RecursionExists
  <2>2. QED
    BY <2>1 DEF Solutions
<1>5. Eqn(r)
  <2>1. \A n \in 1 .. 16 : r[n] = More(r[n - 1], n)
    BY <1>4
  <2>2. QED
    BY <1>4, <2>1
<1>6. Eqn(Tops(w))
  <2> HIDE DEF Eqn
  <2>1. QED
    BY <1>2, <1>5
<1> DEFINE t == Tops(w)
<1> HIDE DEF t
<1>7. /\ t[0] = 0
      /\ t = [n \in 0 .. 16 |-> t[n]]
      /\ \A n \in 1 .. 16 : t[n] = More(t[n - 1], n)
  BY <1>6 DEF t
<1>8. t \in [0 .. 16 -> Nat]
  <2>1. \A n \in 1 .. 16 : t[n - 1] \in Nat => t[n] = step[n][t[n - 1]]
    BY <1>7
  <2>2. Iterates(t, Nat, 16, 0, step)
    BY <1>7, <2>1 DEF Iterates
  <2> HIDE DEF Eqn, step
  <2>3. QED
    BY <1>3, <2>2, RecursionTyped
<1>9. QED
  BY <1>7, <1>8 DEF t, More

LEMMA SameDouble ==
  ASSUME NEW p \in Nat, NEW q \in Nat, NEW a \in {0, 1}, NEW b \in {0, 1},
         2 * p + a = 2 * q + b
  PROVE  p = q /\ a = b
OBVIOUS

LEMMA ValueOfInjective ==
  ASSUME NEW u \in SUBSET Bits, NEW v \in SUBSET Bits, ValueOf(u) = ValueOf(v)
  PROVE  u = v
<1> DEFINE Same(n) == /\ Tops(u)[16 - n] = Tops(v)[16 - n]
                      /\ AgreeOn(u, v, 0 .. n - 1)
           T == {n \in 0 .. 16 : Same(n)}
<1>1. 0 \in T
  <2>1. 0 .. 0 - 1 = {} /\ 16 - 0 = 16
    OBVIOUS
  <2>2. QED
    BY <2>1 DEF ValueOf, AgreeOn
<1>2. ASSUME NEW n \in 0 .. 15, n \in T
      PROVE  n + 1 \in T
  <2> DEFINE m == 16 - n
             p == Tops(u)[m - 1]
             q == Tops(v)[m - 1]
             a == IF n \in u THEN 1 ELSE 0
             b == IF n \in v THEN 1 ELSE 0
  <2>1. m \in 1 .. 16 /\ m - 1 \in 0 .. 16 /\ 16 - m = n /\ 16 - (n + 1) = m - 1 /\ n + 1 \in 0 .. 16
    OBVIOUS
  <2>2. Tops(u)[m] = Tops(v)[m] /\ AgreeOn(u, v, 0 .. n - 1)
    BY <1>2
  <2> HIDE DEF m, T
  <2>3. Tops(u)[m] = 2 * p + a
    BY <2>1, TopsUnfold
  <2>4. Tops(v)[m] = 2 * q + b
    BY <2>1, TopsUnfold
  <2>5. p \in Nat /\ q \in Nat
    BY <2>1, TopsUnfold
  <2>6. p = q /\ a = b
    <3>1. a \in {0, 1} /\ b \in {0, 1}
      OBVIOUS
    <3> HIDE DEF p, q, a, b
    <3>2. QED
      BY <2>2, <2>3, <2>4, <2>5, <3>1, SameDouble
  <2>7. n \in u <=> n \in v
    BY <2>6
  <2>8. 0 .. (n + 1) - 1 = (0 .. n - 1) \cup {n}
    OBVIOUS
  <2>9. Same(n + 1)
    BY <2>1, <2>2, <2>6, <2>7, <2>8 DEF AgreeOn
  <2>10. QED
    BY <2>1, <2>9 DEF T
<1>3. 0 .. 16 \subseteq T
  BY <1>1, <1>2, Induct
<1>4. AgreeOn(u, v, 0 .. 16 - 1)
  BY <1>3
<1>5. AgreeOn(u, v, Bits)
  BY <1>4 DEF Bits, AgreeOn
<1>6. QED
  BY <1>5, SameWord

LEMMA SameChecksum ==
  ASSUME NEW data \in Seq(0 .. 255), NEW other \in Seq(0 .. 255),
         CrcCcittFalse(data) = CrcCcittFalse(other)
  PROVE  CrcBits(data) = CrcBits(other)
<1>1. CrcBits(data) \in SUBSET Bits /\ CrcBits(other) \in SUBSET Bits
  BY CrcIsWord
<1>2. QED
  BY <1>1, ValueOfInjective DEF CrcCcittFalse

(* With the checksum that crc16 computes, decode refuses a frame that the   *)
(* line damaged in one byte or two neighbouring ones, whatever follows it   *)
(* in the buffer.  Two cases are left out because there it may be fooled:   *)
(* damage to the length, which makes decode look for the checksum           *)
(* elsewhere, and damage to both the last byte covered and the first byte   *)
(* of the checksum (i = 3 + Len), which are not neighbours in the division  *)
(* since encode writes the low byte of the checksum first.                  *)
THEOREM DamagedFrameIsRefused ==
  ASSUME \A data \in Seq(Byte) : Crc16(data) = CrcCcittFalse(data),
         NEW f \in Frame, NEW b \in Seq(Byte), FrameLen(f) <= Len(b),
         NEW i \in 1 .. FrameLen(f), i # 3 + Len(f.payload),
         \A k \in 1 .. FrameLen(f) :
           k \notin {i, i + 1} \/ k \in {2, 3} => b[k] = Encode(f)[k],
         \E k \in 1 .. FrameLen(f) : b[k] # Encode(f)[k]
  PROVE  DecodeResult(b) = "CrcMismatch"
<1> DEFINE n == Len(f.payload)
           cov == Covered(f.command, f.payload)
           crc == Crc16(cov)
           read == SubSeq(b, 1, 3 + n)
<1>1. /\ Len(b) \in Nat /\ n \in 0 .. MaxPayloadLen /\ n \in Nat
      /\ FrameLen(f) = FrameOverhead + n
  BY EncodeShape, LenProperties
<1>2. FrameOverhead <= Len(b)
  BY <1>1 DEF FrameOverhead
<1>3. ClaimedLen(b) = n
  <2>1. b[2] = LowByte(n) /\ b[3] = HighByte(n)
    BY <1>1, EncodeShape DEF FrameOverhead
  <2>2. QED
    BY <2>1, EncodeShape, LittleEndianRoundTrip DEF ClaimedLen
<1>4. LenAllowed(b) /\ HasBody(b) /\ HasHeader(b)
  BY <1>1, <1>2, <1>3, MaxPayloadLenAssumption DEF LenAllowed, HasBody, HasHeader, Word
<1>5. /\ read \in Seq(Byte) /\ Len(read) = 3 + n
      /\ \A k \in 1 .. 3 + n : read[k] = b[k]
  <2>1. 3 + n <= Len(b) /\ 3 + n \in Nat /\ \A k \in 1 .. 3 + n : b[k] \in Byte
    BY <1>1 DEF FrameOverhead
  <2>2. QED
    BY <1>1, <2>1
<1>6. /\ cov \in Seq(Byte) /\ Len(cov) = 3 + n
      /\ \A k \in 1 .. 3 + n : Encode(f)[k] = cov[k]
      /\ crc \in Word
      /\ Encode(f)[4 + n] = LowByte(crc) /\ Encode(f)[5 + n] = HighByte(crc)
  BY EncodeShape
<1>7. CASE i \in 1 .. 2 + n
  <2>1. \A k \in 1 .. Len(cov) : k # i /\ k # i + 1 => cov[k] = read[k]
    BY <1>1, <1>5, <1>6 DEF FrameOverhead
  <2>2. b[4 + n] = LowByte(crc) /\ b[5 + n] = HighByte(crc)
    <3>1. /\ 4 + n \in 1 .. FrameLen(f) /\ 4 + n \notin {i, i + 1}
          /\ 5 + n \in 1 .. FrameLen(f) /\ 5 + n \notin {i, i + 1}
      BY <1>1, <1>7 DEF FrameOverhead
    <3>2. QED
      BY <1>6, <3>1
  <2>3. FromLittleEndian(b[4 + n], b[5 + n]) = crc
    BY <1>6, <2>2, LittleEndianRoundTrip
  <2>4. cov # read
    <3>1. PICK k \in 1 .. FrameLen(f) : b[k] # Encode(f)[k]
      OBVIOUS
    <3>2. k \in {i, i + 1}
      BY <3>1
    <3>3. k \in 1 .. 3 + n
      BY <1>1, <1>7, <3>2
    <3>4. cov[k] # read[k]
      BY <1>5, <1>6, <3>1, <3>3
    <3>5. QED
      BY <3>4
  <2>5. crc # Crc16(read)
    <3>1. cov \in Seq(0 .. 255) /\ read \in Seq(0 .. 255)
      BY <1>5, <1>6, ByteInterval
    <3>2. i \in 1 .. Len(cov) /\ Len(read) = Len(cov)
      BY <1>1, <1>5, <1>6, <1>7
    <3> HIDE DEF cov, read
    <3>3. CrcBits(cov) # CrcBits(read)
      BY <2>1, <2>4, <3>1, <3>2, AlterationShows
    <3>4. CrcCcittFalse(cov) # CrcCcittFalse(read)
      BY <3>1, <3>3, SameChecksum
    <3>5. QED
      BY <1>5, <1>6, <3>4 DEF cov
  <2>6. ~CrcMatches(b)
    BY <1>3, <2>3, <2>5 DEF CrcMatches
  <2>7. QED
    BY <1>4, <2>6 DEF DecodeResult
<1>8. CASE i \in 4 + n .. 5 + n
  <2>1. \A k \in 1 .. 3 + n : read[k] = cov[k]
    BY <1>1, <1>5, <1>6, <1>8 DEF FrameOverhead
  <2>2. read = cov
    <3> HIDE DEF cov, read
    <3>1. QED
      BY <1>5, <1>6, <2>1, SeqEqual
  <2>3. b[4 + n] # LowByte(crc) \/ b[5 + n] # HighByte(crc)
    <3>1. PICK k \in 1 .. FrameLen(f) : b[k] # Encode(f)[k]
      OBVIOUS
    <3>2. k \in {i, i + 1}
      BY <3>1
    <3>3. k = 4 + n \/ k = 5 + n
      BY <1>1, <1>8, <3>2 DEF FrameOverhead
    <3>4. QED
      BY <1>6, <3>1, <3>3
  <2>4. b[4 + n] \in Byte /\ b[5 + n] \in Byte
    <3>1. 4 + n \in 1 .. Len(b) /\ 5 + n \in 1 .. Len(b)
      BY <1>1 DEF FrameOverhead
    <3>2. QED
      BY <3>1, ElementOfSeq
  <2>5. FromLittleEndian(b[4 + n], b[5 + n]) # crc
    <3> DEFINE lo == b[4 + n]
               hi == b[5 + n]
    <3>1. lo \in Byte /\ hi \in Byte /\ (lo # LowByte(crc) \/ hi # HighByte(crc))
      BY <2>3, <2>4
    <3> HIDE DEF lo, hi, crc
    <3>2. lo = LowByte(lo + 256 * hi) /\ hi = HighByte(lo + 256 * hi)
      BY <3>1, BytesOfWord
    <3>3. QED
      BY <3>1, <3>2 DEF FromLittleEndian, lo, hi
  <2>6. ~CrcMatches(b)
    BY <1>3, <2>2, <2>5 DEF CrcMatches
  <2>7. QED
    BY <1>4, <2>6 DEF DecodeResult
<1>9. QED
  BY <1>1, <1>7, <1>8 DEF FrameOverhead

(* The frame that a loop has fed to the checksum is the one encode makes.   *)
LEMMA FedFrame ==
  ASSUME LoopInv, \A data \in Seq(Byte) : Crc16(data) = CrcCcittFalse(data),
         NEW f \in Frame, fed = Covered(f.command, f.payload)
  PROVE  FrameOfFed = Encode(f)
<1>1. fed \in Seq(Byte)
  BY EncodeShape
<1>2. Crc16(fed) = ValueOf(register)
  BY <1>1 DEF LoopInv, CrcCcittFalse
<1>3. QED
  BY <1>2 DEF FrameOfFed, Encode, EncodedBytes

(* Damage at one of the places, as DamagedFrameIsRefused speaks of it. *)
LEMMA PlaceShape ==
  ASSUME NEW n \in Nat, n >= FrameOverhead, NEW at \in Places(n)
  PROVE  /\ at \subseteq 1 .. n /\ at \cap {2, 3} = {}
         /\ \E i \in 1 .. n : i # n - 2 /\ at \subseteq {i, i + 1}
<1>1. /\ at \cap {2, 3} = {} /\ at # {n - 2, n - 1}
      /\ at \in {{i} : i \in 1 .. n} \/ at \in {{i, i + 1} : i \in 1 .. n - 1}
  BY DEF Places
<1>2. CASE at \in {{i} : i \in 1 .. n}
  <2>1. PICK i \in 1 .. n : at = {i}
    BY <1>2
  <2>2. CASE i # n - 2
    BY <1>1, <2>1, <2>2
  <2>3. CASE i = n - 2
    <3>1. i - 1 \in 1 .. n /\ i - 1 # n - 2 /\ i = (i - 1) + 1
      BY <2>1, <2>3 DEF FrameOverhead
    <3>2. QED
      BY <1>1, <2>1, <3>1
  <2>4. QED
    BY <2>2, <2>3
<1>3. CASE at \in {{i, i + 1} : i \in 1 .. n - 1}
  <2>1. PICK i \in 1 .. n - 1 : at = {i, i + 1}
    BY <1>3
  <2>2. i # n - 2
    <3>1. i = n - 2 => i + 1 = n - 1
      BY <2>1
    <3>2. QED
      BY <1>1, <2>1, <3>1
  <2>3. i \in 1 .. n /\ i + 1 \in 1 .. n
    BY <2>1
  <2>4. QED
    BY <1>1, <2>1, <2>2, <2>3
<1>4. QED
  BY <1>1, <1>2, <1>3

LEMMA LoopInvRefused ==
  ASSUME \A data \in Seq(Byte) : Crc16(data) = CrcCcittFalse(data)
  PROVE  LoopInv => DamagedFramesRefused
<1> SUFFICES ASSUME LoopInv, fed \in CoveredParts,
                    NEW at \in Places(Len(FrameOfFed)), NEW to \in [at -> AlteredBytes],
                    AlteredAt(FrameOfFed, at, to) # FrameOfFed,
                    NEW behind \in {<<>>, FrameOfFed}
             PROVE  DecodeResult(AlteredAt(FrameOfFed, at, to) \o behind) = "CrcMismatch"
  BY DEF DamagedFramesRefused
<1>1. PICK f \in Frame : fed = Covered(f.command, f.payload)
  BY DEF CoveredParts
<1> DEFINE whole == Encode(f)
           n == FrameLen(f)
           damaged == AlteredAt(whole, at, to)
           b == damaged \o behind
<1>2. FrameOfFed = whole
  BY <1>1, FedFrame
<1>3. /\ whole \in Seq(Byte) /\ Len(whole) = n /\ n \in Nat /\ n >= FrameOverhead
      /\ DOMAIN whole = 1 .. n
  BY EncodeShape, LenProperties DEF FrameOverhead
<1>4. /\ at \subseteq 1 .. n /\ at \cap {2, 3} = {}
      /\ \E i \in 1 .. n : i # n - 2 /\ at \subseteq {i, i + 1}
  <2>1. at \in Places(n)
    BY <1>2, <1>3
  <2>2. QED
    BY <1>3, <2>1, PlaceShape
<1>5. damaged \in Seq(Byte) /\ Len(damaged) = n
  <2> DEFINE e(k) == IF k \in at THEN to[k] ELSE whole[k]
  <2>1. AlteredBytes \subseteq Byte
    BY AlteredBytesAssumption, ByteInterval DEF AlteredBytesAssumption
  <2>2. \A k \in 1 .. n : e(k) \in Byte
    BY <1>3, <2>1
  <2>3. damaged = [k \in 1 .. n |-> e(k)]
    BY <1>3 DEF AlteredAt
  <2> HIDE DEF damaged, e, n
  <2>4. QED
    BY <1>3, <2>2, <2>3
<1>6. \A k \in 1 .. n : damaged[k] = IF k \in at THEN to[k] ELSE whole[k]
  BY <1>3 DEF AlteredAt
<1>7. \E k \in 1 .. n : damaged[k] # whole[k]
  <2>1. damaged # whole
    BY <1>2
  <2> HIDE DEF damaged, whole, n
  <2>2. QED
    BY <1>3, <1>5, <2>1, SeqEqual
<1>8. behind \in Seq(Byte)
  <2>1. <<>> \in Seq(Byte)
    OBVIOUS
  <2>2. behind = <<>> \/ behind = whole
    BY <1>2
  <2> HIDE DEF whole
  <2>3. QED
    BY <1>3, <2>1, <2>2
<1>9. /\ b \in Seq(Byte) /\ n <= Len(b)
      /\ \A k \in 1 .. n : b[k] = damaged[k]
  <2> HIDE DEF damaged, n
  <2>1. /\ b \in Seq(Byte) /\ Len(b) = n + Len(behind)
        /\ \A k \in 1 .. n : b[k] = damaged[k]
    BY <1>5, <1>8, ConcatAt
  <2>2. Len(behind) \in Nat
    BY <1>8, LenProperties
  <2>3. QED
    BY <1>3, <2>1, <2>2
<1>10. PICK i \in 1 .. n : i # n - 2 /\ at \subseteq {i, i + 1}
  BY <1>4
<1>11. i # 3 + Len(f.payload)
  BY <1>10, EncodeShape DEF FrameOverhead
<1>12. \A k \in 1 .. n : k \notin {i, i + 1} \/ k \in {2, 3} => b[k] = whole[k]
  <2>1. \A k \in 1 .. n : k \notin at => b[k] = whole[k]
    BY <1>6, <1>9
  <2>2. QED
    BY <1>4, <1>10, <2>1
<1>13. \E k \in 1 .. n : b[k] # whole[k]
  BY <1>7, <1>9
<1>14. DecodeResult(b) = "CrcMismatch"
  <2> HIDE DEF b, damaged
  <2>1. QED
    BY <1>9, <1>11, <1>12, <1>13, DamagedFrameIsRefused
<1>15. QED
  BY <1>2, <1>14

(* Whatever frame is sent, and however long: damaged in one byte, or in two *)
(* neighbours, of its command, payload or checksum (the pair across the     *)
(* start of the checksum excepted) it is refused by decode, and nothing     *)
(* that stands behind it in the buffer makes up for it.                     *)
THEOREM DamageIsNoticed ==
  ASSUME \A data \in Seq(Byte) : Crc16(data) = CrcCcittFalse(data)
  PROVE  LoopSpec => []DamagedFramesRefused
<1>1. LoopInv => DamagedFramesRefused
  BY LoopInvRefused
<1>2. QED
  BY <1>1, LoopInitInv, LoopNextInv, PTL DEF LoopSpec
===============================================================================
