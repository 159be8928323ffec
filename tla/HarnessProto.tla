----------------------------- MODULE HarnessProto -----------------------------
(***************************************************************************)
(* The wire format of harness-proto: what encode writes and what decode    *)
(* makes of a buffer, over sequences of bytes.                             *)
(*                                                                         *)
(*   [command: 1][length: 2, little endian][payload][crc16: 2]             *)
(*                                                                         *)
(* The module is pure.  The checksum is a parameter: module Crc16 defines  *)
(* the one the code computes, and nothing proved about framing depends on  *)
(* which function it is.                                                   *)
(***************************************************************************)
EXTENDS Integers, Sequences

CONSTANTS
  MaxPayloadLen,  \* MAX_PAYLOAD_LEN, the largest payload encode accepts
  Payloads,       \* the payloads that callers hand to encode
  Crc16(_)        \* the checksum of a sequence of bytes

Byte == {n \in Nat : n < 256}     \* u8
Word == {n \in Nat : n < 65536}   \* u16

FrameOverhead == 5

CommandByte ==
  [InitKeys |-> 1, OriginalPsbt |-> 2, OutRequest |-> 3,
   InResponse |-> 4, SignedPsbt |-> 5, Status |-> 6]

Command == DOMAIN CommandByte

(* Command::from_u8: the commands a byte stands for, one or none. *)
CommandsOf(byte) == {c \in Command : CommandByte[c] = byte}

-----------------------------------------------------------------------------
LowByte(w)     == w % 256
HighByte(w)    == w \div 256
LittleEndian(w) == <<LowByte(w), HighByte(w)>>
FromLittleEndian(lo, hi) == lo + 256 * hi

(* The bytes the checksum covers: command, length (cast to u16), payload. *)
Covered(command, payload) ==
  <<CommandByte[command]>> \o LittleEndian(Len(payload) % 65536) \o payload

EncodedBytes(command, payload) ==
  Covered(command, payload) \o LittleEndian(Crc16(Covered(command, payload)))

(* Mutant: the length of the payload is not checked. *)
EncodeErrorAnyLength(payload, outLen) ==
  IF outLen < FrameOverhead + Len(payload) THEN "BufferTooSmall" ELSE "none"

(* The error of encoding into a buffer of outLen bytes, or "none". *)
EncodeError(payload, outLen) ==
  IF Len(payload) > MaxPayloadLen THEN "PayloadTooLarge"
  ELSE IF outLen < FrameOverhead + Len(payload) THEN "BufferTooSmall"
  ELSE "none"

-----------------------------------------------------------------------------
(* decode checks, in this order, the header, the claimed length, that the  *)
(* whole frame is there, the checksum and only then the command byte.      *)

HasHeaderTooLate(buf) == Len(buf) > FrameOverhead   \* mutant: off by one
HasHeader(buf)   == Len(buf) >= FrameOverhead
ClaimedLen(buf)  == FromLittleEndian(buf[2], buf[3])
LenAllowedStrict(buf) == ClaimedLen(buf) < MaxPayloadLen   \* mutant: off by one
LenAllowed(buf)  == ClaimedLen(buf) <= MaxPayloadLen
HasBodyLate(buf) ==   \* mutant: off by one
  Len(buf) > FrameOverhead + ClaimedLen(buf)
HasBody(buf)     == Len(buf) >= FrameOverhead + ClaimedLen(buf)
CrcUnchecked(buf) == Len(buf) >= 0   \* mutant: the comparison left out
CrcMatches(buf)  ==
  FromLittleEndian(buf[4 + ClaimedLen(buf)], buf[5 + ClaimedLen(buf)])
    = Crc16(SubSeq(buf, 1, 3 + ClaimedLen(buf)))

DecodeResult(buf) ==
  IF ~HasHeader(buf) THEN "Incomplete"
  ELSE IF ~LenAllowed(buf) THEN "PayloadTooLarge"
  ELSE IF ~HasBody(buf) THEN "Incomplete"
  ELSE IF ~CrcMatches(buf) THEN "CrcMismatch"
  ELSE IF CommandsOf(buf[1]) = {} THEN "UnknownCommand"
  ELSE "Ok"

(* Mutant: the payload is taken from where it lay once what follows the     *)
(* frame has been moved to the front, as in recv_frame before it copied.    *)
DecodedFrameMovedAway(buf) ==
  LET rest  == SubSeq(buf, FrameOverhead + ClaimedLen(buf) + 1, Len(buf))
      moved == [i \in DOMAIN buf |-> IF i \in DOMAIN rest THEN rest[i] ELSE buf[i]]
  IN  [command |-> CHOOSE c \in Command : CommandByte[c] = buf[1],
       payload |-> SubSeq(moved, 4, 3 + ClaimedLen(buf))]

(* What a successful decode returns: the frame and the bytes it consumed. *)
DecodedFrame(buf) ==
  [command |-> CHOOSE c \in Command : CommandByte[c] = buf[1],
   payload |-> SubSeq(buf, 4, 3 + ClaimedLen(buf))]

ConsumedLen(buf) == FrameOverhead + ClaimedLen(buf)

FatalDecodeErrors == {"PayloadTooLarge", "CrcMismatch", "UnknownCommand"}

-----------------------------------------------------------------------------
(* The frames that encode accepts. *)
Frame == [command : Command,
          payload : {p \in Payloads : Len(p) <= MaxPayloadLen}]

Encode(f)   == EncodedBytes(f.command, f.payload)
FrameLen(f) == FrameOverhead + Len(f.payload)

(* The length field is a u16 and MAX_PAYLOAD_LEN fits in it. *)
ASSUME MaxPayloadLenAssumption == MaxPayloadLen \in Word

ASSUME PayloadsAssumption == Payloads \subseteq Seq(Byte)

(* crc16 returns a u16. *)
ASSUME CrcAssumption == \A f \in Frame : Crc16(Covered(f.command, f.payload)) \in Word
===============================================================================
