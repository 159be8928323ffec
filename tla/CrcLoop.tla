------------------------------- MODULE CrcLoop -------------------------------
(***************************************************************************)
(* crc16 as the loop it is: one step per byte of the data.  What the       *)
(* register holds is compared with the definition of the checksum, the     *)
(* remainder of a division of polynomials over {0, 1}; and when the data   *)
(* is what the checksum of a frame covers, decode is given that frame with *)
(* bytes altered under way.                                                *)
(***************************************************************************)
EXTENDS HarnessProto, Crc16

CONSTANTS
  FedBytes,      \* the bytes the data is made of
  AlteredBytes,  \* what noise may turn a byte into
  MaxLen         \* bound: bytes fed

ASSUME FedBytesAssumption == FedBytes \subseteq 0 .. 255

ASSUME AlteredBytesAssumption == AlteredBytes \subseteq 0 .. 255

ASSUME MaxLenAssumption == MaxLen \in Nat

VARIABLES
  fed,      \* history: the data so far
  register  \* crc

loopVars == <<fed, register>>

LoopInit == fed = <<>> /\ register = InitCrc

Feed(byte) ==
  /\ Len(fed) < MaxLen
  /\ fed' = Append(fed, byte)
  /\ register' = FeedByte(register, byte)

LoopNext == \E byte \in FedBytes : Feed(byte)

LoopSpec == LoopInit /\ [][LoopNext]_loopVars

-----------------------------------------------------------------------------
(* Polynomials over {0, 1}, as the sets of their exponents. *)
Divisor == {0, 5, 12, 16}    \* x^16 + x^12 + x^5 + 1, of CRC-16/CCITT

(* The bytes, the first of them on top, behind room for the remainder; the *)
(* initial value inverts the 16 highest coefficients.                      *)
Dividend(bytes) ==
  LET n      == 8 * Len(bytes)
      Padded == UNION {Left(BitsOf(bytes[k]), 16 + n - 8 * k) : k \in DOMAIN bytes}
  IN  SymDiff(Padded, n .. n + 15)

(* Long division: the multiple of the divisor that cancels the leading     *)
(* term is taken away, one degree at a time, steps times, until the degree *)
(* is below 16.                                                            *)
Division(poly, steps) ==
  LET rest[n \in 0 .. steps] ==
        IF n = 0 THEN poly
        ELSE LET before == rest[n - 1]
             IN  IF 16 + steps - n \in before
                 THEN SymDiff(before, Left(Divisor, steps - n))
                 ELSE before
  IN  rest

Remainder(poly, steps) == Division(poly, steps)[steps]

(* The register is the checksum of the bytes fed so far: the shifts and    *)
(* xors of crc16, the bits its u16 drops included, are CRC-16/CCITT-FALSE  *)
(* as harness-proto's wire format names it.                                *)
RegisterIsRemainder == register = Remainder(Dividend(fed), 8 * Len(fed))

(* The data fed is the command, length and payload of a frame of encode.   *)
CoveredParts == {Covered(f.command, f.payload) : f \in Frame}

(* The frame that encode makes of it. *)
FrameOfFed == fed \o LittleEndian(ValueOf(register))

AlteredAt(bytes, at, to) ==
  [k \in DOMAIN bytes |-> IF k \in at THEN to[k] ELSE bytes[k]]

(* The places of one byte, or of two neighbours, of a frame of n bytes.    *)
(* Left out, since decode cannot be expected to notice, are its length,    *)
(* which says where the checksum is, and the pair of the last byte covered *)
(* and the first of the checksum, for whose low byte comes first.          *)
Places(n) ==
  {at \in {{i} : i \in 1 .. n} \cup {{i, i + 1} : i \in 1 .. n - 1} :
     at \cap {2, 3} = {} /\ at # {n - 2, n - 1}}

(* What the checksum is there for: decode refuses a frame damaged in one   *)
(* byte or two in a row of its command, payload or checksum, alone in the  *)
(* buffer or with the next one behind it, and says that it is the checksum *)
(* that is wrong, also when the command byte is no command any more.       *)
DamagedFramesRefused ==
  fed \in CoveredParts =>
    \A at \in Places(Len(FrameOfFed)) : \A to \in [at -> AlteredBytes] :
      LET damaged == AlteredAt(FrameOfFed, at, to)
      IN  damaged # FrameOfFed =>
            \A behind \in {<<>>, FrameOfFed} :
              DecodeResult(damaged \o behind) = "CrcMismatch"
===============================================================================
