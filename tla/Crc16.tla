-------------------------------- MODULE Crc16 --------------------------------
(***************************************************************************)
(* CRC-16/CCITT-FALSE, the checksum of harness-proto's frames: polynomial  *)
(* 0x1021, initial value 0xFFFF, no reflection, no final xor.              *)
(*                                                                         *)
(* A u16 is the set of its bits that are 1, so that xor is the symmetric   *)
(* difference, and a shift to the left drops what leaves bit 15.  Bytes    *)
(* and the checksum that is returned are numbers.                          *)
(***************************************************************************)
EXTENDS Integers, Sequences, FiniteSetsExt

Bits == 0 .. 15

Poly    == {0, 5, 12}   \* 0x1021
InitCrc == Bits         \* 0xFFFF

Left(word, n) == {i + n : i \in word}

(* byte >> i, for each i. *)
Halves(byte) ==
  LET half[i \in 0 .. 7] == IF i = 0 THEN byte ELSE half[i - 1] \div 2
  IN  half

BitsOf(byte) == {i \in 0 .. 7 : Halves(byte)[i] % 2 = 1}

(* The number whose bits these are, by way of those of its n highest ones. *)
Tops(word) ==
  LET top[n \in 0 .. 16] ==
        IF n = 0 THEN 0 ELSE 2 * top[n - 1] + (IF 16 - n \in word THEN 1 ELSE 0)
  IN  top

ValueOf(word) == Tops(word)[16]

-----------------------------------------------------------------------------
(* Mutant: the bit shifted out is never tested. *)
ShiftBitOnly(word) == Left(word, 1) \cap Bits

(* One turn of the inner loop. *)
ShiftBit(word) ==
  LET shifted == Left(word, 1) \cap Bits
  IN  IF 15 \in word THEN SymDiff(shifted, Poly) ELSE shifted

(* The register behind each of the 8 turns. *)
Shifts(word) ==
  LET register[n \in 0 .. 8] == IF n = 0 THEN word ELSE ShiftBit(register[n - 1])
  IN  register

(* Mutant: the byte enters at the bottom of the register. *)
FeedByteLow(word, byte) == Shifts(SymDiff(word, BitsOf(byte)))[8]

(* One turn of the outer loop: the byte enters at the top, 8 shifts follow. *)
FeedByte(word, byte) == Shifts(SymDiff(word, Left(BitsOf(byte), 8)))[8]

(* The register behind each of the bytes. *)
Registers(data) ==
  LET register[n \in 0 .. Len(data)] ==
        IF n = 0 THEN InitCrc ELSE FeedByte(register[n - 1], data[n])
  IN  register

CrcBits(data) == Registers(data)[Len(data)]

CrcCcittFalse(data) == ValueOf(CrcBits(data))
===============================================================================
