---------------------------- MODULE MCFrameStream ----------------------------
(* FrameStream on small instances, with the checksum of the code.          *)
EXTENDS FrameStream, Crc16

MCPayloads      == {<<>>, <<1>>, <<2, 6>>, <<0, 0, 0>>}
MCShortPayloads == {<<1>>, <<2, 6>>}

(* CrcCcittFalse, computed once for what a checksum of a frame covers. *)
CoveredCrc ==
  [data \in {Covered(c, p) : c \in Command, p \in MCPayloads} |-> CrcCcittFalse(data)]

MCCrc16(data) ==
  IF data \in DOMAIN CoveredCrc THEN CoveredCrc[data] ELSE CrcCcittFalse(data)

NothingStale == {<<>>}

(* The rest of a frame of an earlier session, whose payload looks like the *)
(* start of a frame.                                                       *)
StaleTails ==
  UNION {{SubSeq(Encode(f), k, FrameLen(f)) : k \in 2 .. FrameLen(f)} :
           f \in [command : Sends, payload : {<<6, 0, 0>>}]}

NothingOrStale == NothingStale \cup StaleTails

(* Bytes that are a command, a length or a payload, and others. *)
MCNoiseBytes == {0, 1, 3, 7, 255}
===============================================================================
