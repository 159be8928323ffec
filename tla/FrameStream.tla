----------------------------- MODULE FrameStream -----------------------------
(***************************************************************************)
(* One direction of a serial link at the level of bytes: a writer that     *)
(* encodes frames and writes them (send_frame on a board, write_frame on   *)
(* the host), the bytes under way, and a reader that reads in pieces of    *)
(* any size, buffers them and decodes (recv_frame on a board, read_frame   *)
(* on the host).  The line may alter and lose bytes.                       *)
(*                                                                         *)
(* sent, got and starts are history: the frames that went out whole, what  *)
(* the reader's calls returned, and at which byte of everything ever       *)
(* written each frame of sent starts (one more entry for the next).        *)
(***************************************************************************)
EXTENDS HarnessProto

CONSTANTS
  Sends,      \* the commands the writer of this direction uses
  Reader,     \* "board": recv_frame, "host": read_frame
  BufLen,     \* the length of the board's read_buf
  ReadChunk,  \* the length of the host's chunk, the most one read() returns
  Stale,      \* what may be on the line when the reader starts
  MaxFrames,  \* bound: frames written in a behaviour
  NoiseBytes, \* what a byte on the line may turn into
  MaxNoise    \* bound: bytes altered, runs of bytes lost, writers reopened

ASSUME SendsAssumption == Sends \subseteq Command

ASSUME ReaderAssumption == Reader \in {"board", "host"}

ASSUME BufLenAssumption == BufLen \in Nat

ASSUME ReadChunkAssumption == ReadChunk \in Nat \ {0}

ASSUME StaleAssumption == Stale \subseteq Seq(Byte)

ASSUME MaxFramesAssumption == MaxFrames \in Nat

ASSUME NoiseAssumption == NoiseBytes \subseteq Byte /\ MaxNoise \in Nat

VARIABLES
  wire,      \* bytes written and not yet read
  buf,       \* read_buf[..filled] on a board, FramedPort.buf on the host
  writer,    \* "open", or "failed" once a write returned an error
  outcome,   \* how the reader's last call ended
  noise,     \* how often the line or a writer misbehaved so far
  sent, got, starts

(* The boards' read_buf is [0u8; MAX_PAYLOAD_LEN + FRAME_OVERHEAD]. *)
RoleBuffer == BufLen >= MaxPayloadLen + FrameOverhead

(* Reader and writer start together, so that nothing of an earlier session *)
(* is left on the line, and the line delivers what is written.             *)
CleanLine == Stale = {<<>>} /\ MaxNoise = 0

vars == <<wire, buf, writer, outcome, noise, sent, got, starts>>

Outcomes == {"none", "frame", "io"} \cup FatalDecodeErrors

TypeOK ==
  /\ wire \in Seq(Byte)
  /\ buf \in Seq(Byte)
  /\ writer \in {"open", "failed"}
  /\ outcome \in Outcomes
  /\ noise \in Nat
  /\ sent \in Seq(Frame)
  /\ got \in Seq(Frame)
  /\ starts \in Seq(Nat)

Init ==
  /\ wire \in Stale
  /\ buf = <<>>
  /\ writer = "open"
  /\ outcome = "none"
  /\ noise = 0
  /\ sent = <<>>
  /\ got = <<>>
  /\ starts = <<0>>

-----------------------------------------------------------------------------
(* The writer.  A board encodes into a scratch of the largest frame, the   *)
(* host into one of exactly this frame.                                    *)

ScratchLen(payload) ==
  IF Reader = "host" THEN MaxPayloadLen + FrameOverhead
                     ELSE Len(payload) + FrameOverhead

CanWrite == writer = "open" /\ Len(sent) < MaxFrames

(* The whole frame goes out; a transport that flushes may report an error  *)
(* all the same.                                                           *)
WriteFrame(command, payload) ==
  /\ CanWrite
  /\ EncodeError(payload, ScratchLen(payload)) = "none"
  /\ wire' = wire \o EncodedBytes(command, payload)
  /\ sent' = Append(sent, [command |-> command, payload |-> payload])
  /\ starts' = Append(starts, starts[Len(starts)] + FrameOverhead + Len(payload))
  /\ writer' \in {"open", "failed"}
  /\ UNCHANGED <<buf, outcome, noise, got>>

(* encode refuses the payload: the caller gets an error, nothing is written. *)
RefuseFrame(payload) ==
  /\ CanWrite
  /\ EncodeError(payload, ScratchLen(payload)) # "none"
  /\ writer' = "failed"
  /\ UNCHANGED <<wire, buf, outcome, noise, sent, got, starts>>

(* The write fails after some of the frame's bytes went out. *)
TearFrame(command, payload) ==
  /\ CanWrite
  /\ EncodeError(payload, ScratchLen(payload)) = "none"
  /\ \E n \in 0 .. FrameOverhead + Len(payload) - 1 :
       wire' = wire \o SubSeq(EncodedBytes(command, payload), 1, n)
  /\ writer' = "failed"
  /\ UNCHANGED <<buf, outcome, noise, sent, got, starts>>

-----------------------------------------------------------------------------
(* The reader.  Its loop decodes what is buffered and reads more while the *)
(* frame is incomplete.  An error leaves the buffer as it is.              *)

(* Mutant: the last byte of the buffer is never used. *)
RoomShort == IF Reader = "board" THEN BufLen - Len(buf) - 1 ELSE ReadChunk

(* Bytes the next read() may return at most. *)
Room == IF Reader = "board" THEN BufLen - Len(buf) ELSE ReadChunk

(* A call returns the frame in front of the buffer and leaves rest in it. *)
ReturnLeaving(rest) ==
  /\ DecodeResult(buf) = "Ok"
  /\ got' = Append(got, DecodedFrame(buf))
  /\ buf' = rest
  /\ outcome' = "frame"
  /\ UNCHANGED <<wire, writer, noise, sent, starts>>

ReturnFrameKept == ReturnLeaving(buf)   \* mutant: the frame stays

ReturnFrameClearing == ReturnLeaving(<<>>)   \* mutant: what follows it goes

ReturnFrame == ReturnLeaving(SubSeq(buf, ConsumedLen(buf) + 1, Len(buf)))

(* Mutant: the reader resynchronises by dropping the buffer. *)
FailFramingClearing ==
  /\ DecodeResult(buf) \in FatalDecodeErrors
  /\ outcome' = DecodeResult(buf)
  /\ buf' = <<>>
  /\ UNCHANGED <<wire, writer, noise, sent, got, starts>>

FailFraming ==
  /\ DecodeResult(buf) \in FatalDecodeErrors
  /\ outcome' = DecodeResult(buf)
  /\ UNCHANGED <<wire, buf, writer, noise, sent, got, starts>>

(* recv_frame: the buffer is full and still holds no complete frame. *)
FailBufferFull ==
  /\ Reader = "board"
  /\ Len(buf) = BufLen
  /\ DecodeResult(buf) = "Incomplete"
  /\ outcome' = "PayloadTooLarge"
  /\ UNCHANGED <<wire, buf, writer, noise, sent, got, starts>>

(* Mutant: a read fills the buffer from its front again. *)
ReadBytesToFront ==
  /\ DecodeResult(buf) = "Incomplete"
  /\ \E n \in 1 .. Len(wire) :
       /\ n <= Room
       /\ buf' = SubSeq(wire, 1, n) \o SubSeq(buf, n + 1, Len(buf))
       /\ wire' = SubSeq(wire, n + 1, Len(wire))
  /\ UNCHANGED <<writer, outcome, noise, sent, got, starts>>

ReadBytes ==
  /\ DecodeResult(buf) = "Incomplete"
  /\ \E n \in 1 .. Len(wire) :
       /\ n <= Room
       /\ buf' = buf \o SubSeq(wire, 1, n)
       /\ wire' = SubSeq(wire, n + 1, Len(wire))
  /\ UNCHANGED <<writer, outcome, noise, sent, got, starts>>

(* The read fails: an error of the transport or, on the host, a timeout or *)
(* 0 bytes.  (recv_frame loops on 0 bytes, which changes nothing.)         *)
FailRead ==
  /\ DecodeResult(buf) = "Incomplete"
  /\ Room > 0
  /\ outcome' = "io"
  /\ UNCHANGED <<wire, buf, writer, noise, sent, got, starts>>

-----------------------------------------------------------------------------
(* The line, and the program around the writer, misbehaving. *)

Disturb == noise < MaxNoise /\ noise' = noise + 1

(* What happens to a byte under way may as well happen just before it is   *)
(* read: the reader gets the same bytes.                                   *)
AlterByte ==
  /\ Disturb
  /\ wire # <<>>
  /\ \E b \in NoiseBytes \ {wire[1]} : wire' = [wire EXCEPT ![1] = b]
  /\ UNCHANGED <<buf, writer, outcome, sent, got, starts>>

(* A run of bytes goes missing, of one frame or of several. *)
LoseBytes ==
  /\ Disturb
  /\ \E n \in DOMAIN wire : wire' = SubSeq(wire, n + 1, Len(wire))
  /\ UNCHANGED <<buf, writer, outcome, sent, got, starts>>

(* The writer's program writes again: behind a torn frame, when the write  *)
(* that failed was one.                                                    *)
ReopenWriter ==
  /\ Disturb
  /\ writer = "failed"
  /\ writer' = "open"
  /\ UNCHANGED <<wire, buf, outcome, sent, got, starts>>

-----------------------------------------------------------------------------
Next ==
  \/ \E c \in Sends, p \in Payloads : WriteFrame(c, p)
  \/ \E p \in Payloads : RefuseFrame(p)
  \/ \E c \in Sends, p \in Payloads : TearFrame(c, p)
  \/ ReturnFrame
  \/ FailFraming
  \/ FailBufferFull
  \/ ReadBytes
  \/ FailRead
  \/ AlterByte
  \/ LoseBytes
  \/ ReopenWriter

Spec == Init /\ [][Next]_vars

(* The reader's loop runs while it is called: what it decodes or finds     *)
(* wrong it returns, and a read returns bytes that are there.              *)
(* Nothing obliges the writer to write.                                    *)
FairSpec ==
  /\ Spec
  /\ WF_vars(ReturnFrame)
  /\ WF_vars(ReadBytes)
  /\ WF_vars(FailFraming)
  /\ WF_vars(FailBufferFull)

-----------------------------------------------------------------------------
(* The frames returned are the frames written, in order, none altered,     *)
(* skipped or returned twice, however the reads cut the bytes: a second    *)
(* frame behind the first spoils neither (the compaction of recv_frame and *)
(* the drain of read_frame).                                               *)
FramesInOrder ==
  /\ Len(got) <= Len(sent)
  /\ \A i \in 1 .. Len(got) : got[i] = sent[i]

(* On a line that delivers what was written no call of the reader ends in  *)
(* a framing error: a cut anywhere in a frame reads as Incomplete, and a   *)
(* read_buf of the size the roles use never fills up before a frame is     *)
(* complete.                                                               *)
NoFramingError == outcome \notin FatalDecodeErrors

(* A buffer in which decode found an error stays what it is, and a call    *)
(* that finds the buffer full reads nothing: once a call of recv_frame or  *)
(* read_frame has ended in a framing error, no later call on the same      *)
(* buffer returns a frame, not even one that arrives whole.                *)
NoFrameAfterFramingError ==
  [][(outcome \in FatalDecodeErrors) => UNCHANGED got]_vars

(* A read is never asked for no bytes at all, which a port answers with 0  *)
(* for ever: while the frame in front is incomplete there is room for more *)
(* of it.  recv_frame looks before it reads, the simulators' loops rely on *)
(* a buffer of the roles' size.                                            *)
NoEmptyRead == DecodeResult(buf) = "Incomplete" => Room > 0

(* On such a line the reader implements the reliable channel of frames:    *)
(* each step is a step of it or none, and every frame written is returned  *)
(* in the end.                                                             *)
Channel == INSTANCE FrameChannel WITH Frame <- Frame, sent <- sent, got <- got
ImplementsChannel == Channel!FairSpec

(* Whatever the line does, a reader returns frames that were written, in   *)
(* their order and none twice, and nothing once it has met a framing       *)
(* error: no mixture of two frames and no altered one passes for a frame.  *)
(* This is what SerialLinks takes a faulty line to be.                     *)
Lossy == INSTANCE LossyChannel
           WITH Item <- Frame, sent <- sent, got <- got,
                broken <- outcome \in FatalDecodeErrors
ImplementsLossyChannel == Lossy!Spec

-----------------------------------------------------------------------------
(* The inductive invariant behind these: where each frame not yet returned *)
(* lies in the bytes not yet consumed.                                     *)

Unread == buf \o wire

(* The position, in everything ever written, of the first unread byte. *)
Base == starts[Len(got) + 1]

(* Behind the first off of these bytes come the first n of frame f. *)
HoldsAt(bytes, f, off, n) ==
  /\ off + n <= Len(bytes)
  /\ \A k \in 1 .. n : bytes[off + k] = Encode(f)[k]

StartsInv ==
  /\ Len(starts) = Len(sent) + 1
  /\ \A i \in 1 .. Len(sent) : starts[i + 1] = starts[i] + FrameLen(sent[i])
  /\ \A i, j \in 1 .. Len(starts) : i <= j => starts[i] <= starts[j]

PendingInv ==
  \A i \in Len(got) + 1 .. Len(sent) :
    HoldsAt(Unread, sent[i], starts[i] - Base, FrameLen(sent[i]))

(* Behind the last whole frame there is nothing, or the torn one. *)
TailLen == Len(Unread) - (starts[Len(starts)] - Base)

TailInv ==
  /\ TailLen >= 0
  /\ TailLen > 0 =>
       /\ writer = "failed"
       /\ \E f \in Frame : /\ TailLen < FrameLen(f)
                           /\ HoldsAt(Unread, f, starts[Len(starts)] - Base, TailLen)

(* Every unread byte belongs to a frame that was written and not returned, *)
(* at its place: no byte is lost between two calls of the reader.          *)
BytesAccounted == StartsInv /\ PendingInv /\ TailInv
===============================================================================
