# Verification of payjoin-no-std-harness

TLA+ modules, TLC runs and TLAPS proofs about the harness: the framing that
host and boards share (`harness-proto`), the loops that send and receive frames
(`harness-device`, `harness-host`), the v1 round trip in which the host relays
between a sender's and a receiver's board, the same round trip between two
threads without a host, the two simulators that stand in for a board, the v2
probe, and the command line that starts it all.

Run inside this directory: `tlc -config X.cfg M` for a run listed in
`PROJECT.json`, `tlapm M.tla` for a module whose name ends in `Proofs`.

## The system

| part | state | operations | talks to |
|---|---|---|---|
| `harness-proto` | none (pure) | `encode`, `decode`, `crc16`, status helpers | called by all others |
| framed streams: `send_frame`, `recv_frame` (device), `FramedPort` (host) | a read buffer; on a board local to one call of a role, on the host kept with the port | write one frame; read until one is complete | a `Transport` or serial port, in bytes |
| `run_sender` | where it is in its one pass; payjoin's `v1_context` | build and send `OutRequest`, await `InResponse`, process it | host, over a serial link |
| `run_receiver` | where it is in its one pass | await `OriginalPsbt`, check, send `SignedPsbt` | host, over a serial link |
| `run_v1_roundtrip` | where it is in its five steps; the payload it carries | read request, relay, read proposal, relay, read `Status` | both boards; reads time out after 30 s |
| `run_v2_probe` (both sides) | one exchange | seed out, ShortId back | one board |
| `sender-sim`, `receiver-sim` | one exchange | play one role on the host against one board | one board |
| `Args`, `main` | the fields read so far | take a word, check what is required, open the ports | starts `run_v1_roundtrip` or `run_v2_probe` |
| `channel_pair`, the two-thread test | two queues, three threads | send, receive, hang up, join | `run_sender` and `run_receiver`, in memory |
| board firmware | not in the repository | calls a role, implements `Transport` | |

What is hard in it: bytes arrive in pieces that respect no frame boundary; a
buffer may hold the end of one frame and the start of the next; the host and the
boards are three sequential programs that share nothing but two lines, are
started and reset independently, and keep different amounts of read-ahead; a
write can fail half-way; the host gives up after 30 s and a board never does;
each role makes one pass, so that a frame it does not expect ends it.
`PROJECT.json` lists these hazards at their lines with the properties that
cover them.

What makes each part correct:

- wire format: `decode` inverts `encode` whatever follows the frame, and calls a
  proper prefix incomplete, never wrong; the checksum is the one it is named as;
- framed streams: a reliable FIFO of frames when the line delivers its bytes;
  no wrong frame and no endless wait when it does not;
- roles and host: a proposal is finalized only for the request it answers, a
  round trip is reported only when it happened, and nobody waits for ever
  without a reason;
- command line: `main` may rely on what `parse_from` checked, and opens what the
  words say.

## Modules

| module | models |
|---|---|
| `HarnessProto` | `encode` and `decode` on sequences of bytes. `Crc16` is an operator parameter: what is proved about framing holds for any checksum, except where it says otherwise. |
| `Crc16`, `CrcLoop` | `crc16`: `ShiftBit` and `FeedByte` are the bodies of its two loops, `Shifts` and `Registers` the loops. A u16 is the set of its bits that are 1, which makes xor a symmetric difference and lets the provers reason about it. `CrcLoop` runs it byte by byte against the remainder of a polynomial division, and gives `decode` the frame that belongs to the bytes fed, damaged. |
| `FrameChannel` | abstract: a FIFO of frames. |
| `LossyChannel` | abstract: items may get lost, those that arrive come in order and once each, none after an error. |
| `FrameStream` | one direction of a link in bytes: `WriteFrame`, `RefuseFrame`, `TearFrame` are the three ends of `send_frame`/`write_frame`; `ReturnFrame`, `FailFraming`, `FailBufferFull`, `ReadBytes`, `FailRead` are the branches of one turn of `recv_frame`/`read_frame`'s loop. `Reader` chooses which of the two. `AlterByte`, `LoseBytes` and `ReopenWriter` are what a bad line, and a program that writes on after a failed write, may do, at most `MaxNoise` times. |
| `SerialLinks` | both links of a round trip, frame by frame. `LeftOf` is what a dropped read buffer leaves of a line (it may cut a frame), `FailedOnto` and `StoppedOnto` what a failed write or a stopped writer leaves on it. |
| `BoardSender`, `BoardReceiver` | `run_sender` and `run_receiver`; each action is one stretch between two reads. |
| `HostV1` | `run_v1_roundtrip`, one action per read, relay and error. |
| `V1Roundtrip` | the three programs composed, restarts, fairness, properties. |
| `Simulators` | `sender-sim` with `BoardReceiver`, or `receiver-sim` with `BoardSender`. |
| `V2Probe` | both `run_v2_probe` functions. |
| `ThreadedRoundtrip` | `BoardSender` and `BoardReceiver` over the `ChannelTransport` of the round-trip test: its queues, its translation of commands, its hang-ups, and the thread that joins the two. |
| `Args` | `parse_from` word by word, the checks behind its loop, `main`'s dispatch and the ports it opens. |
| `PayjoinExchange` | abstract: request, propose, finalize, confirm. |
| `FrameStreamProofs`, `V1RoundtripProofs`, `SimulatorsProofs`, `V2ProbeProofs`, `ThreadedRoundtripProofs`, `ArgsProofs` | theorems. |
| `SerialLinksProofs`, `BoardsProofs` | lemmas that several of these rest on. |
| `MC*` | instances for TLC. |

From bytes to frames: `FrameStream` shows (TLC and TLAPS) that a link which
delivers its bytes is a `FrameChannel`, and (TLC) that one which does not is
still a `LossyChannel`; `V1Roundtrip` therefore passes whole frames. What
remains of a faulty line at that level is a `Garbled` item (decode fails for
good) or a `Partial` one (decode waits, and takes what comes next for the
missing bytes): a reader that met an error returns nothing more from its buffer.

Refinements, each an abstract specification that a run has as a PROPERTY:

| abstract | implemented by | in run |
|---|---|---|
| `FrameChannel`, with its liveness | `FrameStream` on a clean line, both readers | `stream_board`, `stream_host` |
| `LossyChannel` | `FrameStream` on a bad line; `V2Probe`, from seeds given to ShortIds shown | `noise`; `v2_probe` |
| `PayjoinExchange` | `V1Roundtrip` with the host between the boards; `ThreadedRoundtrip` without | `v1_patient`; `threads` |

Data is abstracted to what the properties tell apart. In `HarnessProto` and
`FrameStream` payloads are short sequences of bytes. In the round trip a payload
is "the body of request r" or "the proposal to r", as bytes or in base64; what
payjoin's own checks decide is given by sets of requests (`Unbuildable`,
`Rejected`, `Distrusted`), and what does not fit a frame by `LongRequests` and
`LongProposals`.

Definitions marked *mutant* are plausible bugs of the code. No specification
uses them; each shows, put in the place of the definition behind it, that a
property fails with it (`PROJECT.json`, "mutants").

## Runs

Each run takes about a minute or less.

| run | question | bounds |
|---|---|---|
| `crc` | is `crc16` CRC-16/CCITT-FALSE, and does `decode` refuse a frame with a byte, or two in a row, damaged? | data of up to 5 bytes out of 6 values, among them the frames of up to two bytes of payload; damaged bytes take any of 6 values, the frame stands alone or with another behind it. Each bit test goes both ways; the theorems `CrcIsTheRemainder` and `DamageIsNoticed` say the same of all data and all frames. An altered length is the `noise` run's matter. |
| `stream_board` | `recv_frame`: order, no framing error, no byte lost, FIFO | 2 frames of 0 to 2 bytes (and one payload that is too long); `read_buf` of exactly the largest frame, the boundary of `filled == read_buf.len()`. |
| `stream_host` | `read_frame`: the same | `ReadChunk` 8, so that one read can bring one and a half frames. |
| `noise` | what an altered, lost or torn frame can do, and the rest of an earlier session's frame | the board's reader (the host's differs in how much a read may bring and has no check for a full buffer); one disturbance; payloads of 1 and 2 bytes; altered bytes become one of 5, among them a valid length, one that is too long and an unknown command; the line starts empty or with any proper tail of a frame whose payload looks like the start of another (a payload that contains a whole frame would be taken for one; a PSBT does not); `read_buf` one byte short of the largest frame, so that the check for a full buffer is met (the case of the test at `harness-device/src/lib.rs:459`). |
| `v1_patient` | left alone, does a round trip complete, who may fail and why, is a waiting sender's request ever out of everybody's hands, does the sender return? And is the exchange implemented, whatever happens? | a request of each kind, 1 fault, 1 restart, firmware reports success. |
| `v1_restarts` | stale frames after restarts, faults, timeouts: causality, wrong commands, completion | 2 good requests, 3 restarts, 2 faults, timeouts at any time. One fault and three restarts are what a counterexample to the unconditional form of `CompletionMeansFinalized` needs. |
| `simulators` | is each simulator a faithful stand-in for the board it plays? | 5 requests (the fixture, another, and one of each refusal), 1 fault, 2 restarts. |
| `v2_probe` | does a ShortId belong to its seed, and does the probe end? | 2 seeds and one too long, 2 faults, 3 restarts: three seeds in a row with one lost on the way. A timeout at a bad moment is a restart of the host here. |
| `args` | does `main` ever panic, is a line that lacks a word noticed, are the right ports opened? | 12 words (the six flags, both modes, a name, and three numbers of which two are the same baud rate and one is 0; in the wrong place each is an unknown flag, an unknown mode or no number) in lines of up to 6: enough for a complete line of two flags and one flag repeated, or for a mode, another field and one word too few. A word is what `std::env::args` yields; that it panics itself on one that is not Unicode happens before. |
| `threads` | do all threads end, and who is to blame when the test fails? | a request for each of the 32 combinations of reasons to refuse it. The test has one request, which its own `probe_sender` unwraps; the others, unbuildable ones too, are a generalisation. |
| `v1_no_status`, `v1_any_status` | findings, see below | no fault, no restart. |

Fairness. `FrameStream`: the reader's loop runs and a read returns bytes that
are there; no writer ever has to write. `V1Roundtrip`: each of the three
programs goes on while it can, and a read of the host ends by its timeout; no
fault, no restart and no board's reaction to an incomplete frame is ever owed.
`Simulators` and `V2Probe` likewise, except that a simulator's wait has no end.
`ThreadedRoundtrip`: each thread goes on unless it waits for another, since the
operating system schedules all three and `recv` and `join` block only while
there is something to wait for. `Patient` says that the 30 s timeout does not
expire while the awaited frame is on the line or its board is about to act; the
liveness of a round trip needs it, the safety properties are checked without
it. `Args` and `CrcLoop` state no liveness.

Deadlock is not checked by TLC's flag, since roles, host and threads return and
then the system stops; that nobody stops for want of another is what
`AllThreadsEnd`, `NobodyStranded`, `HostNeverHangs` and `ProbeEnds` say.

## What the runs found

1. **Nobody sends the final `Status`.** `run_v1_roundtrip` ends with a read that
   insists on `Status`; `run_sender` returns after `process_response` and sends
   none. With the repository's code on both boards the host ends in a read error
   after a round trip that succeeded (`v1_no_status`). The other runs assume a
   firmware that sends it: `FirmwareStatus`.
2. **`Status` is not read.** Any `Status` counts as completion, also
   `StatusCode::Error` (`v1_any_status`).

`CompletionMeansFinalized` also shows a limit of the protocol: a `Status` names
no request, so that after a lost frame together with restarts the `Status` of
one request can be taken for another's. With faults only or restarts only it
holds.

Documentation that differs from the code without a run of its own: `InitKeys` is
"sent once at startup" (`harness-proto/src/lib.rs:43`) and nothing sends it;
`OriginalPsbt` is described for the sender role too (line 46), which reads no
such frame; `receiver-sim` prints "Round trip complete!" once it has written its
answer (`receiver-sim/src/main.rs:153`), before the board has judged it;
`README.md:84` says the simulators run "the exact same"
`run_sender`/`run_receiver`, while `sender-sim/src/main.rs:12` says it does not.

## Proofs

TLAPS proves the following for every value of the constants: buffer and chunk
sizes, payload lengths up to 65535, checksum functions, numbers of frames,
faults, restarts and timeouts, sets of requests and command lines.

- `FrameStreamProofs`, in four parts:
  - the wire format: `DecodeWhole` (a buffer that starts with an encoded frame
    decodes to it, whatever follows) and `DecodePart` (a proper prefix is
    `Incomplete`), from lemmas on little-endian numbers and on indexing into an
    encoded frame; `FullBufferIsJudged`: a full `read_buf` of the roles' size is
    never `Incomplete`;
  - for every line, clean or not: `StuckReaderReturnsNothing` (after a framing
    error the buffer is one in which `decode` fails or that is full) and, under
    `RoleBuffer`, `RoomToRead` (no read is ever given an empty slice, by
    `FullBufferIsJudged`). The latter is why the simulators' loops get by
    without `recv_frame`'s check for a full buffer;
  - on a clean line: `TypeCorrect`, `FramesReturnedInOrder`, `NoByteLost`,
    `RoleBufferSuffices` (which assumes `RoleBuffer`, the size of the roles'
    `read_buf`) and `ImplementsChannelSafety`. All of them assume `CleanLine`:
    the line is empty when the reader starts and delivers what is written. They
    rest on the inductive invariant `IInv`. That frames come in order is not
    inductive: a step that returns a frame needs to know that the buffer starts
    with the next frame written. So the invariant records (`starts`) where in
    everything ever written each frame begins, and says that each frame not yet
    returned lies, whole, at its place in the unread bytes, and that behind the
    last one there is nothing or the start of a torn frame. `DecodeWhole` and
    `DecodePart` then say what `decode` answers;
  - the checksum: `CrcIsTheRemainder` (`crc16` is CRC-16/CCITT-FALSE for data of
    any length), from the invariant `LoopInv`, and `AlterationShows` (one byte or
    two neighbours of the data altered change it). One turn of the outer loop takes the
    remainder of one dividend to that of the next: the longer division does what
    the shorter one does, 8 coefficients higher (`DivisionBefore`), and its last 8
    steps are the 8 shifts (`DivisionBehind`). An altered byte shows since no step
    makes different registers equal, and a second one next to it cannot undo it,
    since registers that differ in the upper byte only differ in the lower byte 8
    shifts later (`NeighboursDiffer`). With that checksum `DamagedFrameIsRefused`:
    `decode` answers `CrcMismatch` to a frame damaged in one byte or two
    neighbouring ones, whatever follows it, and `DamageIsNoticed` says so of the
    run's property (`DamagedFramesRefused`). Two kinds of damage are excepted,
    and rightly so. An altered length makes `decode` look for the checksum elsewhere.
    And `encode` writes the checksum's low byte first, while the division ends
    with its high byte: the last byte covered and the byte behind it are not
    neighbours for the checksum, and flipping 0x89 in the one and 0xA1 in the
    other goes unnoticed.
    What loops and recursive functions compute is derived from a set-theoretic
    form of induction (`Induct`, by the well-foundedness of < on Nat) and the
    existence of the function a step determines (`RecursionExists`).
- `V1RoundtripProofs`, about the composition of the three programs:
  - `TypeCorrect` and `CausalityHolds`. Causality is not inductive, since what a
    role will accept is still on a line or in the host's hands. `IInv` says that
    each of these is justified: under a request's command only bodies of requests
    that were made, under an answer's only answers that were proposed, and that
    the host holds the right one of the two for the command it is about to relay
    it under.
  - `CommandsAsExpected` needs `CommandsInv`, which commands can be on which line
    at all, and `FirstRunInv`, how far apart sender and host can be in a first
    run and what is then on the line between them.
  - `CompletionIsFinalization`: with faults but no restart by `FirstRunInv`,
    with restarts but no fault by `ReportInv`. A `Status` names no request, so
    that it is its place on the line that says whose it is: what stands in front
    of one is the request it reports on, which is finalized, or what a restart
    left of that. Restarts only ever drop a line's front or cut it; a fault can
    take something out from behind, which is why the two together break the
    property (stated without its condition, TLC refutes it with one fault and
    three restarts).
    A `Status` that is next on the line while the host serves a request
    therefore finds that request finalized, and while the sender still owes a
    `Status` the last thing on its line is its own request.
  - `RoundTripImplementsExchange`: round trips that are not restarted
    (`MaxRestarts = 0`) and ones whose lines deliver (`MaxFaults = 0`) implement
    `PayjoinExchange`, whose four steps are steps of three programs. TLC checks
    one fault with one restart as well.
  - `FailuresAreRefusals` (`FailsOnlyWhenRefused`) and `SenderIsServed`
    (`WaitingSenderIsServed`), for a host that is `Patient` and a run that nothing
    disturbs. Neither is inductive: `StagesInv` lists the stages such a run goes
    through, each with the place of the host and of both boards, what is on the
    four lines and what the host holds. This is the safety part of
    `RoundTripCompletes`: somebody's turn always comes with what he needs for it.
  - All but `TypeCorrect`, `CausalityHolds` and these two assume `StatusMeansOk`:
    the firmware does not add a `Status` of its own after `run_sender` has
    failed. With one that does, a late `Status` can meet a host that waits for
    something else, and `v1_any_status` refutes `CompletionMeansFinalized`.
- `SimulatorsProofs`: `SimCausalityHolds` by the same argument, and
  `SimsKeepToCommands`, again with `StatusMeansOk`, from `SimCommandsInv`: the
  commands on each line, and that before the first restart the sender's board
  has had no answer, hence has nothing to report, while `receiver-sim` waits for
  its request. After one, `receiver-sim` may find the `Status` of the run before.
- `V2ProbeProofs`: `ProbeTypeCorrect` and `ProbeAnswersInOrder`, that the probe
  implements `LossyChannel` from seeds given to ShortIds shown, under any faults,
  restarts and timeouts. A ShortId says nothing of the run it belongs to, and two
  runs may give the same seed, so `InOrder` gives each item a place among the
  seeds given: those of the answers shown, of the ShortIds on their way to the
  host and of the seeds on their way to the board follow each other, and grow
  along each line. Whatever drops, cuts or damages a line leaves what remains in
  its place; the one step at the board moves a place from one line to the other.
- `ThreadedRoundtripProofs`: `TypeCorrect`, `HangUpsAreCaused`,
  `FailuresAreRefusals` and `ImplementsExchangeSafety`. The two threads can only be in
  one of seven joint phases (`Together`): the queues say which, since
  each role speaks once per turn. `MainInv` ties to them what the joining thread
  has seen.
- `ArgsProofs`: `TypeCorrect`, `MainNeverPanics` (each `expect` is behind the check that
  makes it safe), `LostWordIsNoticed` and `OpensAsSaid`, for every command
  line. The loop's invariant relates each field to the words it was read from.
- `SerialLinksProofs` and `BoardsProofs` hold what these share: what each of
  `LeftOf`, `FailedOnto`, `StoppedOnto` and `Damaged` can make of a line, item by
  item, and what the boards' actions keep, over any host.

Assumptions: the named ASSUMEs of the modules, which TLC evaluates for each run,
and those named above.

Only model-checked:

- liveness, which is beyond the prover: `RoundTripCompletes`,
  `SenderReturnsUnlessReceiverFailed`, `HostNeverHangs`, `SimRoundTripCompletes`,
  `NobodyStranded`, `ProbeEnds`, `ProbeCompletes`, `AllThreadsEnd`, and the part
  of `ImplementsChannel` that says every frame arrives;
- `ImplementsLossyChannel`: unlike the rest of the framing it is not true for
  every checksum function. That no altered or torn frame passes for another
  depends on what the checksum tells apart; for the code's own crc and one
  damaged frame, `DamagedFrameIsRefused` proves the step it rests on;
- `ImplementsExchange` of the host with faults and restarts together, where it
  holds only up to a bound: with three restarts one fault is enough to break it.

## Not modelled, and the plan

Every component with logic of its own is modelled. What a further step would
take up:

1. That `FrameStream` with noise implements `LossyChannel`, for a checksum that
   is assumed to tell an altered frame from every one that can be read in its
   place.
2. The simulators' loops in bytes. They are `read_frame`'s with another way of
   refilling and without the check for a full buffer, so that `RoomToRead` says
   what is particular to them.

Out of scope: payjoin's, bitcoin's and base64's own code (external: what they
decide is given by sets of requests), the board firmware (other repositories),
the PSBT fixture, build files and CI.
