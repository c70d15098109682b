# Kodak photo printer: TLA+ models, checks and proofs

This directory models the host library of `kodak-photo-printer`: the session
that drives one print, the `Printer` object that runs jobs and queries over a
shared channel, the two transports that carry it (serial, and USB over an ADB
host), the framings, and the print command on top. TLC checks small instances;
TLAPS proves the invariants of the printer, of the printer together with its
device, of the transports, of both ends of ADB, of the framings and of the
command for every number of jobs, queries, opens, closes, calls and frames.

Paths below are relative to the repository.

## The system

| part | state it keeps | operations | calls / is called by |
|---|---|---|---|
| `src/protocol/session.ts` `PrintSession` | `bytesSent`, `finished`, `failure` | `start`, `handleFrame`, `cancel`, `statusPoll` | pure: `Printer` feeds it frames and performs the action it returns |
| `src/printer.ts` `Printer` | frame listeners; per `printRaw`: session, timer, close listener, `settled` | `connect`, `disconnect`, `printRaw`, `printImage`, `cancel`, `pollStatus`, `requestDeviceInfo`, `onData` | writes to a `Transport`, hears its `data` and `close` events |
| `src/protocol/frame.ts` `FrameDecoder` | byte buffer | `push`, `reset` | `Printer.onData` |
| `src/protocol/status.ts`, `constants.ts`, `device-info.ts` | none | readings of a frame | session, printer |
| `src/transport/adb/host.ts` `AdbHost` | stream map, `nextLocalId`, `maxPayload`, `connected` | `connect`, `open`, `write`, `closeStream`, `close`, `dispatch` | writes to an `AdbLink`, emits `stream`, `data`, `streamClose` |
| `src/transport/adb/message.ts` | byte buffer of the decoder | encoders, `push` | ADB host |
| `src/transport/usb.ts` `UsbTransport` | `device`, `host`, `stream`, `open_`, `reading`, `readLoopDone` | `open`, `write`, `close`, the read loop | owns an `AdbHost`; is a `Transport` |
| `src/transport/serial.ts` `SerialTransport` | `port`, `open_` | `open`, `write`, `close`, the listeners of each port | is a `Transport` |
| `src/cli/commands/print.ts` with `main.ts` | where the command stands, the exit status | prepare, connect, `printImage`, disconnect | owns a `Printer` over a transport |
| `src/cli/commands/inspect.ts` | none | reads a capture with one of three framings | the three codecs |
| `src/transport/mock.ts` | what was written | the same | tests and dry runs |
| `src/protocol/ble.ts` | none | encoders, `decodeBleFrame`, the frame generators | no transport uses BLE; `inspect` reads captures of it |
| `src/image/raster.ts`, other commands of `src/cli` | none | image preparation, lists and dumps | the print command |
| `tools/*.mjs` | none | scripts that were used to explore the device | stand alone |

Everything runs on one JavaScript thread, so a handler is atomic. What makes the
code hard is what happens *between* handlers: every `await` lets other frames,
timers, closes and calls run.

* **Jobs.** `printRaw` is settled by whichever comes first of a fault, a close,
  a timer, a failed write, a teardown and the landing of the final END_JOB. A
  correct `printRaw` settles once, leaves nothing registered, does not resolve
  before the printer acknowledged the job, and reports a fault as a fault.
* **Shared listeners.** Frames name no job: every registered job and query sees
  every frame, including late frames of a job that timed out.
* **The session** answers whatever the printer asks; the printer chooses the
  offsets. It must never slice outside the image or end a job early.
* **ADB.** A message with a body is two awaited writes; the stream map is changed
  by messages that cross each other on the wire.
* **USB.** `open`, `close` and the read loop share fields and each runs across
  many awaits; the printer may vanish, stall or fall idle at any of them.
* **Serial.** The timer of `open` rejects and leaves the port opening; every port
  keeps its listeners for life, so that a late answer or the late close event of
  an old port meets the fields of a new one.
* **The command.** `connect` stands before the `try`, `disconnect` in its
  `finally`; the exit status must be true whichever of them throws.
* **Framings.** Chunks are cut anywhere; BLE fields have one, two and three
  bytes, and a chunk length of zero means a command.

## Modules

| module | models | kind |
|---|---|---|
| `PrintProtocol` | opcodes, print states, the frames, `isFault`, `parseStatus`, acceptance of a device block | operators |
| `PrintSession` | `handleFrame` and all it calls, as a function from session and frame to session and action | operators |
| `JobOutcome` | what `printRaw` promises its callers, with no frames or listeners | abstract specification |
| `Printer` | the `Printer` object over a channel, the printer free to send any frame | state machine; implements `JobOutcome` |
| `PrintSystem` | `Printer` with a device that follows the job flow and two lossy queues | composition |
| `AdbHost` | the ADB host split at each await, and a device that reads header and body apart | state machine |
| `UsbTransport` | `open`, the handshake, the read loop and `close`, split at each await | state machine |
| `SerialTransport` | `open` with its timer, the callbacks and close event of each port, `close` | state machine |
| `PrintCommand` | the print command over `SerialTransport` and `JobOutcome`; a library program as the other client | composition |
| `Decoders` | `FrameDecoder` and `AdbMessageDecoder` on a channel that cuts chunks anywhere, breaks off and opens again | state machine |
| `BleFrames` | the BLE encoders, the decoder and the two transfers, a frame as its bytes | operators, and a state machine of one transfer |
| `Codecs` | the framings `inspect` chooses from | composition |
| `PrintSystemInvariant` | what host and device know of each other, in three layers | inductive invariant of `PrintSystem` |
| `AdbStreams` | why the two ends of ADB agree on their streams | inductive invariant of `AdbHost` |
| `CodecsInvariant` | what a decoder holds of a stream, and a transfer of its payload | inductive invariant of `Codecs` |
| `PrintSessionProofs`, `PrinterProofs`, `PrintSystemProofs`, `SerialTransportProofs`, `PrintCommandProofs`, `UsbTransportProofs`, `AdbHostProofs`, `CodecsProofs` | lemmas and theorems about the module they are named for | proofs |
| `MCPrinter`, `MCPrintSystem`, `MCAdbHost`, `MCUsbTransport`, `MCPrintCommand`, `MCCodecs` | the instances TLC checks | constants |

### How state and actions correspond to the code

**PrintSession.** A session is the record of the three fields. `HandleFrame` is
`handleFrame`; a thrown `PrinterError` is the action `"throw"`, since the only
caller catches it round the call. Payloads are sequences of 32-bit words and
bytes of the image are positions, so a data frame carries the slice `<<from,
to>>`. Arguments of a host frame are cut to a byte, as `encodeFrame` does (300
copies become 44). `bytesSent` is what `onProgress` reports.

**Printer.** `outcome[j]` is the promise of `printRaw` with the local `settled`
flag: `"running"` until `finish`. `frameListeners`, `closeListeners` and
`timers` are the registrations that `finish` takes back. `pending` counts
writes whose promise is unsettled: plain ones (only a failure matters), the
final END_JOB (its landing resolves the job) and dead ones (issued on a channel
that was not open, they can only fail). One frame visits a snapshot of the
listeners, one action per listener, and nothing else runs until the visit is
over (`Idle`). The code visits the snapshot in registration order; the model
in any order, which has more behaviours. `channel` stands for `isOpen` together
with the close event: `"closing"` is an open channel that refuses writes and
whose event is still to come. Where `UsbTransport` lets the two drift apart is
shown by its own run (`find_stale_open`).

**PrintSystem.** `Deliver` takes the oldest frame from `toHost` into
`BeginDelivery`; `DeviceTakes` takes the oldest frame of the wire and reacts as
the job flow of `PROTOCOL.md` and the fake printer of `test/printer.test.ts`
do: greet, acknowledge, ready, pull slices (keeping `Keeps` bytes of each, so
the host is asked again for what it sent), print, finish. The device also
beats, faults, reports media and, where `MayTearDown`, ends the session. It is
`confused` once the host sent something it cannot place.

**AdbHost.** A call (`connect`, an `open`, a `write`) is a record of where it
stands: before its header, awaiting the header's write or the body's, settled.
`SendBody` and `BodyWritten` are the continuations. The header-only sends of
`dispatch` and `closeStream` are one write by `Nobody`. `acceptStream` continues
in `Accepted`. `close` is `closeStream` for each stream. The check of
`strictMagic` compares a word with one the host computed from the same word and
never fails, so it is left out.

**UsbTransport.** Each `open` is a *generation* with a host and a read loop of its
own; `device`, `host`, `stream` and `reading` belong to the object and hold the
generation they came from. `Claims` is the code from `device.open` to
`new AdbHost`, with every point where it may throw; `HandshakeSent` starts the
loop; `Opens` is the end of the race with the stream, `OpenTimesOut` the other
end. No step of `open` looks at `open_`, so `BeginOpen` does not either: a program
may reconnect after a disconnect, which emits close and leaves the flag up, or
open an open transport. `ReleasesDevice` may fail, as the two `catch` blocks of
`close` allow; the fields are reset all the same. `loop[g]` says whether a loop
awaits a header or a payload. `told`, `dead` and `refused` are history variables:
a close event was emitted since the transport last opened, the generations whose
stream had one, and that the last close left the device held. An idle read between header and
payload (`IdleBeforeBody`) is part of the model: the code returns what it has,
although the comment in `readExactly` says such a message is kept whole.

**SerialTransport.** Each `open` makes a port of its own, known by the number of
the call. `opening[g]` is where the call stands, `ports[g]` where its port does,
`port` and `isOpen` the fields of the object. `PortOpens` and `PortFails` are the
callback of the port, before or after the timer (`OpenTimesOut`) settled the
call. A port that breaks is `"lost"` until its close event is told
(`LossIsTold`); that event lowers the flag of whatever port the object has by
then. `closing[k]` is the port a call of `close` awaits. The port may close
(`PortCloses`) or not (`PortStaysOpen`): `close` ignores the error its callback
brings, drops the port and emits close. Three history variables say how a port
was lost sight of: `crossed` are the ports whose flag an older port's event
lowered, `refused` those that stayed open, `replaced` those of a transport that
was opened again while it said it was open.

**PrintCommand.** `at` is where the command stands. The job is `JobOutcome` with
the flag of the transport as its channel, so the command is checked over what
`printRaw` promises, and `Printer` is proved to keep that promise. `TransportActs`
are the steps nobody calls; one that lowers the flag ends the job, as the close
event does. `PreparationFails` and `DryRun` are the two ways that open nothing.
`LibraryCalls` is the other client: a program that opens and closes as often as
the bounds let it.

**Decoders.** A stream is the sequence of its 32-bit words, so that a frame header
is two words (opcode and arguments, length) and an ADB header six. `Push` is
`push`: the chunk joins the buffer and `Rounds`, one `Round` per turn of the loop,
cuts whole frames off its front.
`Arrives(n)` takes any number of words as one chunk. The two decoders share the
loop and differ in their header, in a negative length (the frame decoder reads
it as 0) and in when they start afresh: an ADB decoder is made with its host,
before the connection carries anything, while `Printer.connect` resets the frame
decoder only after `open` returned. Data that arrived before is the one
exception of the properties (`InStep`).

**BleFrames.** A frame is the sequence of its bytes and a byte has `Base` values,
so that the limits of two and three bytes come into reach. `Encode...` and
`Decode` are the code's functions; what throws is `Invalid` or a refusal. A
transfer is a state machine that sends its commands and then one data frame per
turn of the generator's loop; it may be refused at either and cancelled between
two.

## Runs

| run | instance | what it shows |
|---|---|---|
| `printer` | two jobs of two bytes, eight kinds of printer frame, at most two frames on the wire and three unsettled writes per job, legacy opcodes, 300 copies | all the promises of `printRaw` under any order of frames, landings, failures, timers, closes and reconnects; refinement of `JobOutcome` (queries are left to `queries_live` and the theorems) |
| `system` | two jobs of three bytes one after the other, slices capped at two bytes and kept in part, cancels, faults, closes | a resolved job is printed; the device is never confused; heartbeats of a session are answered; progress covers what the device holds; the invariant these are proved from (`ConversationInv`) |
| `system_live` | one job, modern opcodes, teardown allowed | a job settles without its timer, though the device may end the session by itself |
| `queries_live` | two overlapping device queries, heartbeats | a query that left the host is answered without its timer; queries leave nothing behind |
| `adb` | a write of two bytes, a stream opened by each side, a device whose payload is smaller than the default | stream maps agree, acknowledgements are not lost in silence, a write carries each byte once |
| `usb` | three opens, two closes, one stall retry | closes are told, writes reach the host of their stream even after a reconnect without close, a finished close leaves nothing behind but a device that refused the release |
| `codecs` | three stream frames per connection, with payloads whose words look like lengths or negative numbers, every cut into chunks; BLE transfers whose lengths, chunk sizes and arguments lie around the limits of one, two and three bytes | each frame sent on a connection is decoded once, in order and unchanged, and no whole frame waits in the buffer; a BLE frame reads back as what it was made from, a broken one is refused, a transfer is whole or refused before its first data frame |
| `print_command` | three opens and two closes of one serial transport, or one print command | a close is told, an open transport has its port, a port is lost sight of for four reasons only; the exit status is true, nothing is held after a print but a port that refused to close, and the command ends |
| `find_*` | four runs, one property each | the findings below |

**Why these bounds.** Two jobs are the fewest that can settle against each other
and inherit each other's frames; two bytes let an offset lie inside the image
and at its end; three unsettled writes are the start frame, an END_JOB and a
second one, which is what a fault after FINISHED needs. The wire of the
`system` run holds an echo and an answer with room for a cancel. For ADB, the
device's payload of one byte makes `maxPayload` shrink from two to one during a
call and splits the write; two identifiers per side are one for each way a
stream is opened. Three opens let a loop of the first run on under the third;
two closes meet each other half way. On the serial line the third open meets an
old port that opens late and one whose close event is late; two closes can meet
as well. A BLE byte of six values holds up to 35 in two and 215 in three
bytes; the lengths, chunk sizes and arguments of `MCCodecs` lie on both sides of
each limit. All bounds are constants or guards: `MaxWire`, `MaxPending`,
`MaxToHost`, `MaxStreams`, `MaxSent`, `MaxOpens`, `MaxStallRetries`, `Base`.
`CHECK_DEADLOCK FALSE` is set for ADB, USB, the print command and the codecs,
where every call may be settled or every frame sent with nothing left to do. `Permutations` of the jobs and of
the callers of `close` are symmetries of runs that check no liveness.

## Fairness

`system_live`, `queries_live` and `print_command` check liveness. The first two
assume `Fairness` of `PrintSystem`:

* `WF(HandlerStep)`: the event loop runs a handler that is ready, and a delivery
  once begun goes on to the last listener.
* `SF(JobWriteSettles(j))` per job: the promise of a write settles. It is strong
  because deliveries, during which no other handler runs, disable it again and
  again; the event loop serves its queues in turn.
* `SF` of the close of a closing channel: `close` emits its event.
* `SF(DeviceTakes)`, `SF(DeviceFinishes)`: the device reads what it is sent and a
  sheet being printed comes out. These are assumptions about the hardware.

No fairness makes a timer fire, so the runs show that the protocol alone ends a
job; the timer is needed for a device that goes silent. `JobsSettleWithoutTimer`
excepts a job the device aborted after `cancel`: `cancel` only sends END_JOB and
leaves the waiting `printRaw` to its timer.

`CommandEnds` of `print_command` assumes `Fairness` of `PrintCommand`, all of it
weak: the command runs on when it can; the timer of `open` fires; `printRaw`
settles, by its own timer if by nothing else; and the operating system answers a
close, be it with an error, the one wait of the command without a timer. No
fairness makes a port open, close or fail, or a printer answer.

## Proofs

`PrintSessionProofs` proves `HandleFrameCorrect`: for every session, image
length and frame, `handleFrame` returns a session and an action of their types,
END_JOB leaves as a final frame of a finished session only, and a data frame's
slice is non-empty and inside the image. It rests on arithmetic about the slice
(`DataResponseCorrect`) and the shape of the fixed frames (`FixedFrames`).

`PrinterProofs` proves for every set of jobs and queries, every image length,
every set of printer frames and every bound:

| theorem | property |
|---|---|
| `TypeCorrect` | `TypeOK` |
| `NothingLeaks` | `RegisteredWhileRunning` |
| `ResolutionIsEarned` | `ResolvedOnlyIfFinished` |
| `FaultsAreKept` | `FaultIsTheOutcome` |
| `CloseEndsJobs` | `ClosedChannelRunsNoJob` |
| `EndJobIsEarned` | `EndJobOnlyAfterFinished` |
| `SlicesAreInside` | `SlicesInsideImage` |
| `SettledStaysSettled` | `SettledJobsAreSilent` (action property) |
| `ImplementsJobOutcome` | `JobOutcomeSpec` (refinement) |

The inductive invariant `IInv` adds to these properties what they need to be
kept by a step. A listener still to be visited is registered
(`VisitsRegistered`): otherwise a frame under delivery could reach a job that
settled, and a fault would be recorded after the outcome. A job never started
has a new session (`FreshUntilCalled`). A final write in flight belongs to a
finished session (`FinalWritesFollowFinish`): its landing resolves the job. And
the frames on the wire are `GoodMessage`s: the properties of the wire hold of
each element, so that dropping any of them keeps the rest. `InitEstablishes`,
one `...Preserves` lemma per action and `StepPreserves` prove it inductive;
`StepsAreSilent` and `StepRefines` prove the action property and the
refinement from it.

`SerialTransportProofs`, for every number of opens and closes:

| theorem | property |
|---|---|
| `CloseIsAlwaysTold` | `SerialCloseIsTold` |
| `OpenHasPort` | `OpenHasItsPort` |
| `StraysAreCaused` | `StraysHaveACause` |

`SerialInv` adds that an open that waits has the port of the object
(`WaitingHasPort`), that a port which opens was made by an open that waits or
timed out (`OpeningHasCause`), that one close at a time awaits a port, with
nothing open (`OneCloses`), and that a port which is held without a cause is the
object's, with the flag up once it is open (`HeldIsKnown`), which is what
`StraysHaveACause` is kept by: it has to hold already while the port is not yet
lost sight of. The causes are those of the port itself, so one port that timed
out excuses no other.

`PrintCommandProofs`: `CommandImplementsSerial` proves that each step of the
command is a step of its transport or leaves it alone, so that `SerialInv` holds
under the command too. `CommandInv` adds that the command uses one port
(`OnePort`), which port it is at each step (`JobHasPort`), what is over when
(`JobIsOver`), that the port is let go of once the command disconnected, or
refused it (`LetGo`), and what the status rests on (`StatusIsTrue`). From it follow
`CommandTypeCorrect` (`CommandTypeOK`), `ExitIsTrue` (`ExitTellsOutcome`) and
`NothingIsHeld` (`NothingHeldAfterPrint`).

`UsbTransportProofs`, for every number of opens, closes and stall retries:

| theorem | property |
|---|---|
| `UsbTypeCorrect` | `UsbTypeOK` |
| `UsbCloseIsTold` | `CloseIsTold` |
| `UsbWritesReachHost` | `WritesReachTheirHost` |
| `UsbClosedHoldsNothing` | `ClosedHoldsNothing` |

`ClosedHoldsNothing` says of a finished close that no flag is up, no loop is told to
run on and no device, host or stream is left, and that the device is held only if
it refused the release. A loop that outlived the two seconds of `close` may still
be in its last transfer. `UsbInv` adds that no close runs or finished while an open
runs (`OpensAlone`), that the open that runs owns the device and, once it has
one, the host (`OpenOwns`), that what is held has a device to release or was
refused (`HeldHasDevice`), that nothing is up without a device (`DeviceFirst`),
and that what a close lowered stays down until it is done (`ClosingIsDown`).
Without `OpenOwns` a step of an open could end on the fields of another
generation; without `DeviceFirst` a `close` that returns at once could leave a
flag up.

`AdbHostProofs`, for every number of calls and streams, every length and every
pair of payload sizes:

| theorem | property |
|---|---|
| `AdbTypeCorrect` | `AdbTypeOK` |
| `NoStreamTwice` | `AnnouncedOnce` |
| `EveryByteIsSent` | `WritesCarryEveryByte` |

`AdbInv` adds what the traffic may say (`Traffic`: a message that opens or
acknowledges names a stream that can exist, a CNXN says the one payload size),
that a stream still to be announced was not (`ToAnnounce`), that a write under
way stands where its last slice ended (`AtTheEnd`), and `CnxnFirst`: nothing of
the device precedes its CNXN, so nothing is announced, and nothing written,
before the payload size is the negotiated one. Without it the first slice could
be cut with one size and the next offset computed with another, and a byte would
be skipped or sent twice; that `maxPayload` is read anew between two slices
(`write`) is safe for this reason only.

The agreement of both ends is a second invariant, `StreamsInv` of `AdbStreams`,
which holds until the link drops or a write is reported as failed (a header that
went out without its body, or a caller told of a failure, ends every claim about
the other end):

| theorem | property |
|---|---|
| `BothEndsAgree` | `StreamsAgree` |
| `AcksAreKept` | `NoAckIsLost` |

`StreamsAgree` alone is not kept by a step: it says nothing of the messages
between the ends. `Paired(id, r)` therefore gathers everything that speaks of
`id` and `r` as the ends of one stream (either map, a call, a message under way),
and `PairsMatch` says that no id is in two pairs. Pairs are made in two steps
only, when the device accepts an OPEN of the host and when the host accepts one
of the device, and ids are never given twice (`HostAsksOnce`, `DeviceAsksOnce`).
The rest is order: a stream is forgotten before its CLSE is sent
(`ClosedIsForgotten`), and its OKAY arrives before the first WRTE on it
(`OkayComesFirst`), so that nothing of a stream meets an end that does not have
it yet. There is one lemma per action; `StreamsInvariance` puts them together
with `AdbInv`.

`PrintSystemProofs`, for every number of jobs and queries, every image, slice size
and bound, from the three layers of `PrintSystemInvariant`:

| theorem | property | layer | for |
|---|---|---|---|
| `SystemTypeCorrect` | `SysTypeOK` | traffic | any caller and device |
| `NoHeartbeatIsLost` | `HeartbeatsAreEchoed` | traffic | any caller and device |
| `SystemImplementsJobOutcome` | `JobOutcomeSpec` | traffic | any caller and device |
| `TurnInvariance` | `TurnInv` | turns | `~ReuseAfterFailure` |
| `SystemResolutionIsEarned` | `ResolvedMeansPrinted` | turns | also `~MayTearDown` |
| `ConversationInvariance` | `ConversationInv` | conversation | `~ReuseAfterFailure`, no queries |
| `DeviceIsNeverConfused` | `PrinterNeverConfused` | conversation | the same |
| `ProgressIsNeverBehind` | `ProgressCoversReceipt` | conversation | the same |

*Traffic* (`TrafficInv`): what travels is what either side can send, and a heartbeat
that waits for its echo is in the queue, under delivery or echoed on the wire. It
contains `IInv`, since every step of the system is a step of `Printer` or begins a
delivery (`SystemStepIsPrinterStep`); `PrinterHoldsInSystem` and the refinement of
`JobOutcome` follow. *Turns* (`TurnInv`): a running job is the one the device is
at, or its session start is on the way; each end of a job (FINISHED, fault,
teardown) reaches that job once and none after it. *Conversation*
(`ConversationInv`): heartbeats, their echoes, media reports and cancels aside,
one frame is on its way at a time, a question or an answer, and it is the one its
receiver waits for.

The hypotheses are needed, and two findings are the counterexamples. A caller
that prints again on a connection where a job failed may have its next job
finished by the last one's FINISHED (`find_late_finish`), so the second layer asks
for `~ReuseAfterFailure`. The answer to a device query is read by a running job as
a print state (`find_info_block`), so the third asks for no queries. A device that
tears the session down resolves a job it did not print (`session.ts` takes
SESSION_END for the end of the job), so `ResolvedMeansPrinted` asks for
`~MayTearDown`.

The actions fall into few kinds and each layer has one lemma per kind: steps by
which the host takes something back (*recedes*: opening, closing, refused calls,
settled writes, timers), writes that are no part of the conversation (*murmurs*:
cancels, queries), a job that starts, a delivery, a job that answers, the device
that takes a message, what the device announces by itself, and the loss of the
channel. Each kind is a summary of its actions, proved once.

`CodecsProofs`, for any frames, any cuts, any number of connections, and for a BLE
byte of any size:

| theorem | property |
|---|---|
| `DecodersYieldWhatWasSent` | `FramesArriveIntact` |
| `DecodersHoldNothingBack` | `NothingIsHeldBack` |
| `BleFramesReadBack` | `FramesReadBack` |
| `BleBrokenFramesAreRefused` | `BrokenFramesAreRefused` |
| `BleTransferIsWhole` | `TransferIsWhole` |

`DecodersInv`: while a decoder is in step (`Sound`), the words of the frames sent are
those of the frames yielded, then the buffer, then the words on their way; and
the buffer is too short for the next frame. `OneRound` shows that a round of the
loop cuts off the next frame sent and nothing else; `PushKeeps` that the whole loop
does, and that it ends with a rest too short. Before the channel opens a
`FrameDecoder` may hold anything: what is claimed then is that no word of the new
connection is gone, so that the reset in `connect` puts it in step. `BleInv`: what
went out is the encoding of what was asked, and the data frames of a transfer
reach its cursor. Reading back is arithmetic on bytes (`DivMod` to `LowBytes`): two,
three or four bytes hold a number up to their limit and no further.

`FlattenSeq` and `Rounds` are recursive functions. The induction theorems of the
library take an operator as a parameter and cannot be used here; `Induction`
states the principle for a set of numbers instead, proved from the pigeonhole
principle of finite sets. With it the functions are shown to exist
(`FlattenExists`, `RoundsExist`) and to keep what each of their steps keeps
(`FlattenStages`, `RoundsEstablish`).

The assumptions are the named `ASSUME`s: `SessionAssumption` (a positive
`maxChunkSize`, which the code does not check but every caller respects),
`PrinterAssumption` (jobs, queries and the caller are different things),
`SystemAssumption` (a device keeps some of each slice; the switches are
Booleans), `SerialAssumption`, `UsbAssumption` (bounds are numbers),
`CommandAssumption` (the command can open once and its close is one of the
closes), `AdbAssumption` (calls are different things, lengths and payload sizes
are positive), `DecoderAssumption` (a frame of the device has a length that a
signed word holds: a longer one is read as 0, as listed among the hazards) and
`BleAssumption` (a byte has more values than there are opcodes).

Only model-checked is all liveness, which TLAPS cannot do: a job and a query settle
without their timers (`JobsSettleWithoutTimer`, `QueriesSettleWithoutTimer`), and the
command ends (`CommandEnds`). Of the three layers a run checks `ConversationInv`,
which contains the other two.

## Findings

Each is a run whose counterexample contradicts a line of the repository.

* `find_info_block`: the reply to a device query made during a job is read by
  the job's session as a print state; `PROTOCOL.md` lists 0x70 among the
  opcodes dispatched on the opcode.
* `find_late_finish`: FINISHED of a job that timed out finishes the next job on
  the same connection, against the comment on `isFinished`.
* `find_split_message`: an OKAY goes between the header and the body of another
  message, against the comment on `send`. The device's reaction (it drops the
  link) is the one that comment describes.
* `find_stale_open`: a CLSE that arrives while `acceptStream` awaits the write of
  its OKAY emits the close event, and `open` raises the flag after it: `isOpen` is
  true over a stream that is closed, against `transport/types.ts`. The read loop
  leaves the flag up after a disconnect in the same way.

A heartbeat outside a session is dropped too (nothing listens), which `Deliver`
models; `PROTOCOL.md` asks for the echo in its account of a running job, so this
is no finding.

Two more things the models have are stated nowhere, so that no run contradicts
anything: a port or a USB device that refuses to be closed is forgotten by `close`
and stays held (`PortStaysOpen`, `ReleasesDevice`); and the read loop of an `open`
that timed out still has a transfer pending while the next `open` writes its
handshake, which the comment in `startAdb` rules out for one `open` only.

## Assumptions and what is left out

* Callbacks a caller passes (`onProgress`, `onStatus`, listeners) do not throw.
* `PrintSystem` runs one job at a time; `ReuseAfterFailure` says whether a
  connection is used again after a job on it failed. `Printer` has no such
  restriction.
* `UsbTransport` and `SerialTransport`: callers await `open` before they call
  `open` or `close` again, and await `close` before they call `open` again. They
  may open a transport that says it is open. No `service` is asked for.
* The operating system opens a serial port for one holder at a time, may refuse
  to close it, and tells of a lost port after it is gone. A USB device may refuse
  to be released, and is free once it is unplugged.
* The print command is modelled over the serial transport, its default; over USB it
  makes the same calls. An interrupt of the process ends it without a step.

### Not modelled

* **Mock transport**: it records what it is given and acts at once, a special case
  of the channel of `Printer`.
* **Device information, media profiles, `readJpegSize`**: parsing without state
  whose result is only shown. Scaling and JPEG encoding belong to a library.
* **Argument parsing, output, the commands `devices`, `models` and `probe`**: they list
  or print what the library tells them.
* **USB descriptors and discovery**, the named service, and port discovery by name:
  they choose a device and leave no state.
* **Errors, optional modules, exports**: classes without behaviour, a dynamic
  import, re-exports.
* **Diagnostic tools**: scripts outside the library that send messages in a fixed
  order and print what comes back.

## Plan

Done: the session, the printer and its promise, the composed system, the ADB
host, both transports, the framings and the print command, each with its safety
properties proved. What is left, in order:

1. Two callers that write on one ADB stream at once, whose slices may interleave.
2. `UsbChannel`: `UsbTransport` composed with the streams of `AdbHost`, and with
   `Printer` above it, so that `isOpen` and the close event are the real ones.
3. `PrintSystem` with queries between jobs: the third layer with an info block
   that no job hears.
4. The sweep of `tools/enumerate-services-usb.mjs`, which reopens the device for
   each service, as a client of the ADB link.
