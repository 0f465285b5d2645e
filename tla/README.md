# Verification of the AOO library

TLA+ models, TLC runs and TLAPS proofs about the Arduino implementation of the
AOO (audio over OSC) protocol in `src/src`. File names below are relative to
that directory.

## 1. Inventory of the system

A *sender* (`AOOSender`, the AOO source) encodes audio into numbered blocks and
sends each block in one or more `/data` messages to every known *sink*. A
*receiver* (`AOOReceiver`, the AOO sink) keeps one *source line* per stream,
buffers the blocks by number, asks for the missing ones and plays them in order.

| Component | File | State | Operations | Hard behaviour | Correct when |
|---|---|---|---|---|---|
| Indexed ring buffer | `aoo/AOOBuffers.h` | slots: id, active flag, bytes | resize, reserve, write, get, reset, activeCount | two numbers share a slot | a slot holds the block it says it holds |
| Stream view (jitter buffer) | `aoo/AOOBufferView.h` | read position, oldest and newest number, count, primed flag | acceptsSegment, notifySegmentReceived, readSegment, readBytes, setStartSeq | reordering, duplicates, loss, catch-up, re-initialisation | in-order play-out, nothing in the window lost, never stalls |
| Statistics | `aoo/AOOBufferView.h` | totals, sliding window | received, updateStats, recentQualityPercent, reset | counters that disagree after a restart | gaps are never negative, quality is a percentage |
| Packet recovery | `aoo/AOOPacketRecovery.h` | pending numbers with deadline and attempts | received, getResendRequests, discardUpTo | timers, retries, late answers, wrap-around of the clock | only missing blocks are requested, and a bounded number of times |
| Source line | `aoo/AOOSourceLine.h` | all of the above, decoder, decoded queue, resampling rate | storeEncodedData, begin, end, decode, updateDrift | partial re-initialisation, queue at its limit | a segment is only decoded when it fits |
| Receiver | `AOOReceiver.h` | list of lines, mixer, frame assembly per line | onStart, onStop, onData, postProcessing | messages of a stopped stream, timeouts, interleaved frames | an active stream is never dropped, a dead one always is |
| Receiver task | `AOOReceiverTask.h` | two mutexes, stop flags, a task | taskLoop, readBytes, available, end, begin | two threads, shutdown with a deadline | the list is never touched by two threads |
| Sender | `AOOSender.h` | sequence number, sink list, resend buffer, start flag | begin, write, end, receive, request handlers | late requests after a stop, sinks that move | a sink gets what it asked for, a resend is the original block |
| Message handler | `aoo/AOOMessageHandler.h` | own id, reply address | processMessages, ping/pong, routing, replyToSender | id assignment, messages for others | a message is read as what it is, an answer goes to where its request came from |
| Wire format | `aoo/AOOProtocol.h` | none | send, size and parse of each of 13 messages, the decoder of binary data messages | values listed by hand three times, optional fields, truncated input | parse inverts send, the announced size is the written one, a message that is cut off is refused |
| Clock sync | `aoo/AOOClockSync.h` | offset estimate | update, toLocal, toRemote | signed arithmetic on 64 bit timetags | offset has the right sign, no overflow |
| Transport | `aoo/AOOStream.h` | remote and sender address | begin, available, readBytes, write | UDP: loss, duplication, reordering | external to the library |

The parts interact by direct calls: a message handler reads the transport and
calls its listener (sender or receiver); the receiver stores into lines and
replies over the same transport; the audio thread pulls from the receiver, which
pulls from the lines. With `AOOReceiverTask` the message side runs in a task of
its own and the two sides share the lines under `sources_mutex`.

### Hard behaviour

Two kinds of concurrency matter. On the *network* messages are lost, repeated
and overtake each other, and each side times out and asks again on its own. In
the *process*, with `AOOReceiverTask`, a task handles messages while the audio
thread reads; the two share the list of lines, the slots and counters of each
line and the stop flags. Everything else is sequential, but much of it is a long
sequence of legal calls on state that several functions maintain together (ring
slots and window counters, the mixer and the list of lines, the decoded queue).
`PROJECT.json` lists the hazards by line.

## 2. Plan

Order of the modules, the most important behaviour first:

| Step | Module | State |
|---|---|---|
| 1 | `JitterBuffer`, and `Playout`, the abstract in-order play-out it implements | done, proved |
| 2 | `PacketRecovery` | done, proved |
| 3 | `ReceiverTask`, composes the task, the audio thread and `JitterBuffer` and implements `JitterBuffer` with atomic stores | done, proved |
| 4 | `Reassembly`: splitting in the sender and assembly in the receiver | done, proved |
| 5 | `Sender` | done, proved |
| 6 | `Receiver`: the list of lines and the mixer | done, proved |
| 7 | `Session`: sender and receiver on an unreliable network | done, safety proved |
| 8 | `Statistics`, composed with `JitterBuffer` | done, proved |
| 9 | `DecodeQueue` | done, proved |
| 10 | `ClockSync`, with the rounding of its integers and floats | done, proved |
| 11 | `WireFormat`: writing and reading of every message, without state | done, proved through `Routing` |
| 12 | `Routing`, composes `WireFormat` with ids and addresses | done, proved |
| 13 | Resend requests, late resends and the announced `block_size` in `Session` | done, safety proved |
| 14 | Recovery composed with the jitter buffer and the sender: every block that can be resent in time is played; abstract specification: a lossless channel within the window | open |
| 15 | Proofs: `Statistics`, `Session` (`SteadyStreamKeepsAudio`), the error bound of `ClockSync`, the sizes of `WireFormat` | done |

## 3. Modules

A definition `Name_Word` is a variant of `Name` with one plausible mistake. It is
used by no specification (`TaskNotify_Nothing`, `sizeData_OneShort`); putting it in place of `Name` breaks the property named
for it in `PROJECT.json`, which shows that the property depends on that code.

Two modules can only be extended side by side if they share no names. So `Statistics`,
`PacketRecovery`, `DecodeQueue` and `ClockSync`, which are extended together with another
component, have prefixed ones: `StatsInit`, `RecoverySpec`, `QueueNext`, `ClockInit`, ...

**JitterBuffer** (`AOOBuffers.h`, `AOOBufferView.h`, `AOOSourceLine::storeEncodedData`,
`begin`). The slots are `entry_id` and `active`, indexed by number modulo `Size`;
the counters keep their names. `Store` is the whole of `storeEncodedData`: the
acceptance test, `Write` and `notifySegmentReceived`. `Read` is `readSegment` with
its three outcomes; `Restart` is what `begin` does to the buffer. A segment is its
number. **Playout** says what that promises: a cursor that only moves forward, a
set of held segments, and reads that play the next one or report a gap.

**PacketRecovery** (`AOOPacketRecovery.h`). `pending`, `request_time`, `attempts`,
`last_seq`; `received`, `getResendRequests`, `discardUpTo`, `reset`. The list of
`max_count` numbers of a poll is the smallest pending ones that are due. `now`
wraps at `ClockSize` like `millis()`.

**ReceiverTask** (`AOOReceiverTask.h`, the locks in `AOOSourceLine.h` and
`AOOBufferView.h`). Two program counters; each step lies between two operations
on a mutex. `sources_mutex` is recursive (owner and depth), `mutex` is not; the
owner `dead` is a task deleted while it held the lock, and the program counter
`cut` one deleted between writing a segment and announcing it. The
task dispatches data (`storeEncodedData` in its two critical sections), `/start`
and `/stop`; the audio thread does the post processing, reads, makes other locked
calls, `getSourceCount()`, which takes no lock, and `end()` and `begin()` with the stop
handshake and its deadline. The jitter buffer is an instance of `JitterBuffer`.

**Reassembly** (`AOOSender::aoo_send_block`, `AOOReceiver::onData`). `numFrames`
and `frameSize` are the sender's arithmetic; frames arrive in any order, again,
or never. The receiver's `assembly_*` fields keep their names; operators named
`..._before` and `total_...` are the fields after the reset at a new block. A frame of a
block of more than `kMaxAssemblySize` (1 MiB) is refused before the assembly is touched
(`Refuse`). The sender has no such limit: a bigger write is split, sent and lost,
and the properties about what is stored are about blocks up to it.

**Sender** (`AOOSender.h`). `sink_targets` is a sequence of ids and addresses,
`remote` the one address of the stream; `EachSink` is `forEachSink` with that side
effect. Answers (`/start` on request, `/decline`, resent blocks, pongs) go to where the
request came from and leave `remote` alone, as `replyToSender` restores it. `write` sends `/start` and the block, and stores it in the slot for
resends; requests of sinks are one action each. A block is a number of its own
(`block`), so that two blocks with one sequence number can be told apart.

**Receiver** (`AOOReceiver.h`). Per stream a record: format of the decoder, primed
flag, ages instead of times. `onStart`, `onData`, `onStop`, `postProcessing`
(mixer, poor lines, timeout in the order of the code), `end`, and `Tick`. Whether
a line primes or is poor is nondeterministic, as `JitterBuffer` and `Statistics`
decide it. A block that arrives but cannot be stored (a refused or ignored frame, an
unfinished block) leaves `last_data_time` alone, and so does a repeated `/start`: a
source that sends nothing else is removed as stale.

**Session** composes what sender and receiver know of each other, with a set of
messages between them: `/start`, blocks, resent blocks, `/stop`, requests for `/start`,
resend requests, invitations and uninvitations. A decoder is a codec and a block size;
`block_size` of the sender is the length of the last write and what `/start` announces
unless the encoder has a block size of its own. `ring` says whether there are blocks to
send again: they stay after `end()` until the next `begin()`. `pending` is the number of
resend requests a line may still make; any new block and any set-up raises it to
`MaxPending`, which is more than `PacketRecovery` allows, and a resent block does not.
`Timeout` stands for the post processing at the end of a timeout period: a line that
heard nothing in all of it is removed, unless it never was of use (`timed`: data, or a
`/start` whose set-up worked; the set-up may fail). `written` is a history of the lengths
of all writes.

**Statistics** (`BufferStatsTracker`) extends `JitterBuffer`, because what is counted
is what that accepts: each of its steps is one of the buffer together with what the
tracker makes of it. Percentages are pairs of received and expected. A quality window
has at least two numbers (the code has 100): one number alone says nothing of a loss.

**DecodeQueue** (`AOOSourceLine::readBytes`, `decode`, `setupDecodedQueue`). Sizes
in bytes only: the queue's `capacity` and content, the biggest and the last
decoded size. Each pass of the loop is a step.

**ClockSync** (`AOOClockSync::update`, `handlePing`, `handlePong`). Timetags have
`Width` bits and wrap; differences are signed; halving and the conversion from
float are cut off towards zero; floats keep `Mantissa` bits, rounded to the nearest
and to even. The clocks differ, and the stream lasts, less than half of the range of a
timetag, 68 years (`SpanAssumption`). A clock is a multiple
of `Unit` plus a constant `Offset`, modulo its period (`Clock`): with `gettimeofday()`
that is the range of the timetags, without it the 2^32 microseconds (71.6 minutes) of
`micros()`, whose timetags start again from 0 far below it. `Laps` counts how often that
has happened. Drift, a clock that is set while running and the rounding of microseconds
to timetags are not modelled.

**WireFormat** (`AOOProtocol.h`). A datagram is the end it is for, an id, a verb, a
format and a sequence of tagged values with the size it was announced to need; a
binary one is a list of parts with their places. `EndOf` is the position in the datagram
after each value. For each message: the set
of its records (`StartMessage`), the format, the size, `sendStart`, which writes the
values one by one, and `parseStart`, which takes them in the order of the code; reading a value
that is not there or has another type gives `Garbled`, a refused message `Failed`.
`aoo_parse_bin_data` reads a binary message part by part, with the check of the
bytes that remain (`Missing`). `Meaning` is what the other end should read: nil fields
are not sent, other versions are refused. What a value is does not matter, so `Values`
is any set; how long a text or a block is does, as it decides the size.

**Routing** (`AOOMessageHandler.h`, the addressing part of `AOOReceiver.h`) sends these
datagrams to a sink and to its sources. Its state is the id of the sink, the remote
address of the transport, the address in each line and whether anything was read as
something else (`misunderstood`). One action per handler of either end; `ask`,
`resend` and `handlePing` are what the sink sends by itself or answers, over the
shared remote address. The network may deliver any message from any address.

## 4. Runs

One run per module checks everything it promises, safety and liveness, under one
set of constants; a second run of `Session` shows where the code departs from the
documentation. Type invariants are proved (`TypeCorrect`), not run. That the decoder
gets the segments in increasing order, that the reader never passes the newest one and
that a segment is counted once is part of `RefinesPlayout` or proved (`PlayedInOrder`,
`NeverAhead`, `StoredOnce`).

| Run | Shows | Bounds and why they do |
|---|---|---|
| `jitter_buffer` | `NothingInWindowLost`, `GapIsJustified`, `Drains`, and `RefinesPlayout` | 4 slots and 10 numbers: two and a half turns of the ring, so that every slot is shared, the window moves past the reader, and late numbers fall on both sides of it |
| `recovery` | `AtMostMaxRequests`, `PendingAreMissing`, `NoGapForgotten`, `WaitsFirst`, `Settles` | 4 numbers, 2 attempts, a wait of 2 steps, a poll that returns 1 of up to 2 pending, a clock of 5 steps that wraps during a wait |
| `task` | `NoRaceOnLines`, `StopIsFinal`, `StoreIsAtomic`, `CallsReturn` | 2 slots, 3 numbers: a slot is reused and the reader falls behind; `end()` waits 2 steps, which the dispatch may outlast. Deadlock is not an error here: after a task was deleted inside a critical section the lock is lost and the program stops; `CallsReturn` excludes every other standstill |
| `reassembly` | `StoredIsOriginal`, `NothingRejected`, `UninterruptedIsStored` | blocks of 1, 2, 2, 5 and 5 frames, with last frames that are short, full and one byte; the one before last has exactly `kMaxAssemblySize` bytes and the last one more |
| `sender` | `OneBlockPerNumber`, `WindowCanBeResent`, `TargetsAreInformed`, `JoinedAreServed`, `LeaversGetNothing` | 2 sinks, 2 addresses and none, 2 slots and 4 blocks: the resend ring turns twice |
| `receiver` | `MixerHasOnlyLines`, `PrimedAreMixed`, `KeepsAsking`, `SilentIsRemoved` | 2 streams, 2 formats, timeout 2 and interval 2, so that blocks come before a request is due; ages saturate one step after both |
| `session` | `LateJoinerDecodes`, `StoppedIsForgotten`, `SteadyStreamKeepsAudio` | one stream of one codec, whose block size is that of the writes, and writes of one length (the last property says nothing of others; its theorem is for any lengths); 1 resend request until a new block reveals another gap (the network is a set, so that more would be the same message again); each message may be lost and may come again any number of times |
| `session_format` | violation of `LateJoinerGetsFormat`: an old format that stays | two formats, one of them with a fixed block size; messages are lost but not duplicated |
| `statistics` | `QualityIsAShare`, `RecoversFromLoss`, `GapsAreLosses` | a window of 3 numbers, of which 2 make it count, and 6 received: two windows, with late numbers for the closed one |
| `decode_queue` | `ReadGetsAudio`, `OnlyBiggerIsCut`, `AdaptsToSize` | sizes 0 to 7 for a queue of 5, reads of 1 to 6: segments that fit once, twice and never |
| `clock_sync` | `RoundTripIsReal`, `OffsetIsAccurate` | 12 bits and floats of 10, so that both the wrap-around and the rounding happen; all clocks start again within 4 steps, at different times, the timetags of the sender and of one sink at the end of their range and the `micros()` of the other far below it; 2 sinks, 2 messages under way |
| `routing` | `OneIdentity`, `RequestsReachSource`, `UnderstoodAsSent`, `SizesAgree` | 2 sources, 2 addresses, sink ids 0, 1 and 300 (the long binary header); every kind of message, all fields of a message different, texts and blocks of every remainder modulo 4, 5 sets of binary flags, binary messages cut off at 4 places; a known and an unknown codec |

### What the models say that the comments do not

`session_format` is a run because it takes several messages to go wrong: "a receiver which
missed the start of a stream requests the format" (`README.md:20` of the repository), but
one that missed a restart with another encoder does not. Five other disagreements
are exceptions of a property, and TLC finds it violated when the exception is left
out:

- `NoRaceOnLines` leaves out `getSourceCount()`. The class comment of `AOOReceiverTask` has
  all synchronization in the class and the list guarded by `sources_mutex`, but this
  function (`AOOReceiver.h:156`) is not overridden and reads the length of the list while
  the task may be changing it (`AppCount`, `AppCounted`); `regression-tests.ino:664` calls it
  on a running task. That the list does not change meanwhile is violated.
- `LeaversGetNothing` is about lists that are not empty: "stop streaming to it"
  (`AOOSender.h:446`), but when the last target leaves, the empty list means sink 1 at the
  last address.
- `SilentIsRemoved` (`NeverUsed`), and in `Session` `StoppedIsForgotten` (`timed`), except a
  line whose decoder could not be set up and that gets no data: it is never
  removed, in spite of "also the ones which never sent any data" (`AOOReceiver.h:606`).
- `SteadyStreamKeepsAudio` is about writes of one length: "a repeated /start for an
  unchanged stream keeps the buffered audio" (`AOOReceiver.h:361`), but a `/start`
  announces the length of the last write (`AOOSender.h:178`), so an application whose
  writes differ in length, or that once writes nothing, changes the announced format and
  the line is set up again.
- `RoundTripIsReal` (`crossed`) and `OffsetIsAccurate` (`Turned`) except the restart of a
  `micros()`: "differences are always correct" (`AOOClockSync.h:34`), but across it they are
  off by 4295 seconds. (For `OffsetIsAccurate` the run is too short to show it: it takes a
  `micros()` that starts again earlier, `Unit` 200 and a `SenderPeriod` of 1100.)

The smaller ones met while modelling are stated in the comment of their property or
below:

- A reader that fell behind moves to the edge of the window, whatever the slots
  hold; "jump to oldest available" (`AOOBufferView.h:312`) would not pass
  over a segment that is still in its slot (4 slots, numbers 0, 1, 8 received).
- The deadline of a resend request is compared as a number, so a request is sent
  at once when `millis()` wraps during the wait (`WaitsFirst` excepts this).
- `end()` deletes the task after 100 ms even inside a critical section, which
  "never" happens by the comment at `AOOReceiverTask.h:77` (`CallsReturn` excepts
  the lost lock).
- A target without an address is served at whichever address was served last.
- Two lines of one source each have their own interval between requests for `/start`,
  and a new line has none.
- An uninvited sink becomes a target again when a block on its way makes its
  receiver request `/start`.
- Setting a line up for another format empties the buffer but not the statistics:
  a number that comes again counts twice and gaps may become negative
  (`GapsAreLosses` and `QualityIsAShare` except lines that were set up again).
- A segment bigger than all before it may be cut (`OnlyBiggerIsCut`), and when
  sizes vary the queue may never be empty at the start of a read, so that
  it does not grow and goes on cutting (`AdaptsToSize` is about one size).
- The average of the clock offset is computed in float: an offset of more
  significant bits than the mantissa is rounded at each pong. `OffsetIsAccurate` allows
  for that in `Rounding`: in the code, with 24 bits, 8 units of a timetag and four
  millionths of the largest offset. Clocks that are a year apart cannot be told more
  closely than two minutes. Two sinks with different clocks share one
  estimate, somewhere between the two (`OffsetIsAccurate`).
- A resend request that comes after `end()` is answered with blocks of the stream that
  has ended, and these make a line again; it is gone after a timeout
  (`StoppedIsForgotten`).
- The comment of `AOOPingSource` gives the format `,itt`, its code `,it`; the one of
  `AOOData` gives `,iiidiiiib`, its code `,iiitdiiNiib`. Both ends of this library use
  the code's.
- A message for sink 0 leaves the id open, and makes a second line of a stream
  (`OneIdentity` and `RequestsReachSource` except id 0). Invitations and
  uninvitations go to the address used last.

### Fairness

- `JitterBuffer`: weak fairness of the reads that return something. The mixer
  reads all the time.
- `PacketRecovery`: the clock runs and the post processing polls; a number that
  stays due is in the list again and again. The code polls a line only while its quality
  is at least `min_quality_percent` (`AOOReceiver.h:560`); below it the fairness of the
  poll does not hold, and numbers only leave the list with `discardUpTo`, as the reader
  passes them.
- `ReceiverTask`: both threads are scheduled; a lock that is free again and again
  is granted at some time (the task sleeps between two dispatches), and the
  messages that wait come to an end from time to time.
- `Receiver`: the clock runs and the application reads, which runs the post
  processing. Nothing is assumed of messages.
- `Session`: the sender's application writes (also something other than nothing), the
  receiver's reads. A `/start`, block or request that is sent again and again arrives
  again and again; loss for ever is excluded, as no protocol could do anything then.
  `/stop`, `/invite` and `/uninvite` need never arrive.
- `DecodeQueue` states its liveness for behaviours that are not interrupted by
  setting up the line for ever; it needs no fairness, as nothing has to happen.

## 5. Theorems

The type invariants are proved as `TypeCorrect` of `JitterBuffer`, `Reassembly`, `Receiver`
and `Routing`, `RecoveryTypeCorrect` and `QueueTypeCorrect`; those of the other modules are
part of their inductive invariants as far as these need them. All are proved for every value of the constants that satisfies the assumptions of
the module; the bounds of the runs are not among them except where a module has a
bound as a constant (`MaxBlocks`), which may be any number.

- **JitterBufferProofs**. `IInv` adds to the type: positions are ordered, an active
  slot holds a stored number that maps to it, a stored number is in its slot or
  behind the reader or left behind by the window, and what was played is behind
  the reader. `NothingInWindowLost` is not inductive by itself: that an accepted number
  cannot overwrite one of the window needs that two numbers of one slot are a
  multiple of `Size` apart. From `IInv` follow `NothingLost`, `StoredOnce`,
  `NeverAhead`, `PlayedInOrder`, `GapsJustified`, and the step-by-step
  `Refinement` of `Playout`.
- **StatisticsProofs**. The tracker changes nothing for the buffer
  (`TrackerIsPassive`), so `IInv` holds beside it, and `StatsIInv` relates the counters to the
  numbers stored in the window that is open and in those that are closed;
  `QualityIsPercentage`, `QualityRecovers`, `GapsCounted`.
- **ReassemblyProofs**. The arithmetic of the split (frames cover the block and the
  last one has at least a byte), then an invariant that describes the assembly:
  header and frame size are those of one block, the buffer agrees with it wherever
  a frame was received. `OriginalBytes`; `NoFrameRejected` and `UninterruptedStored` for
  blocks of up to `kMaxAssemblySize`, whatever that is.
- **SenderProofs**. `RingInv`: a slot holds the content of the number it names, and
  the last `buffer_size` numbers are in their slots; `NumbersAreStable`,
  `WindowKept`. `TargetInv`: ids in the list are distinct; `TargetsInformed`. Because
  they are, removing one entry removes a sink (`LeftIsGone`), hence `LeaversAreLeftAlone`; and as
  a target with an address is the last one that retargeted the stream before its own
  message, `JoinedServed`. Then of `PacketRecovery`, which asks for what the ring keeps:
  `RecoveryInv` relates the attempts of a pending number to the requests handed out for it
  and says that none was asked for above `last_seq`;
  `RequestsBounded`, `OnlyMissing`, `AllGapsTracked`. `Waiting` relates a deadline
  to the clock modulo its width: it is as far away as the wait is not over, or the clock
  wraps around first and it is less than `wait_ms`; hence `RequestsWait`.
- **ReceiverTaskProofs**. `IInv` says who holds `sources_mutex`, and how deep, at each
  pair of program counters, that the task is gone while the list is cleared, and that
  it idles once it has confirmed the stop. `NoRaces`, which does not speak of
  `getSourceCount()`, and `StopFinal` follow, and
  `LocksNest`: `mutex` is only ever taken inside `sources_mutex`, so nobody waits for it
  except behind a task that was deleted. That no other
  thread can read between the two critical sections of a store gives
  `StoresAreAtomic`: the threads implement `JitterBuffer` with one atomic store, also
  when `end()` deletes the task in between. `Proved` instantiates the theorems of
  `JitterBufferProofs` for that buffer: `ThreadsPlayInOrder`, from the two locks to the
  abstract `Playout` in one theorem, and `ThreadsLoseNothing`.
- **ReceiverProofs**. `MixerSafe`, `TypeCorrect`, and the action properties
  `PrimedMixed` and `LineRequestsSpaced`. Then of `DecodeQueue`, the end of
  a line's pipeline: while a read goes on, an empty queue has space for
  the biggest segment so far, as the queue grows before the loop. `ReadsGetAudio`, and
  `OnlyBiggerCut`: a write that leaves space for the biggest segment first can cut
  nothing but a bigger one.
- **SessionProofs**. `StartKeepsAudio`, for all codecs and lengths: what is announced of a
  stream is the format of its codec, with the length of a write that was made
  (`Announced`) if the encoder has no block size of its own, as the first `/start` comes
  after a write. So a line is set up again only for another codec or after writes of
  two lengths. Then of
  `ClockSync`: `ClockInv` says at which steps the timetags in a message were really taken
  (`IsPing`, `IsAnswer`, `IsPong`), so that the differences of timetags are those
  of the true times within a lap of each clock (`SignedDifference`, `SameLap`, `PongTells`):
  `RoundTripReal`. The error of the estimate is
  inductive with the bound as it is stated: an average takes an eighth of a
  sample that is off by half of its round trip and 7/8 of an estimate that is within
  the bound, and the eighth of `Rounding` that this loses pays for cutting off (`Eighth`)
  and for the floats (`FloatError`, `AverageError`). With several sinks the larger offset of
  the sink that answers and of the sink that bounded the old estimate bounds the new one
  (`StaysBelow`, `StaysAbove`): `EstimateAccurate`. The prover knows no powers, so the laws
  that are used are an assumption of `ClockSync` (`PowersAssumption`), which TLC evaluates.
- **RoutingProofs**. For each message, reading what was written gives back its
  meaning, for any values and lengths (`StartRead` ... `ResendRead`, `BinaryRead`, the
  last also for a message cut off anywhere); hence `MessagesUnderstood`. `FrameFits`: a
  `/data` message with as much audio as `aoo_send_block` puts into a frame is not longer than
  `max_packet_size`. `Addressed`: an id other than 0 that was taken is the id of the
  sink, and every line is for an id that was taken; so without messages for id 0 a
  stream has one line, whose address is the one the stream was heard from last.
  `IdentityKept` and `RequestsArrive`. `SizesRight`: the size of a message is the sum of the
  sizes of its values, for any number of resend items. `EndOf` is a recursive function, so
  that it has the values of its definition has to be proved (`Ends`) as well as what they are
  for a list of any length (`EndOfWords`).

The last two are inductions over data, for which the prover cannot use the theorems of
its library. `LeastNumber` replaces them: a set of numbers without a least one is
empty, because the intervals below its members would descend for ever in the
well-founded order of finite sets. It is applied to the set of counterexamples. The
existence of the exponent of a float (`ExponentExists`) needs it too, hence it is in two modules.

Only model-checked: all liveness (`Drains`, `Settles`, `CallsReturn`,
`KeepsAsking`, `SilentIsRemoved`, `LateJoinerDecodes`, `StoppedIsForgotten`, `AdaptsToSize`), as
the prover handles neither fairness nor `ENABLED`. Every invariant and every other action
property of the runs that pass is proved.

## 6. What is not modelled

- Encoders, decoders, format conversion, mixing of samples: audio tools library.
- The bytes of an OSC message (audio tools library): `WireFormat` has its values, their
  types and their sizes.
- The transports. What the library relies on, one message per read and one remote
  address, is in `Sender`, `Session` and `Routing`; the HDLC frames of the serial
  transport are made by the audio tools library.
- The counters of messages, errors and warnings, which nothing but the application reads.
- `updateDrift`: float arithmetic without state that others read.
- The byte-wise `readBytes` of the stream view, which the source line does not use.
- `setOutputInfo` while audio is queued.
- Calls of the application that only send or read counters (`invite`, `uninvite`,
  `requestStart`, `stats()`, `clockSync()`) beside a running `AOOReceiverTask`: they share the
  transport and these counters with the task without a lock. Of the calls without a lock
  `ReceiverTask` has `getSourceCount()` alone, which reads the list.
- Of a line that is set up again, the recovery and a half reassembled block of the old
  stream, which `AOOSourceLine::begin` leaves as they are.
- Wrap-around of block numbers after 2^31 blocks (months of audio);
  `millis()` wraps after 49 days and is modelled in `PacketRecovery`.
- Allocation failures and a transport that fails to send, except in
  `AOOSender::begin`.
- The command line tool, examples and tests.
