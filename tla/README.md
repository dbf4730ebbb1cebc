# Verification of stream-replay

TLA+ models of stream-replay (`src/`), the TLC runs that check them on small
instances, and TLAPS proofs of what matters most for every instance.
stream-replay replays traces as UDP streams: a sender (`tx`) paces packets
through a rate throttler over one or two links, a receiver (`rx`) puts frames
together and answers each of them, and an IPC daemon lets a client watch and
steer the sender while it runs.

    tlc -config throttle_exact.cfg Throttle     # one of the runs below
    tlapm ThrottleProofs.tla                    # one of the proofs

Contents: [inventory](#1-inventory), [plan](#2-plan), [modules and
code](#3-modules-and-code), [runs](#4-runs), [fairness](#5-fairness),
[proofs](#6-proofs), [deviations found](#7-deviations-found),
[what is not modelled](#8-not-modelled).

## 1. Inventory

### Sender (`tx/src`)

| component | state | operations | who shares it |
|---|---|---|---|
| packets (`core/src/packet.rs`, `source.rs:33-59`) | template sequence number | `generate_packets` cuts a frame | the source thread alone |
| rate throttler (`throttle.rs`) | buffer, window with its byte sum, accumulated error, cached rate, `frame_count`, throttle | `prepare`, `try_consume`, `reset`, `snapshot`, setting the throttle | source thread and IPC thread, one mutex |
| source threads (`source.rs`) | frame index, deadline, blocked signals | `source_thread` (.npy), `video_thread` (versions), `stream_thread` (live), `process_queue` with its callback | start every other operation |
| round-trip times (`rtt.rs`, `statistic/rtt_records.rs`) | a ring of 200 entries | `update_arrival` (source), `update` (pong thread), `statistic` (poll) | three threads, one mutex |
| scheduling (`tx_part_ctl.rs`, `policies/`) | last message, policy and parameters | `get_packet_state`, `determine_schedule_info`, counters, blocked signals | source thread and IPC thread, one mutex |
| MAC queue monitor (`statistic/mac_queue.rs`) | the latest snapshot on a bus | publish, latest | monitor thread and source threads |
| IPC daemon (`ipc.rs`) | the map of sources | Throttle, PolicyParameters, Version, Control, Statistics | the main thread; all of the above |
| version manager (`version_manager.rs`), trace reader | version, slot, bitrates | `new`, `next`, `set_version`, `get_bitrate` | video thread and IPC thread, one mutex |
| start-up (`main.rs`, `conf.rs`, `dispatcher.rs`) | the map of sources, start and stop times | `validate`, `dispatch`, `SourceManager::new`, `start`, binds, the deadline | main thread and the threads it has started already |

### Receiver (`rx/src`)

| component | state | operations | who shares it |
|---|---|---|---|
| receive thread (`destination.rs`, `record.rs`) | records of frames, counters, byte count, the `started` flag | `recv_thread`, `handle_rtt`, `record`, `determine_complete`, `gather`, pongs | receive thread and main thread, one mutex |
| report (`main.rs`) | - | three locked reads, then the report | main thread |
| forward thread (`forward.rs`) | the channel of whole frames | decode, display | ends by itself |
| stuttering (`statistic/stuttering.rs`) | gaps between frames | update, ratio | with the records |

### How they interact

A source thread puts a frame into the throttler (`prepare`), notes its arrival
in the RTT ring, and then drains the throttler (`try_consume`) with a callback
that asks the scheduler for a link and sends the packet; the callback runs with
the throttler locked, and its `false` puts the packet back. The receiver
answers the last packet of a whole frame with a pong, which a pong thread
writes into the ring. The main thread of the sender is the IPC daemon: it locks
one throttler, ring, scheduler or version manager at a time. A panic while a
lock is held poisons it: some users then skip the work silently, others panic.

### What is hard, and what must hold

| behaviour | where | what must hold |
|---|---|---|
| packets are charged before they are sent, and again after a refusal | `throttle.rs:137` | the sum is that of the window, no admission above the throttle, order kept |
| decisions on a cached rate while the throttle changes | `throttle.rs:98` | the bytes let through blindly stay below `max_error`; no packet waits for ever |
| a full buffer drops the tail of a frame | `throttle.rs:126` | frames are cut in one place only and `frame_count` stays exact |
| a ring slot is reused, pongs are late, repeated or reordered | `rtt_records.rs:47-66` | no panic as long as pongs are in time and come once; no instant of outage is charged twice, nor one beyond the clock; an answered frame that a poll takes from the ring has been charged up to its pong |
| the pong's time is taken before the lock | `rtt.rs:72` | a poll in between has charged the frame already, beyond its pong: the pong charges none of that again |
| a message is reused for other packets of the same snapshot | `tx_part_ctl.rs:43` | the last packet is flagged, no sent packet is forgotten |
| a panic in the callback | `source.rs:94` | only for setups without the link or the data that the policy needs |
| packets of a frame arrive in any order, repeated | `record.rs:86`, `destination.rs:65` | taken to `send_ack` when whole, once, and delivered intact |
| counters kept by different rules, under three locks | `rx/src/main.rs:45-51` | the loss is exact, and printed unless one of three known panics comes first |
| a pong is sent, retried or given up with the lock held | `destination.rs:87, 103` | whole frames are counted once either way; main is kept waiting only as long as the pong socket would block |
| a live stream waits without a clock | `source.rs:140`, `source.rs:75` | at most one step after its stop time; no packet is held while it waits |
| a sender restarts its numbers, the receiver does not know | `record.rs:58` | frames are mixed only where the old session has left something |
| threads start, bind and take the time while main goes on | `main.rs:66-77`, `source.rs:247, 413`, `rtt.rs:57` | every stream is started; no stream is reported that has ended; main dies only of what can be blamed on a stream, its duration or a port |
| a request is handled beside panicking video threads | `ipc.rs:63-126` | only a datagram that is no good request, or an answer that cannot be sent, ends the sender |
| versions set while a trace is replayed | `version_manager.rs:70-90` | no index out of range in the other thread, no slot skipped, the reported bitrate is the one in use |

`PROJECT.json` lists every hazard at its line with the properties that watch it.

## 2. Plan

The most important behaviour first: what a packet goes through in the sender,
then what comes back, then the decisions beside it, then the receiver, then the
control plane.

1. `Packets`, `RateThrottler`, `FrameQueue`, `Throttle`, with
   `RateThrottlerProofs` and `ThrottleProofs`
2. `RttRecords`, `Pongs`, `RttPath`, `RttPathProofs`
3. `Policies`, `Scheduling`, `MCScheduling`, `SchedulingProofs`
4. `RecvRecords`, `Receiver` (implements `Pongs`), with lost, repeated and
   reordered datagrams and a sender that restarts; `ReceiverProofs`
5. `Versions`, `Control`, `MCControl`, `ControlProofs`
6. `LiveStream` (implements `FrameQueue`), `LiveStreamProofs`
7. `StartUp`, `MCStartUp`, `StartUpProofs`

All of it is done, and every safety and action property that a run checks is
also proved. What could be added: the parsing of `/proc` and of `iw` in the
monitor, which matters only if a property is about what they print.

Composition: `Throttle` is built from `RateThrottler` and `Packets`, and
implements `FrameQueue`; `RttPath` from `RttRecords` and an instance of `Pongs`,
the promise of network and receiver, which `Receiver` (built from
`RecvRecords`) implements; `Scheduling` from `Policies`; `Control` from
`Versions`; `LiveStream` shares the buffer of `RateThrottler` with `Throttle`
and implements the same `FrameQueue`. The sender and the receiver meet in
`Pongs` and in `Packets`: what leaves a `FrameQueue` is a frame of
`generate_packets` with at most its tail missing, which for `Receiver` is a
loss; what `Receiver` answers is what `Pongs` allows `RttPath`. `StartUp`
supplies what the others take as constants: the sockets of a stream are those
of its first links (`Scheduling.Setup`), `initial_version` exists
(`Versions`). A module that only holds operators on a struct is separate from the
state machine that uses it, so that lemmas about the operators can be stated
once.

Abstract specifications: `FrameQueue` (a bounded FIFO of packets whose only
freedom is delay and the tail of a frame that does not fit, until it is closed) and `Pongs` (a
frame is answered only after it was sent, and once).

## 3. Modules and code

The `map` of `PROJECT.json` gives the lines of every definition. Beyond it:

**Packets.** A frame is its size. `generate_packets` gives each packet its
sequence number, offset, length and last flag; the last one has length
`size % MAX_PAYLOAD_LEN`, 0 for an exact multiple, as in `source.rs:47`.

**RateThrottler / Throttle.** `throttler` is the struct: `buffer`, `window`,
`sum_bytes`, `acc_error`, `rate`, `frame_count`, `throttle`. Time is the age of
the window entries: `Tick` makes them older. A rate is kept as the pair (bytes,
age) and compared by multiplication, where the code divides floats. `pc` is
where the source thread is: about to generate a frame, in `process_queue`, in
the last drain, stopped. `Hold` is a `try_consume` that finds the head above the
throttle, `Send` and `Refuse` the two answers of the callback (the whole of
`try_consume`, under one lock, so one action each), `SetThrottle` the IPC
thread. `reset` leaves `frame_count` alone, as the code does.
`last_sent`, `cut` and `unmeasured` are history.

**RttRecords / RttPath.** `ring` is `queue`, of `max_length` slots (200 in the
code). The pong thread has two steps, `ReceivePong` (the time is read) and
`RecordPong` (the lock is taken), because the code reads the clock first. A
panic in `update` sets `poisoned` and ends the thread; the others skip their
work from then on, as `if let Ok(..)` does. `Timely` bounds by `MaxLag` how many
frames later an answer may come, and `MaxCopies` how often.

**Policies / Scheduling.** A policy chooses the first link it prefers
(`*_first`) and `link_of` turns the choice into a channel. `setup` is what the
manifest and the command line make of a stream. `Decide` is `get_packet_state`
under the scheduler's lock, `Send`, `Refused` and `NoSocket` what the socket does
with it afterwards. `Publish` is a cycle of the monitor, which may find the
devices in any order, with any queue, and no rate for one that is not connected;
`MonitorPanics` ends it, and the last snapshot stays the latest. `poisoned` names
the mutexes a panic has taken along. `gone` is history: what has been sent on
each link since the snapshot in use was first used. Floating-point thresholds are
multiples of `1/THETA_UNIT`.

**RecvRecords / Receiver.** `wire` is the bag of datagrams in flight: any may be
delivered next, never, or up to `MaxCopies` times. `Restart` is a sender that
begins again at frame 1 with up to `MaxLate` datagrams of the old session still in
flight. `Receive` is a turn of `recv_thread` up to the
unlock or, for a whole frame, up to `send_ack`, in one of four outcomes: the byte
counter overflows (`CountingPanics`), the packet is recorded (`Recording`), its frame
is whole and about to be answered (`Completing`), or the port of the pongs is no u16
(`PongPortPanics`). `port` is `args.port`, any of `Ports`. `acking` holds the frame
that `send_ack` is at, which may take any time, with `RecvData` locked. `Acknowledge`
is the rest of that turn: the pong is sent (`Answer`) or fails with another error than
`WouldBlock` (`GiveUp`), and then the frame is forwarded and released (`Releasing`) or
cannot be forwarded (`ForwardingPanics`). The main thread waits for the first packet
(`Started`) and locks `RecvData` three times (`ReadDataLen`, `ReadStartTime`,
`Report`), each time when no frame is being answered; `Report` may still panic over
its file in `logs/` after it has printed the loss. `U32` is the size of the byte
counter and `U16` that of a port, whose additions panic in a debug build. `arrived`,
`repeated`, `stale`, `given_up` and `traffic` are history; `stale` holds the numbers
of which an earlier session has left a record or a datagram.

**LiveStream.** `stream_thread` with `process_queue`, one action for each look at
the clock and for each thing done after it, so that time may pass in between.
`Feed` is the application's end of the channel. What the throttle, the policy and
the socket say is one choice here: `Send` or `Keep`.

**StartUp.** A stream is a record of what start-up reads of it, and of what the
system says to that: whether its file is there, has a path in Unicode, parses as a
video's Config and loads, whether the recorder's file can be made and the throttler's
buffers fit, whether a socket can be bound for each link. `Validate` is the validation
of all streams, which may panic. `Kept` are the positions of the manifest whose stream stays,
`stream(i)` what validation makes of it, `built` how far the loop has come. `Build`
is a turn of the loop that makes a manager, `Start` one that starts it, in any order as from a hash map; the threads it has started run
from then on. Times are counted from the start of the program; `stop_time` is what
the thread goes by, `stop_timestamp` in `sources` what a poll goes by, `deadline`
what the daemon goes by. A duration may be any number: `Representable` is what
`Duration::from_secs_f64` and the addition to a time take (an infinite one counts as
one beyond `TIME_MAX`), and `Start`, `BindIpc` and `Begin` panic for any other.
`others` are the ports that other programs hold.

**Versions / Control.** A video thread holds the version manager's lock while it
reads a file, so loading is one action (`Start`, `Reload`) that either succeeds
or panics and poisons (`LoadPanics`). `StartFails` is a thread that has loaded its first
trace and dies before its loop (`logs/recorder.txt`, a duration). `Play` is one turn
with one frame; `PlayFails` and `SendPanics` are turns the thread dies of, without and
with the throttler locked, and `PongPanics` is the pong thread dying with the RTT
records locked: what they die of is the subject of the other modules, here it matters
which lock is left poisoned (`silent`) for the main thread to meet. `failed` is history. `period`
is the time relative to `duration`. The main thread takes a request
(`ReceiveRequest`), which it panics of unless the datagram is `Readable`: a request, and
no longer than the buffer. Then come its names one by one, in any order, as the hash map
gives them: other threads run in between. `Set` stands for the commands whose
effect is the subject of `Throttle` and `Scheduling`. `ReplyFails` is the answer
to a poll that cannot be sent.

## 4. Runs

| run | bounds | what it asks |
|---|---|---|
| `throttle_exact` | 3 frames (`Loops` 4: the code stops one short) of 0, 3 or 5 bytes (0, 2, 3 packets), buffer of 3, `max_error` 0, throttles off and 2 | counters, sums and order are exact; no charge above the throttle; implements `FrameQueue` |
| `throttle_cached` | 2 frames of 3 bytes, `max_error` of one packet | what a stale rate admits is bounded; the head of the queue moves on |
| `throttle_stuck` (violated) | 2 frames of 4 bytes, an exact multiple | does the head move on? |
| `rtt_timely` | 3 frames, ring of 2, times to 4, at most one answer, less than a ring late | no panic; no instant of outage charged twice; answered frames charged up to the pong at least |
| `rtt_late` (violated) | the same, an answer a ring late | no panic? |
| `receiver` | 2 frames of 1 or 3 bytes (1 or 2 packets), each datagram up to twice, one restart with one datagram in flight, byte counter of 9, a port whose pongs have one and a port whose have none | frames answered and delivered whole, and mixed with an earlier session's only where that has left something; without repetition taken to `send_ack` at once and once, its pong sent or given up, and an exact loss; implements `Pongs`; main comes to its end |
| `receiver_underflow` (violated) | the same without a restart, byte counter of 100 | is the report printed however datagrams are repeated? |
| `schedule` | with a monitor: two devices, queues 0 or 2, rate 1 or unknown, 2 snapshots, and fewer devices; without: no, one or both links; frames of up to 3 packets, every policy, shares of a half, all and nothing | the callback dies only of what the stream lacks; flags and counters right although messages are reused; ConditionalRR keeps sending over both links |
| `live` | up to 4 frames of 0, 2 or 3 packets, buffer of 3, stop time 2, times to 4 | one late step at most; nothing held back while waiting; implements `FrameQueue`; every frame is taken up |
| `startup` | manifests of up to two of 11 streams: .npy, .json and live, missing, broken, with ports that collide, overflow or are the daemon's, failing links, long durations, late starts; each of 7 worse ones alone and beside a good one: no Config, no Unicode, no recorder, no memory, a negative and a huge duration; ports 5 or 6 held by another program | main and the pong threads die only of what is named; every stream started; stop times agree |
| `control` | a video of 2 slots in 3 versions, the third with a file too short and one missing, beside a stream without versions; requests for known, unknown and wrong names and versions, of the length of the buffer and one more, and datagrams that are none; threads that die with every lock they hold | slots replayed whole and in order; reported bitrate in use; no index out of range; only bad requests and unsendable answers end the program; versions take effect |
| `control_statistics` (violated) | the same streams | does a poll report every running stream? |

Why the bounds are enough. The ring needs two slots for one to be reused while
the other is in use, and a third frame to come back to the first. The buffer of
three packets is smaller than two frames, so tails are dropped with the queue
half full and empty. Frame sizes take the three cases of the remainder (none,
some, exact) and of the packet count (none, one, several). A window of three
entries is the smallest in which one entry is retired and two remain;
`MaxAge` is large enough that no throttle of the run binds any more at that age
(`AgeAssumption`). Two copies of a datagram are one repetition, with which every
effect of a removed record occurs. One restart with one datagram in flight gives
both ways in which a session leaves something, a record and a packet. The counter
of 9 has room for two frames of different sizes and overflows with two large
ones, or with repetitions; of the two ports one is the last whose pongs have a port. Two
snapshots give a message that is reused and one that is replaced;
`MaxCount` bounds the queue length at which a decision is still made, two packets
above the longest queue read. Two streams are what it takes for names and ports to
collide; the clock of `startup` goes one tick beyond `Duration`, that of `live` two
beyond the stop time, so that a thread can be late twice. Versions 0 and 1 differ from
each other and 2 is broken in both of its files; index 3 does not exist, and 0 is what
the video begins with. `TIME_MAX` is one tick beyond the clock, so
that a duration of 2 is representable unless main or a thread is late, and one of 9
never is. Two lengths of a request are the
last that fits and the first that does not.

Type invariants are checked once per state machine. `CHECK_DEADLOCK FALSE`
appears where the program really ends: the receiver after its report, a stream
that has panicked, the sender at the end of its duration, a live stream that is
no longer fed.

## 5. Fairness

`Throttle`: the source thread is scheduled and time passes (weak), and a packet
that is offered again and again is taken in the end (strong, on `Send`): the
socket's buffer drains. Nothing is assumed of the IPC thread.

`Scheduling`: the callback's two steps are scheduled (weak); a link in
`Reliable` that is tried again and again takes a packet (strong). No fairness
for the monitor or the IPC thread.

`Control`: threads are scheduled, the time `duration[0]` comes, and a request
that is being handled is handled on (weak). No fairness for the end of the
stream or the program, nor for clients.

`Receiver`: the main thread is scheduled and its duration passes (weak, on `Main`), and
each pong is taken or refused in the end (weak, on `Acknowledge`): `send_ack` retries
without a bound and holds the lock that main waits for, so with a socket that would
block for ever main does not end. A UDP socket drains as fast as its device. Nothing
else is assumed of the receive thread, the network or the sender: `MainEnds` holds
whichever panic the receive thread dies of. Main could also lose the lock to it again
and again; in the model the traffic is finite, so this ends.

`LiveStream`: the thread is scheduled and the clock runs (weak). No frame need be
fed, and no link need take a packet: `Served` follows from the stop time alone.

The safety runs assume none, and no run relies on fairness of the network
beyond the above.

## 6. Proofs

Every theorem holds for all values of the constants under the named assumptions
of the modules (sizes and bounds are natural numbers, capacities are not zero,
`None` is not a value, ports are below `U16`; durations may be negative). The bounds of the runs (`Loops`, `Frames`, `MaxTime`,
`MaxSnapshots`, ...) are parameters of the models, so the theorems hold for each
value of them.

**ThrottleProofs.** `TypeCorrect` (buffer within capacity, window within its
size: the window part has to be carried through a charge that may retire an
entry), `StaleAdmissions`, `InOrder`, `FrameCount` and `Refinement`. The first is
inductive as it stands and the others are inductive together with it.
`InOrder` rests on lemmas about a FIFO that takes a frame in order and cuts its
tail; `FrameCount` on the set of last packets in a buffer and how its size
changes when a frame is pushed or the head leaves.

`SumOfWindow` and `RateKept` speak of the sum of a sequence, a recursive function
on the positions of the window (`Sums` in `WindowBytes`). The induction theorems of
the library take an operator, which the provers cannot instantiate; their first-order
consequence `LeastElement` (a set of naturals that is not empty has a least element,
from well-foundedness) can be cited, and carries the inductions: if the sums of a
window, or two ways to sum it, failed somewhere, they would fail at a first position,
and not just below it. `SumsExist` and `SumsValue` tie `WindowBytes` to its running
sums in this way; `AppendBytes`, `TailBytes` and `SameSizes` say what pushing an
entry, retiring the oldest and making them all older do to it. `SumOfWindow` is then
inductive together with `TypeOK`. `RateKept` follows from it for one step: if
`max_error` is 0 the measurement that admits a packet is a new one, of the window as
it is.

**RateThrottlerProofs.** Lemmas on `prepare` and the buffer, `LeastElement`, and
`PayloadOfFrame`: what the packets of a frame carry, which names the bytes that
`source.rs:47` loses.

**RttPathProofs.** `TypeCorrect`. `ChargedOnce` needs `ChargesExact`: for the
frame a slot holds, what was charged so far is exactly the time beyond the
target up to `last_outage_time`, and no pong time lies in the future. It holds under any network, late
and repeated pongs included, and gives `ChargedInFull` too: a poll charges an
answered frame up to its pong time, in the step that takes it from the ring.
`PongThreadSurvives` needs `SlotsKept`: a frame
that can still be answered, or whose pong is being recorded, is in its slot; it
assumes `Timeliness` (at most one answer, less than a ring late), which the
violated run shows to be needed.

**SchedulingProofs.** `TypeCorrect`. `SourceThreadSurvives` is `OnlySetupPanics`,
for every stream: it needs `BusKnown` (what the bus and a message that may be
reused hold has an entry for each device) and `ChosenWanted` (the link that was
chosen is one the policy may want, which for ConditionalRR depends on signals
that are set between the decision and the send). `FlagsRight` and
`NoPacketForgotten` go on from it; the latter needs `Counted`, which counts the
packet between its decision and its send separately, because the code counts it
before it is sent.

**LiveStreamProofs.** `TypeCorrect`; `LateSteps` by `NoneTooLate`, which says for
each place of the thread how many late steps there may have been;
`HoldsNothingBack` by `EmptyBetween`; `Refinement`, the same abstract queue as that
of `ThrottleProofs`. The lemmas both use about pushing a frame into the buffer are
in `RateThrottlerProofs`.

**ReceiverProofs.** The argument has three layers, each inductive on top of the one
below. `SoundInv`: records are records (`TypeInv`), a packet that is in flight or
has arrived is one of a frame of this session (`Origin`), a record holds packets of
its frame that have arrived, at their offsets, and knows the last one exactly if it
has it (`RecordsSound`), and what is answered is whole; all of it but for the
numbers in `stale`, and a pong that was given up is one of a whole frame
(`GivenUpWhole`). It holds whatever the network repeats, and gives
`OnlyWholeAnswered`, `NothingMangled` and `Refinement`, for which `CopiesSpent` adds
that an answer uses up a copy of every packet of its frame, so that there are no
more answers than copies. `RecordsComplete` and `AnsweredExactly` say that nothing
that arrived is missing, for frames without a repeated datagram, and that a whole
frame is being answered, has been, or was given up, unless the port of the pongs is no
u16: `PartsHeld` and `WholeAnsweredOnce`. Between `Receive` and `Acknowledge` the
record of the frame must still be there and complete (`AckingHeld`). `CountsExact` says that the counter of complete frames is the
number of those released, answered or given up (`Released`), and that `last_seq` is the highest number heard of, as long
as nothing is repeated and no sender restarted: `LossReported` and `ReportPrinted`
(together `ReportRight`) follow; frames that are released are among those up to
`last_seq`. `ReportRight` says what main may panic of before it prints the loss:
a forward thread that has gone, more than `U32` bytes, or the port of the pongs. The key lemma is that `determine_complete` on such a record says exactly
whether the frame is whole.

**ControlProofs.** `TypeCorrect`, with the fact that values fit their command.
`BitrateReported` and `ReplayedInOrder` need `Agreed`: unless the lock is
poisoned the manager is one slot ahead of the thread and has the bitrate of its
trace, and a thread that reloads is at its end. `NoRequestPanics` adds that a
manager is always in a version that exists; it assumes `Consistent`, a manifest
with as many bitrates as versions and a file for every slot, and speaks of the
manager and the trace only: what else a video thread may die of is in `failed`.
`GoodRequestsSurvived` needs only that a stream of a .json file has its manager
(`HasManager`): the main thread unwraps no lock, so no panic of a video or a pong
thread, whichever locks it leaves poisoned, becomes one of its own.

**StartUpProofs.** `TypeCorrect`. The others need `StartInv`, which TLC has
confirmed on the bounds of `startup`: a manager is that of a stream that stays, and a
stream whose turn has passed has its manager or has lost it to a later one of its name
(`ManagersBuilt`); no thread runs before main starts it, a source thread has its
pong thread beside it, and all run when the daemon comes up (`ThreadsStarted`); and
the times that main and the threads work out one after another are in order
(`TimesOrdered`): `stop_timestamp` is no later than `stop_time` of the thread, which
has passed when the thread ends, and no later than the deadline. `AllStreamsStarted`
follows from the first two, `TimesAgreed` from the third. `PanicsBlamed` is not
inductive by itself: a duration that could not be represented when `Start` or
`BindIpc` looked cannot later, because the clock only grows, and that a port is taken blames another stream only because the
thread that has it bound is that of a manager, so it is proved on top of `StartInv`,
action by action.

Only model-checked: `HeadMoves`, `KeepsSending`, `VersionTakesEffect`, `MainEnds` and
`Served`. They are liveness properties under fairness; their proofs would reason
about ENABLED, which the prover does not support.

## 7. Deviations found

Each has a run that shows it.

- A frame of a whole number of full packets ends in a packet of length 0
  (`source.rs:47`). It is charged 0 bytes, so a cached rate above the throttle
  is never measured again and the stream waits for ever (`throttle_stuck`).
- A pong that comes when its slot has been reused panics with the ring locked
  (`rtt_records.rs:59`, `rtt_late`): no RTT and no statistics from then on.
- A repeated datagram lets a frame be counted twice, and the loss underflows
  (`rx/src/main.rs:51`, `receiver_underflow`).
- A poll reports nothing about a stream that has no version manager, after it
  has swept its RTT records (`source.rs:387`, `control_statistics`).

The models contain further behaviours of this kind that no listed run isolates:
a stream without links, which `conf.rs:50` makes the default, panics at its first
packet (`source.rs:94`; the second disjunct of `OnlySetupPanics` in `schedule`);
a .json file that is no video's Config or has fewer than 11 bitrates
(`version_manager.rs:56-60`), a negative or huge duration (`source.rs:412`; `conf.rs:99`
checks the upper bound of the second only), a pong port that overflows or is taken,
and a poll when no stream is valid, end the sender or a pong thread
(`OnlyManifestPanics` names all of them); without a directory `logs/`, which nothing
creates (`init_log` makes `log/`), every video thread ends before its first frame
(`source.rs:181`) and the receiver after it has printed its loss (`rx/src/main.rs:56`);
a receiver with a port above 64511 panics at its first whole frame with its data
locked, and main with it (`destination.rs:87`, `Prevented`); a pong that cannot be sent
is given up and its frame counted (`destination.rs:110`), and one that would block is
retried under the lock for as long as it does; two streams with one port and TOS silently become one
(`main.rs:70`, the exception of `EveryStreamStarted`); a datagram of a session before
a restart can complete a frame of the next, which is then answered too early and
forwarded mixed (`record.rs:58`, the exceptions for `stale` in `Receiver`); a
receiver whose receive thread cannot bind waits for ever (`rx/src/main.rs:38`);
a request that cannot be parsed, or is longer than the buffer of 2048 bytes, ends the
sender, and so does a reply that cannot be sent (`ipc.rs:118-126`, `OnlyBadRequestsPanic`); `--ipc-port`
(`main.rs:41`) is parsed and never used, the port is the manifest's;
a second pong after a poll has emptied the slot panics at `rtt_records.rs:63`
(`rtt_timely` with `MaxCopies = 2`); with `sample_rate` above 1 the frames that
are not sampled are reported lost (`destination.rs:75`, hence the guard in
`LossExact`); the bytes of the last full packet of an exact multiple are never
sent; ConditionalRR returns to a link that does not work once both have refused
a packet (`blocked_signals` is never cleared); a version for a stream that has
no manager, or a name that no stream has, ends the sender (`ipc.rs:67`,
`source.rs:370`); with a `window_size` of 1 the throttle never applies.

## 8. Not modelled

- The byte layout of packets, the calls of the operating system behind a socket,
  TOS values, log files: pure I/O. That a socket can fail is in `StartUp`.
- Deserialising the manifest, the command line and requests. A request that cannot
  be parsed ends the sender; which ones those are is one choice (`Unreadable`).
- Reading the manifest itself; a system without threads, sockets, memory or standard
  output for what main asks of it; a clock before 1970; a working directory that is
  gone; a duration that is not a number.
- What the monitor reads from `/proc` and `iw`, and in which order its hash maps
  give it: any readings in any order.
- Foreign datagrams on the pong port (`rtt.rs:70`), which would be read as pongs,
  and a wall clock that is set back (`throttle.rs:109` would panic).
- Ephemeral ports, and the addresses of other programs, taken when a thread binds.
- Decoding and display in the forward thread (FFmpeg, OpenCV); the stuttering
  ratio, floating-point arithmetic without a decision.
- The Android wrapper but for how it feeds a live stream, and `udp_rx.py`: they are
  written against earlier interfaces of the sender and the receiver. (The wrapper
  calls `SourceManager::new` with two arguments, where there are three.)
