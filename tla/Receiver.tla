------------------------------ MODULE Receiver ------------------------------
(***************************************************************************)
(* The receiver program: recv_thread and handle_rtt of                     *)
(* rx/src/destination.rs, which answer complete frames, the main thread    *)
(* of rx/src/main.rs, which prints the report, and the channel to the      *)
(* forward thread, with --calc-rtt.  The two threads share RecvData behind *)
(* a mutex; a thread that panics with the lock held poisons it, and main   *)
(* unwraps it.  It also holds the lock while it answers a frame, for as    *)
(* long as the socket of the pongs would block.  Arithmetic overflow       *)
(* panics, as it does in the build of `cargo run`.                         *)
(*                                                                         *)
(* The sender and the network are external: the packets of frame 1, 2, ... *)
(* are sent, and the network delivers each of them any number of times up  *)
(* to MaxCopies, in any order: a datagram that is lost is one it never     *)
(* delivers.  (What the sender's full buffer drops is a loss as well.)  A  *)
(* sender that is started again counts its frames from 1 again; the        *)
(* receiver is not told, and keeps what it has of the session before.      *)
(***************************************************************************)
EXTENDS RecvRecords, Bags

CONSTANTS
  Frames,             \* bound of the model: frames the sender sends
  FrameSizes,         \* their sizes
  MaxCopies,          \* how often the network may deliver a datagram
  MaxRestarts,        \* bound of the model: restarts of the sender
  MaxLate,            \* bound of the model: datagrams in flight across one
  APP_HEADER_LENGTH,  \* bytes of the header that is on the wire (9)
  U32,                \* 2^32
  U16,                \* 2^16
  PONG_PORT_INC,      \* 1024
  Ports,              \* the ports the receiver is started with
  rx_mode             \* args.rx_mode

ASSUME ReceiverAssumption ==
  /\ Frames \in Nat
  /\ FrameSizes \subseteq Nat
  /\ MaxCopies \in Nat \ {0}
  /\ MaxRestarts \in Nat /\ MaxLate \in Nat
  /\ APP_HEADER_LENGTH \in Nat
  /\ U32 \in Nat /\ U16 \in Nat
  /\ PONG_PORT_INC \in Nat
  /\ Ports \subseteq 0 .. U16 - 1
  /\ rx_mode \in BOOLEAN

VARIABLES
  sizes,       \* the sizes of the frames sent so far in this session
  wire,        \* the datagrams the network may still deliver
  restarts,    \* how often the sender has been restarted
  port,        \* args.port
  data,        \* the shared RecvData
  poisoned,    \* its mutex: a holder has panicked
  thread,      \* where the receive thread is
  acking,      \* the frame it is answering, with the lock held
  started,     \* the flag main waits for
  main,        \* where the main thread is
  report,      \* the loss main prints; None before
  forwarding,  \* the forward thread still holds its end of the channel
  delivered,   \* what has been sent on the channel in this session
  answers,     \* how often each frame has been answered in this session
  arrived,     \* history: the packets received in this session
  repeated,    \* history: the frames of which a packet came twice in it
  stale,       \* history: the frames of which the sessions before have left
               \* packets, in a record or in the network
  given_up,    \* history: the frames of this session of which the pong was
               \* given up
  traffic      \* history: the bytes received

networkVars == <<sizes, wire, restarts>>
mainVars == <<port, main, report>>
outputs == <<delivered, answers>>
history == <<arrived, repeated, stale, given_up, traffic>>
vars == <<networkVars, data, poisoned, thread, acking, started, mainVars,
          forwarding, outputs, history>>

Datagram == [seq : 1 .. Frames, offset : Nat, length : Nat,
             last_one : BOOLEAN]

TypeOK ==
  /\ sizes \in Seq(FrameSizes) /\ Len(sizes) <= Frames
  /\ IsABag(wire) /\ BagToSet(wire) \subseteq Datagram
  /\ restarts \in 0 .. MaxRestarts
  /\ port \in Ports
  /\ IsRecvData(data) /\ data.data_len <= traffic
  /\ data.data_len < U32 \/ data.data_len = 0
  /\ poisoned \in BOOLEAN /\ started \in BOOLEAN /\ forwarding \in BOOLEAN
  /\ thread \in {"binding", "looping", "gone"}
  /\ acking \subseteq 1 .. Frames
  /\ main \in {"waiting", "sleeping", "timing", "reporting", "done",
               "panicked"}
  /\ report \in Nat \cup {None}
  /\ delivered \in Seq(Seq(Datagram))
  /\ answers \in [1 .. Frames -> Nat]
  /\ arrived \subseteq Datagram
  /\ repeated \subseteq 1 .. Frames /\ stale \subseteq 1 .. Frames
  /\ given_up \subseteq 1 .. Frames
  /\ traffic \in Nat

Init ==
  /\ sizes = <<>>
  /\ wire = EmptyBag
  /\ restarts = 0
  /\ port \in Ports
  /\ data = RecvData_new
  /\ poisoned = FALSE
  /\ thread = "binding"
  /\ acking = {}
  /\ started = FALSE
  /\ main = "waiting"
  /\ report = None
  /\ forwarding = TRUE
  /\ delivered = <<>>
  /\ answers = [s \in 1 .. Frames |-> 0]
  /\ arrived = {} /\ repeated = {} /\ stale = {} /\ given_up = {}
  /\ traffic = 0

Ended == main \in {"done", "panicked"}

-----------------------------------------------------------------------------
(* The sender and the network *)

FramePackets(s, size) ==
  {generate_packets(s, size)[i] : i \in 1 .. PacketCount(size)}

PacketsOf(s) == FramePackets(s, sizes[s])

\* Frame s is sent.  (What comes after the receiver has ended is left out.)
SendFrame(s, size) ==
  /\ ~Ended
  /\ s = Len(sizes) + 1
  /\ sizes' = Append(sizes, size)
  /\ wire' = wire (+) [p \in FramePackets(s, size) |-> MaxCopies]
  /\ UNCHANGED <<restarts, data, poisoned, thread, acking, started,
                 mainVars, forwarding, outputs, history>>

\* The sender is started again while the receiver runs; some of what it had
\* sent is lost for good.
Restart ==
  /\ ~Ended
  /\ restarts < MaxRestarts
  /\ restarts' = restarts + 1
  /\ sizes' = <<>>
  /\ delivered' = <<>>
  /\ answers' = [s \in 1 .. Frames |-> 0]
  /\ arrived' = {}
  /\ repeated' = {}
  /\ given_up' = {}
  /\ \E late \in SUBSET BagToSet(wire) :
       /\ Cardinality(late) <= MaxLate
       /\ wire' = [p \in late |-> wire[p]]
       /\ stale' = DOMAIN data.recv_records \cup {p.seq : p \in late}
  /\ UNCHANGED <<data, poisoned, thread, acking, started, mainVars,
                 forwarding, traffic>>

-----------------------------------------------------------------------------
(* The receive thread *)

\* Both sockets are there, or the thread ends: bind() unwraps, and without a
\* socket for the pongs the function returns.
Bind ==
  /\ ~Ended
  /\ thread = "binding"
  /\ thread' \in {"looping", "gone"}
  /\ UNCHANGED <<networkVars, data, poisoned, acking, started, mainVars,
                 forwarding, outputs, history>>

Bytes(packet) == APP_HEADER_LENGTH + packet.length

\* A mutant of Overflows: the header is not reckoned with.
Overflows_PayloadOnly(packet) == data.data_len + packet.length >= U32

Overflows(packet) == data.data_len + Bytes(packet) >= U32

Counted(packet) == [data EXCEPT !.data_len = @ + Bytes(packet)]

\* The thread panics, and the lock is released, poisoned.
Dies == thread' = "gone" /\ poisoned' = TRUE /\ acking' = {}

\* `data.data_len += _len as u32`
CountingPanics(packet) ==
  /\ Overflows(packet)
  /\ Dies
  /\ UNCHANGED <<data, started>>

Handled(packet) ==
  /\ ~Overflows(packet)
  /\ started' = TRUE
  /\ data' = handle_rtt(Counted(packet), packet)

\* No frame is complete with this packet.
Recording(packet) ==
  /\ Handled(packet)
  /\ ~Completes(data, packet)
  /\ UNCHANGED <<poisoned, thread, acking>>

\* `args.port + PONG_PORT_INC` is a u16.
PongPortFits == port + PONG_PORT_INC < U16

\* A frame is complete; its pong is next, under the same lock.
Completing(packet) ==
  /\ Handled(packet)
  /\ Completes(data, packet)
  /\ PongPortFits
  /\ acking' = {packet.seq}
  /\ UNCHANGED <<poisoned, thread>>

PongPortPanics(packet) ==
  /\ Handled(packet)
  /\ Completes(data, packet)
  /\ ~PongPortFits
  /\ Dies

\* One turn of recv_thread that finds a datagram, up to the unlock or, for a
\* frame that is complete, to send_ack.
Receive(packet) ==
  /\ ~Ended
  /\ thread = "looping" /\ acking = {}
  /\ BagIn(packet, wire)
  /\ wire' = wire (-) SetToBag({packet})
  /\ arrived' = arrived \cup {packet}
  /\ repeated' = IF packet \in arrived THEN repeated \cup {packet.seq}
                 ELSE repeated
  /\ traffic' = traffic + Bytes(packet)
  /\ \/ CountingPanics(packet)
     \/ Recording(packet)
     \/ Completing(packet)
     \/ PongPortPanics(packet)
  /\ UNCHANGED <<sizes, restarts, mainVars, forwarding, outputs, stale,
                 given_up>>

\* send_ack comes to its end: the socket has taken the pong.
Answer(seq) ==
  /\ answers' = [answers EXCEPT ![seq] = @ + 1]
  /\ UNCHANGED given_up

\* Or it has failed with anything but WouldBlock, which is printed.
GiveUp(seq) ==
  /\ given_up' = given_up \cup {seq}
  /\ UNCHANGED answers

\* In rx_mode a complete frame is gathered and sent on the channel; both
\* unwrap.
ForwardPanics(seq) ==
  rx_mode /\ (~Gatherable(data.recv_records[seq]) \/ ~forwarding)

\* The frame is forwarded in rx_mode, its record removed and the lock freed.
Releasing(seq) ==
  /\ ~ForwardPanics(seq)
  /\ delivered' = IF rx_mode
                  THEN Append(delivered, gather(data.recv_records[seq]))
                  ELSE delivered
  /\ data' = finish(data, seq)
  /\ acking' = {}
  /\ UNCHANGED <<poisoned, thread>>

ForwardingPanics(seq) ==
  /\ ForwardPanics(seq)
  /\ Dies
  /\ UNCHANGED <<data, delivered>>

\* The rest of the turn, once the socket of the pongs no longer blocks.
Acknowledge(seq) ==
  /\ ~Ended
  /\ seq \in acking
  /\ Answer(seq) \/ GiveUp(seq)
  /\ Releasing(seq) \/ ForwardingPanics(seq)
  /\ UNCHANGED <<networkVars, started, mainVars, forwarding, arrived,
                 repeated, stale, traffic>>

\* With the video feature the forward thread returns on a decoder error or
\* when the user presses Esc.
ForwardStops ==
  /\ ~Ended
  /\ forwarding' = FALSE
  /\ UNCHANGED <<networkVars, data, poisoned, thread, acking, started,
                 mainVars, outputs, history>>

-----------------------------------------------------------------------------
(* The main thread: it takes the lock three times *)

MainStep ==
  UNCHANGED <<networkVars, port, data, poisoned, thread, acking, started,
              forwarding, outputs, history>>

\* `while !*lock.lock().unwrap()`: this mutex is never poisoned.
Started ==
  /\ main = "waiting"
  /\ started
  /\ main' = "sleeping"
  /\ UNCHANGED report
  /\ MainStep

\* A mutant of Locked: a lock that is poisoned is tried again.
Locked_Retries(from, to) ==
  /\ main = from
  /\ acking = {} /\ ~poisoned
  /\ main' = to
  /\ MainStep

\* A step of main under the lock of data, which it gets when the receive
\* thread does not hold it; it panics when that is poisoned.
Locked(from, to) ==
  /\ main = from
  /\ acking = {}
  /\ main' = IF poisoned THEN "panicked" ELSE to
  /\ MainStep

\* The duration has passed: the lock is taken for data_len, and again for
\* rx_start_time, of which the throughput is printed.
ReadDataLen == Locked("sleeping", "timing") /\ UNCHANGED report

ReadStartTime == Locked("timing", "reporting") /\ UNCHANGED report

\* `data.last_seq - data.recevied` on u32.  When the loss is printed, main
\* still creates a file in logs/ and writes it, and unwraps both.
Report ==
  LET underflows == data.recevied > data.last_seq
  IN  /\ \/ Locked("reporting", "panicked")
         \/ ~underflows /\ Locked("reporting", "done")
      /\ report' = IF poisoned \/ underflows THEN report
                   ELSE data.last_seq - data.recevied

Main == Started \/ ReadDataLen \/ ReadStartTime \/ Report

-----------------------------------------------------------------------------
Next ==
  \/ \E s \in 1 .. Frames, size \in FrameSizes : SendFrame(s, size)
  \/ Restart
  \/ Bind
  \/ \E packet \in BagToSet(wire) : Receive(packet)
  \/ \E seq \in acking : Acknowledge(seq)
  \/ ForwardStops
  \/ Main

Spec == Init /\ [][Next]_vars

\* The main thread is scheduled, and its duration passes; the socket of the
\* pongs does not block for ever.
FairSpec ==
  /\ Spec
  /\ WF_vars(Main)
  /\ WF_vars(\E seq \in acking : Acknowledge(seq))

-----------------------------------------------------------------------------
(* Safety *)

Sent == 1 .. Len(sizes)

\* Every packet of frame s has been received.
Whole(s) == PacketsOf(s) # {} /\ PacketsOf(s) \subseteq arrived

Times(condition) == IF condition THEN 1 ELSE 0

\* Unless one of its datagrams is repeated, or an earlier session has left
\* something of a frame with its number, a frame is taken to send_ack if all
\* of it has arrived, at once, and only once, whatever order the packets come
\* in, until data_len overflows: it is being answered, has been, or its pong
\* was given up.  None is with a port above 64511, where the port of the pongs
\* is no u16.  (The pongs are all the sender knows of its round-trip times.)
AnsweredOnce ==
  traffic < U32 =>
    \A s \in Sent \ (repeated \cup stale) :
      answers[s] + Times(s \in given_up) + Times(s \in acking) =
        Times(Whole(s) /\ Sampled(s) /\ PongPortFits)

\* Whatever the network repeats, no frame is answered that is not whole, nor
\* any that has not been sent: not to a sender that has been restarted
\* either, but for the numbers of which an earlier session has left something.
AnsweredWhole ==
  \A s \in 1 .. Frames \ stale : answers[s] > 0 => s \in Sent /\ Whole(s)

\* What goes to the decoder is a frame of the sender, whole and in order;
\* packets of two sessions are mixed only in a frame of which the first of
\* them has left something (record.rs:58 knows no sessions).
DeliveredIntact ==
  \A i \in 1 .. Len(delivered) :
    \E s \in Sent \cup stale :
      s \in stale \/ delivered[i] = generate_packets(s, sizes[s])

\* The receiver holds records of exactly the frames it has a part of: what is
\* whole is released as soon as it is answered.
RecordsExact ==
  ~poisoned =>
    \A s \in 1 .. Frames \ (repeated \cup stale) :
      s \in DOMAIN data.recv_records <=>
        /\ s \in Sent /\ Sampled(s)
        /\ PacketsOf(s) \cap arrived # {}
        /\ Whole(s) => s \in acking

\* Nothing has disturbed the counts of the receiver.
Undisturbed == repeated = {} /\ restarts = 0

\* Then the loss main prints is the number of frames, up to the last one
\* heard of, that did not arrive whole.  (With a sample_rate above 1 it is
\* not: frames that are not sampled are lost too.)
LossExact ==
  Undisturbed /\ sample_rate = 1 /\ report # None =>
    report = Cardinality({s \in 1 .. data.last_seq : ~Whole(s)})

\* What keeps main from the loss besides `last_seq - recevied`: the forward
\* thread has gone, the traffic no longer fits a u32 (destination.rs:46), or
\* the port of the pongs no u16 (destination.rs:87).
Prevented == ~forwarding \/ traffic >= U32 \/ ~PongPortFits

\* And the loss is printed unless one of those kills the receive thread: no
\* loss, no reordering and no pong that is given up makes `last_seq -
\* recevied` (main.rs:51) underflow, or gather() miss a packet.
ReportDelivered ==
  Undisturbed /\ main = "panicked" => report # None \/ Prevented

\* The loss is printed, and it is exact.
ReportExact == ReportDelivered /\ LossExact

\* ReportDelivered as the output of main promises it, whatever the network
\* repeats.
ReportAlwaysDelivered == main = "panicked" => report # None \/ Prevented

-----------------------------------------------------------------------------
(* The receiver, as the sender sees it *)

PongService ==
  INSTANCE Pongs WITH sent <- Sent

\* An answer for a number of which an earlier session has left something.
StaleAnswer ==
  /\ sizes' = sizes
  /\ \E s \in stale : answers' = [answers EXCEPT ![s] = @ + 1]

\* The receiver and the network keep the promise RttPath relies on, to every
\* session of the sender, but for what an earlier one has left.
ImplementsPongs ==
  /\ PongService!Init
  /\ [][PongService!Next \/ StaleAnswer \/ restarts' # restarts
       ]_<<Sent, answers>>

-----------------------------------------------------------------------------
(* Liveness *)

\* Once something has arrived main comes to its end, with the report or with
\* a panic: it never waits for ever for the lock, whichever panic the receive
\* thread dies of and however many of its pongs fail, as long as the socket
\* of the pongs takes or refuses each in the end (destination.rs:103).
MainEnds == arrived # {} ~> Ended
=============================================================================
