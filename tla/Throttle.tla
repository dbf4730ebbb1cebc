------------------------------ MODULE Throttle ------------------------------
(***************************************************************************)
(* One stream of the sender: the source thread (source_thread, and what it *)
(* shares with stream_thread and video_thread, of tx/src/source.rs) and    *)
(* the IPC thread, which share a RateThrottler behind a mutex.  Every      *)
(* critical section is one action: the two threads interleave between      *)
(* them, and so does the clock.                                            *)
(*                                                                         *)
(* The callback of try_consume runs inside the critical section.  What it  *)
(* decides (a scheduling policy, a non-blocking socket) is external: Send  *)
(* is the callback returning true, Refuse the callback returning false.    *)
(***************************************************************************)
EXTENDS RateThrottler, FiniteSets

CONSTANTS
  Loops,         \* params.loops
  FrameSizes,    \* the sizes a trace may hold
  Throttles,     \* the throttles a manifest or an IPC command may set
  MaxAccError    \* bound of the model: no Refuse beyond this acc_error

ASSUME StreamAssumption ==
  /\ Loops \in Nat
  /\ FrameSizes \subseteq Nat
  /\ Throttles \subseteq Nat
  /\ MaxAccError \in Nat

\* Ages may stop growing at MaxAge: no window of that age exceeds a throttle.
ASSUME AgeAssumption ==
  \A x \in Throttles \ {0} : window_size * MAX_PAYLOAD_LEN < x * MaxAge

VARIABLES
  throttler,   \* the shared RateThrottler
  pc,          \* where the source thread is
  seq,         \* template.seq, the number of the last frame generated
  last_sent,   \* history: the last packet the callback sent
  cut,         \* history: frames whose last packet found no room
  unmeasured   \* history: bytes admitted on the cached rate since it was
               \* last measured

vars == <<throttler, pc, seq, last_sent, cut, unmeasured>>

PCs == {"frame",    \* about to generate the next frame
        "queue",    \* in process_queue, until the next frame is due
        "drain",    \* in process_queue, until stop_time
        "stopped"}

TypeOK ==
  /\ throttler \in Throttler
  /\ BufferBounded(throttler.buffer)
  /\ WindowBounded(throttler)
  /\ pc \in PCs
  /\ seq \in Nat
  /\ last_sent \in Packet
  /\ cut \in Nat
  /\ unmeasured \in Nat

NoPacket == [seq |-> 0, offset |-> 0, length |-> 0, last_one |-> TRUE]

Init ==
  /\ \E x \in Throttles : throttler = RateThrottler_new(x)
  /\ pc = "frame"
  /\ seq = 0
  /\ last_sent = NoPacket
  /\ cut = 0
  /\ unmeasured = 0

-----------------------------------------------------------------------------
(* The source thread *)

\* current_rate_mbps, called in state t, forgets the stale bytes when it
\* measures.
StaleAfter(t, bytes) == IF MeasurementCached(t) THEN bytes ELSE 0

\* The n-th turn of the loop generates frame n, as long as n < params.loops.
NextFrame(size) ==
  LET packets == generate_packets(seq + 1, size)
      lost    == Accepted(throttler.buffer, Len(packets)) < Len(packets)
  IN  /\ pc = "frame"
      /\ seq + 1 < Loops
      /\ seq' = seq + 1
      /\ throttler' = prepare(throttler, packets)
      /\ cut' = cut + (IF lost \/ packets = <<>> THEN 1 ELSE 0)
      /\ unmeasured' = StaleAfter(throttler, unmeasured)
      /\ pc' = "queue"
      /\ UNCHANGED last_sent

\* Once the frames are used up, process_queue runs until stop_time.
Drain ==
  /\ pc = "frame"
  /\ seq + 1 >= Loops
  /\ pc' = "drain"
  /\ UNCHANGED <<throttler, seq, last_sent, cut, unmeasured>>

InProcessQueue == pc \in {"queue", "drain"}

HasHead == throttler.buffer # <<>>

HeadSize == Head(throttler.buffer).length

HeadExceeds == HasHead /\ Exceeds(throttler, HeadSize)

\* exceeds_with holds the head back; the thread sleeps with the lock held.
Hold ==
  /\ InProcessQueue
  /\ HeadExceeds
  /\ throttler' = measure(throttler, HeadSize)
  /\ unmeasured' =
       StaleAfter([throttler EXCEPT !.acc_error = @ + HeadSize], unmeasured)
  /\ UNCHANGED <<pc, seq, last_sent, cut>>

\* The stale bytes once exceeds_with has charged the head packet.
StaleAfterCharge ==
  IF Exempt(throttler) THEN unmeasured
  ELSE StaleAfter([throttler EXCEPT !.acc_error = @ + HeadSize],
                  unmeasured + HeadSize)

\* The head packet is charged, sent by the callback, and consumed.
Send ==
  /\ InProcessQueue
  /\ HasHead
  /\ ~HeadExceeds
  /\ throttler' = try_consume_sent(throttler)
  /\ last_sent' = Head(throttler.buffer)
  /\ unmeasured' =
       StaleAfter(exceeds_with(throttler, HeadSize), StaleAfterCharge)
  /\ UNCHANGED <<pc, seq, cut>>

\* The head packet is charged, but the callback returns false: it stays in
\* the buffer and the next turn charges it again.
Refuse ==
  /\ InProcessQueue
  /\ HasHead
  /\ ~HeadExceeds
  /\ throttler.acc_error <= MaxAccError
  /\ throttler' = exceeds_with(throttler, HeadSize)
  /\ unmeasured' = StaleAfterCharge
  /\ UNCHANGED <<pc, seq, last_sent, cut>>

\* process_queue returns on an empty buffer or when the next frame is due,
\* whatever is left in the buffer.
LeaveQueue ==
  /\ pc = "queue"
  /\ pc' = "frame"
  /\ UNCHANGED <<throttler, seq, last_sent, cut, unmeasured>>

\* stop_time has passed.  A thread that drains may stop with packets left.
Stop ==
  /\ pc \in {"frame", "drain"}
  /\ pc' = "stopped"
  /\ throttler' = reset(throttler)
  /\ unmeasured' = 0
  /\ UNCHANGED <<seq, last_sent, cut>>

-----------------------------------------------------------------------------
(* The IPC thread and the clock *)

\* SourceManager::throttle, at any time, also after the stream has stopped.
SetThrottle(x) ==
  /\ throttler' = [throttler EXCEPT !.throttle = x]
  /\ UNCHANGED <<pc, seq, last_sent, cut, unmeasured>>

Tick ==
  /\ throttler' = age_window(throttler)
  /\ UNCHANGED <<pc, seq, last_sent, cut, unmeasured>>

-----------------------------------------------------------------------------
SourceThread ==
  \/ \E size \in FrameSizes : NextFrame(size)
  \/ Drain
  \/ Hold
  \/ Send
  \/ Refuse
  \/ LeaveQueue

Next ==
  \/ SourceThread
  \/ Stop
  \/ \E x \in Throttles : SetThrottle(x)
  \/ Tick

Spec == Init /\ [][Next]_vars

\* The source thread is scheduled, the clock runs, and a network asked again
\* and again takes a packet in the end.  Nothing makes stop_time come.
FairSpec ==
  /\ Spec
  /\ WF_vars(SourceThread)
  /\ WF_vars(Tick)
  /\ SF_vars(Send)

-----------------------------------------------------------------------------
(* Safety *)

\* The frame count that the IPC reports never loses track: it is the number
\* of frames whose last packet waits in the buffer plus the number of frames
\* that lost their last packet to a full buffer or had none.  In particular
\* the usize of `frame_count -= 1` (throttle.rs:144) does not underflow.
LastIn(fifo) == {i \in 1 .. Len(fifo) : fifo[i].last_one}

FrameCountExact ==
  pc # "stopped" =>
    throttler.frame_count = Cardinality(LastIn(throttler.buffer)) + cut

\* Packets leave in the order of the trace: from the last one sent through
\* the whole buffer, each packet is the next one of its frame, or begins a
\* later frame; nothing is repeated, whatever try_push dropped or the
\* callback refused.
InLine(fifo) == \A i \in 1 .. Len(fifo) - 1 : Follows(fifo[i], fifo[i + 1])

PacketsInOrder ==
  /\ InLine(throttler.buffer)
  /\ HasHead => Follows(last_sent, throttler.buffer[1])
  /\ last_sent.seq <= seq
  /\ \A i \in 1 .. Len(throttler.buffer) : throttler.buffer[i].seq <= seq

\* The bytes let through on a measurement that has since gone stale stay
\* below max_error: current_rate_mbps (throttle.rs:98) cannot be fooled by
\* its own cache for longer than that.
StaleAdmissionsBounded ==
  /\ unmeasured <= throttler.acc_error
  /\ unmeasured > 0 => unmeasured < throttler.max_error

\* sum_bytes is kept by increments and decrements on two paths
\* (throttle.rs:168-172 and 180-184); it is always the sum of the window.
Sums(window) ==
  LET sum[i \in 0 .. Len(window)] ==
        IF i = 0 THEN 0 ELSE sum[i - 1] + window[i].size
  IN  sum

WindowBytes(window) == Sums(window)[Len(window)]

SumBytesExact == throttler.sum_bytes = WindowBytes(throttler.window)

\* With an exact throttler (max_error = 0) a packet is charged only if the
\* bytes of the window and its own, over the age of the window, are below
\* the throttle: neither the other thread's SetThrottle nor a refused packet
\* lets a stale figure decide.
Charged == throttler'.window # throttler.window /\ (Send \/ Refuse)

RateRespected ==
  [][Charged /\ throttler.max_error = 0 /\ ~Exempt(throttler)
       => WindowBytes(throttler.window) + HeadSize
            < throttler.throttle * Head(throttler.window).age]_vars

-----------------------------------------------------------------------------
(* Refinement and liveness *)

\* The stream is a FrameQueue: throttling, refusals and IPC commands only
\* delay packets.
Abstract ==
  INSTANCE FrameQueue
    WITH Capacity <- BufferSize, Sizes <- FrameSizes,
         queue <- throttler.buffer, offered <- seq, closed <- pc = "stopped"

ImplementsFrameQueue == Abstract!Spec

\* No frame stays at the head of the queue for ever, whatever the throttle
\* is and however often it changes.
AtHead(k) == HasHead /\ Head(throttler.buffer).seq = k

HeadMoves == \A k \in 1 .. Loops : AtHead(k) ~> ~AtHead(k)
=============================================================================
