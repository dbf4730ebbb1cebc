----------------------------- MODULE LiveStream -----------------------------
(***************************************************************************)
(* stream_thread of tx/src/source.rs: the source thread of a live stream,  *)
(* fed by an application over an unbounded channel (the Android wrapper    *)
(* feeds it one buffer per call; in the sender's own main nobody does).    *)
(* The clock is looked at before a frame is received and before a packet   *)
(* is taken from the queue, never while the thread waits in between: both  *)
(* steps may come late.  What the throttle and the scheduling decide is in *)
(* Throttle and Scheduling; here a packet is sent or kept.                 *)
(***************************************************************************)
EXTENDS RateThrottler

CONSTANTS
  FrameSizes,   \* the sizes of the buffers the application hands over
  StopTime,     \* stop_time of the thread
  MaxTime,      \* bound of the model: the clock
  MaxFrames     \* bound of the model: frames the application hands over

ASSUME LiveAssumption ==
  /\ FrameSizes \subseteq Nat
  /\ StopTime \in Nat /\ MaxTime \in Nat /\ MaxFrames \in Nat

VARIABLES
  clock,     \* SystemTime
  pc,        \* where the thread is
  channel,   \* the frames handed over and not yet received
  fed,       \* how many frames the application has handed over
  seq,       \* template.seq
  buffer,    \* the buffer of the throttler
  late       \* history: frames received and packets sent after stop_time

vars == <<clock, pc, channel, fed, seq, buffer, late>>

PCs == {"loop",      \* about to compare the clock with stop_time
        "recv",      \* waiting for a frame
        "queue",     \* in process_queue, about to compare the clock
        "consume",   \* about to take the lock for try_consume
        "ended"}

TypeOK ==
  /\ clock \in Nat
  /\ pc \in PCs
  /\ channel \in Seq(FrameSizes)
  /\ fed \in Nat
  /\ seq \in Nat
  /\ buffer \in Seq(Packet) /\ BufferBounded(buffer)
  /\ late \in Nat

Init ==
  /\ clock = 0
  /\ pc = "loop"
  /\ channel = <<>> /\ fed = 0
  /\ seq = 0
  /\ buffer = <<>>
  /\ late = 0

-----------------------------------------------------------------------------
(* The application and the clock *)

\* The channel outlives neither end: after the thread has ended a frame is
\* refused, and the application only logs it.
Feed(size) ==
  /\ pc # "ended"
  /\ fed < MaxFrames
  /\ fed' = fed + 1
  /\ channel' = Append(channel, size)
  /\ UNCHANGED <<clock, pc, seq, buffer, late>>

Tick ==
  /\ clock < MaxTime
  /\ clock' = clock + 1
  /\ UNCHANGED <<pc, channel, fed, seq, buffer, late>>

-----------------------------------------------------------------------------
(* The source thread *)

Late == IF clock > StopTime THEN 1 ELSE 0

\* The head of the loop lets one more frame in, or ends the stream.
Continue ==
  /\ pc = "loop"
  /\ clock <= StopTime
  /\ pc' = "recv"
  /\ UNCHANGED <<clock, channel, fed, seq, buffer, late>>

End ==
  /\ pc = "loop"
  /\ clock > StopTime
  /\ pc' = "ended"
  /\ buffer' = <<>>
  /\ UNCHANGED <<clock, channel, fed, seq, late>>

\* A mutant of Receive: what an earlier frame has left over is discarded.
Receive_ClearsQueue ==
  /\ pc = "recv"
  /\ channel # <<>>
  /\ channel' = Tail(channel)
  /\ seq' = seq + 1
  /\ buffer' = generate_packets(seq + 1, Head(channel))
  /\ late' = late + Late
  /\ pc' = "queue"
  /\ UNCHANGED <<clock, fed>>

\* recv returns, however late, and the frame joins the queue.
Receive ==
  /\ pc = "recv"
  /\ channel # <<>>
  /\ channel' = Tail(channel)
  /\ seq' = seq + 1
  /\ buffer' = try_push_all(buffer, generate_packets(seq + 1, Head(channel)))
  /\ late' = late + Late
  /\ pc' = "queue"
  /\ UNCHANGED <<clock, fed>>

\* A mutant of Enter: the clock is not looked at.
Enter_Always ==
  /\ pc = "queue"
  /\ pc' = "consume"
  /\ UNCHANGED <<clock, channel, fed, seq, buffer, late>>

\* The head of the loop of process_queue.
Enter ==
  /\ pc = "queue"
  /\ clock < StopTime
  /\ pc' = "consume"
  /\ UNCHANGED <<clock, channel, fed, seq, buffer, late>>

\* A mutant of Expire: the queue is emptied first.
Expire_WhenEmpty ==
  /\ pc = "queue"
  /\ clock >= StopTime
  /\ buffer = <<>>
  /\ pc' = "loop"
  /\ UNCHANGED <<clock, channel, fed, seq, buffer, late>>

Expire ==
  /\ pc = "queue"
  /\ clock >= StopTime
  /\ pc' = "loop"
  /\ UNCHANGED <<clock, channel, fed, seq, buffer, late>>

Send ==
  /\ pc = "consume"
  /\ buffer # <<>>
  /\ buffer' = Tail(buffer)
  /\ late' = late + Late
  /\ pc' = "queue"
  /\ UNCHANGED <<clock, channel, fed, seq>>

\* A mutant of Keep: Some(false) ends process_queue as None does.
Keep_Breaks ==
  /\ pc = "consume"
  /\ buffer # <<>>
  /\ pc' = "loop"
  /\ UNCHANGED <<clock, channel, fed, seq, buffer, late>>

\* The throttle holds the packet back, or the callback could not send it.
Keep ==
  /\ pc = "consume"
  /\ buffer # <<>>
  /\ pc' = "queue"
  /\ UNCHANGED <<clock, channel, fed, seq, buffer, late>>

Drained ==
  /\ pc = "consume"
  /\ buffer = <<>>
  /\ pc' = "loop"
  /\ UNCHANGED <<clock, channel, fed, seq, buffer, late>>

-----------------------------------------------------------------------------
Thread ==
  Continue \/ End \/ Receive \/ Enter \/ Expire \/ Send \/ Keep \/ Drained

Next == Thread \/ Tick \/ \E size \in FrameSizes : Feed(size)

Spec == Init /\ [][Next]_vars

\* The thread is scheduled and the clock runs; no frame need ever be fed, and
\* the links need never take a packet.
FairSpec == Spec /\ WF_vars(Thread) /\ WF_vars(Tick)

-----------------------------------------------------------------------------
\* After the stop time there is at most one step that the stop time should
\* have prevented: a frame that recv was already waiting for (source.rs:140),
\* or a packet whose turn had begun (source.rs:75), but not both; so nothing
\* of a frame received late is sent.
OneLateStep == late <= 1

\* While the stream runs, the thread never waits for a frame with packets of
\* earlier ones in the queue, whatever the throttle and the links did.
NothingHeldBack == pc = "recv" /\ clock < StopTime => buffer = <<>>

\* Packets enter and leave the queue as FrameQueue says, and nothing is left
\* in it once the stream has ended.
Abstract ==
  INSTANCE FrameQueue
    WITH Capacity <- BufferSize, Sizes <- FrameSizes,
         queue <- buffer, offered <- seq, closed <- pc = "ended"

ImplementsFrameQueue == Abstract!Spec

\* Every frame that is handed over is received, unless the stream ends first;
\* and a frame handed over after the stop time ends a stream that waits.
Served ==
  \A k \in 1 .. MaxFrames :
    /\ fed >= k ~> (seq >= k \/ pc = "ended")
    /\ (fed >= k /\ seq < k /\ clock > StopTime) ~> pc = "ended"
=============================================================================
