------------------------------ MODULE RttPath ------------------------------
(***************************************************************************)
(* The three threads that share a stream's round-trip records: the source  *)
(* thread records when a frame arrives (tx/src/source.rs), the pong thread *)
(* when it is answered (tx/src/rtt.rs), and the IPC thread collects the    *)
(* statistics (SourceManager::statistics).  The pong thread reads the      *)
(* clock before it takes the lock, so the others may run in between.       *)
(*                                                                         *)
(* Sending, the network and the receiver are what Pongs promises of them   *)
(* (Receiver implements it); besides, a pong is recorded before more than  *)
(* MaxLag later frames have arrived.                                       *)
(***************************************************************************)
EXTENDS RttRecords

CONSTANTS
  Frames,      \* bound of the model: frames the source thread generates
  MaxTime,     \* bound of the model: the clock stops here
  MaxCopies,   \* copies of a datagram the network may deliver
  MaxLag       \* how many frames later it may still answer it

ASSUME PathAssumption ==
  /\ Frames \in Nat
  /\ MaxTime \in Nat
  /\ MaxCopies \in Nat
  /\ MaxLag \in Nat

VARIABLES
  ring,      \* RttRecords.queue
  poisoned,  \* the mutex of the ring: a holder has panicked
  pc,        \* the source thread
  seq,       \* template.seq
  sent,      \* the frames whose last packet has left
  answers,   \* how often each frame has been answered
  pong,      \* what the pong thread has received and not yet recorded
  alive,     \* the pong thread still runs
  now,       \* the clock
  arrived,   \* history: when each frame was recorded
  charged    \* history: the outage charged to each frame

vars == <<ring, poisoned, pc, seq, sent, answers, pong, alive, now,
          arrived, charged>>

Pong == [seq : 1 .. Frames, time : Nat]

TypeOK ==
  /\ ring \in Ring
  /\ poisoned \in BOOLEAN /\ alive \in BOOLEAN
  /\ pc \in {"frame", "arrival", "queue"}
  /\ seq \in 0 .. Frames
  /\ sent \subseteq 1 .. Frames
  /\ answers \in [1 .. Frames -> 0 .. MaxCopies]
  /\ pong \in Pong \cup {None}
  /\ now \in Nat
  /\ arrived \in [1 .. Frames -> Nat]
  /\ charged \in [1 .. Frames -> Nat]

Init ==
  /\ ring = EmptyRing
  /\ poisoned = FALSE
  /\ pc = "frame"
  /\ seq = 0
  /\ sent = {}
  /\ answers = [s \in 1 .. Frames |-> 0]
  /\ pong = None
  /\ alive = TRUE
  /\ now = 0
  /\ arrived = [s \in 1 .. Frames |-> 0]
  /\ charged = [s \in 1 .. Frames |-> 0]

Network == INSTANCE Pongs

-----------------------------------------------------------------------------
(* The source thread *)

\* The network answers frame s no later than this.
Timely(s, latest) == latest - s <= MaxLag

NextFrame ==
  /\ pc = "frame"
  /\ seq < Frames
  /\ pong # None => Timely(pong.seq, seq + 1)
  /\ seq' = seq + 1
  /\ pc' = "arrival"
  /\ UNCHANGED <<ring, poisoned, sent, answers, pong, alive, now, arrived,
                 charged>>

\* `if let Ok(mut r) = rec.lock()`: nothing is recorded once the mutex is
\* poisoned, and the stream goes on.
RecordArrival ==
  /\ pc = "arrival"
  /\ ring' = IF poisoned THEN ring ELSE update_arrival(ring, seq, now)
  /\ arrived' = [arrived EXCEPT ![seq] = now]
  /\ pc' = "queue"
  /\ UNCHANGED <<poisoned, seq, sent, answers, pong, alive, now, charged>>

\* process_queue sends the last packet of a frame that has been recorded;
\* frames leave in order, some of them never complete.
SendFrame(s) ==
  /\ pc = "queue"
  /\ s <= seq
  /\ Network!SendFrame(s)
  /\ UNCHANGED <<ring, poisoned, pc, seq, pong, alive, now, arrived, charged>>

LeaveQueue ==
  /\ pc = "queue"
  /\ pc' = "frame"
  /\ UNCHANGED <<ring, poisoned, seq, sent, answers, pong, alive, now,
                 arrived, charged>>

-----------------------------------------------------------------------------
(* The pong thread *)

ReceivePong(s) ==
  /\ alive
  /\ pong = None
  /\ Network!Answer(s)
  /\ Timely(s, seq)
  /\ pong' = [seq |-> s, time |-> now]
  /\ UNCHANGED <<ring, poisoned, pc, seq, alive, now, arrived, charged>>

\* update() either writes the pong time or panics with the lock held, which
\* ends the thread and poisons the mutex.
RecordPong ==
  /\ pong # None
  /\ pong' = None
  /\ IF Updatable(ring, pong.seq)
     THEN /\ ring' = update(ring, pong.seq, pong.time)
          /\ UNCHANGED <<poisoned, alive>>
     ELSE /\ poisoned' = TRUE
          /\ alive' = FALSE
          /\ UNCHANGED ring
  /\ UNCHANGED <<pc, seq, sent, answers, now, arrived, charged>>

\* Any socket error but a timeout ends the thread.
PongSocketFails ==
  /\ alive
  /\ pong = None
  /\ alive' = FALSE
  /\ UNCHANGED <<ring, poisoned, pc, seq, sent, answers, pong, now, arrived,
                 charged>>

-----------------------------------------------------------------------------
(* The IPC thread and the clock *)

SlotOf(s) == ring[Index(s)]

Holds(s) == SlotOf(s) # None /\ SlotOf(s).seq = s

Statistic ==
  /\ ~poisoned
  /\ ring' = statistic(ring, now)
  /\ charged' = [s \in 1 .. Frames |->
       charged[s] + (IF Holds(s) THEN Outage(SlotOf(s), now) ELSE 0)]
  /\ UNCHANGED <<poisoned, pc, seq, sent, answers, pong, alive, now, arrived>>

Tick ==
  /\ now < MaxTime
  /\ now' = now + 1
  /\ UNCHANGED <<ring, poisoned, pc, seq, sent, answers, pong, alive,
                 arrived, charged>>

-----------------------------------------------------------------------------
Next ==
  \/ NextFrame
  \/ RecordArrival
  \/ \E s \in 1 .. Frames : SendFrame(s)
  \/ LeaveQueue
  \/ \E s \in 1 .. Frames : ReceivePong(s)
  \/ RecordPong
  \/ PongSocketFails
  \/ Statistic
  \/ Tick

Spec == Init /\ [][Next]_vars

-----------------------------------------------------------------------------
(* Safety *)

\* The panic!()s of update (rtt_records.rs:59 and 63) are never reached: the
\* slot of a frame that is answered still holds that frame.
NoPanic == ~poisoned

\* No instant is charged twice: what a frame has been charged, by however
\* many polls, never exceeds the time since its target round trip.
Late(s, time) ==
  IF time > arrived[s] + target_rtt THEN time - (arrived[s] + target_rtt) ELSE 0

OutageChargedOnce ==
  \A s \in 1 .. Frames : charged[s] <= Late(s, now)

\* And none is missed: when the poll takes an answered frame out of the ring,
\* the frame has been charged from its target round trip to its answer, even
\* if the answer was received before an earlier poll and recorded after it.
Collected(s) == Holds(s) /\ Ponged(SlotOf(s)) /\ ~Holds(s)'

OutageComplete ==
  [][Statistic =>
       \A s \in 1 .. Frames :
         Collected(s) => charged'[s] >= Late(s, SlotOf(s).pong_time)]_vars
=============================================================================
