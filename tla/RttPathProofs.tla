--------------------------- MODULE RttPathProofs ---------------------------
(***************************************************************************)
(* Proofs about RttPath, for any ring, number of frames and clock: what    *)
(* its variables hold, that no outage is charged twice, and that the pong  *)
(* thread does not panic as long as every frame is answered at most once   *)
(* and before its slot is reused.                                          *)
(***************************************************************************)
EXTENDS RttPath, TLAPS

-----------------------------------------------------------------------------
(* The ring *)

\* Two frames less than a ring apart have slots of their own.
LEMMA ModDistinct ==
  ASSUME NEW m \in Nat \ {0}, NEW a \in Nat, NEW b \in Nat, a < b, b - a < m
  PROVE  a % m # b % m
<1>1. SUFFICES ASSUME a % m = b % m PROVE FALSE
  OBVIOUS
<1> DEFINE q == (b \div m) - (a \div m)
<1>2. q \in Int
  BY SMT
<1>3. a = m * (a \div m) + (a % m) /\ b = m * (b \div m) + (b % m)
  BY SMT
<1>4. b - a = m * q
  BY <1>1, <1>3, SMT
<1>5. q >= 1 => m * q >= m
  BY <1>2, SMT
<1>6. q <= 0 => m * q <= 0
  BY <1>2, SMT
<1>. QED
  BY <1>2, <1>4, <1>5, <1>6

\* Every frame has a slot.
LEMMA IndexRange ==
  ASSUME NEW s \in Nat
  PROVE  Index(s) \in 0 .. max_length - 1
BY RingAssumption, SMT DEF Index

\* What a poll does to one slot keeps it a slot, and charges a natural number.
LEMMA SweptType ==
  ASSUME NEW entry \in RTTEntry, NEW time \in Nat
  PROVE  /\ Outage(entry, time) \in Nat
         /\ Swept(entry, time) \in RTTEntry \cup {None}
<1>1. Outage(entry, time) \in Nat
  <2>1. CASE Ponged(entry)
    <3>1. entry.pong_time \in Nat
      BY <2>1 DEF RTTEntry, Ponged
    <3>. QED
      BY <2>1, <3>1 DEF Outage, RTTEntry
  <2>2. CASE ~Ponged(entry)
    BY <2>2 DEF Outage, RTTEntry
  <2>. QED
    BY <2>1, <2>2
<1>. QED
  BY <1>1 DEF Swept, RTTEntry

\* The three operations on the ring keep it a ring.
LEMMA RingType ==
  ASSUME NEW r \in Ring, NEW s \in Nat, NEW time \in Nat
  PROVE  /\ update_arrival(r, s, time) \in Ring
         /\ Updatable(r, s) => update(r, s, time) \in Ring
         /\ statistic(r, time) \in Ring
<1>1. Index(s) \in 0 .. max_length - 1
  BY IndexRange
<1>2. update_arrival(r, s, time) \in Ring
  <2>1. [seq |-> s, arrival_time |-> time,
         last_outage_time |-> time + target_rtt, pong_time |-> None]
          \in RTTEntry
    BY RingAssumption DEF RTTEntry
  <2>. QED
    BY <1>1, <2>1 DEF update_arrival, Ring
<1>3. ASSUME Updatable(r, s) PROVE update(r, s, time) \in Ring
  <2>1. r[Index(s)] \in RTTEntry
    BY <1>1, <1>3 DEF Updatable, Ring
  <2>2. [r[Index(s)] EXCEPT !.pong_time = time] \in RTTEntry
    BY <2>1 DEF RTTEntry
  <2>. QED
    BY <1>1, <2>2 DEF update, Ring
<1>4. statistic(r, time) \in Ring
  <2>1. ASSUME NEW i \in 0 .. max_length - 1
        PROVE  (IF r[i] = None THEN None ELSE Swept(r[i], time))
                 \in RTTEntry \cup {None}
    <3>1. CASE r[i] = None
      BY <3>1
    <3>2. CASE r[i] # None
      <4>1. r[i] \in RTTEntry
        BY <3>2 DEF Ring
      <4>. QED
        BY <3>2, <4>1, SweptType
    <3>. QED
      BY <3>1, <3>2
  <2>. QED
    BY <2>1 DEF statistic, Ring
<1>. QED
  BY <1>2, <1>3, <1>4

-----------------------------------------------------------------------------
(* Type correctness *)

\* The initial state is well typed.
LEMMA InitType == Init => TypeOK
<1>. SUFFICES ASSUME Init PROVE TypeOK
  OBVIOUS
<1>1. ring \in Ring
  BY DEF Init, EmptyRing, Ring
<1>2. /\ answers \in [1 .. Frames -> 0 .. MaxCopies]
      /\ arrived \in [1 .. Frames -> Nat]
      /\ charged \in [1 .. Frames -> Nat]
  <2>1. 0 \in 0 .. MaxCopies /\ 0 \in Nat
    BY PathAssumption
  <2>. QED
    BY <2>1 DEF Init
<1>3. /\ seq \in 0 .. Frames /\ now \in Nat /\ sent \subseteq 1 .. Frames
      /\ pc \in {"frame", "arrival", "queue"}
  BY PathAssumption DEF Init
<1>4. poisoned \in BOOLEAN /\ alive \in BOOLEAN
  BY DEF Init
<1>5. pong \in Pong \cup {None}
  BY DEF Init
<1>. QED
  BY <1>1, <1>2, <1>3, <1>4, <1>5 DEF TypeOK

\* So is every step.
LEMMA StepType == TypeOK /\ [Next]_vars => TypeOK'
<1>. SUFFICES ASSUME TypeOK, [Next]_vars PROVE TypeOK'
  OBVIOUS
<1>. USE PathAssumption
<1>1. CASE NextFrame
  BY <1>1 DEF NextFrame, TypeOK
<1>2. CASE RecordArrival
  <2>1. seq \in Nat /\ now \in Nat /\ ring \in Ring
    BY DEF TypeOK
  <2>2. ring' \in Ring
    BY <1>2, <2>1, RingType DEF RecordArrival
  <2>. QED
    BY <1>2, <2>1, <2>2 DEF RecordArrival, TypeOK
<1>3. ASSUME NEW s \in 1 .. Frames, SendFrame(s) PROVE TypeOK'
  BY <1>3 DEF SendFrame, Network!SendFrame, TypeOK
<1>4. CASE LeaveQueue
  BY <1>4 DEF LeaveQueue, TypeOK
<1>5. ASSUME NEW s \in 1 .. Frames, ReceivePong(s) PROVE TypeOK'
  <2>1. answers' \in [1 .. Frames -> 0 .. MaxCopies]
    <3>1. answers \in [1 .. Frames -> 0 .. MaxCopies]
      BY DEF TypeOK
    <3>2. answers[s] + 1 \in 0 .. MaxCopies
      BY <1>5, <3>1 DEF ReceivePong, Network!Answer
    <3>3. answers' = [answers EXCEPT ![s] = answers[s] + 1]
      BY <1>5 DEF ReceivePong, Network!Answer
    <3>. QED
      BY <3>1, <3>2, <3>3
  <2>2. pong' \in Pong
    BY <1>5 DEF ReceivePong, TypeOK, Pong
  <2>. QED
    BY <1>5, <2>1, <2>2 DEF ReceivePong, Network!Answer, TypeOK
<1>6. CASE RecordPong
  <2>1. pong \in Pong /\ pong.seq \in Nat /\ pong.time \in Nat
    BY <1>6 DEF RecordPong, TypeOK, Pong
  <2>2. ring' \in Ring
    BY <1>6, <2>1, RingType DEF RecordPong, TypeOK
  <2>. QED
    BY <1>6, <2>2 DEF RecordPong, TypeOK
<1>7. CASE PongSocketFails
  BY <1>7 DEF PongSocketFails, TypeOK
<1>8. CASE Statistic
  <2>1. ring \in Ring /\ now \in Nat /\ charged \in [1 .. Frames -> Nat]
    BY DEF TypeOK
  <2>2. ring' \in Ring
    <3>1. 0 \in Nat
      OBVIOUS
    <3>. QED
      BY <1>8, <2>1, <3>1, RingType DEF Statistic
  <2>3. charged' \in [1 .. Frames -> Nat]
    <3>1. ASSUME NEW s \in 1 .. Frames, Holds(s)
          PROVE  Outage(SlotOf(s), now) \in Nat
      <4>1. SlotOf(s) \in RTTEntry
        BY <2>1, <3>1, IndexRange DEF Holds, SlotOf, Ring
      <4>. QED
        BY <2>1, <4>1, SweptType
    <3>. QED
      BY <1>8, <2>1, <3>1 DEF Statistic
  <2>. QED
    BY <1>8, <2>2, <2>3 DEF Statistic, TypeOK
<1>9. CASE Tick
  BY <1>9 DEF Tick, TypeOK
<1>10. CASE UNCHANGED vars
  BY <1>10 DEF vars, TypeOK
<1>. QED
  BY <1>1, <1>2, <1>3, <1>4, <1>5, <1>6, <1>7, <1>8, <1>9, <1>10 DEF Next

\* Every reachable state is well typed.
THEOREM TypeCorrect == Spec => []TypeOK
BY InitType, StepType, PTL DEF Spec

-----------------------------------------------------------------------------
(* No outage is charged twice *)

\* Frame s has been recorded, or would have been but for the poison.
Recorded(s) == s <= seq /\ (s = seq => pc # "arrival")

\* A frame in the ring is in its slot, has its arrival time there, and has
\* been charged from its target round trip up to last_outage_time; an answer
\* is not from the future.
SlotExact(s) ==
  Holds(s) =>
    /\ Recorded(s)
    /\ SlotOf(s).last_outage_time = arrived[s] + target_rtt + charged[s]
    /\ Ponged(SlotOf(s)) => SlotOf(s).pong_time <= now

ChargesExact ==
  /\ \A s \in 1 .. Frames :
       /\ SlotExact(s)
       /\ ~Recorded(s) => charged[s] = 0
       /\ charged[s] <= Late(s, now)
  /\ pong # None => pong.time <= now

\* It says all that is needed.
LEMMA ChargesOnce == ChargesExact => OutageChargedOnce
BY DEF ChargesExact, OutageChargedOnce

\* At first nothing is charged and the ring is empty.
LEMMA InitCharges == Init => ChargesExact
<1>. SUFFICES ASSUME Init PROVE ChargesExact
  OBVIOUS
<1>1. \A s \in 1 .. Frames : ~Holds(s)
  BY IndexRange DEF Init, EmptyRing, Holds, SlotOf
<1>2. \A s \in 1 .. Frames : charged[s] = 0 /\ arrived[s] = 0
  BY DEF Init
<1>3. \A s \in 1 .. Frames : Late(s, now) = 0
  BY <1>2, RingAssumption DEF Init, Late
<1>. QED
  BY <1>1, <1>2, <1>3 DEF Init, ChargesExact, SlotExact

\* A step that leaves the ring, the charges and the arrivals alone, and
\* after which a recorded frame is still recorded.
LEMMA ChargesFrame ==
  ASSUME TypeOK, TypeOK', ChargesExact, UNCHANGED <<ring, charged, arrived>>,
         now <= now',
         \A s \in 1 .. Frames : Recorded(s) => Recorded(s)',
         pong' # None => pong'.time <= now'
  PROVE  ChargesExact'
<1>1. SUFFICES ASSUME NEW s \in 1 .. Frames
               PROVE  /\ SlotExact(s)'
                      /\ ~Recorded(s)' => charged'[s] = 0
                      /\ (charged[s] <= Late(s, now))'
  BY DEF ChargesExact
<1>2. /\ now \in Nat /\ now' \in Nat /\ arrived[s] \in Nat
      /\ charged[s] \in Nat /\ target_rtt \in Nat
  BY RingAssumption DEF TypeOK
<1>3. SlotExact(s)'
  <2>1. SUFFICES ASSUME Holds(s)' PROVE SlotExact(s)'
    BY DEF SlotExact
  <2>2. Holds(s) /\ SlotOf(s)' = SlotOf(s)
    BY <2>1 DEF Holds, SlotOf
  <2>3. SlotOf(s) \in RTTEntry
    BY <2>2, IndexRange DEF Holds, SlotOf, TypeOK, Ring
  <2>4. Ponged(SlotOf(s)) => SlotOf(s).pong_time \in Nat
    BY <2>3 DEF Ponged, RTTEntry
  <2>5. Ponged(SlotOf(s))' = Ponged(SlotOf(s))
    BY <2>2 DEF Ponged
  <2>6. SlotExact(s)
    BY DEF ChargesExact
  <2>7. Recorded(s)'
    BY <2>2, <2>6 DEF SlotExact
  <2>8. (SlotOf(s).last_outage_time = arrived[s] + target_rtt + charged[s])'
    BY <2>2, <2>6 DEF SlotExact
  <2>9. (Ponged(SlotOf(s)) => SlotOf(s).pong_time <= now)'
    BY <2>2, <2>4, <2>5, <2>6, <1>2 DEF SlotExact
  <2>. QED
    BY <2>7, <2>8, <2>9 DEF SlotExact
<1>4. ~Recorded(s)' => charged'[s] = 0
  BY DEF ChargesExact
<1>5. (charged[s] <= Late(s, now))'
  BY <1>2 DEF ChargesExact, Late
<1>. QED
  BY <1>3, <1>4, <1>5

\* Only recording an arrival, recording a pong and polling touch the ring.
LEMMA StepCharges ==
  TypeOK /\ TypeOK' /\ ChargesExact /\ [Next]_vars => ChargesExact'
<1>. SUFFICES ASSUME TypeOK, TypeOK', ChargesExact, [Next]_vars
              PROVE  ChargesExact'
  OBVIOUS
<1>0. /\ seq \in Nat /\ now \in Nat /\ target_rtt \in Nat /\ ring \in Ring
      /\ pc \in {"frame", "arrival", "queue"}
      /\ \A s \in 1 .. Frames : arrived[s] \in Nat /\ charged[s] \in Nat
  BY RingAssumption, PathAssumption DEF TypeOK
<1>1. CASE NextFrame
  <2>1. \A s \in 1 .. Frames : Recorded(s) => Recorded(s)'
    BY <1>0, <1>1 DEF NextFrame, Recorded
  <2>. QED
    BY <1>0, <1>1, <2>1, ChargesFrame DEF NextFrame, ChargesExact
<1>2. CASE RecordArrival
  <2>1. /\ pc = "arrival" /\ pc' = "queue" /\ seq' = seq /\ now' = now
        /\ charged' = charged /\ pong' = pong
        /\ arrived' = [arrived EXCEPT ![seq] = now]
        /\ arrived \in [1 .. Frames -> Nat]
    BY <1>2 DEF RecordArrival, TypeOK
  <2>2. SUFFICES ASSUME NEW s \in 1 .. Frames
                 PROVE  /\ SlotExact(s)'
                        /\ ~Recorded(s)' => charged'[s] = 0
                        /\ (charged[s] <= Late(s, now))'
    BY <2>1 DEF ChargesExact
  <2>3. Recorded(s) => Recorded(s)' /\ s # seq
    BY <1>0, <2>1 DEF Recorded
  <2>4. /\ SlotExact(s)
        /\ ~Recorded(s) => charged[s] = 0
        /\ charged[s] <= Late(s, now)
    BY DEF ChargesExact
  <2>5. s # seq => arrived'[s] = arrived[s]
    BY <2>1
  <2>6. (charged[s] <= Late(s, now))'
    <3>1. CASE s = seq
      <4>1. charged'[s] = 0
        BY <3>1, <2>1, <2>4, <1>0 DEF Recorded
      <4>2. (Late(s, now))' >= 0
        BY <2>1, <1>0, <3>1 DEF Late
      <4>. QED
        BY <4>1, <4>2
    <3>2. CASE s # seq
      BY <3>2, <2>1, <2>4, <2>5 DEF Late
    <3>. QED
      BY <3>1, <3>2
  <2>7. SlotExact(s)'
    <3>1. SUFFICES ASSUME Holds(s)' PROVE SlotExact(s)'
      BY DEF SlotExact
    <3>2. CASE poisoned
      <4>1. ring' = ring
        BY <1>2, <3>2 DEF RecordArrival
      <4>2. Holds(s) /\ SlotOf(s)' = SlotOf(s)
        BY <3>1, <4>1 DEF Holds, SlotOf
      <4>3. s # seq
        BY <2>3, <2>4, <4>2 DEF SlotExact
      <4>4. Ponged(SlotOf(s))' = Ponged(SlotOf(s))
        BY <4>2 DEF Ponged
      <4>. QED
        BY <4>2, <4>3, <4>4, <2>1, <2>3, <2>4, <2>5 DEF SlotExact
    <3>3. CASE ~poisoned
      <4>1. ring' = update_arrival(ring, seq, now)
        BY <1>2, <3>3 DEF RecordArrival
      <4>2. Index(seq) \in 0 .. max_length - 1 /\ Index(s) \in 0 .. max_length - 1
        BY <1>0, IndexRange
      <4>3. CASE Index(s) = Index(seq)
        <5>1. SlotOf(s)' = [seq |-> seq, arrival_time |-> now,
                            last_outage_time |-> now + target_rtt,
                            pong_time |-> None]
          BY <1>0, <4>1, <4>2, <4>3 DEF update_arrival, SlotOf, Ring
        <5>2. s = seq
          BY <3>1, <5>1 DEF Holds
        <5>3. charged'[s] = 0 /\ arrived'[s] = now
          BY <5>2, <2>1, <2>4 DEF Recorded
        <5>4. Recorded(s)'
          BY <5>2, <2>1, <1>0 DEF Recorded
        <5>5. ~Ponged(SlotOf(s))'
          BY <5>1 DEF Ponged
        <5>6. SlotOf(s)'.last_outage_time = arrived'[s] + target_rtt + charged'[s]
          BY <5>1, <5>3, <1>0
        <5>. QED
          BY <5>4, <5>5, <5>6 DEF SlotExact
      <4>4. CASE Index(s) # Index(seq)
        <5>1. SlotOf(s)' = SlotOf(s)
          BY <1>0, <4>1, <4>2, <4>4 DEF update_arrival, SlotOf, Ring
        <5>2. Holds(s)
          BY <3>1, <5>1 DEF Holds
        <5>3. Ponged(SlotOf(s))' = Ponged(SlotOf(s))
          BY <5>1 DEF Ponged
        <5>4. s # seq
          BY <4>4
        <5>. QED
          BY <5>1, <5>2, <5>3, <5>4, <2>1, <2>3, <2>4, <2>5 DEF SlotExact
      <4>. QED
        BY <4>3, <4>4
    <3>. QED
      BY <3>2, <3>3
  <2>8. ~Recorded(s)' => charged'[s] = 0
    BY <2>1, <2>3, <2>4
  <2>. QED
    BY <2>6, <2>7, <2>8
<1>3. ASSUME NEW f \in 1 .. Frames, SendFrame(f) PROVE ChargesExact'
  BY <1>0, <1>3, ChargesFrame
     DEF SendFrame, Network!SendFrame, Recorded, ChargesExact
<1>4. CASE LeaveQueue
  <2>1. \A s \in 1 .. Frames : Recorded(s) => Recorded(s)'
    BY <1>4 DEF LeaveQueue, Recorded
  <2>. QED
    BY <1>0, <1>4, <2>1, ChargesFrame DEF LeaveQueue, ChargesExact
<1>5. ASSUME NEW f \in 1 .. Frames, ReceivePong(f) PROVE ChargesExact'
  BY <1>0, <1>5, ChargesFrame
     DEF ReceivePong, Network!Answer, Recorded, ChargesExact
<1>6. CASE RecordPong
  <2>1. pong # None /\ pong' = None /\ pong.seq \in 1 .. Frames
        /\ pong.time \in Nat /\ pong.time <= now
    BY <1>6 DEF RecordPong, TypeOK, Pong, ChargesExact
  <2>2. UNCHANGED <<pc, seq, now, arrived, charged>>
    BY <1>6 DEF RecordPong
  <2>3. CASE ~Updatable(ring, pong.seq)
    BY <1>0, <1>6, <2>1, <2>2, <2>3, ChargesFrame DEF RecordPong, Recorded
  <2>4. CASE Updatable(ring, pong.seq)
    <3>1. ring' = update(ring, pong.seq, pong.time)
      BY <1>6, <2>4 DEF RecordPong
    <3>2. SUFFICES ASSUME NEW s \in 1 .. Frames PROVE SlotExact(s)'
      BY <2>1, <2>2 DEF ChargesExact, Recorded, Late
    <3>3. SUFFICES ASSUME Holds(s)' PROVE SlotExact(s)'
      BY DEF SlotExact
    <3>4. SlotExact(s)
      BY DEF ChargesExact
    <3>5. Index(s) \in 0 .. max_length - 1 /\ Index(pong.seq) \in 0 .. max_length - 1
      BY <2>1, IndexRange
    <3>6. CASE Index(s) # Index(pong.seq)
      <4>1. SlotOf(s)' = SlotOf(s)
        BY <1>0, <3>1, <3>5, <3>6 DEF update, SlotOf, Ring
      <4>2. Holds(s) /\ Ponged(SlotOf(s))' = Ponged(SlotOf(s))
        BY <3>3, <4>1 DEF Holds, Ponged
      <4>. QED
        BY <4>1, <4>2, <3>4, <2>2 DEF SlotExact, Recorded
    <3>7. CASE Index(s) = Index(pong.seq)
      <4>1. SlotOf(s) # None
        BY <2>4, <3>7 DEF Updatable, SlotOf
      <4>2. SlotOf(s) \in RTTEntry
        BY <1>0, <3>5, <4>1 DEF SlotOf, Ring
      <4>3. SlotOf(s)' = [SlotOf(s) EXCEPT !.pong_time = pong.time]
        BY <1>0, <3>1, <3>5, <3>7 DEF update, SlotOf, Ring
      <4>4. /\ SlotOf(s)'.seq = SlotOf(s).seq
            /\ SlotOf(s)'.last_outage_time = SlotOf(s).last_outage_time
            /\ SlotOf(s)'.pong_time = pong.time
        BY <4>2, <4>3 DEF RTTEntry
      <4>5. Holds(s)
        BY <3>3, <4>1, <4>4 DEF Holds
      <4>. QED
        BY <4>4, <4>5, <3>4, <2>1, <2>2 DEF SlotExact, Recorded
    <3>. QED
      BY <3>6, <3>7
  <2>. QED
    BY <2>3, <2>4
<1>7. CASE PongSocketFails
  BY <1>0, <1>7, ChargesFrame DEF PongSocketFails, Recorded, ChargesExact
<1>8. CASE Statistic
  <2>1. /\ ring' = statistic(ring, now)
        /\ UNCHANGED <<pc, seq, now, arrived, pong>>
    BY <1>8 DEF Statistic
  <2>2. SUFFICES ASSUME NEW s \in 1 .. Frames
                 PROVE  /\ SlotExact(s)'
                        /\ ~Recorded(s)' => charged'[s] = 0
                        /\ (charged[s] <= Late(s, now))'
    BY <2>1 DEF ChargesExact
  <2>3. charged'[s] =
          charged[s] + (IF Holds(s) THEN Outage(SlotOf(s), now) ELSE 0)
    BY <1>8 DEF Statistic
  <2>4. /\ SlotExact(s)
        /\ ~Recorded(s) => charged[s] = 0
        /\ charged[s] <= Late(s, now)
    BY DEF ChargesExact
  <2>5. Recorded(s)' = Recorded(s)
    BY <2>1 DEF Recorded
  <2>6. (Late(s, now))' = Late(s, now)
    BY <2>1 DEF Late
  <2>7. SlotOf(s)' = IF SlotOf(s) = None THEN None ELSE Swept(SlotOf(s), now)
    BY <2>1, IndexRange DEF statistic, SlotOf
  <2>8. SlotOf(s) # None => SlotOf(s) \in RTTEntry
    BY <1>0, IndexRange DEF SlotOf, Ring
  <2>9. CASE ~Holds(s)
    <3>1. ~Holds(s)'
      BY <2>7, <2>8, <2>9 DEF Holds, Swept, RTTEntry
    <3>2. charged'[s] = charged[s]
      BY <1>0, <2>3, <2>9
    <3>. QED
      BY <2>4, <2>5, <2>6, <3>1, <3>2 DEF SlotExact
  <2>10. CASE Holds(s)
    <3> DEFINE e == SlotOf(s)
    <3>1. e \in RTTEntry
      BY <2>8, <2>10 DEF Holds
    <3>2. /\ Recorded(s)
          /\ e.last_outage_time = arrived[s] + target_rtt + charged[s]
          /\ Ponged(e) => e.pong_time <= now
      BY <2>4, <2>10 DEF SlotExact
    <3>3. Outage(e, now) \in Nat
      BY <1>0, <3>1, SweptType
    <3>4. charged'[s] = charged[s] + Outage(e, now)
      BY <2>3, <2>10
    <3>5. charged[s] + Outage(e, now) <= Late(s, now)
      <4>1. CASE Ponged(e)
        <5>1. e.pong_time \in Nat
          BY <3>1, <4>1 DEF RTTEntry, Ponged
        <5>. QED
          BY <1>0, <2>4, <3>2, <4>1, <5>1 DEF Outage, Late
      <4>2. CASE ~Ponged(e)
        BY <1>0, <2>4, <3>2, <4>2 DEF Outage, Late
      <4>. QED
        BY <4>1, <4>2
    <3>6. SlotExact(s)'
      <4>1. CASE Ponged(e)
        <5>1. SlotOf(s)' = None
          BY <2>7, <4>1 DEF Swept
        <5>. QED
          BY <5>1 DEF SlotExact, Holds
      <4>2. CASE ~Ponged(e)
        <5>1. SlotOf(s)' =
                [e EXCEPT !.last_outage_time =
                   e.last_outage_time + Outage(e, now)]
          BY <2>7, <2>10, <4>2 DEF Swept, Holds
        <5>2. /\ SlotOf(s)'.last_outage_time =
                   e.last_outage_time + Outage(e, now)
              /\ SlotOf(s)'.pong_time = e.pong_time
          BY <3>1, <5>1 DEF RTTEntry
        <5>3. ~Ponged(SlotOf(s))'
          BY <4>2, <5>2 DEF Ponged
        <5>4. SlotOf(s)'.last_outage_time =
                arrived'[s] + target_rtt + charged'[s]
          BY <1>0, <2>1, <3>2, <3>3, <3>4, <5>2
        <5>. QED
          BY <2>5, <3>2, <5>3, <5>4 DEF SlotExact
      <4>. QED
        BY <4>1, <4>2
    <3>. QED
      BY <2>5, <2>6, <3>2, <3>4, <3>5, <3>6
  <2>. QED
    BY <2>9, <2>10
<1>9. CASE Tick
  BY <1>0, <1>9, ChargesFrame DEF Tick, Recorded, ChargesExact, TypeOK, Pong
<1>10. CASE UNCHANGED vars
  BY <1>0, <1>10, ChargesFrame DEF vars, Recorded, ChargesExact
<1>. QED
  BY <1>1, <1>2, <1>3, <1>4, <1>5, <1>6, <1>7, <1>8, <1>9, <1>10 DEF Next

\* The charges are exact in every state.
LEMMA ChargesInvariant == Spec => [](TypeOK /\ ChargesExact)
<1>1. Init => TypeOK /\ ChargesExact
  BY InitType, InitCharges
<1>2. TypeOK /\ ChargesExact /\ [Next]_vars => TypeOK' /\ ChargesExact'
  BY StepType, StepCharges
<1>. QED
  BY <1>1, <1>2, PTL DEF Spec

\* However the polls, the answers and the clock interleave, and whatever the
\* network repeats, no frame is charged more than the time since its target
\* round trip.
THEOREM ChargedOnce == Spec => []OutageChargedOnce
BY ChargesInvariant, ChargesOnce, PTL

\* A poll charges an answered frame what is left until its answer.
LEMMA StepComplete ==
  ASSUME TypeOK, ChargesExact, Statistic, NEW s \in 1 .. Frames,
         Holds(s), Ponged(SlotOf(s))
  PROVE  charged'[s] >= Late(s, SlotOf(s).pong_time)
<1> DEFINE e == SlotOf(s)
<1>1. charged'[s] = charged[s] + Outage(e, now)
  BY DEF Statistic
<1>2. e \in RTTEntry
  BY IndexRange DEF Holds, SlotOf, TypeOK, Ring
<1>3. e.pong_time \in Nat
  BY <1>2 DEF RTTEntry, Ponged
<1>4. e.last_outage_time = arrived[s] + target_rtt + charged[s]
  BY DEF ChargesExact, SlotExact
<1>5. /\ arrived[s] \in Nat /\ charged[s] \in Nat /\ target_rtt \in Nat
      /\ now \in Nat
  BY RingAssumption DEF TypeOK
<1>. QED
  BY <1>1, <1>3, <1>4, <1>5 DEF Outage, Late

\* When an answered frame leaves the ring, it has been charged all the time
\* from its target round trip to its answer, however the answer, its record
\* and the polls were ordered.
THEOREM ChargedInFull == Spec => OutageComplete
<1>1. TypeOK /\ ChargesExact =>
        [Statistic =>
           \A s \in 1 .. Frames :
             Collected(s) => charged'[s] >= Late(s, SlotOf(s).pong_time)]_vars
  BY StepComplete DEF Collected
<1>. QED
  BY <1>1, ChargesInvariant, PTL DEF OutageComplete

-----------------------------------------------------------------------------
(* The pong thread does not panic *)

\* One answer per frame, before its slot is reused.
Timeliness == MaxCopies <= 1 /\ MaxLag < max_length

\* The pong of frame s may still come: its slot must not be given away.
Awaited(s) ==
  /\ Recorded(s)
  /\ seq - s < max_length
  /\ answers[s] = 0 \/ (pong # None /\ pong.seq = s)

SlotKept(s) == Awaited(s) => Holds(s) /\ ~Ponged(SlotOf(s))

SlotsKept ==
  /\ ~poisoned
  /\ \A s \in sent : Recorded(s)
  /\ \A s \in 1 .. Frames : SlotKept(s)
  /\ pong # None => /\ pong.seq \in sent
                    /\ answers[pong.seq] > 0
                    /\ Timely(pong.seq, seq)

\* At first no frame is awaited.
LEMMA InitSlots == Init => SlotsKept
<1>. SUFFICES ASSUME Init PROVE SlotsKept
  OBVIOUS
<1>1. \A s \in 1 .. Frames : ~Recorded(s)
  BY DEF Init, Recorded
<1>. QED
  BY <1>1 DEF Init, SlotsKept, SlotKept, Awaited

\* A step that leaves the ring alone and after which no frame is newly awaited.
LEMMA SlotsFrame ==
  ASSUME SlotsKept, UNCHANGED <<ring, poisoned>>,
         \A s \in 1 .. Frames : Awaited(s)' => Awaited(s)
  PROVE  \A s \in 1 .. Frames : SlotKept(s)'
BY DEF SlotsKept, SlotKept, Holds, SlotOf, Ponged

\* The slot of an awaited frame is overwritten, swept and marked only when it
\* is no longer awaited.
LEMMA StepSlots ==
  ASSUME Timeliness, TypeOK, TypeOK', SlotsKept, [Next]_vars
  PROVE  SlotsKept'
<1>0. /\ seq \in Nat /\ now \in Nat /\ ring \in Ring /\ ~poisoned
      /\ max_length \in Nat \ {0}
      /\ MaxLag \in Nat /\ MaxLag < max_length
      /\ pc \in {"frame", "arrival", "queue"}
      /\ sent \subseteq 1 .. Frames
      /\ answers \in [1 .. Frames -> Nat]
      /\ 1 .. Frames \subseteq Nat
  BY RingAssumption, PathAssumption DEF TypeOK, Timeliness, SlotsKept
<1>1. CASE NextFrame
  <2>1. /\ pc = "frame" /\ pc' = "arrival" /\ seq' = seq + 1
        /\ UNCHANGED <<ring, poisoned, sent, answers, pong>>
        /\ pong # None => Timely(pong.seq, seq + 1)
    BY <1>1 DEF NextFrame
  <2>2. \A s \in 1 .. Frames : Awaited(s)' => Awaited(s)
    BY <1>0, <2>1 DEF Awaited, Recorded
  <2>3. \A s \in sent : Recorded(s)'
    BY <1>0, <2>1 DEF SlotsKept, Recorded
  <2>4. \A s \in 1 .. Frames : SlotKept(s)'
    BY <2>1, <2>2, SlotsFrame
  <2>. QED
    BY <2>1, <2>3, <2>4 DEF SlotsKept, Timely
<1>2. CASE RecordArrival
  <2>1. /\ pc = "arrival" /\ pc' = "queue"
        /\ UNCHANGED <<poisoned, seq, sent, answers, pong>>
        /\ ring' = update_arrival(ring, seq, now)
    BY <1>0, <1>2 DEF RecordArrival
  <2>2. \A s \in sent : Recorded(s)'
    BY <2>1 DEF SlotsKept, Recorded
  <2>3. ASSUME NEW s \in 1 .. Frames, Awaited(s)'
        PROVE  (Holds(s) /\ ~Ponged(SlotOf(s)))'
    <3>1. /\ Index(s) \in 0 .. max_length - 1
          /\ Index(seq) \in 0 .. max_length - 1
      BY <1>0, IndexRange
    <3>2. CASE s = seq
      <4>1. SlotOf(s)' = [seq |-> seq, arrival_time |-> now,
                          last_outage_time |-> now + target_rtt,
                          pong_time |-> None]
        BY <1>0, <2>1, <3>1, <3>2 DEF update_arrival, SlotOf, Ring
      <4>2. [seq |-> seq, arrival_time |-> now,
             last_outage_time |-> now + target_rtt, pong_time |-> None]
              \in RTTEntry
        BY <1>0, RingAssumption DEF RTTEntry
      <4>3. SlotOf(s)' # None
        BY <4>1, <4>2, SlotAssumption
      <4>. QED
        BY <3>2, <4>1, <4>3 DEF Holds, Ponged
    <3>3. CASE s # seq
      <4>1. s < seq /\ seq - s < max_length
        BY <1>0, <2>1, <2>3, <3>3 DEF Awaited, Recorded
      <4>2. Index(s) # Index(seq)
        BY <1>0, <4>1, ModDistinct DEF Index
      <4>3. SlotOf(s)' = SlotOf(s)
        BY <1>0, <2>1, <3>1, <4>2 DEF update_arrival, SlotOf, Ring
      <4>4. Awaited(s)
        BY <2>1, <2>3, <3>3 DEF Awaited, Recorded
      <4>. QED
        BY <4>3, <4>4 DEF SlotsKept, SlotKept, Holds, Ponged
    <3>. QED
      BY <3>2, <3>3
  <2>4. \A s \in 1 .. Frames : SlotKept(s)'
    BY <2>3 DEF SlotKept
  <2>. QED
    BY <2>1, <2>2, <2>4 DEF SlotsKept, Timely
<1>3. ASSUME NEW f \in 1 .. Frames, SendFrame(f) PROVE SlotsKept'
  <2>1. /\ pc = "queue" /\ f <= seq /\ sent' = sent \cup {f}
        /\ UNCHANGED <<ring, poisoned, pc, seq, answers, pong>>
    BY <1>3 DEF SendFrame, Network!SendFrame
  <2>2. \A s \in 1 .. Frames : SlotKept(s)'
    BY <2>1, SlotsFrame DEF Awaited, Recorded
  <2>3. \A s \in sent' : Recorded(s)'
    BY <2>1 DEF SlotsKept, Recorded
  <2>. QED
    BY <2>1, <2>2, <2>3 DEF SlotsKept, Timely
<1>4. CASE LeaveQueue
  <2>1. /\ pc = "queue" /\ pc' = "frame"
        /\ UNCHANGED <<ring, poisoned, seq, sent, answers, pong>>
    BY <1>4 DEF LeaveQueue
  <2>2. \A s \in 1 .. Frames : SlotKept(s)'
    BY <2>1, SlotsFrame DEF Awaited, Recorded
  <2>. QED
    BY <2>1, <2>2 DEF SlotsKept, Recorded, Timely
<1>5. ASSUME NEW f \in 1 .. Frames, ReceivePong(f) PROVE SlotsKept'
  <2>1. /\ pong = None /\ f \in sent /\ answers[f] < MaxCopies
        /\ Timely(f, seq)
        /\ answers' = [answers EXCEPT ![f] = @ + 1]
        /\ pong' = [seq |-> f, time |-> now]
        /\ UNCHANGED <<ring, poisoned, pc, seq, sent>>
    BY <1>5 DEF ReceivePong, Network!Answer
  <2>2. answers[f] = 0
    <3>1. MaxCopies \in Nat /\ MaxCopies <= 1 /\ answers[f] \in Nat
      BY <1>0, PathAssumption DEF Timeliness
    <3>. QED
      BY <2>1, <3>1
  <2>3. \A s \in 1 .. Frames : Awaited(s)' => Awaited(s)
    BY <1>0, <2>1, <2>2 DEF Awaited, Recorded
  <2>4. \A s \in 1 .. Frames : SlotKept(s)'
    BY <2>1, <2>3, SlotsFrame
  <2>5. pong'.seq \in sent' /\ answers'[pong'.seq] > 0 /\ Timely(pong'.seq, seq')
    BY <1>0, <2>1, <2>2 DEF Timely
  <2>. QED
    BY <2>1, <2>4, <2>5 DEF SlotsKept, Recorded, Timely
<1>6. CASE RecordPong
  <2>1. /\ pong # None /\ pong' = None /\ pong \in Pong
        /\ UNCHANGED <<pc, seq, sent, answers>>
    BY <1>6 DEF RecordPong, TypeOK
  <2>2. /\ pong.seq \in 1 .. Frames /\ pong.time \in Nat
    BY <2>1 DEF Pong
  <2>3. Awaited(pong.seq)
    BY <1>0, <2>1, <2>2 DEF SlotsKept, Awaited, Timely
  <2>4. Holds(pong.seq)
    BY <2>2, <2>3 DEF SlotsKept, SlotKept
  <2>5. Updatable(ring, pong.seq)
    BY <2>4 DEF Updatable, Holds, SlotOf
  <2>6. ring' = update(ring, pong.seq, pong.time) /\ poisoned' = poisoned
    BY <1>6, <2>5 DEF RecordPong
  <2>7. ASSUME NEW s \in 1 .. Frames, Awaited(s)'
        PROVE  (Holds(s) /\ ~Ponged(SlotOf(s)))'
    <3>1. answers[s] = 0 /\ Awaited(s)
      BY <2>1, <2>7 DEF Awaited, Recorded
    <3>2. s # pong.seq
      BY <1>0, <2>1, <2>2, <3>1 DEF SlotsKept
    <3>3. Holds(s) /\ ~Ponged(SlotOf(s))
      BY <3>1 DEF SlotsKept, SlotKept
    <3>4. Index(s) # Index(pong.seq)
      BY <2>4, <3>2, <3>3 DEF Holds, SlotOf
    <3>5. /\ Index(s) \in 0 .. max_length - 1
          /\ Index(pong.seq) \in 0 .. max_length - 1
      BY <2>2, IndexRange
    <3>6. SlotOf(s)' = SlotOf(s)
      BY <1>0, <2>6, <3>4, <3>5 DEF update, SlotOf, Ring
    <3>. QED
      BY <3>3, <3>6 DEF Holds, Ponged
  <2>8. \A s \in 1 .. Frames : SlotKept(s)'
    BY <2>7 DEF SlotKept
  <2>. QED
    BY <2>1, <2>6, <2>8 DEF SlotsKept, Recorded
<1>7. CASE PongSocketFails
  <2>1. UNCHANGED <<ring, poisoned, pc, seq, sent, answers, pong>>
    BY <1>7 DEF PongSocketFails
  <2>2. \A s \in 1 .. Frames : SlotKept(s)'
    BY <2>1, SlotsFrame DEF Awaited, Recorded
  <2>. QED
    BY <2>1, <2>2 DEF SlotsKept, Recorded, Timely
<1>8. CASE Statistic
  <2>1. /\ ring' = statistic(ring, now)
        /\ UNCHANGED <<poisoned, pc, seq, sent, answers, pong>>
    BY <1>8 DEF Statistic
  <2>2. ASSUME NEW s \in 1 .. Frames, Awaited(s)'
        PROVE  (Holds(s) /\ ~Ponged(SlotOf(s)))'
    <3>1. Holds(s) /\ ~Ponged(SlotOf(s))
      BY <2>1, <2>2 DEF Awaited, Recorded, SlotsKept, SlotKept
    <3>2. SlotOf(s) \in RTTEntry
      BY <1>0, <3>1, IndexRange DEF Holds, SlotOf, Ring
    <3>3. SlotOf(s)' = Swept(SlotOf(s), now)
      BY <2>1, <3>1, IndexRange DEF statistic, SlotOf, Holds
    <3>4. SlotOf(s)' = [SlotOf(s) EXCEPT !.last_outage_time =
                          SlotOf(s).last_outage_time + Outage(SlotOf(s), now)]
      BY <3>1, <3>3 DEF Swept
    <3>5. SlotOf(s)'.seq = SlotOf(s).seq
          /\ SlotOf(s)'.pong_time = SlotOf(s).pong_time
      BY <3>2, <3>4 DEF RTTEntry
    <3>6. SlotOf(s)' \in RTTEntry
      <4>1. Outage(SlotOf(s), now) \in Nat
        BY <1>0, <3>2, SweptType
      <4>. QED
        BY <3>2, <3>4, <4>1 DEF RTTEntry
    <3>7. SlotOf(s)' # None
      BY <3>6, SlotAssumption
    <3>. QED
      BY <3>1, <3>5, <3>7 DEF Holds, Ponged
  <2>3. \A s \in 1 .. Frames : SlotKept(s)'
    BY <2>2 DEF SlotKept
  <2>. QED
    BY <2>1, <2>3 DEF SlotsKept, Recorded, Timely
<1>9. CASE Tick
  <2>1. UNCHANGED <<ring, poisoned, pc, seq, sent, answers, pong>>
    BY <1>9 DEF Tick
  <2>2. \A s \in 1 .. Frames : SlotKept(s)'
    BY <2>1, SlotsFrame DEF Awaited, Recorded
  <2>. QED
    BY <2>1, <2>2 DEF SlotsKept, Recorded, Timely
<1>10. CASE UNCHANGED vars
  <2>1. UNCHANGED <<ring, poisoned, pc, seq, sent, answers, pong>>
    BY <1>10 DEF vars
  <2>2. \A s \in 1 .. Frames : SlotKept(s)'
    BY <2>1, SlotsFrame DEF Awaited, Recorded
  <2>. QED
    BY <2>1, <2>2 DEF SlotsKept, Recorded, Timely
<1>. QED
  BY <1>1, <1>2, <1>3, <1>4, <1>5, <1>6, <1>7, <1>8, <1>9, <1>10 DEF Next

\* The panic!()s of RttRecords::update are unreachable if a frame is answered
\* at most once and within max_length - 1 frames.
THEOREM PongThreadSurvives == ASSUME Timeliness PROVE Spec => []NoPanic
<1>1. Init => TypeOK /\ SlotsKept
  BY InitType, InitSlots
<1>2. TypeOK /\ SlotsKept /\ [Next]_vars => TypeOK' /\ SlotsKept'
  BY StepType, StepSlots
<1>3. SlotsKept => NoPanic
  BY DEF SlotsKept, NoPanic
<1>. QED
  BY <1>1, <1>2, <1>3, PTL DEF Spec
=============================================================================
