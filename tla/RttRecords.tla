----------------------------- MODULE RttRecords -----------------------------
(***************************************************************************)
(* The ring of round-trip records of tx/src/statistic/rtt_records.rs, as   *)
(* operators on the ring: a function from 0 .. max_length - 1 to slots.    *)
(* Times are ticks; `delta` is written and never read, and left out.       *)
(***************************************************************************)
EXTENDS Integers

CONSTANTS
  max_length,   \* slots of the ring (200)
  target_rtt,   \* params.target_rtt
  None          \* Option::None

ASSUME RingAssumption ==
  /\ max_length \in Nat \ {0}
  /\ target_rtt \in Nat
  /\ None \notin Nat

RTTEntry == [seq : Nat, arrival_time : Nat, last_outage_time : Nat,
             pong_time : Nat \cup {None}]

ASSUME SlotAssumption == None \notin RTTEntry

Ring == [0 .. max_length - 1 -> RTTEntry \cup {None}]

EmptyRing == [i \in 0 .. max_length - 1 |-> None]

\* A mutant of Index: one slot is never used.
Index_OneShort(seq) == seq % (max_length - 1)

Index(seq) == seq % max_length

\* A mutant of update_arrival: the outage clock starts before the arrival.
update_arrival_Early(ring, seq, time) ==
  [ring EXCEPT ![Index(seq)] =
     [seq |-> seq, arrival_time |-> time,
      last_outage_time |-> time - target_rtt, pong_time |-> None]]

\* Whatever the slot held is overwritten.
update_arrival(ring, seq, time) ==
  [ring EXCEPT ![Index(seq)] =
     [seq |-> seq, arrival_time |-> time,
      last_outage_time |-> time + target_rtt, pong_time |-> None]]

\* update() panics on an empty slot and on a slot of another frame.
Updatable(ring, seq) ==
  /\ ring[Index(seq)] # None
  /\ ring[Index(seq)].seq = seq

update(ring, seq, time) == [ring EXCEPT ![Index(seq)].pong_time = time]

-----------------------------------------------------------------------------
(* statistic(): what one slot is charged, and what becomes of it *)

Ponged(entry) == entry.pong_time # None

\* A mutant of Outage: late frames are charged from their arrival.
Outage_FromArrival(entry, time) ==
  LET until == IF Ponged(entry) THEN entry.pong_time ELSE time
  IN  IF until > entry.last_outage_time THEN until - entry.arrival_time ELSE 0

\* A mutant of Outage: only the frames that have been answered are charged.
Outage_OnlyWaiting(entry, time) ==
  IF ~Ponged(entry) /\ time > entry.last_outage_time
  THEN time - entry.last_outage_time
  ELSE 0

Outage(entry, time) ==
  LET until == IF Ponged(entry) THEN entry.pong_time ELSE time
  IN  IF until > entry.last_outage_time
      THEN until - entry.last_outage_time
      ELSE 0

\* An answered frame leaves the ring; one still waiting has been charged
\* until now.
Swept(entry, time) ==
  IF Ponged(entry) THEN None
  ELSE [entry EXCEPT !.last_outage_time = @ + Outage(entry, time)]

statistic(ring, time) ==
  [i \in 0 .. max_length - 1 |->
     IF ring[i] = None THEN None ELSE Swept(ring[i], time)]
=============================================================================
