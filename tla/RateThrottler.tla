--------------------------- MODULE RateThrottler ---------------------------
(***************************************************************************)
(* The RateThrottler of tx/src/throttle.rs as operators on a record that   *)
(* has the fields of the struct: the bounded packet buffer, the sliding    *)
(* window of charged bytes, and the cached measurement of the rate.        *)
(*                                                                         *)
(* Time.  The code stores the instant of every window entry and subtracts  *)
(* it from the clock; here an entry stores its age in ticks.  A rate is    *)
(* the pair (bytes, age) the code divides; comparing it with a throttle T  *)
(* is bytes < T * age, which also gives the answers of the f64 division    *)
(* by zero (infinity and NaN are never below a throttle).                  *)
(***************************************************************************)
EXTENDS Packets

CONSTANTS
  window_size,     \* manifest.window_size
  CYCLED_RATIO,    \* buffer capacity over window size (50)
  MAX_ERR_DIV,     \* 1 / MAX_ERR_RATIO (100)
  UDP_MAX_LENGTH,  \* bytes of a full datagram (1472)
  MaxAge           \* ages stop growing here; see AgeAssumption in Throttle

ASSUME ThrottlerAssumption ==
  /\ window_size \in Nat
  /\ CYCLED_RATIO \in Nat \ {0}
  /\ MAX_ERR_DIV \in Nat \ {0}
  /\ UDP_MAX_LENGTH \in Nat
  /\ MaxAge \in Nat \ {0}

WindowEntry == [age : Nat, size : Nat]
Rate        == [bytes : Int, age : Nat]

BufferSize == CYCLED_RATIO * window_size

\* A CycledVecDequeue of size zero never fills up.
Full(fifo, size) == size > 0 /\ Len(fifo) = size

Throttler ==
  [window : Seq(WindowEntry), buffer : Seq(Packet), sum_bytes : Int,
   acc_error : Nat, max_error : Nat, frame_count : Int, throttle : Nat,
   last_rate : Rate]

\* The bounds that push and try_push keep.
WindowBounded(t) == Len(t.window) < window_size \/ window_size = 0

BufferBounded(fifo) == Len(fifo) <= BufferSize \/ BufferSize = 0

RateThrottler_new(throttle) ==
  [window |-> <<>>, buffer |-> <<>>, sum_bytes |-> 0, acc_error |-> 0,
   max_error |-> (window_size \div MAX_ERR_DIV) * UDP_MAX_LENGTH,
   frame_count |-> 0, throttle |-> throttle,
   last_rate |-> [bytes |-> 0, age |-> 1]]

\* reset() clears neither the throttle nor the frame count.
reset(t) ==
  [window |-> <<>>, buffer |-> <<>>, sum_bytes |-> 0, acc_error |-> 0,
   max_error |-> 0, frame_count |-> t.frame_count, throttle |-> t.throttle,
   last_rate |-> [bytes |-> 0, age |-> 1]]

-----------------------------------------------------------------------------
(* Measuring and charging *)

Below(rate, throttle) == rate.bytes < throttle * rate.age

\* The cached rate is good enough while acc_error is below max_error.
MeasurementCached(t) == t.acc_error < t.max_error

\* With an empty window the code has cleared acc_error and returns None.
current_rate_mbps(t, extra_bytes) ==
  IF MeasurementCached(t) THEN t
  ELSE IF t.window = <<>> THEN [t EXCEPT !.acc_error = 0]
  ELSE [t EXCEPT !.acc_error = 0,
                 !.last_rate = [bytes |-> t.sum_bytes + extra_bytes,
                                age |-> Head(t.window).age]]

\* Mutants of charge: the retired entry is not subtracted; it is not retired.
charge_KeepsSum(t, size) ==
  LET grown == Append(t.window, [age |-> 0, size |-> size])
  IN  [t EXCEPT !.window = IF Full(grown, window_size) THEN Tail(grown)
                           ELSE grown,
                !.sum_bytes = @ + size]

charge_NeverRetires(t, size) ==
  [t EXCEPT !.window = Append(@, [age |-> 0, size |-> size]),
            !.sum_bytes = @ + size]

\* window.push(..): the entry is appended first and, if that fills the
\* window, the oldest one is retired; so a window holds one entry fewer
\* than its size.
charge(t, size) ==
  LET grown == Append(t.window, [age |-> 0, size |-> size])
      old   == Head(grown).size
  IN  IF Full(grown, window_size)
      THEN [t EXCEPT !.window = Tail(grown),
                     !.sum_bytes = @ + size - old,
                     !.acc_error = @ + old]
      ELSE [t EXCEPT !.window = grown,
                     !.sum_bytes = @ + size]

\* exceeds_with charges at once when there is no throttle or no history.
Exempt(t) == t.throttle = 0 \/ t.window = <<>>

\* Mutants of measure: the packet is left out of the error, or of the rate.
measure_NoError(t, size) == current_rate_mbps(t, size)

measure_NoExtraBytes(t, size) ==
  current_rate_mbps([t EXCEPT !.acc_error = @ + size], 0)

measure(t, size) ==
  current_rate_mbps([t EXCEPT !.acc_error = @ + size], size)

Exceeds(t, size) ==
  /\ ~Exempt(t)
  /\ ~Below(measure(t, size).last_rate, t.throttle)

exceeds_with(t, size) ==
  IF Exempt(t) THEN charge(t, size)
  ELSE IF Exceeds(t, size) THEN measure(t, size)
  ELSE charge(measure(t, size), size)

-----------------------------------------------------------------------------
(* The buffer *)

\* Mutants of Accepted: one place is enough for a frame; the last place of
\* the buffer is never used.
Accepted_WholeFrame(fifo, n) == IF Full(fifo, BufferSize) THEN 0 ELSE n

Accepted_OneShort(fifo, n) ==
  IF BufferSize = 0 \/ Len(fifo) + n < BufferSize
  THEN n
  ELSE BufferSize - 1 - Len(fifo)

\* How many of n packets try_push accepts: once the buffer is full the rest
\* of the frame is dropped, since prepare holds the lock throughout.
Accepted(fifo, n) ==
  IF BufferSize = 0 \/ Len(fifo) + n <= BufferSize
  THEN n
  ELSE BufferSize - Len(fifo)

\* A mutant of try_push_all: room is made by dropping the oldest packets.
try_push_all_DropsOldest(fifo, packets) ==
  LET all  == fifo \o packets
      over == Len(all) - BufferSize
  IN  IF over > 0 THEN SubSeq(all, over + 1, Len(all)) ELSE all

try_push_all(fifo, packets) ==
  fifo \o SubSeq(packets, 1, Accepted(fifo, Len(packets)))

prepare(t, packets) ==
  LET m == current_rate_mbps(t, 0)
  IN  [m EXCEPT !.buffer = try_push_all(t.buffer, packets),
                !.frame_count = @ + 1]

\* A mutant of uncount: every packet takes a frame out of the count.
uncount_EveryPacket(t, packet) == [t EXCEPT !.frame_count = @ - 1]

\* The last packet of a frame takes the frame out of the count.
uncount(t, packet) ==
  [t EXCEPT !.frame_count = @ - (IF packet.last_one THEN 1 ELSE 0)]

consume(t) ==
  LET m == current_rate_mbps(t, 0)
  IN  [m EXCEPT !.buffer = Tail(@)]

\* try_consume when exceeds_with lets the head packet through and the
\* callback has sent it; the charge was made before the callback ran.
try_consume_sent(t) ==
  LET packet == Head(t.buffer)
  IN  consume(uncount(exceeds_with(t, packet.length), packet))

\* One tick of the clock.
grow_older(entry) ==
  [entry EXCEPT !.age = IF entry.age < MaxAge THEN entry.age + 1 ELSE entry.age]

age_window(t) ==
  [t EXCEPT !.window = [i \in DOMAIN t.window |-> grow_older(t.window[i])]]
=============================================================================
