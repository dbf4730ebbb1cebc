------------------------- MODULE RateThrottlerProofs -------------------------
(***************************************************************************)
(* What the operators of Packets and RateThrottler return, for every       *)
(* payload length, window size and buffer: the lemmas that the proofs      *)
(* about Throttle and LiveStream rest on.                                  *)
(***************************************************************************)
EXTENDS RateThrottler, SequenceTheorems, WellFoundedInduction, TLAPS

-----------------------------------------------------------------------------
(* Induction *)

\* A set of natural numbers that is not empty has a least element: the form
\* in which these proofs use induction.
LEMMA LeastElement ==
  ASSUME NEW T \in SUBSET Nat, T # {}
  PROVE  \E m \in T : \A n \in T : m <= n
<1> DEFINE R == OpToRel(<, Nat)
<1>1. \A x, y \in Nat : <<x, y>> \in R <=> x < y
  BY DEF OpToRel
<1>2. IsWellFoundedOn(R, Nat)
  BY NatLessThanWellFounded
<1> HIDE DEF R
<1>3. PICK m \in T : \A n \in T : <<n, m>> \notin R
  BY <1>2, WFMin
<1>4. \A n \in T : m \in Nat /\ n \in Nat /\ ~(n < m)
  BY <1>1, <1>3
<1> QED
  BY <1>4

-----------------------------------------------------------------------------
(* Packets *)

\* A frame is cut into a natural number of packets.
LEMMA PacketCountType ==
  ASSUME NEW size \in Nat
  PROVE  PacketCount(size) \in Nat
  BY PayloadAssumption DEF PacketCount

\* A payload length is a natural number.
LEMMA PayloadLengthType ==
  ASSUME NEW size \in Nat, NEW offset \in Nat
  PROVE  PayloadLength(size, offset) \in Nat
  BY PayloadAssumption DEF PayloadLength

\* The packets of a frame form a sequence of packets.
LEMMA GeneratePacketsType ==
  ASSUME NEW n \in Nat, NEW size \in Nat
  PROVE  /\ generate_packets(n, size) \in Seq(Packet)
         /\ Len(generate_packets(n, size)) = PacketCount(size)
<1>1. PacketCount(size) \in Nat
  BY PacketCountType
<1>2. \A i \in 1 .. PacketCount(size) : PayloadLength(size, i - 1) \in Nat
  <2> TAKE i \in 1 .. PacketCount(size)
  <2>1. i - 1 \in Nat
    BY <1>1
  <2> QED
    BY <2>1, PayloadLengthType
<1>3. \A i \in 1 .. PacketCount(size) :
        [seq |-> n, offset |-> i - 1,
         length |-> PayloadLength(size, i - 1),
         last_one |-> i = PacketCount(size)] \in Packet
  BY <1>1, <1>2 DEF Packet
<1>4. generate_packets(n, size) \in [1 .. PacketCount(size) -> Packet]
  BY <1>3 DEF generate_packets
<1> QED
  BY <1>1, <1>4

\* The packets of a frame are numbered from 0, and the last one is marked.
LEMMA GeneratePacketsFields ==
  ASSUME NEW n \in Nat, NEW size \in Nat, NEW i \in 1 .. PacketCount(size)
  PROVE  /\ generate_packets(n, size)[i].seq = n
         /\ generate_packets(n, size)[i].offset = i - 1
         /\ generate_packets(n, size)[i].last_one <=> i = PacketCount(size)
  BY DEF generate_packets

\* A frame that is not empty has a last packet, and all the others are full.
LEMMA LastOffset ==
  ASSUME NEW size \in Nat \ {0}
  PROVE  LET full == (PacketCount(size) - 1) * MAX_PAYLOAD_LEN
         IN  /\ PacketCount(size) \in Nat \ {0}
             /\ full \in Nat
             /\ size % MAX_PAYLOAD_LEN \in Nat
             /\ size % MAX_PAYLOAD_LEN > 0 =>
                  full + (size % MAX_PAYLOAD_LEN) = size
             /\ size % MAX_PAYLOAD_LEN = 0 => full = size - MAX_PAYLOAD_LEN
<1> DEFINE q == size \div MAX_PAYLOAD_LEN
           r == size % MAX_PAYLOAD_LEN
           M == MAX_PAYLOAD_LEN
<1>1. M \in Nat \ {0}
  BY PayloadAssumption
<1>2. q \in Nat /\ r \in Nat /\ size = M * q + r
  BY <1>1, SMTT(30)
<1>3. PacketCount(size) = q + (IF r > 0 THEN 1 ELSE 0)
  BY DEF PacketCount
<1> HIDE DEF q, r, M
<1>4. CASE r > 0
  <2>1. PacketCount(size) - 1 = q
    BY <1>2, <1>3, <1>4
  <2>2. q * M = M * q /\ M * q \in Nat
    BY <1>1, <1>2
  <2> QED
    BY <1>2, <1>3, <1>4, <2>1, <2>2 DEF M, r
<1>5. CASE r = 0
  <2>1. size = M * q /\ PacketCount(size) = q
    BY <1>1, <1>2, <1>3, <1>5
  <2>2. q # 0
    BY <1>1, <2>1
  <2>3. (q - 1) * M = M * q - M /\ (q - 1) * M \in Nat
    <3>1. q - 1 \in Nat
      BY <1>2, <2>2
    <3> QED
      BY <1>1, <1>2, <3>1, SMTT(30)
  <2> QED
    BY <1>2, <1>5, <2>1, <2>2, <2>3 DEF M, r
<1> QED
  BY <1>2, <1>4, <1>5

\* The packets of a frame carry its bytes, all of them: unless it is a whole
\* number of full packets, when the last packet is empty (source.rs:47) and
\* the bytes of one packet are lost.  total is the running sum of the payload.
THEOREM PayloadOfFrame ==
  ASSUME NEW n \in Nat, NEW size \in Nat \ {0}, NEW total, total[0] = 0,
         \A i \in 1 .. PacketCount(size) :
           total[i] = total[i - 1] + generate_packets(n, size)[i].length
  PROVE  total[PacketCount(size)] =
           IF size % MAX_PAYLOAD_LEN = 0 THEN size - MAX_PAYLOAD_LEN ELSE size
<1> DEFINE k == PacketCount(size)
           M == MAX_PAYLOAD_LEN
<1>1. k \in Nat \ {0} /\ M \in Nat \ {0}
  BY LastOffset, PayloadAssumption
<1>2. \A i \in 1 .. k :
        total[i] = total[i - 1]
                     + (IF i = k THEN size % MAX_PAYLOAD_LEN ELSE M)
  <2> TAKE i \in 1 .. k
  <2>1. generate_packets(n, size)[i].length =
          IF i - 1 = k - 1 THEN size % MAX_PAYLOAD_LEN ELSE M
    BY DEF generate_packets, PayloadLength
  <2>2. i - 1 = k - 1 <=> i = k
    BY <1>1
  <2> QED
    BY <2>1, <2>2
<1> HIDE DEF k, M
<1> DEFINE T == {i \in 0 .. k - 1 : total[i] # i * M}
<1>3. T = {}
  <2> SUFFICES ASSUME T # {} PROVE FALSE
    OBVIOUS
  <2>1. T \in SUBSET Nat
    BY <1>1
  <2>2. PICK m \in T : \A i \in T : m <= i
    BY <2>1, LeastElement
  <2>3. m \in Nat /\ m <= k - 1 /\ total[m] # m * M
    BY <1>1, <2>2
  <2>4. m # 0
    <3>1. 0 * M = 0
      BY <1>1
    <3> QED
      BY <2>3, <3>1
  <2>5. m - 1 \in 0 .. k - 1 /\ m \in 1 .. k /\ m # k /\ m - 1 \notin T
    BY <1>1, <2>2, <2>3, <2>4
  <2>6. total[m - 1] = (m - 1) * M
    BY <2>5
  <2>7. total[m] = (m - 1) * M + M
    BY <1>2, <2>5, <2>6
  <2>8. (m - 1) * M + M = m * M
    BY <1>1, <2>3, <2>4, SMTT(30)
  <2> QED
    BY <2>3, <2>7, <2>8
<1>4. total[k - 1] = (k - 1) * M
  BY <1>1, <1>3
<1>5. total[k] = (k - 1) * M + (size % MAX_PAYLOAD_LEN)
  BY <1>1, <1>2, <1>4
<1>6. /\ (k - 1) * M \in Nat
      /\ size % MAX_PAYLOAD_LEN \in Nat
      /\ size % MAX_PAYLOAD_LEN > 0 =>
           (k - 1) * M + (size % MAX_PAYLOAD_LEN) = size
      /\ size % MAX_PAYLOAD_LEN = 0 => (k - 1) * M = size - MAX_PAYLOAD_LEN
  BY LastOffset DEF k, M
<1>7. CASE size % MAX_PAYLOAD_LEN = 0
  BY <1>5, <1>6, <1>7 DEF k
<1>8. CASE size % MAX_PAYLOAD_LEN # 0
  BY <1>5, <1>6, <1>8 DEF k
<1> QED
  BY <1>7, <1>8

-----------------------------------------------------------------------------
(* The throttler *)

\* Measuring touches nothing but the cached rate and the error.
LEMMA CurrentRateType ==
  ASSUME NEW t \in Throttler, NEW extra \in Int
  PROVE  /\ current_rate_mbps(t, extra) \in Throttler
         /\ current_rate_mbps(t, extra).window = t.window
         /\ current_rate_mbps(t, extra).buffer = t.buffer
         /\ current_rate_mbps(t, extra).frame_count = t.frame_count
         /\ current_rate_mbps(t, extra).throttle = t.throttle
         /\ current_rate_mbps(t, extra).max_error = t.max_error
         /\ current_rate_mbps(t, extra).acc_error =
              IF MeasurementCached(t) THEN t.acc_error ELSE 0
<1>1. CASE MeasurementCached(t)
  BY <1>1 DEF current_rate_mbps
<1>2. CASE ~MeasurementCached(t) /\ t.window = <<>>
  BY <1>2 DEF current_rate_mbps, Throttler
<1>3. CASE ~MeasurementCached(t) /\ t.window # <<>>
  <2>1. Head(t.window) \in WindowEntry
    BY <1>3 DEF Throttler
  <2>2. [bytes |-> t.sum_bytes + extra, age |-> Head(t.window).age] \in Rate
    BY <2>1 DEF Throttler, WindowEntry, Rate
  <2> QED
    BY <1>3, <2>2 DEF current_rate_mbps, Throttler
<1> QED
  BY <1>1, <1>2, <1>3

\* Charging touches the window, its sum and the error, which never shrinks;
\* the window stays shorter than its size.
LEMMA ChargeType ==
  ASSUME NEW t \in Throttler, NEW size \in Nat, WindowBounded(t)
  PROVE  /\ charge(t, size) \in Throttler
         /\ WindowBounded(charge(t, size))
         /\ charge(t, size).buffer = t.buffer
         /\ charge(t, size).frame_count = t.frame_count
         /\ charge(t, size).throttle = t.throttle
         /\ charge(t, size).max_error = t.max_error
         /\ charge(t, size).acc_error >= t.acc_error
<1> DEFINE grown == Append(t.window, [age |-> 0, size |-> size])
<1>1. [age |-> 0, size |-> size] \in WindowEntry
  BY DEF WindowEntry
<1>2. /\ grown \in Seq(WindowEntry)
      /\ Len(grown) = Len(t.window) + 1
      /\ grown # <<>>
  <2>1. t.window \in Seq(WindowEntry)
    BY DEF Throttler
  <2> QED
    BY <1>1, <2>1, AppendProperties
<1> HIDE DEF grown
<1>3. /\ Head(grown) \in WindowEntry
      /\ Tail(grown) \in Seq(WindowEntry)
      /\ Len(Tail(grown)) = Len(grown) - 1
  BY <1>2, HeadTailProperties
<1>4. Head(grown).size \in Nat
  BY <1>3 DEF WindowEntry
<1>5. window_size \in Nat /\ Len(t.window) \in Nat
  BY ThrottlerAssumption DEF Throttler
<1>6. CASE Full(grown, window_size)
  <2>1. charge(t, size) =
          [t EXCEPT !.window = Tail(grown),
                    !.sum_bytes = @ + size - Head(grown).size,
                    !.acc_error = @ + Head(grown).size]
    BY <1>6 DEF charge, grown
  <2>2. /\ charge(t, size).window = Tail(grown)
        /\ charge(t, size).acc_error = t.acc_error + Head(grown).size
        /\ charge(t, size).buffer = t.buffer
        /\ charge(t, size).frame_count = t.frame_count
        /\ charge(t, size).throttle = t.throttle
        /\ charge(t, size).max_error = t.max_error
    BY <2>1 DEF Throttler
  <2>3. charge(t, size) \in Throttler
    <3>1. /\ t.sum_bytes + size - Head(grown).size \in Int
          /\ t.acc_error + Head(grown).size \in Nat
      BY <1>4 DEF Throttler
    <3> QED
      BY <1>3, <2>1, <3>1 DEF Throttler
  <2>4. WindowBounded(charge(t, size))
    BY <1>2, <1>3, <2>2 DEF WindowBounded
  <2>5. t.acc_error \in Nat
    BY DEF Throttler
  <2> QED
    BY <1>4, <2>2, <2>3, <2>4, <2>5
<1>7. CASE ~Full(grown, window_size)
  <2>1. charge(t, size) =
          [t EXCEPT !.window = grown, !.sum_bytes = @ + size]
    BY <1>7 DEF charge, grown
  <2>2. /\ charge(t, size).window = grown
        /\ charge(t, size).acc_error = t.acc_error
        /\ charge(t, size).buffer = t.buffer
        /\ charge(t, size).frame_count = t.frame_count
        /\ charge(t, size).throttle = t.throttle
        /\ charge(t, size).max_error = t.max_error
    BY <2>1 DEF Throttler
  <2>3. charge(t, size) \in Throttler
    <3>1. t.sum_bytes + size \in Int
      BY DEF Throttler
    <3> QED
      BY <1>2, <2>1, <3>1 DEF Throttler
  <2>4. WindowBounded(charge(t, size))
    BY <1>2, <1>5, <1>7, <2>2 DEF WindowBounded, Full
  <2>5. t.acc_error \in Nat
    BY DEF Throttler
  <2> QED
    BY <2>2, <2>3, <2>4, <2>5
<1> QED
  BY <1>6, <1>7

\* Measuring for a packet adds it to the error first.
LEMMA MeasureType ==
  ASSUME NEW t \in Throttler, NEW size \in Nat
  PROVE  /\ measure(t, size) \in Throttler
         /\ measure(t, size).window = t.window
         /\ measure(t, size).buffer = t.buffer
         /\ measure(t, size).frame_count = t.frame_count
         /\ measure(t, size).throttle = t.throttle
         /\ measure(t, size).max_error = t.max_error
         /\ measure(t, size).acc_error =
              IF t.acc_error + size < t.max_error THEN t.acc_error + size ELSE 0
<1> DEFINE u == [t EXCEPT !.acc_error = @ + size]
<1>1. /\ u \in Throttler
      /\ u.window = t.window
      /\ u.buffer = t.buffer
      /\ u.frame_count = t.frame_count
      /\ u.throttle = t.throttle
      /\ u.max_error = t.max_error
      /\ u.acc_error = t.acc_error + size
  <2>1. t.acc_error + size \in Nat
    BY DEF Throttler
  <2>2. u \in Throttler
    BY <2>1 DEF Throttler
  <2> QED
    BY <2>2 DEF Throttler
<1>2. measure(t, size) = current_rate_mbps(u, size)
  BY DEF measure
<1> HIDE DEF u
<1>3. size \in Int
  OBVIOUS
<1> QED
  BY <1>1, <1>2, <1>3, CurrentRateType DEF MeasurementCached

\* exceeds_with, whatever it decides, leaves the buffer and the frame count
\* alone; a packet it lets through on a metered path is in the error, unless
\* the rate has just been measured.
LEMMA ExceedsWithType ==
  ASSUME NEW t \in Throttler, NEW size \in Nat, WindowBounded(t)
  PROVE  /\ exceeds_with(t, size) \in Throttler
         /\ WindowBounded(exceeds_with(t, size))
         /\ exceeds_with(t, size).buffer = t.buffer
         /\ exceeds_with(t, size).frame_count = t.frame_count
         /\ exceeds_with(t, size).throttle = t.throttle
         /\ exceeds_with(t, size).max_error = t.max_error
         /\ Exempt(t) => exceeds_with(t, size).acc_error >= t.acc_error
         /\ ~Exempt(t) => exceeds_with(t, size).acc_error >=
              IF t.acc_error + size < t.max_error THEN t.acc_error + size ELSE 0
<1>0. /\ t.acc_error \in Nat
      /\ t.max_error \in Nat
  BY DEF Throttler
<1>1. CASE Exempt(t)
  <2>1. exceeds_with(t, size) = charge(t, size)
    BY <1>1 DEF exceeds_with
  <2>2. /\ charge(t, size) \in Throttler
        /\ WindowBounded(charge(t, size))
        /\ charge(t, size).buffer = t.buffer
        /\ charge(t, size).frame_count = t.frame_count
        /\ charge(t, size).throttle = t.throttle
        /\ charge(t, size).max_error = t.max_error
        /\ charge(t, size).acc_error >= t.acc_error
    BY ChargeType
  <2> QED
    BY <1>0, <1>1, <2>1, <2>2
<1>2. CASE ~Exempt(t) /\ Exceeds(t, size)
  <2>1. exceeds_with(t, size) = measure(t, size)
    BY <1>2 DEF exceeds_with
  <2>2. WindowBounded(measure(t, size))
    BY MeasureType DEF WindowBounded
  <2>3. /\ measure(t, size) \in Throttler
        /\ measure(t, size).buffer = t.buffer
        /\ measure(t, size).frame_count = t.frame_count
        /\ measure(t, size).throttle = t.throttle
        /\ measure(t, size).max_error = t.max_error
        /\ measure(t, size).acc_error =
             IF t.acc_error + size < t.max_error THEN t.acc_error + size ELSE 0
    BY MeasureType
  <2> QED
    BY <1>0, <1>2, <2>1, <2>2, <2>3
<1>3. CASE ~Exempt(t) /\ ~Exceeds(t, size)
  <2> DEFINE m == measure(t, size)
  <2>1. exceeds_with(t, size) = charge(m, size)
    BY <1>3 DEF exceeds_with
  <2>2. /\ m \in Throttler
        /\ m.window = t.window
        /\ m.buffer = t.buffer
        /\ m.frame_count = t.frame_count
        /\ m.throttle = t.throttle
        /\ m.max_error = t.max_error
        /\ m.acc_error =
             IF t.acc_error + size < t.max_error THEN t.acc_error + size ELSE 0
    BY MeasureType
  <2> HIDE DEF m
  <2>3. WindowBounded(m)
    BY <2>2 DEF WindowBounded
  <2>4. /\ charge(m, size) \in Throttler
        /\ WindowBounded(charge(m, size))
        /\ charge(m, size).buffer = m.buffer
        /\ charge(m, size).frame_count = m.frame_count
        /\ charge(m, size).throttle = m.throttle
        /\ charge(m, size).max_error = m.max_error
        /\ charge(m, size).acc_error >= m.acc_error
    BY <2>2, <2>3, ChargeType
  <2> QED
    BY <1>3, <2>1, <2>2, <2>4
<1> QED
  BY <1>1, <1>2, <1>3

\* try_push accepts the longest prefix of a frame that fits.
LEMMA AcceptedType ==
  ASSUME NEW fifo \in Seq(Packet), NEW n \in Nat, BufferBounded(fifo)
  PROVE  /\ Accepted(fifo, n) \in 0 .. n
         /\ BufferSize = 0 \/ Len(fifo) + Accepted(fifo, n) <= BufferSize
         /\ Accepted(fifo, n) < n =>
              /\ BufferSize # 0
              /\ Len(fifo) + Accepted(fifo, n) = BufferSize
<1>1. BufferSize \in Nat
  BY ThrottlerAssumption DEF BufferSize
<1>2. Len(fifo) \in Nat
  BY LenProperties
<1> QED
  BY <1>1, <1>2 DEF Accepted, BufferBounded

\* What try_push leaves is the buffer and a prefix of the frame, within the
\* capacity of the buffer.
LEMMA TryPushAllType ==
  ASSUME NEW fifo \in Seq(Packet), NEW packets \in Seq(Packet),
         BufferBounded(fifo)
  PROVE  LET n == Accepted(fifo, Len(packets))
             b == try_push_all(fifo, packets)
         IN  /\ b \in Seq(Packet)
             /\ Len(b) = Len(fifo) + n
             /\ BufferBounded(b)
             /\ \A i \in 1 .. Len(fifo) : b[i] = fifo[i]
             /\ \A i \in 1 .. n : b[Len(fifo) + i] = packets[i]
<1> DEFINE n == Accepted(fifo, Len(packets))
           prefix == SubSeq(packets, 1, n)
<1>1. Len(packets) \in Nat /\ Len(fifo) \in Nat
  BY LenProperties
<1>2. /\ n \in 0 .. Len(packets)
      /\ BufferSize = 0 \/ Len(fifo) + n <= BufferSize
  BY <1>1, AcceptedType
<1> HIDE DEF n
<1>3. \A i \in 1 .. n : packets[i] \in Packet
  BY <1>1, <1>2, ElementOfSeq
<1>4. /\ prefix \in Seq(Packet)
      /\ Len(prefix) = n
      /\ \A i \in 1 .. n : prefix[i] = packets[i]
  BY <1>2, <1>3, SubSeqProperties
<1>5. try_push_all(fifo, packets) = fifo \o prefix
  BY DEF try_push_all, n
<1> HIDE DEF prefix
<1>6. /\ fifo \o prefix \in Seq(Packet)
      /\ Len(fifo \o prefix) = Len(fifo) + n
      /\ \A i \in 1 .. Len(fifo) + n :
           (fifo \o prefix)[i] =
             IF i <= Len(fifo) THEN fifo[i] ELSE prefix[i - Len(fifo)]
  BY <1>4, ConcatProperties
<1>7. BufferBounded(fifo \o prefix)
  BY <1>2, <1>6 DEF BufferBounded
<1>8. \A i \in 1 .. Len(fifo) : (fifo \o prefix)[i] = fifo[i]
  BY <1>1, <1>2, <1>6
<1>9. \A i \in 1 .. n : (fifo \o prefix)[Len(fifo) + i] = packets[i]
  <2> TAKE i \in 1 .. n
  <2>1. /\ Len(fifo) + i \in 1 .. Len(fifo) + n
        /\ ~(Len(fifo) + i <= Len(fifo))
        /\ Len(fifo) + i - Len(fifo) = i
    BY <1>1, <1>2
  <2> QED
    BY <1>4, <1>6, <2>1
<1> QED
  BY <1>5, <1>6, <1>7, <1>8, <1>9 DEF n

\* prepare appends to the buffer, counts the frame, and may measure.
LEMMA PrepareType ==
  ASSUME NEW t \in Throttler, NEW packets \in Seq(Packet),
         BufferBounded(t.buffer)
  PROVE  /\ prepare(t, packets) \in Throttler
         /\ prepare(t, packets).buffer = try_push_all(t.buffer, packets)
         /\ prepare(t, packets).window = t.window
         /\ prepare(t, packets).frame_count = t.frame_count + 1
         /\ prepare(t, packets).max_error = t.max_error
         /\ prepare(t, packets).acc_error =
              IF MeasurementCached(t) THEN t.acc_error ELSE 0
<1> DEFINE m == current_rate_mbps(t, 0)
<1>1. /\ m \in Throttler
      /\ m.window = t.window
      /\ m.buffer = t.buffer
      /\ m.frame_count = t.frame_count
      /\ m.max_error = t.max_error
      /\ m.acc_error = IF MeasurementCached(t) THEN t.acc_error ELSE 0
  BY CurrentRateType
<1>2. prepare(t, packets) =
        [m EXCEPT !.buffer = try_push_all(t.buffer, packets),
                  !.frame_count = @ + 1]
  BY DEF prepare
<1> HIDE DEF m
<1>3. t.buffer \in Seq(Packet)
  BY DEF Throttler
<1>4. try_push_all(t.buffer, packets) \in Seq(Packet)
  BY <1>3, TryPushAllType
<1>5. m.frame_count + 1 \in Int
  BY <1>1 DEF Throttler
<1>6. prepare(t, packets) \in Throttler
  BY <1>1, <1>2, <1>4, <1>5 DEF Throttler
<1>7. /\ prepare(t, packets).buffer = try_push_all(t.buffer, packets)
      /\ prepare(t, packets).window = m.window
      /\ prepare(t, packets).frame_count = m.frame_count + 1
      /\ prepare(t, packets).max_error = m.max_error
      /\ prepare(t, packets).acc_error = m.acc_error
  BY <1>1, <1>2 DEF Throttler
<1> QED
  BY <1>1, <1>6, <1>7

\* Sending the head packet charges it, takes its frame out of the count when
\* it is the last one, pops it, and may measure.
LEMMA SentType ==
  ASSUME NEW t \in Throttler, WindowBounded(t), t.buffer # <<>>
  PROVE  LET p == Head(t.buffer)
             e == exceeds_with(t, p.length)
             s == try_consume_sent(t)
         IN  /\ p \in Packet
             /\ s \in Throttler
             /\ WindowBounded(s)
             /\ s.buffer = Tail(t.buffer)
             /\ s.frame_count = t.frame_count - (IF p.last_one THEN 1 ELSE 0)
             /\ s.max_error = t.max_error
             /\ s.acc_error = IF MeasurementCached(e) THEN e.acc_error ELSE 0
<1> DEFINE p == Head(t.buffer)
           e == exceeds_with(t, p.length)
           u == uncount(e, p)
           m == current_rate_mbps(u, 0)
           s == try_consume_sent(t)
<1>1. p \in Packet /\ Tail(t.buffer) \in Seq(Packet)
  <2>1. t.buffer \in Seq(Packet)
    BY DEF Throttler
  <2> QED
    BY <2>1, HeadTailProperties
<1>2. p.length \in Nat /\ p.last_one \in BOOLEAN
  BY <1>1 DEF Packet
<1>3. s = [m EXCEPT !.buffer = Tail(@)]
  BY DEF try_consume_sent, consume
<1> HIDE DEF p
<1>4. /\ e \in Throttler
      /\ WindowBounded(e)
      /\ e.buffer = t.buffer
      /\ e.frame_count = t.frame_count
      /\ e.max_error = t.max_error
  BY <1>2, ExceedsWithType
<1> HIDE DEF e
<1>5. /\ u \in Throttler
      /\ u.window = e.window
      /\ u.buffer = e.buffer
      /\ u.frame_count = e.frame_count - (IF p.last_one THEN 1 ELSE 0)
      /\ u.max_error = e.max_error
      /\ u.acc_error = e.acc_error
  <2>1. CASE p.last_one
    <3>1. u = [e EXCEPT !.frame_count = @ - 1]
      BY <2>1 DEF uncount
    <3>2. e.frame_count - 1 \in Int
      BY <1>4 DEF Throttler
    <3>3. u \in Throttler
      BY <1>4, <3>1, <3>2 DEF Throttler
    <3>4. /\ u.window = e.window
          /\ u.buffer = e.buffer
          /\ u.frame_count = e.frame_count - 1
          /\ u.max_error = e.max_error
          /\ u.acc_error = e.acc_error
      BY <1>4, <3>1 DEF Throttler
    <3> QED
      BY <2>1, <3>3, <3>4
  <2>2. CASE ~p.last_one
    <3>1. u = [e EXCEPT !.frame_count = @ - 0]
      BY <2>2 DEF uncount
    <3> QED
      BY <1>4, <2>2, <3>1 DEF Throttler
  <2> QED
    BY <1>2, <2>1, <2>2
<1> HIDE DEF u
<1>6. /\ m \in Throttler
      /\ m.window = u.window
      /\ m.buffer = u.buffer
      /\ m.frame_count = u.frame_count
      /\ m.max_error = u.max_error
      /\ m.acc_error = IF MeasurementCached(u) THEN u.acc_error ELSE 0
  BY <1>5, CurrentRateType
<1> HIDE DEF m, s
<1>7. /\ s \in Throttler
      /\ s.window = m.window
      /\ s.buffer = Tail(m.buffer)
      /\ s.frame_count = m.frame_count
      /\ s.max_error = m.max_error
      /\ s.acc_error = m.acc_error
  BY <1>1, <1>3, <1>4, <1>5, <1>6 DEF Throttler
<1>8. WindowBounded(s)
  BY <1>4, <1>5, <1>6, <1>7 DEF WindowBounded
<1>9. MeasurementCached(u) <=> MeasurementCached(e)
  BY <1>5 DEF MeasurementCached
<1> QED
  BY <1>1, <1>4, <1>5, <1>6, <1>7, <1>8, <1>9 DEF p, e, s

\* A tick changes only the ages of the window.
LEMMA AgeWindowType ==
  ASSUME NEW t \in Throttler, WindowBounded(t)
  PROVE  /\ age_window(t) \in Throttler
         /\ WindowBounded(age_window(t))
         /\ age_window(t).buffer = t.buffer
         /\ age_window(t).frame_count = t.frame_count
         /\ age_window(t).max_error = t.max_error
         /\ age_window(t).acc_error = t.acc_error
<1> DEFINE aged == [i \in DOMAIN t.window |-> grow_older(t.window[i])]
<1>1. age_window(t) = [t EXCEPT !.window = aged]
  BY DEF age_window
<1>2. t.window \in Seq(WindowEntry)
  BY DEF Throttler
<1>3. /\ Len(t.window) \in Nat
      /\ DOMAIN t.window = 1 .. Len(t.window)
      /\ \A i \in 1 .. Len(t.window) : t.window[i] \in WindowEntry
  BY <1>2, LenProperties, ElementOfSeq
<1>4. aged \in [1 .. Len(t.window) -> WindowEntry]
  <2>1. \A entry \in WindowEntry : grow_older(entry) \in WindowEntry
    BY DEF WindowEntry, grow_older
  <2> QED
    BY <1>3, <2>1
<1> HIDE DEF aged
<1>5. aged \in Seq(WindowEntry) /\ Len(aged) = Len(t.window)
  BY <1>3, <1>4
<1>6. /\ age_window(t) \in Throttler
      /\ age_window(t).window = aged
      /\ age_window(t).buffer = t.buffer
      /\ age_window(t).frame_count = t.frame_count
      /\ age_window(t).max_error = t.max_error
      /\ age_window(t).acc_error = t.acc_error
  BY <1>1, <1>5 DEF Throttler
<1> QED
  BY <1>5, <1>6 DEF WindowBounded

=============================================================================
