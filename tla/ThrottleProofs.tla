--------------------------- MODULE ThrottleProofs ---------------------------
(***************************************************************************)
(* What holds of Throttle for every payload length, window size, buffer,   *)
(* trace, throttle and number of frames.                                   *)
(***************************************************************************)
EXTENDS Throttle, RateThrottlerProofs, FiniteSetTheorems

-----------------------------------------------------------------------------
(* Type correctness *)

\* The initial states are well typed.
LEMMA InitTypeOK == Init => TypeOK
<1> SUFFICES ASSUME Init PROVE TypeOK
  OBVIOUS
<1>1. PICK x \in Throttles : throttler = RateThrottler_new(x)
  BY DEF Init
<1>2. x \in Nat /\ window_size \in Nat /\ BufferSize \in Nat
  BY StreamAssumption, ThrottlerAssumption DEF BufferSize
<1>3. (window_size \div MAX_ERR_DIV) * UDP_MAX_LENGTH \in Nat
  <2>1. window_size \div MAX_ERR_DIV \in Nat
    BY ThrottlerAssumption
  <2> QED
    BY <2>1, ThrottlerAssumption
<1>4. throttler \in Throttler
  BY <1>1, <1>2, <1>3 DEF RateThrottler_new, Throttler, Rate
<1>5. throttler.buffer = <<>> /\ throttler.window = <<>>
  BY <1>1 DEF RateThrottler_new
<1>6. BufferBounded(throttler.buffer) /\ WindowBounded(throttler)
  BY <1>2, <1>5 DEF BufferBounded, WindowBounded
<1>7. NoPacket \in Packet
  BY DEF NoPacket, Packet
<1> QED
  BY <1>4, <1>6, <1>7 DEF Init, TypeOK, PCs

\* The head packet of a non-empty buffer is a packet.
LEMMA HeadType ==
  ASSUME TypeOK, HasHead
  PROVE  /\ Head(throttler.buffer) \in Packet
         /\ HeadSize \in Nat
         /\ Tail(throttler.buffer) \in Seq(Packet)
         /\ Len(Tail(throttler.buffer)) = Len(throttler.buffer) - 1
<1>1. throttler.buffer \in Seq(Packet)
  BY DEF TypeOK, Throttler
<1>2. /\ Head(throttler.buffer) \in Packet
      /\ Tail(throttler.buffer) \in Seq(Packet)
      /\ Len(Tail(throttler.buffer)) = Len(throttler.buffer) - 1
  BY <1>1, HeadTailProperties DEF HasHead
<1>3. HeadSize \in Nat
  BY <1>2 DEF HeadSize, Packet
<1> QED
  BY <1>2, <1>3

\* The bytes let through on a stale measurement are a natural number.
LEMMA StaleType ==
  ASSUME TypeOK, HasHead
  PROVE  StaleAfterCharge \in Nat
  BY HeadType DEF StaleAfterCharge, StaleAfter, TypeOK

\* So is every step.
LEMMA StepTypeOK == TypeOK /\ [Next]_vars => TypeOK'
<1> SUFFICES ASSUME TypeOK, [Next]_vars PROVE TypeOK'
  OBVIOUS
<1> USE DEF TypeOK
<1>1. ASSUME NEW size \in FrameSizes, NextFrame(size) PROVE TypeOK'
  <2> DEFINE packets == generate_packets(seq + 1, size)
  <2>1. packets \in Seq(Packet)
    <3>1. seq + 1 \in Nat /\ size \in Nat
      BY StreamAssumption
    <3> QED
      BY <3>1, GeneratePacketsType
  <2>2. throttler' = prepare(throttler, packets)
    BY <1>1 DEF NextFrame
  <2> HIDE DEF packets
  <2>3. /\ throttler' \in Throttler
        /\ throttler'.buffer = try_push_all(throttler.buffer, packets)
        /\ throttler'.window = throttler.window
    BY <2>1, <2>2, PrepareType
  <2>4. throttler.buffer \in Seq(Packet)
    BY DEF Throttler
  <2>5. BufferBounded(throttler'.buffer)
    BY <2>1, <2>3, <2>4, TryPushAllType
  <2>6. WindowBounded(throttler')
    BY <2>3 DEF WindowBounded
  <2> QED
    BY <1>1, <2>3, <2>5, <2>6 DEF NextFrame, StaleAfter, PCs
<1>2. CASE Drain
  BY <1>2 DEF Drain, PCs
<1>3. CASE Hold
  <2>1. HasHead
    BY <1>3 DEF Hold, HeadExceeds
  <2>2. HeadSize \in Nat
    BY <2>1, HeadType
  <2>3. throttler' = measure(throttler, HeadSize)
    BY <1>3 DEF Hold
  <2>4. /\ throttler' \in Throttler
        /\ throttler'.window = throttler.window
        /\ throttler'.buffer = throttler.buffer
    BY <2>2, <2>3, MeasureType
  <2>5. BufferBounded(throttler'.buffer) /\ WindowBounded(throttler')
    BY <2>4 DEF WindowBounded
  <2> QED
    BY <1>3, <2>4, <2>5 DEF Hold, StaleAfter
<1>4. CASE Send
  <2>1. HasHead
    BY <1>4 DEF Send
  <2>2. /\ Head(throttler.buffer) \in Packet
        /\ Len(Tail(throttler.buffer)) = Len(throttler.buffer) - 1
        /\ StaleAfterCharge \in Nat
    BY <2>1, HeadType, StaleType
  <2>3. throttler' = try_consume_sent(throttler)
    BY <1>4 DEF Send
  <2>4. /\ throttler' \in Throttler
        /\ WindowBounded(throttler')
        /\ throttler'.buffer = Tail(throttler.buffer)
    BY <2>1, <2>3, SentType DEF HasHead
  <2>5. Len(throttler.buffer) \in Nat /\ BufferSize \in Nat
    BY ThrottlerAssumption, LenProperties DEF Throttler, BufferSize
  <2>6. BufferBounded(throttler'.buffer)
    BY <2>2, <2>4, <2>5 DEF BufferBounded
  <2> QED
    BY <1>4, <2>2, <2>4, <2>6 DEF Send, StaleAfter
<1>5. CASE Refuse
  <2>1. HasHead
    BY <1>5 DEF Refuse
  <2>2. HeadSize \in Nat /\ StaleAfterCharge \in Nat
    BY <2>1, HeadType, StaleType
  <2>3. throttler' = exceeds_with(throttler, HeadSize)
    BY <1>5 DEF Refuse
  <2>4. /\ throttler' \in Throttler
        /\ WindowBounded(throttler')
        /\ throttler'.buffer = throttler.buffer
    BY <2>2, <2>3, ExceedsWithType
  <2> QED
    BY <1>5, <2>2, <2>4 DEF Refuse
<1>6. CASE LeaveQueue
  BY <1>6 DEF LeaveQueue, PCs
<1>7. CASE Stop
  <2>1. throttler' = reset(throttler)
    BY <1>7 DEF Stop
  <2>2. throttler' \in Throttler
    <3>1. [bytes |-> 0, age |-> 1] \in Rate
      BY DEF Rate
    <3>2. <<>> \in Seq(WindowEntry) /\ <<>> \in Seq(Packet)
      OBVIOUS
    <3>3. throttler.frame_count \in Int /\ throttler.throttle \in Nat
      BY DEF Throttler
    <3> QED
      BY <2>1, <3>1, <3>2, <3>3 DEF reset, Throttler
  <2>3. throttler'.buffer = <<>> /\ throttler'.window = <<>>
    BY <2>1 DEF reset, Throttler
  <2>4. window_size \in Nat /\ BufferSize \in Nat
    BY ThrottlerAssumption DEF BufferSize
  <2>5. BufferBounded(throttler'.buffer) /\ WindowBounded(throttler')
    BY <2>3, <2>4 DEF BufferBounded, WindowBounded
  <2> QED
    BY <1>7, <2>2, <2>5 DEF Stop, PCs
<1>8. ASSUME NEW x \in Throttles, SetThrottle(x) PROVE TypeOK'
  <2>1. /\ throttler' \in Throttler
        /\ throttler'.buffer = throttler.buffer
        /\ throttler'.window = throttler.window
    BY <1>8, StreamAssumption DEF SetThrottle, Throttler
  <2>2. WindowBounded(throttler')
    BY <2>1 DEF WindowBounded
  <2> QED
    BY <1>8, <2>1, <2>2 DEF SetThrottle
<1>9. CASE Tick
  <2>1. /\ throttler' \in Throttler
        /\ WindowBounded(throttler')
        /\ throttler'.buffer = throttler.buffer
    BY <1>9, AgeWindowType DEF Tick
  <2> QED
    BY <1>9, <2>1 DEF Tick
<1>10. CASE UNCHANGED vars
  BY <1>10 DEF vars, WindowBounded
<1> QED
  BY <1>1, <1>2, <1>3, <1>4, <1>5, <1>6, <1>7, <1>8, <1>9, <1>10
  DEF Next, SourceThread

\* Every variable keeps its type, the buffer never exceeds its capacity and
\* the window stays below its size, for every configuration.
THEOREM TypeCorrect == Spec => []TypeOK
  BY InitTypeOK, StepTypeOK, PTL DEF Spec

-----------------------------------------------------------------------------
(* Stale admissions *)

\* No step of either thread lets more stale bytes through.
LEMMA StepStale ==
  TypeOK /\ StaleAdmissionsBounded /\ [Next]_vars => StaleAdmissionsBounded'
<1> SUFFICES ASSUME TypeOK, StaleAdmissionsBounded, [Next]_vars
             PROVE  StaleAdmissionsBounded'
  OBVIOUS
<1> DEFINE acc == throttler.acc_error
           max == throttler.max_error
<1>0. /\ throttler \in Throttler
      /\ WindowBounded(throttler)
      /\ BufferBounded(throttler.buffer)
      /\ acc \in Nat /\ max \in Nat /\ unmeasured \in Nat
      /\ unmeasured <= acc
      /\ unmeasured > 0 => unmeasured < max
  BY DEF TypeOK, Throttler, StaleAdmissionsBounded
<1> USE DEF StaleAdmissionsBounded
<1>1. ASSUME NEW size \in FrameSizes, NextFrame(size)
      PROVE  StaleAdmissionsBounded'
  <2> DEFINE packets == generate_packets(seq + 1, size)
  <2>1. packets \in Seq(Packet)
    <3>1. seq + 1 \in Nat /\ size \in Nat
      BY StreamAssumption DEF TypeOK
    <3> QED
      BY <3>1, GeneratePacketsType
  <2>2. /\ throttler' = prepare(throttler, packets)
        /\ unmeasured' = StaleAfter(throttler, unmeasured)
    BY <1>1 DEF NextFrame
  <2> HIDE DEF packets
  <2>3. /\ throttler'.max_error = max
        /\ throttler'.acc_error = IF MeasurementCached(throttler) THEN acc ELSE 0
    BY <1>0, <2>1, <2>2, PrepareType
  <2> QED
    BY <1>0, <2>2, <2>3 DEF StaleAfter
<1>2. CASE Drain
  BY <1>2 DEF Drain
<1>3. CASE Hold
  <2>1. HasHead
    BY <1>3 DEF Hold, HeadExceeds
  <2>2. HeadSize \in Nat
    BY <2>1, HeadType
  <2>3. /\ throttler' = measure(throttler, HeadSize)
        /\ unmeasured' =
             StaleAfter([throttler EXCEPT !.acc_error = @ + HeadSize], unmeasured)
    BY <1>3 DEF Hold
  <2>4. /\ throttler'.max_error = max
        /\ throttler'.acc_error =
             IF acc + HeadSize < max THEN acc + HeadSize ELSE 0
    BY <1>0, <2>2, <2>3, MeasureType
  <2>5. unmeasured' = IF acc + HeadSize < max THEN unmeasured ELSE 0
    BY <1>0, <2>3 DEF StaleAfter, MeasurementCached, Throttler
  <2> QED
    BY <1>0, <2>2, <2>4, <2>5
<1>4. ASSUME HasHead
      PROVE  LET e == exceeds_with(throttler, HeadSize)
             IN  /\ e.acc_error \in Nat
                 /\ e.max_error = max
                 /\ StaleAfterCharge \in Nat
                 /\ StaleAfterCharge <= e.acc_error
                 /\ StaleAfterCharge > 0 => StaleAfterCharge < max
  <2> DEFINE e == exceeds_with(throttler, HeadSize)
  <2>1. HeadSize \in Nat
    BY <1>4, HeadType
  <2>2. /\ e \in Throttler
        /\ e.max_error = max
        /\ Exempt(throttler) => e.acc_error >= acc
        /\ ~Exempt(throttler) =>
             e.acc_error >= IF acc + HeadSize < max THEN acc + HeadSize ELSE 0
    BY <1>0, <2>1, ExceedsWithType
  <2> HIDE DEF e
  <2>3. e.acc_error \in Nat
    BY <2>2 DEF Throttler
  <2>4. StaleAfterCharge =
          IF Exempt(throttler) THEN unmeasured
          ELSE IF acc + HeadSize < max THEN unmeasured + HeadSize ELSE 0
    BY <1>0 DEF StaleAfterCharge, StaleAfter, MeasurementCached, Throttler
  <2>5. CASE Exempt(throttler)
    BY <1>0, <2>1, <2>2, <2>3, <2>4, <2>5 DEF e
  <2>6. CASE ~Exempt(throttler) /\ acc + HeadSize < max
    BY <1>0, <2>1, <2>2, <2>3, <2>4, <2>6 DEF e
  <2>7. CASE ~Exempt(throttler) /\ ~(acc + HeadSize < max)
    BY <1>0, <2>1, <2>2, <2>3, <2>4, <2>7 DEF e
  <2> QED
    BY <2>5, <2>6, <2>7
<1>5. CASE Send
  <2> DEFINE e == exceeds_with(throttler, HeadSize)
  <2>1. HasHead
    BY <1>5 DEF Send
  <2>2. /\ e.acc_error \in Nat
        /\ e.max_error = max
        /\ StaleAfterCharge \in Nat
        /\ StaleAfterCharge <= e.acc_error
        /\ StaleAfterCharge > 0 => StaleAfterCharge < max
    BY <1>4, <2>1
  <2>3. /\ throttler' = try_consume_sent(throttler)
        /\ unmeasured' = StaleAfter(e, StaleAfterCharge)
    BY <1>5 DEF Send
  <2>4. /\ throttler'.max_error = max
        /\ throttler'.acc_error = IF MeasurementCached(e) THEN e.acc_error ELSE 0
    BY <1>0, <2>1, <2>3, SentType DEF HasHead, HeadSize
  <2> HIDE DEF e
  <2> QED
    BY <2>2, <2>3, <2>4 DEF StaleAfter
<1>6. CASE Refuse
  <2>1. HasHead
    BY <1>6 DEF Refuse
  <2> QED
    BY <1>4, <1>6, <2>1 DEF Refuse
<1>7. CASE LeaveQueue
  BY <1>7 DEF LeaveQueue
<1>8. CASE Stop
  BY <1>8 DEF Stop, reset
<1>9. ASSUME NEW x \in Throttles, SetThrottle(x) PROVE StaleAdmissionsBounded'
  <2>1. throttler'.acc_error = acc /\ throttler'.max_error = max
    BY <1>0, <1>9 DEF SetThrottle, Throttler
  <2> QED
    BY <1>0, <1>9, <2>1 DEF SetThrottle
<1>10. CASE Tick
  <2>1. throttler'.acc_error = acc /\ throttler'.max_error = max
    BY <1>0, <1>10, AgeWindowType DEF Tick
  <2> QED
    BY <1>0, <1>10, <2>1 DEF Tick
<1>11. CASE UNCHANGED vars
  BY <1>11 DEF vars
<1> QED
  BY <1>1, <1>2, <1>3, <1>5, <1>6, <1>7, <1>8, <1>9, <1>10, <1>11
  DEF Next, SourceThread

\* Whatever the throttle and however it changes, the bytes let through on a
\* stale measurement stay below max_error.
THEOREM StaleAdmissions == Spec => []StaleAdmissionsBounded
<1>1. Init => StaleAdmissionsBounded
  BY DEF Init, StaleAdmissionsBounded, RateThrottler_new
<1> QED
  BY <1>1, StepStale, TypeCorrect, PTL DEF Spec

-----------------------------------------------------------------------------
(* Order *)

\* A step that touches neither the buffer, the last packet sent nor the
\* frame number keeps the order.
LEMMA OrderUnchanged ==
  ASSUME PacketsInOrder, throttler'.buffer = throttler.buffer,
         last_sent' = last_sent, seq' = seq
  PROVE  PacketsInOrder'
  BY DEF PacketsInOrder, HasHead

\* Every step keeps the packets in the order of the trace.
LEMMA StepInOrder == TypeOK /\ PacketsInOrder /\ [Next]_vars => PacketsInOrder'
<1> SUFFICES ASSUME TypeOK, PacketsInOrder, [Next]_vars PROVE PacketsInOrder'
  OBVIOUS
<1> DEFINE fifo == throttler.buffer
<1>0. /\ throttler \in Throttler
      /\ WindowBounded(throttler)
      /\ BufferBounded(fifo)
      /\ fifo \in Seq(Packet)
      /\ Len(fifo) \in Nat
      /\ \A i \in 1 .. Len(fifo) : fifo[i] \in Packet
      /\ seq \in Nat
      /\ last_sent \in Packet
  BY LenProperties, ElementOfSeq DEF TypeOK, Throttler
<1>1. ASSUME NEW size \in FrameSizes, NextFrame(size) PROVE PacketsInOrder'
  <2> DEFINE packets == generate_packets(seq + 1, size)
             n == Accepted(fifo, Len(packets))
             b == throttler'.buffer
  <2>1. /\ packets \in Seq(Packet)
        /\ Len(packets) \in Nat
        /\ \A i \in 1 .. Len(packets) :
             /\ packets[i].seq = seq + 1
             /\ packets[i].offset = i - 1
             /\ packets[i].last_one <=> i = Len(packets)
    <3> DEFINE k == seq + 1
    <3>1. k \in Nat /\ size \in Nat
      BY StreamAssumption, <1>0
    <3> HIDE DEF k
    <3>2. /\ generate_packets(k, size) \in Seq(Packet)
          /\ Len(generate_packets(k, size)) = PacketCount(size)
      BY <3>1, GeneratePacketsType
    <3>3. \A i \in 1 .. PacketCount(size) :
            /\ generate_packets(k, size)[i].seq = k
            /\ generate_packets(k, size)[i].offset = i - 1
            /\ generate_packets(k, size)[i].last_one <=> i = PacketCount(size)
      BY <3>1, GeneratePacketsFields
    <3>4. packets = generate_packets(k, size) /\ k = seq + 1
      BY DEF k
    <3>5. PacketCount(size) \in Nat
      BY <3>1, PacketCountType
    <3> HIDE DEF packets
    <3> QED
      BY <3>2, <3>3, <3>4, <3>5
  <2>2. /\ throttler' = prepare(throttler, packets)
        /\ seq' = seq + 1
        /\ last_sent' = last_sent
    BY <1>1 DEF NextFrame
  <2> HIDE DEF packets
  <2>3. b = try_push_all(fifo, packets)
    BY <1>0, <2>1, <2>2, PrepareType
  <2>4. n \in 0 .. Len(packets)
    BY <1>0, <2>1, AcceptedType
  <2>5. /\ Len(b) = Len(fifo) + n
        /\ \A i \in 1 .. Len(fifo) : b[i] = fifo[i]
        /\ \A i \in 1 .. n : b[Len(fifo) + i] = packets[i]
    <3> HIDE DEF fifo, b
    <3>1. /\ Len(try_push_all(fifo, packets)) = Len(fifo) + n
          /\ \A i \in 1 .. Len(fifo) : try_push_all(fifo, packets)[i] = fifo[i]
          /\ \A i \in 1 .. n :
               try_push_all(fifo, packets)[Len(fifo) + i] = packets[i]
      BY <1>0, <2>1, TryPushAllType
    <3> QED
      BY <2>3, <3>1
  <2> HIDE DEF n, b
  <2>6. \A i \in 1 .. n :
          /\ b[Len(fifo) + i].seq = seq + 1
          /\ b[Len(fifo) + i].offset = i - 1
          /\ b[Len(fifo) + i].last_one <=> i = Len(packets)
    <3> TAKE i \in 1 .. n
    <3>1. i \in 1 .. Len(packets)
      BY <2>1, <2>4
    <3>2. b[Len(fifo) + i] = packets[i]
      BY <2>5
    <3> QED
      BY <2>1, <3>1, <3>2
  <2>7. \A i \in 1 .. Len(b) : b[i].seq <= seq + 1
    <3> TAKE i \in 1 .. Len(b)
    <3>1. CASE i <= Len(fifo)
      <4>1. i \in 1 .. Len(fifo)
        BY <1>0, <2>4, <2>5, <3>1
      <4>2. b[i].seq = fifo[i].seq /\ fifo[i].seq \in Nat
        BY <1>0, <2>5, <4>1 DEF Packet
      <4>3. fifo[i].seq <= seq
        BY <4>1 DEF PacketsInOrder
      <4> QED
        BY <1>0, <4>2, <4>3
    <3>2. CASE ~(i <= Len(fifo))
      <4>1. i - Len(fifo) \in 1 .. n /\ i = Len(fifo) + (i - Len(fifo))
        BY <1>0, <2>4, <2>5, <3>2
      <4> QED
        BY <1>0, <2>6, <4>1
    <3> QED
      BY <3>1, <3>2
  <2>8. InLine(b)
    <3> SUFFICES ASSUME NEW i \in 1 .. Len(b) - 1
                 PROVE  Follows(b[i], b[i + 1])
      BY DEF InLine
    <3>1. CASE i < Len(fifo)
      <4>1. i \in 1 .. Len(fifo) - 1 /\ i \in 1 .. Len(fifo) /\ i + 1 \in 1 .. Len(fifo)
        BY <1>0, <2>4, <2>5, <3>1
      <4>2. b[i] = fifo[i] /\ b[i + 1] = fifo[i + 1]
        BY <2>5, <4>1
      <4>3. Follows(fifo[i], fifo[i + 1])
        BY <4>1 DEF PacketsInOrder, InLine
      <4> QED
        BY <4>2, <4>3
    <3>2. CASE i = Len(fifo)
      <4>1. i \in 1 .. Len(fifo) /\ 1 \in 1 .. n /\ i + 1 = Len(fifo) + 1
        BY <1>0, <2>4, <2>5, <3>2
      <4>2. b[i] = fifo[i] /\ fifo[i].seq <= seq /\ fifo[i].seq \in Nat
        BY <1>0, <2>5, <4>1 DEF PacketsInOrder, Packet
      <4>3. b[i + 1].seq = seq + 1 /\ b[i + 1].offset = 0
        BY <2>6, <4>1
      <4> QED
        BY <1>0, <4>2, <4>3 DEF Follows
    <3>3. CASE i > Len(fifo)
      <4> DEFINE j == i - Len(fifo)
      <4>1. /\ j \in 1 .. n
            /\ j + 1 \in 1 .. n
            /\ i = Len(fifo) + j
            /\ i + 1 = Len(fifo) + (j + 1)
        BY <1>0, <2>4, <2>5, <3>3
      <4> HIDE DEF j
      <4>2. /\ b[i].seq = seq + 1
            /\ b[i].offset = j - 1
            /\ b[i].last_one <=> j = Len(packets)
            /\ b[i + 1].seq = seq + 1
            /\ b[i + 1].offset = (j + 1) - 1
        BY <2>6, <4>1
      <4>3. j # Len(packets)
        BY <2>1, <2>4, <4>1
      <4> QED
        BY <2>4, <4>1, <4>2, <4>3 DEF Follows
    <3> QED
      BY <1>0, <2>4, <2>5, <3>1, <3>2, <3>3
  <2>9. b # <<>> => Follows(last_sent, b[1])
    <3> SUFFICES ASSUME b # <<>> PROVE Follows(last_sent, b[1])
      OBVIOUS
    <3>1. CASE Len(fifo) > 0
      <4>1. fifo # <<>> /\ 1 \in 1 .. Len(fifo)
        BY <1>0, <3>1
      <4> QED
        BY <2>5, <4>1 DEF PacketsInOrder, HasHead
    <3>2. CASE Len(fifo) = 0
      <4>1. b \in Seq(Packet)
        BY <1>0, <2>1, <2>3, TryPushAllType
      <4>2. Len(b) # 0
        BY <4>1, EmptySeq
      <4>3. 1 \in 1 .. n /\ Len(fifo) + 1 = 1
        BY <2>4, <2>5, <3>2, <4>2
      <4>4. b[1].seq = seq + 1 /\ b[1].offset = 0
        BY <2>6, <4>3
      <4>5. last_sent.seq <= seq /\ last_sent.seq \in Nat
        BY <1>0 DEF PacketsInOrder, Packet
      <4> QED
        BY <1>0, <4>4, <4>5 DEF Follows
    <3> QED
      BY <1>0, <3>1, <3>2
  <2>10. last_sent.seq <= seq + 1
    BY <1>0 DEF PacketsInOrder, Packet
  <2> QED
    BY <2>2, <2>7, <2>8, <2>9, <2>10 DEF PacketsInOrder, HasHead, InLine, b
<1>2. CASE Drain
  BY <1>2, OrderUnchanged DEF Drain
<1>3. CASE Hold
  <2>1. HasHead
    BY <1>3 DEF Hold, HeadExceeds
  <2>2. HeadSize \in Nat
    BY <2>1, HeadType
  <2>3. throttler'.buffer = fifo
    BY <1>0, <1>3, <2>2, MeasureType DEF Hold
  <2> QED
    BY <1>3, <2>3, OrderUnchanged DEF Hold
<1>4. CASE Send
  <2> DEFINE b == Tail(fifo)
  <2>1. HasHead
    BY <1>4 DEF Send
  <2>2. throttler'.buffer = b /\ last_sent' = Head(fifo) /\ seq' = seq
    BY <1>0, <1>4, <2>1, SentType DEF Send, HasHead
  <2>3. /\ b \in Seq(Packet)
        /\ Len(b) = Len(fifo) - 1
        /\ Len(fifo) > 0
        /\ \A i \in 1 .. Len(b) : b[i] = fifo[i + 1]
    BY <1>0, <2>1, HeadTailProperties, EmptySeq DEF HasHead
  <2>4. Head(fifo) = fifo[1]
    BY <1>0, <2>1 DEF HasHead
  <2> HIDE DEF b
  <2>5. \A i \in 1 .. Len(b) : b[i].seq <= seq
    <3> TAKE i \in 1 .. Len(b)
    <3>1. i + 1 \in 1 .. Len(fifo)
      BY <1>0, <2>3
    <3> QED
      BY <2>3, <3>1 DEF PacketsInOrder
  <2>6. InLine(b)
    <3> SUFFICES ASSUME NEW i \in 1 .. Len(b) - 1
                 PROVE  Follows(b[i], b[i + 1])
      BY DEF InLine
    <3>1. /\ i + 1 \in 1 .. Len(fifo) - 1
          /\ i \in 1 .. Len(b)
          /\ i + 1 \in 1 .. Len(b)
      BY <1>0, <2>3
    <3>2. b[i] = fifo[i + 1] /\ b[i + 1] = fifo[i + 1 + 1]
      BY <2>3, <3>1
    <3>3. Follows(fifo[i + 1], fifo[i + 1 + 1])
      BY <3>1 DEF PacketsInOrder, InLine
    <3> QED
      BY <3>2, <3>3
  <2>7. b # <<>> => Follows(Head(fifo), b[1])
    <3> SUFFICES ASSUME b # <<>> PROVE Follows(Head(fifo), b[1])
      OBVIOUS
    <3>1. Len(b) # 0
      BY <2>3, EmptySeq
    <3>2. 1 \in 1 .. Len(b) /\ 1 \in 1 .. Len(fifo) - 1
      BY <1>0, <2>3, <3>1
    <3>3. b[1] = fifo[1 + 1]
      BY <2>3, <3>2
    <3>4. Follows(fifo[1], fifo[1 + 1])
      BY <3>2 DEF PacketsInOrder, InLine
    <3> QED
      BY <2>4, <3>3, <3>4
  <2>8. Head(fifo).seq <= seq
    BY <1>0, <2>3, <2>4 DEF PacketsInOrder
  <2> QED
    BY <2>2, <2>5, <2>6, <2>7, <2>8 DEF PacketsInOrder, HasHead, InLine
<1>5. CASE Refuse
  <2>1. HasHead
    BY <1>5 DEF Refuse
  <2>2. HeadSize \in Nat
    BY <2>1, HeadType
  <2>3. throttler'.buffer = fifo
    BY <1>0, <1>5, <2>2, ExceedsWithType DEF Refuse
  <2> QED
    BY <1>5, <2>3, OrderUnchanged DEF Refuse
<1>6. CASE LeaveQueue
  BY <1>6, OrderUnchanged DEF LeaveQueue
<1>7. CASE Stop
  <2>1. throttler'.buffer = <<>> /\ last_sent' = last_sent /\ seq' = seq
    BY <1>7 DEF Stop, reset
  <2> QED
    BY <2>1 DEF PacketsInOrder, HasHead, InLine
<1>8. ASSUME NEW x \in Throttles, SetThrottle(x) PROVE PacketsInOrder'
  <2>1. throttler'.buffer = fifo
    BY <1>0, <1>8 DEF SetThrottle, Throttler
  <2> QED
    BY <1>8, <2>1, OrderUnchanged DEF SetThrottle
<1>9. CASE Tick
  <2>1. throttler'.buffer = fifo
    BY <1>0, <1>9, AgeWindowType DEF Tick
  <2> QED
    BY <1>9, <2>1, OrderUnchanged DEF Tick
<1>10. CASE UNCHANGED vars
  BY <1>10, OrderUnchanged DEF vars
<1> QED
  BY <1>1, <1>2, <1>3, <1>4, <1>5, <1>6, <1>7, <1>8, <1>9, <1>10
  DEF Next, SourceThread

\* Packets leave in the order of the trace, none twice, for every trace,
\* buffer and behaviour of the network.
THEOREM InOrder == Spec => []PacketsInOrder
<1>1. Init => PacketsInOrder
  BY DEF Init, PacketsInOrder, HasHead, InLine, RateThrottler_new, NoPacket
<1> QED
  BY <1>1, StepInOrder, TypeCorrect, PTL DEF Spec

-----------------------------------------------------------------------------
(* Refinement *)

\* The abstract queue cuts frames the same way.
LEMMA SamePackets ==
  ASSUME NEW n, NEW size
  PROVE  Abstract!generate_packets(n, size) = generate_packets(n, size)
  BY DEF Abstract!generate_packets, Abstract!PacketCount,
         Abstract!PayloadLength, generate_packets, PacketCount, PayloadLength

\* Every step of the stream is a step of the abstract queue or a stutter.
LEMMA StepRefines ==
  TypeOK /\ [Next]_vars => [Abstract!Next]_(Abstract!vars)
<1> SUFFICES ASSUME TypeOK, [Next]_vars
             PROVE  [Abstract!Next]_(Abstract!vars)
  OBVIOUS
<1> DEFINE fifo == throttler.buffer
<1>0. /\ throttler \in Throttler
      /\ WindowBounded(throttler)
      /\ BufferBounded(fifo)
      /\ fifo \in Seq(Packet)
      /\ Len(fifo) \in Nat
      /\ BufferSize \in Nat
      /\ seq \in Nat
  BY ThrottlerAssumption, LenProperties DEF TypeOK, Throttler, BufferSize
\* A step that touches neither the buffer nor the frame number, and does not
\* stop the stream, is a stutter of the queue.
<1>a. ASSUME throttler'.buffer = fifo, seq' = seq,
             (pc = "stopped")' <=> pc = "stopped"
      PROVE  UNCHANGED Abstract!vars
  BY <1>a DEF Abstract!vars
<1>1. ASSUME NEW size \in FrameSizes, NextFrame(size) PROVE Abstract!Next
  <2> DEFINE packets == generate_packets(seq + 1, size)
             n == Accepted(fifo, Len(packets))
  <2>1. packets \in Seq(Packet) /\ Len(packets) \in Nat
    <3>1. seq + 1 \in Nat /\ size \in Nat
      BY StreamAssumption, <1>0
    <3>2. packets \in Seq(Packet)
      BY <3>1, GeneratePacketsType
    <3> QED
      BY <3>2, LenProperties
  <2>2. packets = Abstract!generate_packets(seq + 1, size)
    BY SamePackets
  <2>3. /\ throttler' = prepare(throttler, packets)
        /\ seq' = seq + 1
        /\ pc = "frame" /\ pc' = "queue"
    BY <1>1 DEF NextFrame
  <2> HIDE DEF packets
  <2>4. throttler'.buffer = fifo \o SubSeq(packets, 1, n)
    BY <1>0, <2>1, <2>3, PrepareType DEF try_push_all
  <2>5. /\ n \in 0 .. Len(packets)
        /\ BufferSize = 0 \/ Len(fifo) + n <= BufferSize
        /\ n < Len(packets) => BufferSize # 0 /\ Len(fifo) + n = BufferSize
    BY <1>0, <2>1, AcceptedType
  <2> HIDE DEF n
  <2>6. Abstract!Room(n)
    BY <2>5 DEF Abstract!Room
  <2>7. n < Len(packets) => ~Abstract!Room(n + 1)
    <3> SUFFICES ASSUME n < Len(packets) PROVE ~Abstract!Room(n + 1)
      OBVIOUS
    <3>1. /\ n \in Nat /\ Len(fifo) \in Nat /\ BufferSize \in Nat
          /\ BufferSize # 0
          /\ Len(fifo) + n = BufferSize
      BY <1>0, <2>1, <2>5
    <3>2. \A l, c \in Nat : l + n = c => ~(l + (n + 1) <= c)
      BY <3>1
    <3>3. ~(Len(fifo) + (n + 1) <= BufferSize)
      BY <3>1, <3>2
    <3> QED
      BY <3>1, <3>3 DEF Abstract!Room
  <2>8. Abstract!Offer(size)
    BY <2>2, <2>3, <2>4, <2>5, <2>6, <2>7 DEF Abstract!Offer
  <2> QED
    BY <2>8 DEF Abstract!Next
<1>2. CASE Drain
  BY <1>2, <1>a DEF Drain
<1>3. CASE Hold
  <2>1. HeadSize \in Nat
    BY <1>3, HeadType DEF Hold, HeadExceeds
  <2>2. throttler'.buffer = fifo
    BY <1>0, <1>3, <2>1, MeasureType DEF Hold
  <2> QED
    BY <1>3, <2>2, <1>a DEF Hold
<1>4. CASE Send
  <2>1. /\ fifo # <<>>
        /\ pc \in {"queue", "drain"}
        /\ seq' = seq /\ pc' = pc
    BY <1>4 DEF Send, HasHead, InProcessQueue
  <2>2. throttler'.buffer = Tail(fifo)
    BY <1>0, <1>4, <2>1, SentType DEF Send
  <2> QED
    BY <2>1, <2>2 DEF Abstract!Next, Abstract!Transmit
<1>5. CASE Refuse
  <2>1. HeadSize \in Nat
    BY <1>5, HeadType DEF Refuse
  <2>2. throttler'.buffer = fifo
    BY <1>0, <1>5, <2>1, ExceedsWithType DEF Refuse
  <2> QED
    BY <1>5, <2>2, <1>a DEF Refuse
<1>6. CASE LeaveQueue
  BY <1>6, <1>a DEF LeaveQueue
<1>7. CASE Stop
  <2>1. /\ throttler'.buffer = <<>>
        /\ pc # "stopped" /\ pc' = "stopped"
        /\ seq' = seq
    BY <1>7 DEF Stop, reset
  <2> QED
    BY <2>1 DEF Abstract!Next, Abstract!Close
<1>8. ASSUME NEW x \in Throttles, SetThrottle(x)
      PROVE  UNCHANGED Abstract!vars
  <2>1. throttler'.buffer = fifo
    BY <1>0, <1>8 DEF SetThrottle, Throttler
  <2> QED
    BY <1>8, <2>1, <1>a DEF SetThrottle
<1>9. CASE Tick
  <2>1. throttler'.buffer = fifo
    BY <1>0, <1>9, AgeWindowType DEF Tick
  <2> QED
    BY <1>9, <2>1, <1>a DEF Tick
<1>10. CASE UNCHANGED vars
  BY <1>10, <1>a DEF vars
<1> QED
  BY <1>1, <1>2, <1>3, <1>4, <1>5, <1>6, <1>7, <1>8, <1>9, <1>10
  DEF Next, SourceThread

\* Throttling, refusals, the clock and IPC commands only delay packets: every
\* behaviour of the stream is one of the FrameQueue.
THEOREM Refinement == Spec => ImplementsFrameQueue
<1>1. Init => Abstract!Init
  BY DEF Init, Abstract!Init, RateThrottler_new
<1> QED
  BY <1>1, StepRefines, TypeCorrect, PTL
  DEF Spec, ImplementsFrameQueue, Abstract!Spec

-----------------------------------------------------------------------------
(* The frame count *)

\* The last packets of a buffer can be counted.
LEMMA LastInFinite ==
  ASSUME NEW fifo \in Seq(Packet)
  PROVE  IsFiniteSet(LastIn(fifo)) /\ Cardinality(LastIn(fifo)) \in Nat
<1>1. Len(fifo) \in Nat
  BY LenProperties
<1>2. IsFiniteSet(1 .. Len(fifo))
  BY <1>1, FS_Interval
<1>3. LastIn(fifo) \subseteq 1 .. Len(fifo)
  BY DEF LastIn
<1>4. IsFiniteSet(LastIn(fifo))
  BY <1>2, <1>3, FS_Subset
<1> QED
  BY <1>4, FS_CardinalityType

\* Popping the head takes one last packet away exactly when it is one.
LEMMA LastInTail ==
  ASSUME NEW fifo \in Seq(Packet), fifo # <<>>
  PROVE  Cardinality(LastIn(Tail(fifo))) =
           Cardinality(LastIn(fifo)) - (IF Head(fifo).last_one THEN 1 ELSE 0)
<1> DEFINE b == Tail(fifo)
           rest == LastIn(fifo) \ {1}
<1>1. /\ Len(fifo) \in Nat
      /\ b \in Seq(Packet)
      /\ Len(b) = Len(fifo) - 1
      /\ Len(fifo) > 0
      /\ \A i \in 1 .. Len(b) : b[i] = fifo[i + 1]
      /\ Head(fifo) = fifo[1]
  BY HeadTailProperties, LenProperties, EmptySeq
<1>2. Head(fifo).last_one \in BOOLEAN
  <2>1. Head(fifo) \in Packet
    BY HeadTailProperties
  <2> QED
    BY <2>1 DEF Packet
<1> HIDE DEF b
<1>3. IsFiniteSet(LastIn(b)) /\ IsFiniteSet(LastIn(fifo))
  BY <1>1, LastInFinite
<1>4. IsFiniteSet(rest)
  BY <1>3, FS_Subset
<1>5. Cardinality(LastIn(b)) = Cardinality(rest)
  <2> DEFINE shift == [i \in LastIn(b) |-> i + 1]
  <2>1. \A i \in LastIn(b) : i + 1 \in rest
    BY <1>1 DEF LastIn
  <2>2. \A j \in rest : j - 1 \in LastIn(b) /\ (j - 1) + 1 = j
    BY <1>1 DEF LastIn
  <2>3. \A i, j \in LastIn(b) : i + 1 = j + 1 => i = j
    BY <1>1 DEF LastIn
  <2> HIDE DEF rest
  <2>4. shift \in [LastIn(b) -> rest]
    BY <2>1
  <2>5. IsInjective(shift)
    BY <2>3 DEF IsInjective
  <2>6. \A j \in rest : \E i \in LastIn(b) : shift[i] = j
    BY <2>2
  <2> HIDE DEF shift
  <2>7. ExistsBijection(LastIn(b), rest)
    BY <2>4, <2>5, <2>6
    DEF ExistsBijection, Bijection, Injection, Surjection
  <2> QED
    BY <1>3, <2>7, FS_Bijection
<1>6. CASE Head(fifo).last_one
  <2>1. 1 \in LastIn(fifo)
    BY <1>1, <1>6 DEF LastIn
  <2>2. Cardinality(rest) = Cardinality(LastIn(fifo)) - 1
    BY <1>3, <2>1, FS_RemoveElement
  <2> QED
    BY <1>5, <1>6, <2>2 DEF b
<1>7. CASE ~Head(fifo).last_one
  <2>1. 1 \notin LastIn(fifo)
    BY <1>1, <1>7 DEF LastIn
  <2>2. rest = LastIn(fifo)
    BY <2>1
  <2>3. Cardinality(LastIn(fifo)) \in Nat
    BY <1>3, FS_CardinalityType
  <2> HIDE DEF rest
  <2>4. Cardinality(LastIn(b)) = Cardinality(LastIn(fifo)) - 0
    BY <1>5, <2>2, <2>3
  <2> QED
    BY <1>7, <2>4 DEF b
<1> QED
  BY <1>2, <1>6, <1>7

\* Pushing a frame adds one last packet exactly when all of it fits.
LEMMA LastInPush ==
  ASSUME NEW fifo \in Seq(Packet), BufferBounded(fifo),
         NEW packets \in Seq(Packet),
         \A i \in 1 .. Len(packets) :
           packets[i].last_one <=> i = Len(packets)
  PROVE  LET lost == Accepted(fifo, Len(packets)) < Len(packets)
         IN  Cardinality(LastIn(try_push_all(fifo, packets))) =
               Cardinality(LastIn(fifo))
                 + (IF lost \/ packets = <<>> THEN 0 ELSE 1)
<1> DEFINE n == Accepted(fifo, Len(packets))
           b == try_push_all(fifo, packets)
<1>1. /\ Len(fifo) \in Nat /\ Len(packets) \in Nat
      /\ packets = <<>> <=> Len(packets) = 0
  BY LenProperties, EmptySeq
<1>2. n \in 0 .. Len(packets)
  BY <1>1, AcceptedType
<1>3. /\ b \in Seq(Packet)
      /\ Len(b) = Len(fifo) + n
      /\ \A i \in 1 .. Len(fifo) : b[i] = fifo[i]
      /\ \A i \in 1 .. n : b[Len(fifo) + i] = packets[i]
  BY TryPushAllType
<1> HIDE DEF n, b
<1>4. \A i \in 1 .. n : b[Len(fifo) + i].last_one <=> i = Len(packets)
  <2> TAKE i \in 1 .. n
  <2>1. i \in 1 .. Len(packets)
    BY <1>1, <1>2
  <2> QED
    BY <1>3, <2>1
<1>5. \A i \in 1 .. Len(b) :
        \/ i \in 1 .. Len(fifo) /\ b[i] = fifo[i]
        \/ /\ i - Len(fifo) \in 1 .. n
           /\ b[i].last_one <=> i - Len(fifo) = Len(packets)
  <2> TAKE i \in 1 .. Len(b)
  <2>1. CASE i <= Len(fifo)
    BY <1>1, <1>2, <1>3, <2>1
  <2>2. CASE ~(i <= Len(fifo))
    <3>1. i - Len(fifo) \in 1 .. n /\ Len(fifo) + (i - Len(fifo)) = i
      BY <1>1, <1>2, <1>3, <2>2
    <3> QED
      BY <1>4, <3>1
  <2> QED
    BY <2>1, <2>2
<1>6. LastIn(fifo) \subseteq LastIn(b)
  BY <1>1, <1>2, <1>3 DEF LastIn
<1>7. IsFiniteSet(LastIn(fifo)) /\ Cardinality(LastIn(fifo)) \in Nat
  BY LastInFinite
<1>8. CASE n < Len(packets) \/ packets = <<>>
  <2>1. LastIn(b) \subseteq LastIn(fifo)
    BY <1>1, <1>2, <1>5, <1>8 DEF LastIn
  <2>2. LastIn(b) = LastIn(fifo)
    BY <1>6, <2>1
  <2> QED
    BY <1>7, <1>8, <2>2 DEF n, b
<1>9. CASE ~(n < Len(packets) \/ packets = <<>>)
  <2> DEFINE last == Len(fifo) + Len(packets)
  <2>1. n = Len(packets) /\ Len(packets) \in 1 .. n
    BY <1>1, <1>2, <1>9
  <2>2. last \in 1 .. Len(b) /\ b[last].last_one
    BY <1>1, <1>3, <1>4, <2>1
  <2>3. last \notin 1 .. Len(fifo)
    BY <1>1, <2>1
  <2>4. LastIn(b) \subseteq LastIn(fifo) \cup {last}
    <3> SUFFICES ASSUME NEW i \in LastIn(b), i \notin 1 .. Len(fifo)
                 PROVE  i = last
      BY <1>5 DEF LastIn
    <3>1. i \in 1 .. Len(b) /\ b[i].last_one
      BY DEF LastIn
    <3>2. i - Len(fifo) = Len(packets)
      BY <1>5, <3>1
    <3> QED
      BY <1>1, <3>1, <3>2
  <2>5. LastIn(b) = LastIn(fifo) \cup {last}
    BY <1>6, <2>2, <2>4 DEF LastIn
  <2>6. last \notin LastIn(fifo)
    BY <2>3 DEF LastIn
  <2> HIDE DEF last
  <2>7. Cardinality(LastIn(b)) = Cardinality(LastIn(fifo)) + 1
    BY <1>7, <2>5, <2>6, FS_AddElement
  <2> QED
    BY <1>9, <2>7 DEF n, b
<1> QED
  BY <1>8, <1>9

\* A step that touches neither the buffer nor the counts keeps them equal.
LEMMA CountUnchanged ==
  ASSUME FrameCountExact, pc # "stopped", throttler'.buffer = throttler.buffer,
         throttler'.frame_count = throttler.frame_count, cut' = cut
  PROVE  FrameCountExact'
  BY DEF FrameCountExact

\* Every step keeps the frame count exact.
LEMMA StepFrameCount ==
  TypeOK /\ FrameCountExact /\ [Next]_vars => FrameCountExact'
<1> SUFFICES ASSUME TypeOK, FrameCountExact, [Next]_vars
             PROVE  FrameCountExact'
  OBVIOUS
<1> DEFINE fifo == throttler.buffer
           count == throttler.frame_count
<1>0. /\ throttler \in Throttler
      /\ WindowBounded(throttler)
      /\ BufferBounded(fifo)
      /\ fifo \in Seq(Packet)
      /\ count \in Int
      /\ seq \in Nat /\ cut \in Nat
      /\ Cardinality(LastIn(fifo)) \in Nat
  BY LastInFinite DEF TypeOK, Throttler
<1>1. ASSUME NEW size \in FrameSizes, NextFrame(size) PROVE FrameCountExact'
  <2> DEFINE packets == generate_packets(seq + 1, size)
             lost == Accepted(fifo, Len(packets)) < Len(packets)
             none == lost \/ packets = <<>>
  <2>1. /\ packets \in Seq(Packet)
        /\ \A i \in 1 .. Len(packets) :
             packets[i].last_one <=> i = Len(packets)
    <3> DEFINE k == seq + 1
    <3>1. k \in Nat /\ size \in Nat
      BY StreamAssumption, <1>0
    <3> HIDE DEF k
    <3>2. /\ generate_packets(k, size) \in Seq(Packet)
          /\ Len(generate_packets(k, size)) = PacketCount(size)
      BY <3>1, GeneratePacketsType
    <3>3. \A i \in 1 .. PacketCount(size) :
            generate_packets(k, size)[i].last_one <=> i = PacketCount(size)
      BY <3>1, GeneratePacketsFields
    <3> QED
      BY <3>2, <3>3 DEF k
  <2>2. /\ throttler' = prepare(throttler, packets)
        /\ cut' = cut + (IF none THEN 1 ELSE 0)
        /\ pc = "frame"
    BY <1>1 DEF NextFrame
  <2> HIDE DEF packets
  <2>3. /\ throttler'.buffer = try_push_all(fifo, packets)
        /\ throttler'.frame_count = count + 1
    BY <1>0, <2>1, <2>2, PrepareType
  <2>4. Cardinality(LastIn(throttler'.buffer)) =
          Cardinality(LastIn(fifo)) + (IF none THEN 0 ELSE 1)
    BY <1>0, <2>1, <2>3, LastInPush
  <2>5. count = Cardinality(LastIn(fifo)) + cut
    BY <2>2 DEF FrameCountExact
  <2> HIDE DEF none, count
  <2>6. throttler'.frame_count = Cardinality(LastIn(throttler'.buffer)) + cut'
    <3> DEFINE c == Cardinality(LastIn(fifo))
    <3> HIDE DEF c
    <3>1. c \in Nat /\ cut \in Nat /\ count = c + cut
      BY <1>0, <2>5 DEF c
    <3>2. CASE none
      BY <2>2, <2>3, <2>4, <3>1, <3>2 DEF c
    <3>3. CASE ~none
      BY <2>2, <2>3, <2>4, <3>1, <3>3 DEF c
    <3> QED
      BY <3>2, <3>3
  <2> QED
    BY <2>6 DEF FrameCountExact
<1>2. CASE Drain
  BY <1>2, CountUnchanged DEF Drain
<1>3. CASE Hold
  <2>1. HeadSize \in Nat /\ pc # "stopped"
    BY <1>3, HeadType DEF Hold, HeadExceeds, InProcessQueue
  <2>2. throttler'.buffer = fifo /\ throttler'.frame_count = count
    BY <1>0, <1>3, <2>1, MeasureType DEF Hold
  <2> QED
    BY <1>3, <2>1, <2>2, CountUnchanged DEF Hold
<1>4. CASE Send
  <2>1. HasHead /\ pc # "stopped" /\ cut' = cut
    BY <1>4 DEF Send, InProcessQueue
  <2>2. /\ throttler'.buffer = Tail(fifo)
        /\ throttler'.frame_count =
             count - (IF Head(fifo).last_one THEN 1 ELSE 0)
    BY <1>0, <1>4, <2>1, SentType DEF Send, HasHead
  <2>3. Cardinality(LastIn(Tail(fifo))) =
          Cardinality(LastIn(fifo)) - (IF Head(fifo).last_one THEN 1 ELSE 0)
    BY <1>0, <2>1, LastInTail DEF HasHead
  <2>4. count = Cardinality(LastIn(fifo)) + cut
    BY <2>1 DEF FrameCountExact
  <2>5. throttler'.frame_count = Cardinality(LastIn(throttler'.buffer)) + cut'
    <3>1. CASE Head(fifo).last_one
      BY <1>0, <2>1, <2>2, <2>3, <2>4, <3>1
    <3>2. CASE ~Head(fifo).last_one
      BY <1>0, <2>1, <2>2, <2>3, <2>4, <3>2
    <3> QED
      BY <3>1, <3>2
  <2> QED
    BY <2>5 DEF FrameCountExact
<1>5. CASE Refuse
  <2>1. HeadSize \in Nat /\ pc # "stopped"
    BY <1>5, HeadType DEF Refuse, InProcessQueue
  <2>2. throttler'.buffer = fifo /\ throttler'.frame_count = count
    BY <1>0, <1>5, <2>1, ExceedsWithType DEF Refuse
  <2> QED
    BY <1>5, <2>1, <2>2, CountUnchanged DEF Refuse
<1>6. CASE LeaveQueue
  BY <1>6, CountUnchanged DEF LeaveQueue
<1>7. CASE Stop
  BY <1>7 DEF Stop, FrameCountExact
<1>8. ASSUME NEW x \in Throttles, SetThrottle(x) PROVE FrameCountExact'
  <2>1. throttler'.buffer = fifo /\ throttler'.frame_count = count
    BY <1>0, <1>8 DEF SetThrottle, Throttler
  <2> QED
    BY <1>8, <2>1 DEF SetThrottle, FrameCountExact
<1>9. CASE Tick
  <2>1. throttler'.buffer = fifo /\ throttler'.frame_count = count
    BY <1>0, <1>9, AgeWindowType DEF Tick
  <2> QED
    BY <1>9, <2>1 DEF Tick, FrameCountExact
<1>10. CASE UNCHANGED vars
  BY <1>10 DEF vars, FrameCountExact
<1> QED
  BY <1>1, <1>2, <1>3, <1>4, <1>5, <1>6, <1>7, <1>8, <1>9, <1>10
  DEF Next, SourceThread

\* The reported frame count is exact for every trace and every buffer, so its
\* decrement never goes below zero.
THEOREM FrameCount == Spec => []FrameCountExact
<1>1. Init => FrameCountExact
  <2> SUFFICES ASSUME Init PROVE FrameCountExact
    OBVIOUS
  <2>1. throttler.frame_count = 0 /\ throttler.buffer = <<>> /\ cut = 0
    BY DEF Init, RateThrottler_new
  <2>2. LastIn(throttler.buffer) = {}
    BY <2>1 DEF LastIn
  <2>3. Cardinality(LastIn(throttler.buffer)) = 0
    BY <2>2, FS_EmptySet
  <2> QED
    BY <2>1, <2>3 DEF FrameCountExact
<1> QED
  BY <1>1, StepFrameCount, TypeCorrect, PTL DEF Spec

-----------------------------------------------------------------------------
(* The bytes of the window *)

\* p holds the sums of the first n entries of a window, one by one.
SumsTo(p, window, n) ==
  /\ p \in [0 .. n -> Int]
  /\ p[0] = 0
  /\ \A i \in 1 .. n : p[i] = p[i - 1] + window[i].size

\* Every window has such sums.
LEMMA SumsExist ==
  ASSUME NEW window \in Seq(WindowEntry)
  PROVE  \E p : SumsTo(p, window, Len(window))
<1> DEFINE T == {n \in 0 .. Len(window) : ~ \E p : SumsTo(p, window, n)}
<1> SUFFICES ASSUME T # {} PROVE FALSE
  <2>1. Len(window) \in 0 .. Len(window)
    BY LenProperties
  <2> QED
    BY <2>1
<1>1. Len(window) \in Nat /\ T \in SUBSET Nat
  BY LenProperties
<1>2. PICK m \in T : \A n \in T : m <= n
  BY <1>1, LeastElement
<1>3. m \in 0 .. Len(window) /\ ~ \E p : SumsTo(p, window, m)
  OBVIOUS
<1>4. CASE m = 0
  <2> DEFINE p == [i \in 0 .. 0 |-> 0]
  <2>1. SumsTo(p, window, 0)
    BY DEF SumsTo
  <2> QED
    BY <1>3, <1>4, <2>1
<1>5. CASE m # 0
  <2>1. m \in Nat /\ m - 1 \in 0 .. Len(window) /\ m \in 1 .. Len(window)
    BY <1>1, <1>3, <1>5
  <2>2. m - 1 \notin T
    BY <1>2, <2>1
  <2>3. PICK p : SumsTo(p, window, m - 1)
    BY <2>1, <2>2
  <2> DEFINE q == [i \in 0 .. m |-> IF i = m THEN p[m - 1] + window[m].size
                                    ELSE p[i]]
  <2>4. window[m].size \in Int
    <3>1. window[m] \in WindowEntry
      BY <2>1, ElementOfSeq
    <3> QED
      BY <3>1 DEF WindowEntry
  <2>5. \A i \in 0 .. m : i # m => i \in 0 .. m - 1 /\ p[i] \in Int
    BY <2>1, <2>3 DEF SumsTo
  <2>6. m - 1 \in 0 .. m - 1 /\ p[m - 1] \in Int
    BY <2>1, <2>3 DEF SumsTo
  <2>7. q \in [0 .. m -> Int]
    BY <2>4, <2>5, <2>6
  <2>8. q[0] = 0
    BY <2>1, <2>3 DEF SumsTo
  <2>9. ASSUME NEW i \in 1 .. m
        PROVE  q[i] = q[i - 1] + window[i].size
    <3>1. i \in 0 .. m /\ i - 1 \in 0 .. m /\ i - 1 # m
      BY <2>1
    <3>2. CASE i = m
      BY <3>1, <3>2
    <3>3. CASE i # m
      <4>1. i \in 1 .. m - 1
        BY <2>1, <3>3
      <4> QED
        BY <2>3, <3>1, <3>3, <4>1 DEF SumsTo
    <3> QED
      BY <3>2, <3>3
  <2> HIDE DEF q
  <2>10. SumsTo(q, window, m)
    BY <2>7, <2>8, <2>9 DEF SumsTo
  <2> QED
    BY <1>3, <2>10
<1> QED
  BY <1>4, <1>5

\* The sums of a window are what Sums defines.
LEMMA SumsValue ==
  ASSUME NEW window \in Seq(WindowEntry), NEW p,
         SumsTo(p, window, Len(window))
  PROVE  WindowBytes(window) = p[Len(window)]
<1> DEFINE n == Len(window)
           Rec(c) == c = [i \in 0 .. n |->
                            IF i = 0 THEN 0 ELSE c[i - 1] + window[i].size]
<1>1. n \in Nat
  BY LenProperties
<1>2. Rec(p)
  <2>1. p = [i \in 0 .. n |-> p[i]]
    BY DEF SumsTo
  <2>2. \A i \in 0 .. n : i # 0 => i \in 1 .. n
    BY <1>1
  <2>3. \A i \in 0 .. n : p[i] = IF i = 0 THEN 0 ELSE p[i - 1] + window[i].size
    BY <2>2 DEF SumsTo
  <2> QED
    BY <2>1, <2>3
<1> DEFINE c == CHOOSE d : Rec(d)
<1>3. Sums(window) = c
  BY DEF Sums
<1>4. Rec(c)
  <2> HIDE DEF Rec
  <2> QED
    BY <1>2
<1> HIDE DEF c
<1>5. /\ c[0] = 0 /\ p[0] = 0
      /\ \A i \in 1 .. n : /\ c[i] = c[i - 1] + window[i].size
                           /\ p[i] = p[i - 1] + window[i].size
  <2>1. \A i \in 0 .. n : c[i] = IF i = 0 THEN 0 ELSE c[i - 1] + window[i].size
    BY <1>4
  <2>2. 0 \in 0 .. n /\ \A i \in 1 .. n : i \in 0 .. n /\ i # 0
    BY <1>1
  <2> QED
    BY <2>1, <2>2 DEF SumsTo
<1> HIDE DEF Rec
<1> DEFINE T == {i \in 0 .. n : c[i] # p[i]}
<1>6. T = {}
  <2> SUFFICES ASSUME T # {} PROVE FALSE
    OBVIOUS
  <2>1. T \in SUBSET Nat
    BY <1>1
  <2>2. PICK m \in T : \A i \in T : m <= i
    BY <2>1, LeastElement
  <2>3. m \in 1 .. n /\ m - 1 \in 0 .. n
    BY <1>1, <1>5, <2>2
  <2>4. m - 1 \notin T
    BY <2>2, <2>3
  <2>5. c[m - 1] = p[m - 1]
    BY <2>3, <2>4
  <2>6. c[m] = p[m]
    BY <1>5, <2>3, <2>5
  <2> QED
    BY <2>6
<1>7. n \in 0 .. n
  BY <1>1
<1> QED
  BY <1>3, <1>6, <1>7 DEF WindowBytes

\* The bytes of a window are its last sum.
LEMMA BytesAreSums ==
  ASSUME NEW window \in Seq(WindowEntry)
  PROVE  \E p : /\ SumsTo(p, window, Len(window))
                /\ WindowBytes(window) = p[Len(window)]
                /\ WindowBytes(window) \in Int
<1>1. PICK p : SumsTo(p, window, Len(window))
  BY SumsExist
<1>2. WindowBytes(window) = p[Len(window)]
  BY <1>1, SumsValue
<1>3. Len(window) \in 0 .. Len(window)
  BY LenProperties
<1> QED
  BY <1>1, <1>2, <1>3 DEF SumsTo

\* An empty window has no bytes.
LEMMA EmptyBytes == WindowBytes(<<>>) = 0
<1>1. <<>> \in Seq(WindowEntry) /\ Len(<<>>) = 0
  OBVIOUS
<1>2. PICK p : /\ SumsTo(p, <<>>, Len(<<>>))
               /\ WindowBytes(<<>>) = p[Len(<<>>)]
  BY <1>1, BytesAreSums
<1> QED
  BY <1>1, <1>2 DEF SumsTo

\* A new entry adds its size.
LEMMA AppendBytes ==
  ASSUME NEW window \in Seq(WindowEntry), NEW entry \in WindowEntry
  PROVE  WindowBytes(Append(window, entry)) = WindowBytes(window) + entry.size
<1> DEFINE w == Append(window, entry)
           n == Len(window)
<1>1. PICK p : /\ SumsTo(p, window, n)
               /\ WindowBytes(window) = p[n] /\ p[n] \in Int
  BY BytesAreSums
<1>2. /\ w \in Seq(WindowEntry) /\ Len(w) = n + 1 /\ n \in Nat
      /\ w[n + 1] = entry
      /\ \A i \in 1 .. n : w[i] = window[i]
  BY AppendProperties, LenProperties
<1> HIDE DEF w, n
<1> DEFINE q == [i \in 0 .. n + 1 |-> IF i = n + 1 THEN p[n] + entry.size
                                      ELSE p[i]]
<1>3. p[n] + entry.size \in Int
  BY <1>1 DEF WindowEntry
<1>4. \A i \in 0 .. n + 1 : i # n + 1 => i \in 0 .. n /\ p[i] \in Int
  BY <1>1, <1>2 DEF SumsTo
<1>5. q \in [0 .. n + 1 -> Int] /\ q[0] = 0 /\ q[n + 1] = p[n] + entry.size
  BY <1>1, <1>2, <1>3, <1>4 DEF SumsTo
<1>6. ASSUME NEW i \in 1 .. n + 1
      PROVE  q[i] = q[i - 1] + w[i].size
  <2>1. i \in 0 .. n + 1 /\ i - 1 \in 0 .. n + 1 /\ i - 1 # n + 1
    BY <1>2
  <2>2. CASE i = n + 1
    BY <1>2, <2>1, <2>2
  <2>3. CASE i # n + 1
    <3>1. i \in 1 .. n
      BY <1>2, <2>3
    <3> QED
      BY <1>1, <1>2, <2>1, <2>3, <3>1 DEF SumsTo
  <2> QED
    BY <2>2, <2>3
<1> HIDE DEF q
<1>7. SumsTo(q, w, Len(w))
  BY <1>2, <1>5, <1>6 DEF SumsTo
<1>8. WindowBytes(w) = q[n + 1]
  BY <1>2, <1>7, SumsValue
<1> QED
  BY <1>1, <1>5, <1>8 DEF w, n

\* Retiring the oldest entry takes its size away.
LEMMA TailBytes ==
  ASSUME NEW window \in Seq(WindowEntry), window # <<>>
  PROVE  WindowBytes(Tail(window)) = WindowBytes(window) - Head(window).size
<1> DEFINE w == Tail(window)
           n == Len(window)
<1>1. PICK p : /\ SumsTo(p, window, n)
               /\ WindowBytes(window) = p[n]
  BY BytesAreSums
<1>2. /\ w \in Seq(WindowEntry) /\ Len(w) = n - 1 /\ n \in Nat /\ n > 0
      /\ Head(window) = window[1]
      /\ \A i \in 1 .. n - 1 : w[i] = window[i + 1]
  BY HeadTailProperties, LenProperties, EmptySeq
<1>3. \A i \in 1 .. n : window[i].size \in Int
  <2> TAKE i \in 1 .. n
  <2>1. window[i] \in WindowEntry
    BY <1>2, ElementOfSeq
  <2> QED
    BY <2>1 DEF WindowEntry
<1> HIDE DEF w, n
<1>4. /\ \A i \in 0 .. n : p[i] \in Int
      /\ p[0] = 0
      /\ \A i \in 1 .. n : p[i] = p[i - 1] + window[i].size
  BY <1>1 DEF SumsTo
<1>5. p[1] = window[1].size /\ p[1] \in Int
  <2>1. 1 \in 1 .. n /\ 1 \in 0 .. n /\ 1 - 1 = 0
    BY <1>2
  <2>2. p[1] = p[0] + window[1].size /\ p[1] \in Int
    BY <1>4, <2>1
  <2> QED
    BY <1>3, <1>4, <2>1, <2>2
<1> DEFINE q == [i \in 0 .. n - 1 |-> p[i + 1] - p[1]]
<1>6. /\ q \in [0 .. n - 1 -> Int]
      /\ q[0] = 0
      /\ q[n - 1] = p[n] - p[1]
  <2>1. \A i \in 0 .. n - 1 : i + 1 \in 0 .. n
    BY <1>2
  <2>2. \A i \in 0 .. n - 1 : p[i + 1] - p[1] \in Int
    BY <1>4, <1>5, <2>1
  <2>3. 0 \in 0 .. n - 1 /\ n - 1 \in 0 .. n - 1 /\ (n - 1) + 1 = n
    BY <1>2
  <2> QED
    BY <1>5, <2>2, <2>3
<1>7. ASSUME NEW i \in 1 .. n - 1
      PROVE  q[i] = q[i - 1] + w[i].size
  <2>1. /\ i \in 0 .. n - 1 /\ i - 1 \in 0 .. n - 1 /\ (i - 1) + 1 = i
        /\ i + 1 \in 1 .. n /\ (i + 1) - 1 = i /\ i \in 0 .. n
    BY <1>2
  <2>2. p[i + 1] = p[i] + window[i + 1].size
    BY <1>4, <2>1
  <2>3. q[i] = p[i + 1] - p[1] /\ q[i - 1] = p[i] - p[1]
    BY <2>1
  <2>4. p[i] \in Int /\ window[i + 1].size \in Int /\ w[i] = window[i + 1]
    BY <1>2, <1>3, <1>4, <2>1
  <2> HIDE DEF q
  <2> QED
    BY <1>5, <2>2, <2>3, <2>4
<1> HIDE DEF q
<1>8. SumsTo(q, w, Len(w))
  BY <1>2, <1>6, <1>7 DEF SumsTo
<1>9. WindowBytes(w) = q[n - 1]
  BY <1>2, <1>8, SumsValue
<1> QED
  BY <1>1, <1>2, <1>5, <1>6, <1>9 DEF w

\* Only the sizes count.
LEMMA SameSizes ==
  ASSUME NEW window \in Seq(WindowEntry), NEW w \in Seq(WindowEntry),
         Len(w) = Len(window),
         \A i \in 1 .. Len(window) : w[i].size = window[i].size
  PROVE  WindowBytes(w) = WindowBytes(window)
<1>1. PICK p : /\ SumsTo(p, window, Len(window))
               /\ WindowBytes(window) = p[Len(window)]
  BY BytesAreSums
<1>2. SumsTo(p, w, Len(w))
  BY <1>1 DEF SumsTo
<1> QED
  BY <1>1, <1>2, SumsValue

-----------------------------------------------------------------------------
(* The sum of the window *)

SumOf(t) == t.sum_bytes = WindowBytes(t.window)

\* Measuring leaves the window and its sum alone.
LEMMA MeasureSum ==
  ASSUME NEW t \in Throttler, NEW extra \in Int
  PROVE  /\ current_rate_mbps(t, extra).window = t.window
         /\ current_rate_mbps(t, extra).sum_bytes = t.sum_bytes
BY DEF current_rate_mbps, Throttler

\* Charging keeps the sum, on both of its paths.
LEMMA ChargeSum ==
  ASSUME NEW t \in Throttler, NEW size \in Nat, SumOf(t)
  PROVE  SumOf(charge(t, size))
<1> DEFINE entry == [age |-> 0, size |-> size]
           grown == Append(t.window, entry)
           old   == Head(grown).size
<1>1. entry \in WindowEntry /\ entry.size = size /\ t.window \in Seq(WindowEntry)
  BY DEF WindowEntry, Throttler
<1>2. grown \in Seq(WindowEntry) /\ grown # <<>>
  BY <1>1, AppendProperties
<1>3. WindowBytes(grown) = t.sum_bytes + size
  BY <1>1, AppendBytes DEF SumOf
<1>4. WindowBytes(Tail(grown)) = WindowBytes(grown) - old
  BY <1>2, TailBytes
<1>5. t.sum_bytes \in Int /\ old \in Int
  <2>1. Head(grown) \in WindowEntry
    BY <1>2, HeadTailProperties
  <2> QED
    BY <2>1 DEF WindowEntry, Throttler
<1>6. charge(t, size) =
        IF Full(grown, window_size)
        THEN [t EXCEPT !.window = Tail(grown),
                       !.sum_bytes = @ + size - old,
                       !.acc_error = @ + old]
        ELSE [t EXCEPT !.window = grown, !.sum_bytes = @ + size]
  BY DEF charge
<1> HIDE DEF grown, old
<1>7. CASE Full(grown, window_size)
  <2>1. /\ charge(t, size).window = Tail(grown)
        /\ charge(t, size).sum_bytes = t.sum_bytes + size - old
    BY <1>6, <1>7 DEF Throttler
  <2> QED
    BY <1>3, <1>4, <1>5, <2>1 DEF SumOf
<1>8. CASE ~Full(grown, window_size)
  <2>1. /\ charge(t, size).window = grown
        /\ charge(t, size).sum_bytes = t.sum_bytes + size
    BY <1>6, <1>8 DEF Throttler
  <2> QED
    BY <1>3, <2>1 DEF SumOf
<1> QED
  BY <1>7, <1>8

\* So does exceeds_with, whatever it decides.
LEMMA ExceedsWithSum ==
  ASSUME NEW t \in Throttler, NEW size \in Nat, SumOf(t)
  PROVE  SumOf(exceeds_with(t, size)) /\ SumOf(measure(t, size))
<1> DEFINE u == [t EXCEPT !.acc_error = @ + size]
<1>1. u \in Throttler /\ u.window = t.window /\ u.sum_bytes = t.sum_bytes
  <2>1. t.acc_error + size \in Nat
    BY DEF Throttler
  <2> QED
    BY <2>1 DEF Throttler
<1>2. measure(t, size) = current_rate_mbps(u, size)
  BY DEF measure
<1> HIDE DEF u
<1>3. measure(t, size) \in Throttler
  BY MeasureType
<1>4. SumOf(measure(t, size))
  BY <1>1, <1>2, MeasureSum DEF SumOf
<1> QED
  BY <1>3, <1>4, ChargeSum DEF exceeds_with

\* And sending the head packet.
LEMMA SentSum ==
  ASSUME NEW t \in Throttler, WindowBounded(t), t.buffer # <<>>, SumOf(t)
  PROVE  SumOf(try_consume_sent(t))
<1> DEFINE p == Head(t.buffer)
           e == exceeds_with(t, p.length)
           u == uncount(e, p)
           m == current_rate_mbps(u, 0)
<1>1. p.length \in Nat /\ p.last_one \in BOOLEAN
  <2>1. p \in Packet
    BY SentType
  <2> QED
    BY <2>1 DEF Packet
<1>2. e \in Throttler /\ SumOf(e)
  BY <1>1, ExceedsWithType, ExceedsWithSum
<1>3. try_consume_sent(t) = [m EXCEPT !.buffer = Tail(@)]
  BY DEF try_consume_sent, consume
<1> HIDE DEF p, e
<1>4. u \in Throttler /\ u.window = e.window /\ u.sum_bytes = e.sum_bytes
  <2> DEFINE k == e.frame_count - (IF p.last_one THEN 1 ELSE 0)
  <2>1. k \in Int
    BY <1>1, <1>2 DEF Throttler
  <2>2. u = [e EXCEPT !.frame_count = k]
    BY DEF uncount
  <2> HIDE DEF k
  <2> QED
    BY <1>2, <2>1, <2>2 DEF Throttler
<1> HIDE DEF u
<1>5. m \in Throttler /\ m.window = u.window /\ m.sum_bytes = u.sum_bytes
  BY <1>4, CurrentRateType, MeasureSum
<1> HIDE DEF m
<1>6. /\ try_consume_sent(t).window = m.window
      /\ try_consume_sent(t).sum_bytes = m.sum_bytes
  BY <1>3, <1>5 DEF Throttler
<1> QED
  BY <1>2, <1>4, <1>5, <1>6 DEF SumOf

\* Growing older does not change sizes.
LEMMA AgeSum ==
  ASSUME NEW t \in Throttler, WindowBounded(t), SumOf(t)
  PROVE  SumOf(age_window(t))
<1> DEFINE aged == [i \in DOMAIN t.window |-> grow_older(t.window[i])]
<1>1. /\ t.window \in Seq(WindowEntry) /\ t.sum_bytes \in Int
      /\ DOMAIN t.window = 1 .. Len(t.window) /\ Len(t.window) \in Nat
      /\ \A i \in 1 .. Len(t.window) : t.window[i] \in WindowEntry
  BY LenProperties, ElementOfSeq DEF Throttler
<1>2. /\ age_window(t).window = aged
      /\ age_window(t).sum_bytes = t.sum_bytes
  BY DEF age_window, Throttler
<1>3. \A entry \in WindowEntry : /\ grow_older(entry) \in WindowEntry
                                 /\ grow_older(entry).size = entry.size
  BY DEF WindowEntry, grow_older
<1>4. /\ aged \in [1 .. Len(t.window) -> WindowEntry]
      /\ \A i \in 1 .. Len(t.window) : aged[i].size = t.window[i].size
  BY <1>1, <1>3
<1> HIDE DEF aged
<1>5. aged \in Seq(WindowEntry) /\ Len(aged) = Len(t.window)
  BY <1>1, <1>4
<1>6. WindowBytes(aged) = WindowBytes(t.window)
  BY <1>1, <1>4, <1>5, SameSizes
<1> QED
  BY <1>2, <1>6 DEF SumOf

\* Every step keeps the sum.
LEMMA StepSum == TypeOK /\ SumBytesExact /\ [Next]_vars => SumBytesExact'
<1> SUFFICES ASSUME TypeOK, SumBytesExact, [Next]_vars PROVE SumOf(throttler)'
  BY DEF SumBytesExact, SumOf
<1>0. /\ throttler \in Throttler /\ WindowBounded(throttler)
      /\ BufferBounded(throttler.buffer) /\ SumOf(throttler)
  BY DEF TypeOK, SumBytesExact, SumOf
<1>1. ASSUME NEW size \in FrameSizes, NextFrame(size) PROVE SumOf(throttler)'
  <2> DEFINE packets == generate_packets(seq + 1, size)
             m == current_rate_mbps(throttler, 0)
  <2>1. m \in Throttler /\ SumOf(m)
    BY <1>0, CurrentRateType, MeasureSum DEF SumOf
  <2>2. throttler' = [m EXCEPT !.buffer = try_push_all(throttler.buffer, packets),
                               !.frame_count = @ + 1]
    BY <1>1 DEF NextFrame, prepare
  <2> HIDE DEF m, packets
  <2>3. throttler'.window = m.window /\ throttler'.sum_bytes = m.sum_bytes
    BY <2>1, <2>2 DEF Throttler
  <2> QED
    BY <2>1, <2>3 DEF SumOf
<1>2. CASE UNCHANGED throttler
  BY <1>0, <1>2 DEF SumOf
<1>3. CASE Hold
  <2>1. HasHead /\ throttler' = measure(throttler, HeadSize)
    BY <1>3 DEF Hold, HeadExceeds
  <2>2. HeadSize \in Nat
    BY <2>1, HeadType
  <2> QED
    BY <1>0, <2>1, <2>2, ExceedsWithSum
<1>4. CASE Send
  <2>1. throttler.buffer # <<>> /\ throttler' = try_consume_sent(throttler)
    BY <1>4 DEF Send, HasHead
  <2> QED
    BY <1>0, <2>1, SentSum
<1>5. CASE Refuse
  <2>1. HasHead /\ throttler' = exceeds_with(throttler, HeadSize)
    BY <1>5 DEF Refuse
  <2>2. HeadSize \in Nat
    BY <2>1, HeadType
  <2> QED
    BY <1>0, <2>1, <2>2, ExceedsWithSum
<1>6. CASE Stop
  <2>1. throttler'.window = <<>> /\ throttler'.sum_bytes = 0
    BY <1>6 DEF Stop, reset
  <2> QED
    BY <2>1, EmptyBytes DEF SumOf
<1>7. ASSUME NEW x \in Throttles, SetThrottle(x) PROVE SumOf(throttler)'
  <2>1. /\ throttler'.window = throttler.window
        /\ throttler'.sum_bytes = throttler.sum_bytes
    BY <1>0, <1>7 DEF SetThrottle, Throttler
  <2> QED
    BY <1>0, <2>1 DEF SumOf
<1>8. CASE Tick
  BY <1>0, <1>8, AgeSum DEF Tick
<1>9. Drain \/ LeaveQueue \/ UNCHANGED vars => UNCHANGED throttler
  BY DEF Drain, LeaveQueue, vars
<1> QED
  BY <1>1, <1>2, <1>3, <1>4, <1>5, <1>6, <1>7, <1>8, <1>9
  DEF Next, SourceThread

\* sum_bytes is the sum of the window for every window size, every packet
\* length, and every interleaving of the two threads.
THEOREM SumOfWindow == Spec => []SumBytesExact
<1>1. Init => SumBytesExact
  BY EmptyBytes DEF Init, SumBytesExact, RateThrottler_new
<1> QED
  BY <1>1, StepSum, TypeCorrect, PTL DEF Spec

-----------------------------------------------------------------------------
(* The rate *)

\* Without an error to allow for, the measurement a packet is charged on is
\* that of the window with the packet.
LEMMA MeasuredAnew ==
  ASSUME NEW t \in Throttler, NEW size \in Nat, t.max_error = 0, t.window # <<>>
  PROVE  measure(t, size).last_rate =
           [bytes |-> t.sum_bytes + size, age |-> Head(t.window).age]
<1> DEFINE u == [t EXCEPT !.acc_error = @ + size]
<1>1. t.acc_error + size \in Nat
  BY DEF Throttler
<1>2. /\ u \in Throttler /\ u.window = t.window /\ u.sum_bytes = t.sum_bytes
      /\ ~MeasurementCached(u)
  BY <1>1 DEF Throttler, MeasurementCached
<1>3. measure(t, size) = current_rate_mbps(u, size)
  BY DEF measure
<1> HIDE DEF u
<1> QED
  BY <1>2, <1>3 DEF current_rate_mbps, Throttler

\* A step that charges a packet finds it below the throttle.
LEMMA StepRate ==
  TypeOK /\ SumBytesExact /\ [Next]_vars =>
    (Charged /\ throttler.max_error = 0 /\ ~Exempt(throttler)
       => WindowBytes(throttler.window) + HeadSize
            < throttler.throttle * Head(throttler.window).age)
<1> SUFFICES ASSUME TypeOK, SumBytesExact, Send \/ Refuse,
                    throttler.max_error = 0, ~Exempt(throttler)
             PROVE  WindowBytes(throttler.window) + HeadSize
                      < throttler.throttle * Head(throttler.window).age
  BY DEF Charged
<1>1. HasHead /\ ~HeadExceeds
  BY DEF Send, Refuse
<1>2. HeadSize \in Nat /\ throttler \in Throttler /\ throttler.window # <<>>
  BY <1>1, HeadType DEF TypeOK, Exempt
<1>3. Below(measure(throttler, HeadSize).last_rate, throttler.throttle)
  BY <1>1 DEF HeadExceeds, Exceeds
<1>4. measure(throttler, HeadSize).last_rate =
        [bytes |-> throttler.sum_bytes + HeadSize,
         age |-> Head(throttler.window).age]
  BY <1>2, MeasuredAnew
<1> QED
  BY <1>3, <1>4 DEF Below, SumBytesExact

\* With an exact throttler no packet is charged that would bring the bytes of
\* the window to the throttle, whatever the other thread sets and however
\* often the callback refuses.
THEOREM RateKept == Spec => RateRespected
<1>1. TypeOK /\ SumBytesExact /\ [Next]_vars =>
        [Charged /\ throttler.max_error = 0 /\ ~Exempt(throttler)
           => WindowBytes(throttler.window) + HeadSize
                < throttler.throttle * Head(throttler.window).age]_vars
  BY StepRate
<1> QED
  BY <1>1, SumOfWindow, TypeCorrect, PTL DEF Spec, RateRespected
=============================================================================
