-------------------------- MODULE LiveStreamProofs --------------------------
(***************************************************************************)
(* What holds of LiveStream for every buffer capacity, stop time and       *)
(* frames the application hands over.                                      *)
(***************************************************************************)
EXTENDS LiveStream, RateThrottlerProofs

\* The frame that recv returns, cut into packets, fits the queue as far as
\* try_push_all says.
LEMMA ReceivedType ==
  ASSUME TypeOK, Receive
  PROVE  /\ Head(channel) \in FrameSizes
         /\ Tail(channel) \in Seq(FrameSizes)
         /\ generate_packets(seq + 1, Head(channel)) \in Seq(Packet)
         /\ buffer' \in Seq(Packet) /\ BufferBounded(buffer')
<1>1. channel \in Seq(FrameSizes) /\ channel # <<>>
  BY DEF TypeOK, Receive
<1>2. Head(channel) \in FrameSizes /\ Tail(channel) \in Seq(FrameSizes)
  BY <1>1, HeadTailProperties
<1>3. Head(channel) \in Nat /\ seq + 1 \in Nat
  <2>1. FrameSizes \subseteq Nat
    BY LiveAssumption
  <2>2. Head(channel) \in Nat
    BY <1>2, <2>1
  <2>3. seq + 1 \in Nat
    BY DEF TypeOK
  <2> QED
    BY <2>2, <2>3
<1> DEFINE packets == generate_packets(seq + 1, Head(channel))
<1>4. packets \in Seq(Packet)
  BY <1>3, GeneratePacketsType
<1>5. buffer' = try_push_all(buffer, packets)
  BY DEF Receive
<1> HIDE DEF packets
<1>6. buffer' \in Seq(Packet) /\ BufferBounded(buffer')
  <2>1. buffer \in Seq(Packet) /\ BufferBounded(buffer)
    BY DEF TypeOK
  <2> QED
    BY <1>4, <1>5, <2>1, TryPushAllType
<1> QED
  BY <1>2, <1>4, <1>6 DEF packets

\* A packet that is sent leaves the others in the queue.
LEMMA SentFromQueue ==
  ASSUME TypeOK, Send
  PROVE  Tail(buffer) \in Seq(Packet) /\ BufferBounded(Tail(buffer))
<1>1. buffer \in Seq(Packet) /\ buffer # <<>> /\ BufferBounded(buffer)
  BY DEF TypeOK, Send
<1>2. /\ Tail(buffer) \in Seq(Packet)
      /\ Len(Tail(buffer)) = Len(buffer) - 1
  BY <1>1, HeadTailProperties
<1>3. Len(buffer) \in Nat /\ BufferSize \in Nat
  BY <1>1, ThrottlerAssumption, LenProperties DEF BufferSize
<1> QED
  BY <1>1, <1>2, <1>3 DEF BufferBounded

\* An empty queue is within bounds.
LEMMA EmptyQueue == <<>> \in Seq(Packet) /\ BufferBounded(<<>>)
<1>1. BufferSize \in Nat
  BY ThrottlerAssumption DEF BufferSize
<1> QED
  BY <1>1 DEF BufferBounded

\* Every step keeps the types.
LEMMA StepTypeOK == TypeOK /\ [Next]_vars => TypeOK'
<1> SUFFICES ASSUME TypeOK, [Next]_vars PROVE TypeOK'
  OBVIOUS
<1> USE DEF TypeOK, PCs
<1>1. CASE Continue
  BY <1>1 DEF Continue
<1>2. CASE End
  BY <1>2, EmptyQueue DEF End
<1>3. CASE Receive
  <2>1. late + Late \in Nat /\ seq + 1 \in Nat
    BY DEF Late
  <2> QED
    BY <1>3, <2>1, ReceivedType DEF Receive
<1>4. CASE Enter
  BY <1>4 DEF Enter
<1>5. CASE Expire
  BY <1>5 DEF Expire
<1>6. CASE Send
  <2>1. late + Late \in Nat
    BY DEF Late
  <2> QED
    BY <1>6, <2>1, SentFromQueue DEF Send
<1>7. CASE Keep
  BY <1>7 DEF Keep
<1>8. CASE Drained
  BY <1>8 DEF Drained
<1>9. CASE Tick
  BY <1>9 DEF Tick
<1>10. ASSUME NEW size \in FrameSizes, Feed(size) PROVE TypeOK'
  <2>1. Append(channel, size) \in Seq(FrameSizes)
    BY AppendProperties
  <2> QED
    BY <1>10, <2>1 DEF Feed
<1>11. CASE UNCHANGED vars
  BY <1>11 DEF vars
<1> QED
  BY <1>1, <1>2, <1>3, <1>4, <1>5, <1>6, <1>7, <1>8, <1>9, <1>10, <1>11
  DEF Next, Thread

\* The variables of a live stream have their types, and its queue never
\* holds more than the buffer has places, whatever is handed over.
THEOREM TypeCorrect == Spec => []TypeOK
<1>1. Init => TypeOK
  BY EmptyQueue DEF Init, TypeOK, PCs
<1> QED
  BY <1>1, StepTypeOK, PTL DEF Spec

-----------------------------------------------------------------------------
(* The stop time *)

\* No step comes late before the stop time; and after a late step the thread
\* can only find that the time is over.
NoneTooLate ==
  /\ clock <= StopTime => late = 0
  /\ pc \in {"recv", "consume"} => late = 0
  /\ OneLateStep

\* Every step keeps it.
LEMMA StepNoneTooLate ==
  TypeOK /\ NoneTooLate /\ [Next]_vars => NoneTooLate'
<1> SUFFICES ASSUME TypeOK, NoneTooLate, [Next]_vars PROVE NoneTooLate'
  OBVIOUS
<1>0. clock \in Nat /\ late \in Nat /\ StopTime \in Nat
  BY LiveAssumption DEF TypeOK
<1> USE DEF NoneTooLate, OneLateStep
<1>1. CASE Continue
  BY <1>0, <1>1 DEF Continue
<1>2. CASE End
  BY <1>0, <1>2 DEF End
<1>3. CASE Receive
  BY <1>0, <1>3 DEF Receive, Late
<1>4. CASE Enter
  BY <1>0, <1>4 DEF Enter
<1>5. CASE Expire
  BY <1>0, <1>5 DEF Expire
<1>6. CASE Send
  BY <1>0, <1>6 DEF Send, Late
<1>7. CASE Keep
  BY <1>0, <1>7 DEF Keep
<1>8. CASE Drained
  BY <1>0, <1>8 DEF Drained
<1>9. CASE Tick
  BY <1>0, <1>9 DEF Tick
<1>10. ASSUME NEW size \in FrameSizes, Feed(size) PROVE NoneTooLate'
  BY <1>0, <1>10 DEF Feed
<1>11. CASE UNCHANGED vars
  BY <1>11 DEF vars
<1> QED
  BY <1>1, <1>2, <1>3, <1>4, <1>5, <1>6, <1>7, <1>8, <1>9, <1>10, <1>11
  DEF Next, Thread

\* At most one frame is received, or one packet sent, after the stop time.
THEOREM LateSteps == Spec => []OneLateStep
<1>1. Init => NoneTooLate
  BY LiveAssumption DEF Init, NoneTooLate, OneLateStep
<1>2. NoneTooLate => OneLateStep
  BY DEF NoneTooLate
<1> QED
  BY <1>1, <1>2, StepNoneTooLate, TypeCorrect, PTL DEF Spec

-----------------------------------------------------------------------------
(* The queue *)

\* Before the stop time the thread leaves process_queue only with the queue
\* empty, and the clock never runs back.
EmptyBetween == pc \in {"loop", "recv"} /\ clock < StopTime => buffer = <<>>

\* Every step keeps it.
LEMMA StepEmptyBetween ==
  TypeOK /\ EmptyBetween /\ [Next]_vars => EmptyBetween'
<1> SUFFICES ASSUME TypeOK, EmptyBetween, [Next]_vars PROVE EmptyBetween'
  OBVIOUS
<1>0. clock \in Nat /\ StopTime \in Nat
  BY LiveAssumption DEF TypeOK
<1> USE DEF EmptyBetween
<1>1. CASE Continue
  BY <1>1 DEF Continue
<1>2. CASE End
  BY <1>2 DEF End
<1>3. CASE Receive
  BY <1>3 DEF Receive
<1>4. CASE Enter
  BY <1>4 DEF Enter
<1>5. CASE Expire
  BY <1>0, <1>5 DEF Expire
<1>6. CASE Send
  BY <1>6 DEF Send
<1>7. CASE Keep
  BY <1>7 DEF Keep
<1>8. CASE Drained
  BY <1>8 DEF Drained
<1>9. CASE Tick
  BY <1>0, <1>9 DEF Tick
<1>10. ASSUME NEW size \in FrameSizes, Feed(size) PROVE EmptyBetween'
  BY <1>10 DEF Feed
<1>11. CASE UNCHANGED vars
  BY <1>11 DEF vars
<1> QED
  BY <1>1, <1>2, <1>3, <1>4, <1>5, <1>6, <1>7, <1>8, <1>9, <1>10, <1>11
  DEF Next, Thread

\* A stream that waits for a frame before its stop time has sent every packet
\* there was room for.
THEOREM HoldsNothingBack == Spec => []NothingHeldBack
<1>1. Init => EmptyBetween
  BY DEF Init, EmptyBetween
<1>2. EmptyBetween => NothingHeldBack
  BY DEF EmptyBetween, NothingHeldBack
<1> QED
  BY <1>1, <1>2, StepEmptyBetween, TypeCorrect, PTL DEF Spec

\* Packets are cut the same way in both modules.
LEMMA SamePackets ==
  ASSUME NEW n, NEW size
  PROVE  Abstract!generate_packets(n, size) = generate_packets(n, size)
  BY DEF Abstract!generate_packets, Abstract!PacketCount,
         Abstract!PayloadLength, generate_packets, PacketCount, PayloadLength

\* A frame is received as FrameQueue offers it.
LEMMA ReceiveOffers ==
  ASSUME TypeOK, Receive
  PROVE  Abstract!Offer(Head(channel))
<1> DEFINE packets == generate_packets(seq + 1, Head(channel))
           n == Accepted(buffer, Len(packets))
<1>1. packets = Abstract!generate_packets(seq + 1, Head(channel))
  BY SamePackets
<1>2. packets \in Seq(Packet) /\ Len(packets) \in Nat
  BY ReceivedType, LenProperties
<1>3. /\ buffer' = try_push_all(buffer, packets)
      /\ seq' = seq + 1 /\ pc = "recv" /\ pc' = "queue"
  BY DEF Receive
<1> HIDE DEF packets
<1>4. buffer' = buffer \o SubSeq(packets, 1, n)
  BY <1>3 DEF try_push_all
<1>5. buffer \in Seq(Packet) /\ BufferBounded(buffer)
  BY DEF TypeOK
<1>6. /\ n \in 0 .. Len(packets)
      /\ BufferSize = 0 \/ Len(buffer) + n <= BufferSize
      /\ n < Len(packets) => BufferSize # 0 /\ Len(buffer) + n = BufferSize
  BY <1>2, <1>5, AcceptedType
<1>7. Len(buffer) \in Nat /\ BufferSize \in Nat
  BY <1>5, ThrottlerAssumption, LenProperties DEF BufferSize
<1> HIDE DEF n
<1>8. n \in Nat
  BY <1>2, <1>6
<1>9. \A l, c \in Nat : l + n = c => ~(l + (n + 1) <= c)
  BY <1>8
<1>10. Abstract!Room(n) /\ (n < Len(packets) => ~Abstract!Room(n + 1))
  BY <1>6, <1>7, <1>9 DEF Abstract!Room
<1> QED
  BY <1>1, <1>3, <1>4, <1>6, <1>10 DEF Abstract!Offer

\* Every step of the live stream is one of the queue or leaves it alone.
LEMMA StepRefines ==
  TypeOK /\ [Next]_vars => [Abstract!Next]_(Abstract!vars)
<1> SUFFICES ASSUME TypeOK, [Next]_vars
             PROVE  [Abstract!Next]_(Abstract!vars)
  OBVIOUS
<1> USE DEF Abstract!vars
<1>1. CASE Continue
  BY <1>1 DEF Continue
<1>2. CASE End
  BY <1>2 DEF End, Abstract!Next, Abstract!Close
<1>3. CASE Receive
  BY <1>3, ReceivedType, ReceiveOffers DEF Abstract!Next
<1>4. CASE Enter
  BY <1>4 DEF Enter
<1>5. CASE Expire
  BY <1>5 DEF Expire
<1>6. CASE Send
  BY <1>6 DEF Send, Abstract!Next, Abstract!Transmit
<1>7. CASE Keep
  BY <1>7 DEF Keep
<1>8. CASE Drained
  BY <1>8 DEF Drained
<1>9. CASE Tick
  BY <1>9 DEF Tick
<1>10. ASSUME NEW size \in FrameSizes, Feed(size)
       PROVE  UNCHANGED Abstract!vars
  BY <1>10 DEF Feed
<1>11. CASE UNCHANGED vars
  BY <1>11 DEF vars
<1> QED
  BY <1>1, <1>2, <1>3, <1>4, <1>5, <1>6, <1>7, <1>8, <1>9, <1>10, <1>11
  DEF Next, Thread

\* The live stream is a FrameQueue, whatever it is fed and however late.
THEOREM Refinement == Spec => ImplementsFrameQueue
<1>1. Init => Abstract!Init
  BY DEF Init, Abstract!Init
<1> QED
  BY <1>1, StepRefines, TypeCorrect, PTL
  DEF Spec, ImplementsFrameQueue, Abstract!Spec
=============================================================================
