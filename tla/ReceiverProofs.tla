--------------------------- MODULE ReceiverProofs ---------------------------
(***************************************************************************)
(* Proofs about Receiver, for any number of frames of any sizes, any       *)
(* payload length, sample rate and number of copies, and any number of     *)
(* restarts of the sender with any number of datagrams in flight.          *)
(***************************************************************************)
EXTENDS Receiver, FiniteSetTheorems, SequenceTheorems, TLAPS

-----------------------------------------------------------------------------
(* Packets *)

\* A frame is cut into a natural number of packets, each with a payload.
LEMMA PacketCountType ==
  ASSUME NEW size \in Nat
  PROVE  /\ PacketCount(size) \in Nat
         /\ \A o \in Nat : PayloadLength(size, o) \in Nat
BY PayloadAssumption DEF PacketCount, PayloadLength

\* The packets of a frame, by their offsets.
LEMMA FramePacketsType ==
  ASSUME NEW s \in 1 .. Frames, NEW size \in Nat
  PROVE  /\ generate_packets(s, size) \in [1 .. PacketCount(size) -> Datagram]
         /\ \A i \in 1 .. PacketCount(size) :
              LET p == generate_packets(s, size)[i]
              IN  /\ p.seq = s /\ p.offset = i - 1
                  /\ p.last_one <=> i = PacketCount(size)
         /\ FramePackets(s, size) \subseteq Datagram
         /\ \A p \in FramePackets(s, size) :
              /\ p.seq = s
              /\ p.offset \in 0 .. PacketCount(size) - 1
              /\ p = generate_packets(s, size)[p.offset + 1]
              /\ p.last_one <=> p.offset = PacketCount(size) - 1
<1>1. PacketCount(size) \in Nat
  BY PacketCountType
<1>2. \A i \in 1 .. PacketCount(size) : PayloadLength(size, i - 1) \in Nat
  <2> TAKE i \in 1 .. PacketCount(size)
  <2>1. i - 1 \in Nat
    BY <1>1
  <2> QED
    BY <2>1, PacketCountType
<1>3. \A i \in 1 .. PacketCount(size) :
        [seq |-> s, offset |-> i - 1,
         length |-> PayloadLength(size, i - 1),
         last_one |-> i = PacketCount(size)] \in Datagram
  BY <1>1, <1>2 DEF Datagram
<1>4. generate_packets(s, size) \in [1 .. PacketCount(size) -> Datagram]
  BY <1>3 DEF generate_packets
<1>5. \A i \in 1 .. PacketCount(size) :
        LET p == generate_packets(s, size)[i]
        IN  /\ p.seq = s /\ p.offset = i - 1
            /\ p.last_one <=> i = PacketCount(size)
  BY DEF generate_packets
<1>6. \A p \in FramePackets(s, size) :
        /\ p \in Datagram
        /\ p.seq = s
        /\ p.offset \in 0 .. PacketCount(size) - 1
        /\ p = generate_packets(s, size)[p.offset + 1]
        /\ p.last_one <=> p.offset = PacketCount(size) - 1
  <2> TAKE p \in FramePackets(s, size)
  <2>1. PICK i \in 1 .. PacketCount(size) : p = generate_packets(s, size)[i]
    BY DEF FramePackets
  <2>2. /\ p.seq = s /\ p.offset = i - 1
        /\ p.last_one <=> i = PacketCount(size)
    BY <1>5, <2>1
  <2>3. p \in Datagram
    BY <1>4, <2>1
  <2>4. /\ i - 1 \in 0 .. PacketCount(size) - 1
        /\ (i - 1) + 1 = i
        /\ i = PacketCount(size) <=> i - 1 = PacketCount(size) - 1
    BY <1>1
  <2> QED
    BY <2>1, <2>2, <2>3, <2>4
<1> QED
  BY <1>4, <1>5, <1>6

\* A packet of a frame is told from the others by its offset.
LEMMA PacketAt ==
  ASSUME NEW s \in 1 .. Frames, NEW size \in Nat,
         NEW o \in 0 .. PacketCount(size) - 1
  PROVE  /\ generate_packets(s, size)[o + 1] \in FramePackets(s, size)
         /\ generate_packets(s, size)[o + 1].offset = o
<1>1. PacketCount(size) \in Nat
  BY PacketCountType
<1>2. o + 1 \in 1 .. PacketCount(size) /\ (o + 1) - 1 = o
  BY <1>1
<1> QED
  BY <1>2, FramePacketsType DEF FramePackets

-----------------------------------------------------------------------------
(* The operators *)

\* What recording a packet does to a record.
LEMMA RecordEffect ==
  ASSUME NEW r, NEW p
  PROVE  LET q == record(r, p)
         IN  /\ DOMAIN q = {"packets", "last_packet_id"}
             /\ DOMAIN q.packets = DOMAIN r.packets \cup {p.offset}
             /\ q.packets[p.offset] = p
             /\ \A o \in DOMAIN r.packets : o # p.offset =>
                  q.packets[o] = r.packets[o]
             /\ q.last_packet_id = IF p.last_one THEN p.offset
                                   ELSE r.last_packet_id
<1> DEFINE q == record(r, p)
<1>1. /\ q.packets = insert(r.packets, p.offset, p)
      /\ q.last_packet_id = IF p.last_one THEN p.offset
                            ELSE r.last_packet_id
      /\ DOMAIN q = {"packets", "last_packet_id"}
  BY DEF record
<1>2. /\ DOMAIN insert(r.packets, p.offset, p) =
           DOMAIN r.packets \cup {p.offset}
      /\ insert(r.packets, p.offset, p)[p.offset] = p
      /\ \A o \in DOMAIN r.packets : o # p.offset =>
           insert(r.packets, p.offset, p)[o] = r.packets[o]
  BY DEF insert
<1> HIDE DEF q
<1> QED
  BY <1>1, <1>2 DEF q

RecvDataFields ==
  {"recv_records", "last_seq", "recevied", "data_len", "ack_times"}

\* What handle_rtt does to the data up to the answer.
LEMMA HandleRttEffect ==
  ASSUME NEW d, NEW p, DOMAIN d = RecvDataFields
  PROVE  LET e == handle_rtt(d, p)
         IN  /\ DOMAIN e = RecvDataFields
             /\ e.data_len = d.data_len
             /\ e.last_seq = IF p.seq > d.last_seq THEN p.seq ELSE d.last_seq
             /\ e.recv_records =
                  IF Sampled(p.seq)
                  THEN insert(d.recv_records, p.seq, Recorded(d, p))
                  ELSE d.recv_records
             /\ e.recevied = d.recevied
             /\ e.ack_times = IF Completes(d, p) THEN d.ack_times + 1
                              ELSE d.ack_times
<1> DEFINE e == handle_rtt(d, p)
           seen == see(d, p.seq)
<1>1. /\ DOMAIN seen = RecvDataFields
      /\ seen.last_seq = IF p.seq > d.last_seq THEN p.seq ELSE d.last_seq
      /\ seen.recv_records = d.recv_records
      /\ seen.data_len = d.data_len
      /\ seen.recevied = d.recevied
      /\ seen.ack_times = d.ack_times
  BY DEF see, RecvDataFields
<1>2. Recorded(seen, p) = Recorded(d, p)
  BY <1>1 DEF Recorded
<1>3. Recorded(seen, p) = Recorded(d, p) /\ (Completes(d, p) => Sampled(p.seq))
  BY <1>2 DEF Completes
<1> DEFINE k == keep(seen, p)
<1>4. /\ DOMAIN k = RecvDataFields
      /\ k.recv_records = insert(seen.recv_records, p.seq, Recorded(seen, p))
      /\ k.recevied = seen.recevied
      /\ k.ack_times = seen.ack_times
      /\ k.last_seq = seen.last_seq
      /\ k.data_len = seen.data_len
  <2> HIDE DEF seen
  <2> QED
    BY <1>1 DEF keep, RecvDataFields
<1>5. CASE Completes(d, p)
  <2>1. e = [k EXCEPT !.ack_times = @ + 1]
    BY <1>5 DEF handle_rtt
  <2> HIDE DEF e, k, seen
  <2>2. /\ DOMAIN e = RecvDataFields
        /\ e.recv_records = k.recv_records
        /\ e.recevied = k.recevied
        /\ e.ack_times = k.ack_times + 1
        /\ e.last_seq = k.last_seq
        /\ e.data_len = k.data_len
    BY <1>4, <2>1 DEF RecvDataFields
  <2> QED
    BY <1>1, <1>3, <1>4, <1>5, <2>2 DEF e
<1>6. CASE ~Completes(d, p) /\ Sampled(p.seq)
  <2>1. e = k
    BY <1>6 DEF handle_rtt
  <2> HIDE DEF e, k, seen
  <2> QED
    BY <1>1, <1>3, <1>4, <1>6, <2>1 DEF e
<1>7. CASE ~Completes(d, p) /\ ~Sampled(p.seq)
  <2>1. e = seen
    BY <1>7 DEF handle_rtt
  <2> HIDE DEF e, k, seen
  <2> QED
    BY <1>1, <1>7, <2>1 DEF e
<1> QED
  BY <1>5, <1>6, <1>7

\* What releasing a frame does to the data.
LEMMA FinishEffect ==
  ASSUME NEW d, NEW s, DOMAIN d = RecvDataFields
  PROVE  LET e == finish(d, s)
         IN  /\ DOMAIN e = RecvDataFields
             /\ e.recv_records = remove(d.recv_records, s)
             /\ e.recevied = d.recevied + 1
             /\ e.last_seq = d.last_seq
             /\ e.data_len = d.data_len
             /\ e.ack_times = d.ack_times
BY DEF finish, RecvDataFields

-----------------------------------------------------------------------------
(* The network *)

\* How many copies of a datagram a bag holds.
Copies(p, B) == IF p \in BagToSet(B) THEN B[p] ELSE 0

\* A datagram that is delivered leaves one copy fewer on the wire.
LEMMA Delivered ==
  ASSUME NEW B, IsABag(B), NEW p \in BagToSet(B)
  PROVE  LET C == B (-) SetToBag({p})
         IN  /\ IsABag(C)
             /\ BagToSet(C) \subseteq BagToSet(B)
             /\ Copies(p, B) \in Nat \ {0}
             /\ Copies(p, C) = Copies(p, B) - 1
             /\ \A q : q # p => Copies(q, C) = Copies(q, B)
<1> DEFINE less == [e \in DOMAIN B |-> IF e = p THEN B[e] - 1 ELSE B[e]]
           C == B (-) SetToBag({p})
<1>1. C = [e \in {d \in DOMAIN B : less[d] > 0} |-> less[e]]
  BY DEF (-), SetToBag
<1>2. \A e \in DOMAIN B : B[e] \in Nat /\ B[e] > 0
  BY DEF IsABag
<1>3. p \in DOMAIN B
  BY DEF BagToSet
<1>4. \A e \in DOMAIN B : less[e] \in Nat
  BY <1>2
<1>5. DOMAIN C = {d \in DOMAIN B : less[d] > 0}
  BY <1>1
<1>6. \A e \in DOMAIN C : C[e] = less[e]
  BY <1>1
<1>7. IsABag(C)
  <2>1. C \in [DOMAIN C -> {n \in Nat : n > 0}]
    BY <1>1, <1>4, <1>5
  <2> QED
    BY <2>1 DEF IsABag
<1>8. Copies(p, C) = Copies(p, B) - 1
  <2>1. Copies(p, B) = B[p] /\ less[p] = B[p] - 1
    BY <1>3 DEF Copies, BagToSet
  <2>2. p \in DOMAIN C <=> B[p] - 1 > 0
    BY <1>3, <1>5, <2>1
  <2>3. p \in DOMAIN C => C[p] = B[p] - 1
    BY <1>6, <2>1
  <2> HIDE DEF C, less
  <2>4. Copies(p, C) = IF p \in DOMAIN C THEN C[p] ELSE 0
    BY DEF Copies, BagToSet
  <2> QED
    BY <1>2, <1>3, <2>1, <2>2, <2>3, <2>4
<1>9. ASSUME NEW q, q # p PROVE Copies(q, C) = Copies(q, B)
  <2>1. q \in DOMAIN B => less[q] = B[q]
    BY <1>9
  <2>2. q \in DOMAIN C <=> q \in DOMAIN B
    BY <1>2, <1>5, <2>1
  <2>3. q \in DOMAIN C => C[q] = B[q]
    BY <1>6, <2>1, <2>2
  <2> QED
    BY <2>2, <2>3 DEF Copies, BagToSet
<1>10. Copies(p, B) \in Nat \ {0}
  BY <1>2, <1>3 DEF Copies, BagToSet
<1>11. BagToSet(C) \subseteq BagToSet(B)
  BY <1>5 DEF BagToSet
<1> HIDE DEF C
<1> QED
  BY <1>7, <1>8, <1>9, <1>10, <1>11 DEF C

\* A frame that is sent adds so many copies of each of its packets.
LEMMA Sending ==
  ASSUME NEW B, IsABag(B), NEW A, NEW n \in Nat \ {0},
         \A q \in DOMAIN A : A[q] = n
  PROVE  LET C == B (+) A
             S == DOMAIN A
         IN  /\ IsABag(C)
             /\ BagToSet(C) = BagToSet(B) \cup S
             /\ \A q \in S \ BagToSet(B) : Copies(q, C) = n
             /\ \A q : q \notin S => Copies(q, C) = Copies(q, B)
<1> DEFINE C == B (+) A
           S == DOMAIN A
<1>1. C = [e \in DOMAIN B \cup S |->
             (IF e \in DOMAIN B THEN B[e] ELSE 0)
               + (IF e \in S THEN n ELSE 0)]
  BY DEF (+)
<1>2. \A e \in DOMAIN B : B[e] \in Nat /\ B[e] > 0
  BY DEF IsABag
<1>3. DOMAIN C = DOMAIN B \cup S
  BY <1>1
<1>4. \A e \in DOMAIN C :
        C[e] = (IF e \in DOMAIN B THEN B[e] ELSE 0)
                 + (IF e \in S THEN n ELSE 0)
  BY <1>1
<1>5. IsABag(C)
  <2>1. \A e \in DOMAIN B \cup S :
          (IF e \in DOMAIN B THEN B[e] ELSE 0) + (IF e \in S THEN n ELSE 0)
            \in {m \in Nat : m > 0}
    BY <1>2
  <2>2. C \in [DOMAIN B \cup S -> {m \in Nat : m > 0}]
    BY <1>1, <2>1
  <2> QED
    BY <1>3, <2>2 DEF IsABag
<1> HIDE DEF C
<1>6. BagToSet(C) = BagToSet(B) \cup S
  BY <1>3 DEF BagToSet
<1>7. ASSUME NEW q \in S \ BagToSet(B) PROVE Copies(q, C) = n
  BY <1>3, <1>4, <1>7 DEF Copies, BagToSet
<1>8. ASSUME NEW q, q \notin S PROVE Copies(q, C) = Copies(q, B)
  <2>1. q \in DOMAIN C <=> q \in DOMAIN B
    BY <1>3, <1>8
  <2>2. q \in DOMAIN C => C[q] = B[q]
    BY <1>2, <1>4, <1>8, <2>1
  <2> QED
    BY <2>1, <2>2 DEF Copies, BagToSet
<1> QED
  BY <1>5, <1>6, <1>7, <1>8 DEF C

-----------------------------------------------------------------------------
(* The inductive invariant *)

Rec(s) == data.recv_records[s]

Count(s) == PacketCount(sizes[s])

\* What the records are, whatever the network and the sessions did.
IsRecord(r) ==
  /\ DOMAIN r = {"packets", "last_packet_id"}
  /\ r.last_packet_id \in Nat \cup {None}
  /\ DOMAIN r.packets \subseteq Nat
  /\ IsFiniteSet(DOMAIN r.packets)
  /\ \A o \in DOMAIN r.packets : r.packets[o] \in Datagram

AreRecords(recs) ==
  \A s \in DOMAIN recs : s \in 1 .. Frames /\ IsRecord(recs[s])

RecordsTyped == AreRecords(data.recv_records)

\* The thread answers one frame at a time, of which it holds the record; it
\* dies when it panics.
AckingHeld ==
  /\ poisoned => thread = "gone" /\ acking = {}
  /\ \A s \in acking :
       /\ thread = "looping"
       /\ acking = {s}
       /\ s \in DOMAIN data.recv_records
       /\ determine_complete(Rec(s))

TypeInv == TypeOK /\ RecordsTyped /\ AckingHeld

\* A packet is one of a frame of this session, unless an earlier one has left
\* something of a frame of the same number.
Origin ==
  \A p \in BagToSet(wire) \cup arrived :
    p.seq \notin stale => p.seq \in Sent /\ p \in PacketsOf(p.seq)

\* r is a record of frame s that holds packets of `from`.
RecordOf(s, r, from) ==
  /\ DOMAIN r.packets # {}
  /\ \A o \in DOMAIN r.packets :
       /\ r.packets[o] \in PacketsOf(s) \cap from
       /\ r.packets[o].offset = o
  /\ r.last_packet_id =
       IF Count(s) - 1 \in DOMAIN r.packets THEN Count(s) - 1 ELSE None

RecordsSound ==
  \A s \in DOMAIN data.recv_records \ stale :
    s \in Sent /\ Sampled(s) /\ RecordOf(s, Rec(s), arrived)

Kept(p) ==
  /\ p.seq \in DOMAIN data.recv_records
  /\ p.offset \in DOMAIN Rec(p.seq).packets

\* Of a frame that is not whole everything is kept, of one that is nothing
\* once it is answered; and one that is has met a port for its pong.
RecordsComplete ==
  ~poisoned =>
    \A s \in Sent \ (repeated \cup stale) :
      /\ Whole(s) /\ s \in DOMAIN data.recv_records => s \in acking
      /\ ~Whole(s) /\ Sampled(s) => \A p \in PacketsOf(s) \cap arrived : Kept(p)
      /\ Whole(s) /\ Sampled(s) => PongPortFits

AnsweredExactly ==
  ~poisoned \/ traffic < U32 =>
    \A s \in Sent \ (repeated \cup stale) :
      answers[s] + Times(s \in given_up) + Times(s \in acking) =
        Times(Whole(s) /\ Sampled(s) /\ PongPortFits)

\* No pong is given up but that of a whole frame.
GivenUpWhole == \A s \in given_up \ stale : s \in Sent /\ Whole(s)

SoundInv ==
  TypeInv /\ Origin /\ RecordsSound /\ AnsweredWhole /\ GivenUpWhole

\* An answer takes a copy of every packet of the frame.
CopiesSpent ==
  ~poisoned =>
    \A s \in Sent \ stale : \A p \in PacketsOf(s) :
      answers[s] + (IF Kept(p) THEN 1 ELSE 0) + Copies(p, wire)
        <= MaxCopies

\* The frames that have been answered, or whose pong was given up.
Released == {s \in 1 .. Frames : answers[s] > 0 \/ s \in given_up}

\* What the counts are as long as nothing disturbs them.
CountsExact ==
  /\ restarts = 0 => stale = {}
  /\ Undisturbed /\ ~poisoned =>
       /\ data.recevied = Cardinality(Released)
       /\ \A p \in arrived : p.seq <= data.last_seq
       /\ data.last_seq <= Len(sizes)
  /\ Undisturbed /\ poisoned => Prevented
  /\ report # None => Ended /\ ~poisoned /\ acking = {}

-----------------------------------------------------------------------------
(* What a step of the receive thread does *)

\* The record a packet is put into, with the packet.
LEMMA RecordedEffect ==
  ASSUME TypeInv, NEW p \in Datagram
  PROVE  LET r   == Recorded(data, p)
             old == IF p.seq \in DOMAIN data.recv_records
                    THEN DOMAIN Rec(p.seq).packets ELSE {}
         IN  /\ DOMAIN r.packets = old \cup {p.offset}
             /\ r.packets[p.offset] = p
             /\ \A o \in old : o # p.offset =>
                  r.packets[o] = Rec(p.seq).packets[o]
             /\ r.last_packet_id =
                  IF p.last_one THEN p.offset
                  ELSE IF p.seq \in DOMAIN data.recv_records
                  THEN Rec(p.seq).last_packet_id ELSE None
             /\ IsRecord(r)
<1> DEFINE has == p.seq \in DOMAIN data.recv_records
           before == IF has THEN Rec(p.seq) ELSE RecvRecord_new
           old == IF has THEN DOMAIN Rec(p.seq).packets ELSE {}
           r == Recorded(data, p)
<1>1. r = record(before, p)
  BY DEF Recorded, Rec
<1>2. /\ DOMAIN before.packets = old
      /\ has => before.packets = Rec(p.seq).packets
      /\ before.last_packet_id =
           IF has THEN Rec(p.seq).last_packet_id ELSE None
  BY DEF RecvRecord_new
<1>3. /\ old \subseteq Nat
      /\ IsFiniteSet(old)
      /\ has => \A o \in old : Rec(p.seq).packets[o] \in Datagram
      /\ before.last_packet_id \in Nat \cup {None}
  <2>1. CASE has
    BY <2>1 DEF TypeInv, RecordsTyped, AreRecords, IsRecord, Rec
  <2>2. CASE ~has
    BY <2>2, FS_EmptySet DEF RecvRecord_new
  <2> QED
    BY <2>1, <2>2
<1>4. p.offset \in Nat /\ p.last_one \in BOOLEAN
  BY DEF Datagram
<1> HIDE DEF before
<1>5. /\ DOMAIN r = {"packets", "last_packet_id"}
      /\ DOMAIN r.packets = old \cup {p.offset}
      /\ r.packets[p.offset] = p
      /\ \A o \in old : o # p.offset => r.packets[o] = before.packets[o]
      /\ r.last_packet_id = IF p.last_one THEN p.offset
                            ELSE before.last_packet_id
  BY <1>1, <1>2, RecordEffect
<1> HIDE DEF r
<1>6. IsFiniteSet(DOMAIN r.packets)
  BY <1>3, <1>5, FS_AddElement
<1>7. ASSUME NEW o \in old, o # p.offset
      PROVE  r.packets[o] = Rec(p.seq).packets[o]
  BY <1>2, <1>5, <1>7
<1>8. ASSUME NEW o \in DOMAIN r.packets PROVE r.packets[o] \in Datagram
  BY <1>3, <1>5, <1>7
<1>9. DOMAIN r.packets \subseteq Nat /\ r.last_packet_id \in Nat \cup {None}
  BY <1>3, <1>4, <1>5
<1>10. IsRecord(r)
  BY <1>5, <1>6, <1>8, <1>9 DEF IsRecord
<1> QED
  BY <1>2, <1>5, <1>7, <1>10 DEF r

\* The outcomes of a turn: the thread dies over data_len; the packet is
\* recorded if its frame is sampled; or its frame is complete, and the thread
\* goes on to answer it or dies over the port.
Uncounted(p) ==
  /\ data' = data
  /\ Dies /\ traffic' >= U32
  /\ UNCHANGED started

Seen(p) ==
  /\ data.data_len + Bytes(p) < U32
  /\ data'.data_len = data.data_len + Bytes(p)
  /\ data'.last_seq = IF p.seq > data.last_seq THEN p.seq ELSE data.last_seq
  /\ data'.recv_records =
       IF Sampled(p.seq)
       THEN insert(data.recv_records, p.seq, Recorded(data, p))
       ELSE data.recv_records
  /\ data'.recevied = data.recevied
  /\ data'.ack_times = IF Completes(data, p) THEN data.ack_times + 1
                       ELSE data.ack_times
  /\ started' = TRUE

JustRecorded(p) ==
  /\ Seen(p) /\ ~Completes(data, p)
  /\ UNCHANGED <<poisoned, thread, acking>>

StartsAcking(p) ==
  /\ Seen(p) /\ Completes(data, p)
  /\ PongPortFits
  /\ acking' = {p.seq}
  /\ UNCHANGED <<poisoned, thread>>

DiesOfPort(p) ==
  /\ Seen(p) /\ Completes(data, p)
  /\ ~PongPortFits
  /\ Dies

\* Those are the outcomes of Receive, and none of them answers.
LEMMA ReceiveEffect ==
  ASSUME TypeInv, NEW p \in BagToSet(wire), Receive(p)
  PROVE  /\ p \in Datagram /\ Bytes(p) \in Nat
         /\ DOMAIN data' = RecvDataFields
         /\ acking = {} /\ UNCHANGED outputs
         /\ \/ Uncounted(p)
            \/ JustRecorded(p)
            \/ StartsAcking(p)
            \/ DiesOfPort(p)
<1>1. p \in Datagram
  BY DEF TypeInv, TypeOK
<1>2. Bytes(p) \in Nat
  BY <1>1, ReceiverAssumption DEF Datagram, Bytes
<1>3. /\ DOMAIN data = RecvDataFields /\ data.data_len \in Nat
  BY DEF TypeInv, TypeOK, IsRecvData, RecvDataFields
<1>4. acking = {} /\ UNCHANGED outputs
  BY DEF Receive
<1> DEFINE d == Counted(p)
<1>5. /\ DOMAIN d = RecvDataFields
      /\ d.data_len = data.data_len + Bytes(p)
      /\ d.last_seq = data.last_seq
      /\ d.recv_records = data.recv_records
      /\ d.recevied = data.recevied
      /\ d.ack_times = data.ack_times
  BY <1>3 DEF Counted, RecvDataFields
<1>6. Recorded(d, p) = Recorded(data, p)
  BY <1>5 DEF Recorded
<1>7. Completes(d, p) <=> Completes(data, p)
  BY <1>6 DEF Completes
<1> HIDE DEF d
<1>8. CASE CountingPanics(p)
  <2>1. /\ data' = data /\ traffic' = traffic + Bytes(p)
        /\ data.data_len + Bytes(p) >= U32 /\ Dies
        /\ UNCHANGED started
    BY <1>8 DEF CountingPanics, Overflows, Receive
  <2>2. data.data_len <= traffic /\ traffic \in Nat /\ U32 \in Nat
    BY ReceiverAssumption DEF TypeInv, TypeOK
  <2>3. traffic' >= U32
    BY <1>2, <1>3, <2>1, <2>2
  <2>4. DOMAIN data' = RecvDataFields
    BY <1>3, <2>1
  <2> QED
    BY <1>1, <1>2, <1>4, <2>1, <2>3, <2>4 DEF Uncounted
<1>9. ASSUME Handled(p)
      PROVE  Seen(p) /\ DOMAIN data' = RecvDataFields
  <2>1. /\ ~(data.data_len + Bytes(p) >= U32) /\ started' = TRUE
        /\ data' = handle_rtt(d, p)
    BY <1>9 DEF Handled, Overflows, d
  <2>2. /\ DOMAIN data' = RecvDataFields
        /\ data'.data_len = d.data_len
        /\ data'.last_seq = IF p.seq > d.last_seq THEN p.seq ELSE d.last_seq
        /\ data'.recv_records =
             IF Sampled(p.seq)
             THEN insert(d.recv_records, p.seq, Recorded(d, p))
             ELSE d.recv_records
        /\ data'.recevied = d.recevied
        /\ data'.ack_times = IF Completes(d, p) THEN d.ack_times + 1
                             ELSE d.ack_times
    BY <1>5, <2>1, HandleRttEffect
  <2>3. data.data_len + Bytes(p) < U32
    BY <1>2, <1>3, <2>1, ReceiverAssumption
  <2> QED
    BY <1>5, <1>6, <1>7, <2>1, <2>2, <2>3 DEF Seen
<1>10. CASE Recording(p)
  BY <1>1, <1>2, <1>4, <1>9, <1>10 DEF Recording, JustRecorded
<1>11. CASE Completing(p)
  BY <1>1, <1>2, <1>4, <1>9, <1>11 DEF Completing, StartsAcking
<1>12. CASE PongPortPanics(p)
  BY <1>1, <1>2, <1>4, <1>9, <1>12 DEF PongPortPanics, DiesOfPort
<1> QED
  BY <1>8, <1>10, <1>11, <1>12 DEF Receive

\* What the end of a turn does: the frame is released, or the thread dies.
Frees(s) ==
  /\ ~ForwardPanics(s)
  /\ data'.recv_records = remove(data.recv_records, s)
  /\ data'.recevied = data.recevied + 1
  /\ delivered' = IF rx_mode THEN Append(delivered, gather(Rec(s)))
                  ELSE delivered
  /\ UNCHANGED <<poisoned, thread>>

DiesForwarding(s) ==
  /\ ForwardPanics(s)
  /\ data' = data
  /\ delivered' = delivered
  /\ thread' = "gone" /\ poisoned' = TRUE

LEMMA AcknowledgeEffect ==
  ASSUME TypeInv, NEW s \in acking, Acknowledge(s)
  PROVE  /\ ~Ended /\ s \in 1 .. Frames
         /\ acking' = {}
         /\ DOMAIN data' = RecvDataFields
         /\ data'.last_seq = data.last_seq
         /\ data'.data_len = data.data_len
         /\ data'.ack_times = data.ack_times
         /\ Answer(s) \/ GiveUp(s)
         /\ Frees(s) \/ DiesForwarding(s)
         /\ UNCHANGED <<sizes, wire, restarts, started, port, main, report,
                        forwarding, arrived, repeated, stale, traffic>>
<1>1. DOMAIN data = RecvDataFields
  BY DEF TypeInv, TypeOK, IsRecvData, RecvDataFields
<1>2. /\ ~Ended /\ s \in 1 .. Frames
      /\ Answer(s) \/ GiveUp(s)
      /\ Releasing(s) \/ ForwardingPanics(s)
      /\ UNCHANGED <<sizes, wire, restarts, started, port, main, report,
                     forwarding, arrived, repeated, stale, traffic>>
  BY DEF Acknowledge, TypeInv, TypeOK, networkVars, mainVars
<1>3. CASE Releasing(s)
  <2>1. data' = finish(data, s)
    BY <1>3 DEF Releasing
  <2>2. /\ DOMAIN data' = RecvDataFields
        /\ data'.recv_records = remove(data.recv_records, s)
        /\ data'.recevied = data.recevied + 1
        /\ data'.last_seq = data.last_seq
        /\ data'.data_len = data.data_len
        /\ data'.ack_times = data.ack_times
    BY <1>1, <2>1, FinishEffect
  <2> QED
    BY <1>2, <1>3, <2>2 DEF Releasing, Frees, Rec
<1>4. CASE ForwardingPanics(s)
  BY <1>1, <1>2, <1>4 DEF ForwardingPanics, DiesForwarding, Dies
<1> QED
  BY <1>2, <1>3, <1>4

-----------------------------------------------------------------------------
(* Type correctness *)

\* What can be gathered is a sequence of datagrams.
LEMMA GatherType ==
  ASSUME NEW r, IsRecord(r), Gatherable(r)
  PROVE  gather(r) \in Seq(Datagram)
<1> DEFINE n == Cardinality(DOMAIN r.packets)
<1>1. /\ IsFiniteSet(DOMAIN r.packets)
      /\ \A o \in DOMAIN r.packets : r.packets[o] \in Datagram
  BY DEF IsRecord
<1>2. n \in Nat
  BY <1>1, FS_CardinalityType
<1>3. 0 .. n - 1 \subseteq DOMAIN r.packets
  BY DEF Gatherable
<1>4. gather(r) = [i \in 1 .. n |-> r.packets[i - 1]]
  BY DEF gather
<1> HIDE DEF n
<1>5. \A i \in 1 .. n : i - 1 \in 0 .. n - 1
  BY <1>2
<1>6. \A i \in 1 .. n : r.packets[i - 1] \in Datagram
  BY <1>1, <1>3, <1>5
<1>7. gather(r) \in [1 .. n -> Datagram]
  BY <1>4, <1>6
<1> QED
  BY <1>2, <1>7

\* The records after a step of the receive thread are records.
LEMMA RecordsTypedStep ==
  ASSUME TypeInv, NEW p \in BagToSet(wire), Receive(p)
  PROVE  AreRecords(data'.recv_records)
<1> DEFINE recs == data.recv_records
           r == Recorded(data, p)
<1>1. p \in Datagram
  BY ReceiveEffect
<1>2. IsRecord(r) /\ AreRecords(recs)
  BY <1>1, RecordedEffect DEF TypeInv, RecordsTyped
<1>3. p.seq \in 1 .. Frames
  BY <1>1 DEF Datagram
<1> HIDE DEF r, recs
<1>4. AreRecords(insert(recs, p.seq, r))
  BY <1>2, <1>3 DEF AreRecords, insert
<1>5. \/ data'.recv_records = recs
      \/ data'.recv_records = insert(recs, p.seq, r)
  BY ReceiveEffect
  DEF Uncounted, JustRecorded, StartsAcking, DiesOfPort, Seen, r, recs
<1> QED
  BY <1>2, <1>4, <1>5

\* Data with such records is of its type.
LEMMA RecvDataType ==
  ASSUME NEW d, AreRecords(d.recv_records),
         DOMAIN d = RecvDataFields,
         d.last_seq \in Nat, d.recevied \in Nat,
         d.data_len \in Nat, d.ack_times \in Nat
  PROVE  IsRecvData(d)
<1>1. \A s \in DOMAIN d.recv_records : IsRecvRecord(d.recv_records[s])
  <2>1. Datagram \subseteq Packet
    BY DEF Datagram, Packet
  <2> QED
    BY <2>1 DEF AreRecords, IsRecord, IsRecvRecord
<1>2. DOMAIN d.recv_records \subseteq Nat
  BY DEF AreRecords
<1> QED
  BY <1>1, <1>2 DEF IsRecvData, RecvDataFields

\* A turn of the receive thread keeps the types.
LEMMA ReceiveType ==
  ASSUME TypeInv, NEW p \in BagToSet(wire), Receive(p)
  PROVE  TypeInv'
<1>1. /\ p \in Datagram /\ Bytes(p) \in Nat
      /\ DOMAIN data' = RecvDataFields
      /\ UNCHANGED <<answers, delivered>>
  BY ReceiveEffect DEF outputs
<1>2. AreRecords(data'.recv_records)
  BY RecordsTypedStep
<1>3. /\ data.last_seq \in Nat /\ data.recevied \in Nat
      /\ data.data_len \in Nat /\ data.ack_times \in Nat
      /\ data.data_len <= traffic /\ traffic \in Nat /\ U32 \in Nat
      /\ data.data_len < U32 \/ data.data_len = 0
      /\ started \in BOOLEAN /\ poisoned \in BOOLEAN
      /\ thread \in {"binding", "looping", "gone"}
      /\ acking \subseteq 1 .. Frames
  BY ReceiverAssumption DEF TypeInv, TypeOK, IsRecvData
<1>4. p.seq \in 1 .. Frames /\ p.seq \in Nat
  BY <1>1 DEF Datagram
<1>5. traffic' = traffic + Bytes(p)
  BY DEF Receive
<1> DEFINE NumbersOK ==
             /\ data'.last_seq \in Nat /\ data'.recevied \in Nat
             /\ data'.data_len \in Nat /\ data'.ack_times \in Nat
             /\ data'.data_len <= traffic' /\ traffic' \in Nat
             /\ data'.data_len < U32 \/ data'.data_len = 0
<1>6. NumbersOK
  <2>0. traffic' \in Nat /\ traffic <= traffic'
    BY <1>1, <1>3, <1>5
  <2>1. CASE Uncounted(p)
    <3>1. data' = data
      BY <2>1 DEF Uncounted
    <3>2. data.data_len <= traffic'
      BY <1>3, <2>0
    <3> QED
      BY <1>3, <2>0, <3>1, <3>2
  <2>2. CASE Seen(p)
    <3>1. /\ data'.data_len = data.data_len + Bytes(p)
          /\ data.data_len + Bytes(p) < U32
          /\ data'.last_seq = IF p.seq > data.last_seq THEN p.seq
                              ELSE data.last_seq
          /\ data'.recevied = data.recevied
          /\ data'.ack_times = IF Completes(data, p) THEN data.ack_times + 1
                               ELSE data.ack_times
      BY <2>2 DEF Seen
    <3>2. data'.last_seq \in Nat /\ data'.ack_times \in Nat
      BY <1>3, <1>4, <3>1
    <3>3. /\ data'.data_len \in Nat /\ data'.data_len <= traffic'
          /\ data'.data_len < U32
      BY <1>1, <1>3, <1>5, <3>1
    <3> QED
      BY <1>3, <2>0, <3>1, <3>2, <3>3
  <2> QED
    BY <2>1, <2>2, ReceiveEffect DEF JustRecorded, StartsAcking, DiesOfPort
<1>7. IsRecvData(data')
  BY <1>1, <1>2, <1>6, RecvDataType
<1>8. /\ started' \in BOOLEAN /\ poisoned' \in BOOLEAN
      /\ thread' \in {"binding", "looping", "gone"}
      /\ acking' \subseteq 1 .. Frames
  BY <1>3, <1>4, ReceiveEffect
  DEF Uncounted, JustRecorded, StartsAcking, DiesOfPort, Seen, Dies
<1>9. IsABag(wire') /\ BagToSet(wire') \subseteq Datagram
  BY Delivered DEF Receive, TypeInv, TypeOK
<1>10. arrived' \subseteq Datagram /\ repeated' \subseteq 1 .. Frames
  BY <1>1, <1>4 DEF Receive, TypeInv, TypeOK
<1>11. RecordsTyped'
  BY <1>2 DEF RecordsTyped, AreRecords, IsRecord, Datagram
<1>12. TypeOK'
  BY <1>1, <1>6, <1>7, <1>8, <1>9, <1>10
  DEF Receive, TypeInv, TypeOK, mainVars, Datagram
<1>13. AckingHeld'
  <2>1. thread = "looping" /\ ~poisoned
    BY DEF Receive, TypeInv, TypeOK, AckingHeld
  <2>2. CASE Uncounted(p) \/ DiesOfPort(p)
    BY <2>2 DEF Uncounted, DiesOfPort, Dies, AckingHeld
  <2>3. CASE JustRecorded(p)
    BY <2>1, <2>3, ReceiveEffect DEF JustRecorded, AckingHeld
  <2>4. CASE StartsAcking(p)
    <3>1. /\ acking' = {p.seq} /\ thread' = "looping" /\ ~poisoned'
          /\ Sampled(p.seq) /\ determine_complete(Recorded(data, p))
          /\ data'.recv_records =
               insert(data.recv_records, p.seq, Recorded(data, p))
      BY <2>1, <2>4, <1>3 DEF StartsAcking, Completes, Seen
    <3>2. /\ p.seq \in DOMAIN data'.recv_records
          /\ Rec(p.seq)' = Recorded(data, p)
      BY <3>1 DEF insert, Rec
    <3>3. determine_complete(Rec(p.seq)')
      BY <3>1, <3>2
    <3> QED
      BY <3>1, <3>2, <3>3 DEF AckingHeld, determine_complete
  <2> QED
    BY <2>2, <2>3, <2>4, ReceiveEffect
<1> QED
  BY <1>11, <1>12, <1>13 DEF TypeInv

\* So does the end of it.
LEMMA AcknowledgeType ==
  ASSUME TypeInv, NEW s \in acking, Acknowledge(s)
  PROVE  /\ TypeInv'
         /\ AreRecords(data'.recv_records)
<1> DEFINE recs == data.recv_records
<1>1. /\ DOMAIN data' = RecvDataFields
      /\ Frees(s) \/ DiesForwarding(s)
      /\ Answer(s) \/ GiveUp(s)
      /\ acking' = {} /\ s \in 1 .. Frames
      /\ data'.last_seq = data.last_seq
      /\ data'.data_len = data.data_len
      /\ data'.ack_times = data.ack_times
      /\ UNCHANGED <<sizes, wire, restarts, started, port, main, report,
                     forwarding, arrived, repeated, stale, traffic>>
  BY AcknowledgeEffect
<1>2. /\ data.last_seq \in Nat /\ data.recevied \in Nat
      /\ data.data_len \in Nat /\ data.ack_times \in Nat
      /\ answers \in [1 .. Frames -> Nat] /\ given_up \subseteq 1 .. Frames
      /\ delivered \in Seq(Seq(Datagram)) /\ poisoned \in BOOLEAN
      /\ thread \in {"binding", "looping", "gone"}
  BY DEF TypeInv, TypeOK, IsRecvData
<1>3. AreRecords(recs)
  BY DEF TypeInv, RecordsTyped
<1>4. AreRecords(remove(recs, s))
  <2> HIDE DEF recs
  <2> QED
    BY <1>3 DEF AreRecords, remove
<1>5. AreRecords(data'.recv_records)
  BY <1>1, <1>3, <1>4 DEF Frees, DiesForwarding
<1>6. data'.recevied \in Nat
  BY <1>1, <1>2 DEF Frees, DiesForwarding
<1>7. IsRecvData(data')
  BY <1>1, <1>2, <1>5, <1>6, RecvDataType
<1>8. answers' \in [1 .. Frames -> Nat] /\ given_up' \subseteq 1 .. Frames
  <2>1. answers[s] + 1 \in Nat
    BY <1>1, <1>2
  <2> QED
    BY <1>1, <1>2, <2>1 DEF Answer, GiveUp
<1>9. delivered' \in Seq(Seq(Datagram))
  <2>1. CASE UNCHANGED delivered
    BY <1>2, <2>1
  <2>2. CASE Frees(s) /\ rx_mode
    <3>1. /\ Gatherable(Rec(s))
          /\ delivered' = Append(delivered, gather(Rec(s)))
      BY <2>2 DEF Frees, ForwardPanics, Rec
    <3>2. s \in DOMAIN recs => gather(Rec(s)) \in Seq(Datagram)
      BY <1>3, <3>1, GatherType DEF AreRecords, Rec
    <3>3. s \in DOMAIN recs
      BY DEF TypeInv, AckingHeld
    <3> QED
      BY <1>2, <3>1, <3>2, <3>3, AppendProperties
  <2> QED
    BY <1>1, <2>1, <2>2 DEF Frees, DiesForwarding
<1>10. /\ poisoned' \in BOOLEAN
       /\ thread' \in {"binding", "looping", "gone"}
       /\ acking' \subseteq 1 .. Frames
  BY <1>1, <1>2 DEF Frees, DiesForwarding
<1>11. RecordsTyped'
  BY <1>5 DEF RecordsTyped, AreRecords, IsRecord, Datagram
<1>12. TypeOK'
  BY <1>1, <1>7, <1>8, <1>9, <1>10 DEF TypeInv, TypeOK, Datagram
<1>13. AckingHeld'
  <2>1. ~poisoned
    BY DEF TypeInv, AckingHeld
  <2> QED
    BY <1>1, <1>2, <2>1 DEF Frees, DiesForwarding, AckingHeld
<1> QED
  BY <1>5, <1>11, <1>12, <1>13 DEF TypeInv

\* A frame that is sent keeps the types.
LEMMA SendFrameType ==
  ASSUME TypeInv, NEW s \in 1 .. Frames, NEW size \in FrameSizes,
         SendFrame(s, size)
  PROVE  TypeInv'
<1>1. size \in Nat
  BY ReceiverAssumption
<1>2. FramePackets(s, size) \subseteq Datagram
  BY <1>1, FramePacketsType
<1>3. wire' = wire (+) [p \in FramePackets(s, size) |-> MaxCopies]
  BY DEF SendFrame
<1>4. IsABag(wire') /\ BagToSet(wire') = BagToSet(wire)
                                          \cup FramePackets(s, size)
  <2> DEFINE A == [p \in FramePackets(s, size) |-> MaxCopies]
  <2>1. IsABag(wire) /\ MaxCopies \in Nat \ {0}
    BY ReceiverAssumption DEF TypeInv, TypeOK
  <2>2. DOMAIN A = FramePackets(s, size) /\ \A q \in DOMAIN A : A[q] = MaxCopies
    OBVIOUS
  <2> HIDE DEF A
  <2>3. IsABag(wire (+) A) /\ BagToSet(wire (+) A) = BagToSet(wire) \cup DOMAIN A
    BY <2>1, <2>2, Sending
  <2> QED
    BY <1>3, <2>2, <2>3 DEF A
<1>5. BagToSet(wire') \subseteq Datagram
  BY <1>2, <1>4 DEF TypeInv, TypeOK
<1>6. sizes' \in Seq(FrameSizes) /\ Len(sizes') <= Frames
  <2>1. sizes \in Seq(FrameSizes) /\ sizes' = Append(sizes, size)
        /\ s = Len(sizes) + 1
    BY DEF SendFrame, TypeInv, TypeOK
  <2> QED
    BY <2>1, AppendProperties
<1>7. RecordsTyped'
  BY DEF SendFrame, TypeInv, RecordsTyped, AreRecords, IsRecord, Datagram
<1>8. IsRecvData(data')
  BY DEF SendFrame, TypeInv, TypeOK
<1>9. /\ UNCHANGED <<restarts, data, poisoned, thread, acking, started,
                     forwarding, port, main, report, delivered, answers,
                     arrived, repeated, stale, given_up, traffic>>
      /\ Datagram' = Datagram
  BY DEF SendFrame, mainVars, outputs, history, Datagram
<1>10. TypeOK'
  BY <1>4, <1>5, <1>6, <1>8, <1>9 DEF TypeInv, TypeOK
<1>11. AckingHeld'
  BY <1>9 DEF TypeInv, AckingHeld, determine_complete, Rec
<1> QED
  BY <1>7, <1>10, <1>11 DEF TypeInv

\* The bag that is left of the wire, for any choice of late datagrams.
LEMMA LateBag ==
  ASSUME NEW B, IsABag(B), NEW late \in SUBSET BagToSet(B)
  PROVE  LET C == [p \in late |-> B[p]]
         IN  /\ IsABag(C)
             /\ BagToSet(C) = late
<1> DEFINE C == [p \in late |-> B[p]]
<1>1. late \subseteq DOMAIN B
  BY DEF BagToSet
<1>2. B \in [DOMAIN B -> {n \in Nat : n > 0}]
  BY DEF IsABag
<1>3. C \in [late -> {n \in Nat : n > 0}]
  BY <1>1, <1>2
<1>4. DOMAIN C = late
  OBVIOUS
<1> HIDE DEF C
<1> QED
  BY <1>3, <1>4 DEF IsABag, BagToSet, C

\* What a restart does.
LEMMA RestartEffect ==
  ASSUME TypeInv, Restart
  PROVE  /\ restarts' = restarts + 1 /\ restarts < MaxRestarts
         /\ sizes' = <<>> /\ delivered' = <<>>
         /\ answers' = [s \in 1 .. Frames |-> 0]
         /\ arrived' = {} /\ repeated' = {} /\ given_up' = {}
         /\ IsABag(wire') /\ BagToSet(wire') \subseteq BagToSet(wire)
         /\ stale' \subseteq 1 .. Frames
         /\ DOMAIN data.recv_records \subseteq stale'
         /\ \A p \in BagToSet(wire') : p.seq \in stale'
         /\ UNCHANGED <<data, poisoned, thread, acking, started, port, main,
                        report, forwarding, traffic>>
<1>1. PICK late \in SUBSET BagToSet(wire) :
        /\ wire' = [p \in late |-> wire[p]]
        /\ stale' = DOMAIN data.recv_records \cup {p.seq : p \in late}
  BY DEF Restart
<1>2. IsABag(wire') /\ BagToSet(wire') = late
  BY <1>1, LateBag DEF TypeInv, TypeOK
<1>3. \A p \in BagToSet(wire) : p.seq \in 1 .. Frames
  BY DEF TypeInv, TypeOK, Datagram
<1>4. DOMAIN data.recv_records \subseteq 1 .. Frames
  BY DEF TypeInv, RecordsTyped, AreRecords
<1>5. stale' \subseteq 1 .. Frames
  BY <1>1, <1>3, <1>4
<1>6. \A p \in BagToSet(wire') : p.seq \in stale'
  BY <1>1, <1>2
<1>7. DOMAIN data.recv_records \subseteq stale'
  BY <1>1
<1> QED
  BY <1>2, <1>5, <1>6, <1>7 DEF Restart, mainVars

\* A restart keeps the types.
LEMMA RestartType ==
  ASSUME TypeInv, Restart
  PROVE  TypeInv'
<1>1. RecordsTyped'
  BY RestartEffect
  DEF TypeInv, RecordsTyped, AreRecords, IsRecord, Datagram
<1>2. restarts' \in 0 .. MaxRestarts
  <2>1. /\ restarts \in 0 .. MaxRestarts /\ MaxRestarts \in Nat
        /\ restarts' = restarts + 1 /\ restarts < MaxRestarts
    BY RestartEffect, ReceiverAssumption DEF TypeInv, TypeOK
  <2> QED
    BY <2>1
<1>3. IsRecvData(data')
  BY RestartEffect DEF TypeInv, TypeOK
<1>4. sizes' \in Seq(FrameSizes) /\ Len(sizes') <= Frames
  BY RestartEffect, EmptySeq, ReceiverAssumption
<1>5. delivered' \in Seq(Seq(Datagram))
  BY RestartEffect, EmptySeq
<1>6. answers' \in [1 .. Frames -> Nat]
  BY RestartEffect
<1>7. TypeOK'
  BY <1>2, <1>3, <1>4, <1>5, <1>6, RestartEffect
  DEF TypeInv, TypeOK, Datagram
<1>8. AckingHeld'
  BY RestartEffect DEF TypeInv, AckingHeld, determine_complete, Rec
<1> QED
  BY <1>1, <1>7, <1>8 DEF TypeInv

\* So do the steps of main, which change nothing else.
LEMMA MainEffect ==
  ASSUME TypeInv, Main
  PROVE  /\ main' \in {"sleeping", "timing", "reporting", "done", "panicked"}
         /\ report' \in Nat \cup {None}
         /\ MainStep
         /\ main' = "panicked" =>
              poisoned \/ data.recevied > data.last_seq \/ report' # None
         /\ report' # report =>
              /\ main' \in {"done", "panicked"}
              /\ ~poisoned /\ acking = {}
              /\ data.recevied <= data.last_seq
              /\ report' = data.last_seq - data.recevied
         /\ ~Ended
<1>1. /\ data.data_len \in Nat /\ data.last_seq \in Nat
      /\ data.recevied \in Nat
      /\ report \in Nat \cup {None} /\ poisoned \in BOOLEAN
  BY DEF TypeInv, TypeOK, IsRecvData
<1>2. CASE Started
  BY <1>1, <1>2 DEF Started, Ended
<1>3. CASE ReadDataLen
  BY <1>1, <1>3 DEF ReadDataLen, Locked, Ended
<1>4. CASE ReadStartTime
  BY <1>1, <1>4 DEF ReadStartTime, Locked, Ended
<1>5. CASE Report
  <2> DEFINE underflows == data.recevied > data.last_seq
  <2>1. /\ main = "reporting" /\ MainStep /\ acking = {}
        /\ main' \in {"done", "panicked"}
        /\ main' = "done" => ~poisoned /\ ~underflows
        /\ report' = IF poisoned \/ underflows THEN report
                     ELSE data.last_seq - data.recevied
    BY <1>5 DEF Report, Locked
  <2>2. ~underflows => /\ data.recevied <= data.last_seq
                       /\ data.last_seq - data.recevied \in Nat
    BY <1>1
  <2>3. underflows => data.recevied > data.last_seq
    OBVIOUS
  <2> HIDE DEF underflows
  <2>4. CASE poisoned \/ underflows
    BY <1>1, <2>1, <2>3, <2>4 DEF Ended
  <2>5. CASE ~poisoned /\ ~underflows
    BY <2>1, <2>2, <2>5, RecordAssumption DEF Ended
  <2> QED
    BY <2>4, <2>5
<1> QED
  BY <1>2, <1>3, <1>4, <1>5 DEF Main

\* What is left of Next: steps that only set a flag.
Aside ==
  \/ Bind
  \/ ForwardStops
  \/ Main
  \/ UNCHANGED vars

LEMMA AsideEffect ==
  ASSUME TypeInv, Aside
  PROVE  /\ UNCHANGED <<sizes, wire, restarts, port, data, poisoned, acking,
                        delivered, answers, arrived, repeated, stale,
                        given_up, traffic>>
         /\ Main \/ UNCHANGED <<main, report>>
         /\ thread # "binding" => thread' = thread
         /\ forwarding' => forwarding
<1>1. CASE Bind
  BY <1>1 DEF Bind, networkVars, mainVars, outputs, history
<1>2. CASE ForwardStops
  BY <1>2 DEF ForwardStops, networkVars, mainVars, outputs, history,
              TypeInv, TypeOK
<1>3. CASE Main
  BY <1>3, MainEffect DEF MainStep, networkVars, outputs, history
<1>4. CASE UNCHANGED vars
  BY <1>4 DEF vars, networkVars, mainVars, outputs, history
<1> QED
  BY <1>1, <1>2, <1>3, <1>4 DEF Aside

LEMMA AsideType ==
  ASSUME TypeInv, Aside
  PROVE  TypeInv'
<1>1. /\ main' \in {"waiting", "sleeping", "timing", "reporting", "done",
                    "panicked"}
      /\ report' \in Nat \cup {None}
      /\ thread' \in {"binding", "looping", "gone"}
      /\ started' \in BOOLEAN /\ forwarding' \in BOOLEAN
  <2>1. CASE Bind
    BY <2>1 DEF Bind, mainVars, TypeInv, TypeOK
  <2>2. CASE ForwardStops
    BY <2>2 DEF ForwardStops, mainVars, TypeInv, TypeOK
  <2>3. CASE Main
    BY <2>3, MainEffect DEF MainStep, TypeInv, TypeOK
  <2>4. CASE UNCHANGED vars
    BY <2>4 DEF vars, mainVars, TypeInv, TypeOK
  <2> QED
    BY <2>1, <2>2, <2>3, <2>4 DEF Aside
<1>2. RecordsTyped'
  BY AsideEffect
  DEF TypeInv, RecordsTyped, AreRecords, IsRecord, Datagram
<1>3. IsRecvData(data')
  BY AsideEffect DEF TypeInv, TypeOK
<1>4. TypeOK'
  BY <1>1, <1>3, AsideEffect DEF TypeInv, TypeOK, Datagram
<1>5. AckingHeld'
  BY AsideEffect DEF TypeInv, AckingHeld, determine_complete, Rec
<1> QED
  BY <1>2, <1>4, <1>5 DEF TypeInv

\* The steps of Next, as the proofs below take them apart.
LEMMA Steps ==
  ASSUME [Next]_vars
  PROVE  \/ \E s \in 1 .. Frames, size \in FrameSizes : SendFrame(s, size)
         \/ Restart
         \/ \E p \in BagToSet(wire) : Receive(p)
         \/ \E s \in acking : Acknowledge(s)
         \/ Aside
BY DEF Next, Aside

LEMMA InitType == Init => TypeInv
<1> SUFFICES ASSUME Init PROVE TypeInv
  OBVIOUS
<1>1. AreRecords(data.recv_records) /\ IsRecvData(data)
  BY DEF Init, RecvData_new, AreRecords, IsRecvData
<1>2. IsABag(wire) /\ BagToSet(wire) = {}
  BY DEF Init, EmptyBag, SetToBag, IsABag, BagToSet
<1>3. sizes \in Seq(FrameSizes) /\ Len(sizes) <= Frames
  BY EmptySeq, ReceiverAssumption DEF Init
<1>4. delivered \in Seq(Seq(Datagram))
  BY EmptySeq DEF Init
<1>5. data.data_len = 0 /\ traffic = 0
  BY DEF Init, RecvData_new
<1>6. answers \in [1 .. Frames -> Nat] /\ report \in Nat \cup {None}
  BY DEF Init
<1>7. /\ restarts \in 0 .. MaxRestarts
      /\ arrived = {} /\ repeated = {} /\ stale = {} /\ given_up = {}
      /\ acking = {} /\ port \in Ports
      /\ thread \in {"binding", "looping", "gone"}
      /\ main \in {"waiting", "sleeping", "timing", "reporting", "done",
                   "panicked"}
  <2>1. 0 \in 0 .. MaxRestarts
    BY ReceiverAssumption
  <2> QED
    BY <2>1 DEF Init
<1>8. /\ BagToSet(wire) \subseteq Datagram /\ arrived \subseteq Datagram
      /\ repeated \subseteq 1 .. Frames /\ stale \subseteq 1 .. Frames
      /\ given_up \subseteq 1 .. Frames /\ acking \subseteq 1 .. Frames
  BY <1>2, <1>7
<1>9. /\ data.data_len <= traffic /\ traffic \in Nat
      /\ data.data_len < U32 \/ data.data_len = 0
  BY <1>5
<1>10. poisoned \in BOOLEAN /\ started \in BOOLEAN /\ forwarding \in BOOLEAN
  BY DEF Init
<1>11. TypeOK
  BY <1>1, <1>2, <1>3, <1>4, <1>6, <1>7, <1>8, <1>9, <1>10 DEF TypeOK
<1>12. AckingHeld
  BY <1>7 DEF Init, AckingHeld
<1> QED
  BY <1>1, <1>11, <1>12 DEF TypeInv, RecordsTyped

LEMMA StepType ==
  ASSUME TypeInv, [Next]_vars
  PROVE  TypeInv'
BY Steps, SendFrameType, RestartType, ReceiveType, AcknowledgeType, AsideType

\* The state of the receiver is always of its type: data_len never exceeds
\* the traffic or a u32, whatever main and the network do.
THEOREM TypeCorrect == Spec => []TypeOK
<1>1. TypeInv => TypeOK
  BY DEF TypeInv
<1> QED
  BY <1>1, InitType, StepType, PTL DEF Spec


-----------------------------------------------------------------------------
(* Records hold packets of the sender, and answers are for whole frames *)

\* The packets of a frame that has been sent.
LEMMA SentPackets ==
  ASSUME TypeInv, NEW s \in Sent
  PROVE  /\ s \in 1 .. Frames /\ Count(s) \in Nat
         /\ generate_packets(s, sizes[s]) \in [1 .. Count(s) -> Datagram]
         /\ \A p \in PacketsOf(s) :
              /\ p \in Datagram /\ p.seq = s
              /\ p.offset \in 0 .. Count(s) - 1
              /\ p = generate_packets(s, sizes[s])[p.offset + 1]
              /\ p.last_one <=> p.offset = Count(s) - 1
         /\ \A o \in 0 .. Count(s) - 1 :
              \E p \in PacketsOf(s) : p.offset = o
<1>1. /\ Len(sizes) \in Nat /\ Len(sizes) <= Frames /\ Frames \in Nat
      /\ sizes \in Seq(FrameSizes) /\ FrameSizes \subseteq Nat
  BY ReceiverAssumption, LenProperties DEF TypeInv, TypeOK
<1>2. s \in 1 .. Frames
  BY <1>1 DEF Sent
<1>3. sizes[s] \in Nat
  BY <1>1, ElementOfSeq DEF Sent
<1> DEFINE size == sizes[s]
<1>4. /\ generate_packets(s, size) \in [1 .. PacketCount(size) -> Datagram]
      /\ \A p \in FramePackets(s, size) :
           /\ p \in Datagram /\ p.seq = s
           /\ p.offset \in 0 .. PacketCount(size) - 1
           /\ p = generate_packets(s, size)[p.offset + 1]
           /\ p.last_one <=> p.offset = PacketCount(size) - 1
  <2> HIDE DEF size
  <2> QED
    BY <1>2, <1>3, FramePacketsType DEF size
<1>5. \A o \in 0 .. PacketCount(size) - 1 :
        \E p \in FramePackets(s, size) : p.offset = o
  <2> HIDE DEF size
  <2> QED
    BY <1>2, <1>3, PacketAt DEF size
<1>6. PacketCount(size) \in Nat
  BY <1>3, PacketCountType
<1> QED
  BY <1>2, <1>4, <1>5, <1>6 DEF PacketsOf, Count

\* A record of a frame is complete if it has every packet of it, and then it
\* can be gathered, in order.
LEMMA CompleteRecord ==
  ASSUME TypeInv, NEW s \in Sent, NEW r, NEW from, RecordOf(s, r, from)
  PROVE  /\ determine_complete(r) <=>
              0 .. Count(s) - 1 \subseteq DOMAIN r.packets
         /\ determine_complete(r) =>
              /\ PacketsOf(s) \subseteq from
              /\ \A q \in PacketsOf(s) : q.offset \in DOMAIN r.packets
              /\ Gatherable(r)
              /\ gather(r) = generate_packets(s, sizes[s])
<1> DEFINE end == Count(s) - 1
<1>1. /\ Count(s) \in Nat
      /\ generate_packets(s, sizes[s]) \in [1 .. Count(s) -> Datagram]
      /\ \A q \in PacketsOf(s) :
           /\ q.offset \in 0 .. end
           /\ q = generate_packets(s, sizes[s])[q.offset + 1]
  BY SentPackets
<1>2. /\ \A o \in DOMAIN r.packets :
           r.packets[o] \in PacketsOf(s) \cap from /\ r.packets[o].offset = o
      /\ r.last_packet_id = IF end \in DOMAIN r.packets THEN end ELSE None
      /\ DOMAIN r.packets # {}
  BY DEF RecordOf
<1>3. DOMAIN r.packets \subseteq 0 .. end
  BY <1>1, <1>2
<1>4. end \in 0 .. end
  BY <1>1, <1>2
<1>5. determine_complete(r) <=> 0 .. end \subseteq DOMAIN r.packets
  <2>1. end # None
    BY <1>1, <1>4, RecordAssumption
  <2> HIDE DEF end
  <2> QED
    BY <1>2, <1>4, <2>1 DEF determine_complete
<1>6. ASSUME determine_complete(r)
      PROVE  /\ PacketsOf(s) \subseteq from
             /\ \A q \in PacketsOf(s) : q.offset \in DOMAIN r.packets
             /\ Gatherable(r)
             /\ gather(r) = generate_packets(s, sizes[s])
  <2>1. DOMAIN r.packets = 0 .. end
    BY <1>3, <1>5, <1>6
  <2>2. ASSUME NEW q \in PacketsOf(s)
        PROVE  q \in from /\ q.offset \in DOMAIN r.packets
    <3>1. q.offset \in DOMAIN r.packets
      BY <1>1, <2>1, <2>2
    <3>2. r.packets[q.offset] \in PacketsOf(s) \cap from
          /\ r.packets[q.offset].offset = q.offset
      BY <1>2, <3>1
    <3> QED
      BY <1>1, <2>2, <3>1, <3>2
  <2>3. Cardinality(DOMAIN r.packets) = Count(s)
    <3>1. end \in Int /\ 0 \in Int /\ 0 <= end /\ end - 0 + 1 = Count(s)
      BY <1>1, <1>4
    <3> HIDE DEF end
    <3> QED
      BY <2>1, <3>1, FS_Interval
  <2>4. Gatherable(r)
    BY <2>1, <2>3 DEF Gatherable
  <2>5. gather(r) = [i \in 1 .. Count(s) |-> r.packets[i - 1]]
    BY <2>3 DEF gather
  <2>6. ASSUME NEW i \in 1 .. Count(s)
        PROVE  r.packets[i - 1] = generate_packets(s, sizes[s])[i]
    <3>1. i - 1 \in 0 .. end /\ (i - 1) + 1 = i
      BY <1>1
    <3>2. r.packets[i - 1] \in PacketsOf(s)
          /\ r.packets[i - 1].offset = i - 1
      BY <1>2, <2>1, <3>1
    <3> QED
      BY <1>1, <3>1, <3>2
  <2>7. gather(r) = generate_packets(s, sizes[s])
    BY <1>1, <2>5, <2>6
  <2> QED
    BY <2>2, <2>4, <2>7
<1> QED
  BY <1>5, <1>6

\* What a packet of this session makes of the record it is put into.
LEMMA RecordedSound ==
  ASSUME SoundInv, NEW p \in BagToSet(wire), p.seq \notin stale
  PROVE  LET s == p.seq
             r == Recorded(data, p)
         IN  /\ s \in Sent /\ p \in PacketsOf(s)
             /\ RecordOf(s, r, arrived \cup {p})
             /\ determine_complete(r) <=>
                  0 .. Count(s) - 1 \subseteq DOMAIN r.packets
             /\ determine_complete(r) => PacketsOf(s) \subseteq arrived \cup {p}
<1> DEFINE s == p.seq
           r == Recorded(data, p)
           has == s \in DOMAIN data.recv_records
           old == IF has THEN DOMAIN Rec(s).packets ELSE {}
           end == Count(s) - 1
           from == arrived \cup {p}
<1>1. s \in Sent /\ p \in PacketsOf(s) /\ p \in Datagram /\ TypeInv
  BY DEF SoundInv, Origin, TypeInv, TypeOK
<1>2. /\ Count(s) \in Nat
      /\ generate_packets(s, sizes[s]) \in [1 .. Count(s) -> Datagram]
      /\ \A q \in PacketsOf(s) :
           /\ q.offset \in 0 .. end
           /\ q = generate_packets(s, sizes[s])[q.offset + 1]
           /\ q.last_one <=> q.offset = end
  BY <1>1, SentPackets
<1>3. has => RecordOf(s, Rec(s), arrived)
  BY DEF SoundInv, RecordsSound
<1>4. /\ \A o \in old : /\ Rec(s).packets[o] \in PacketsOf(s) \cap arrived
                        /\ Rec(s).packets[o].offset = o
      /\ has => Rec(s).last_packet_id = IF end \in old THEN end ELSE None
  BY <1>3 DEF RecordOf
<1>5. /\ DOMAIN r.packets = old \cup {p.offset}
      /\ r.packets[p.offset] = p
      /\ \A o \in old : o # p.offset => r.packets[o] = Rec(s).packets[o]
      /\ r.last_packet_id = IF p.last_one THEN p.offset
                            ELSE IF has THEN Rec(s).last_packet_id ELSE None
  BY <1>1, RecordedEffect
<1> HIDE DEF r
<1>6. \A o \in DOMAIN r.packets :
        r.packets[o] \in PacketsOf(s) \cap from /\ r.packets[o].offset = o
  BY <1>1, <1>4, <1>5
<1>7. r.last_packet_id = IF end \in DOMAIN r.packets THEN end ELSE None
  <2>1. p.last_one <=> p.offset = end
    BY <1>1, <1>2
  <2>2. ~has => old = {}
    OBVIOUS
  <2> HIDE DEF end, old, has
  <2> QED
    BY <1>4, <1>5, <2>1, <2>2
<1>8. RecordOf(s, r, from)
  BY <1>5, <1>6, <1>7 DEF RecordOf
<1>9. /\ determine_complete(r) <=> 0 .. end \subseteq DOMAIN r.packets
      /\ determine_complete(r) => PacketsOf(s) \subseteq from
  BY <1>1, <1>8, CompleteRecord
<1> QED
  BY <1>1, <1>8, <1>9 DEF r

\* What a step of the receive thread leaves alone.
LEMMA ReceiveFrame ==
  ASSUME SoundInv, NEW p \in BagToSet(wire), Receive(p)
  PROVE  /\ ~poisoned /\ thread = "looping" /\ acking = {} /\ ~Ended
         /\ arrived' = arrived \cup {p}
         /\ repeated' = IF p \in arrived THEN repeated \cup {p.seq}
                        ELSE repeated
         /\ UNCHANGED <<sizes, restarts, port, main, report, forwarding,
                        delivered, answers, stale, given_up>>
         /\ Sent' = Sent
         /\ \A s : PacketsOf(s)' = PacketsOf(s) /\ Count(s)' = Count(s)
         /\ BagToSet(wire') \subseteq BagToSet(wire)
<1>1. ~poisoned
  BY DEF SoundInv, Receive, TypeInv, TypeOK, AckingHeld
<1>2. BagToSet(wire') \subseteq BagToSet(wire)
  BY Delivered DEF Receive, SoundInv, TypeInv, TypeOK
<1> QED
  BY <1>1, <1>2 DEF Receive, Sent, PacketsOf, Count, mainVars, outputs


\* What a frame that is sent changes, and what it does not.
LEMMA SendFrameEffect ==
  ASSUME SoundInv, NEW s \in 1 .. Frames, NEW size \in FrameSizes,
         SendFrame(s, size)
  PROVE  /\ s \notin Sent /\ Sent' = Sent \cup {s}
         /\ \A t \in Sent : t < s
         /\ Len(sizes') = s /\ s = Len(sizes) + 1
         /\ \A t \in Sent : /\ sizes'[t] = sizes[t]
                            /\ PacketsOf(t)' = PacketsOf(t)
                            /\ Count(t)' = Count(t)
         /\ \A p \in PacketsOf(s)' : p.seq = s
         /\ BagToSet(wire') = BagToSet(wire) \cup PacketsOf(s)'
         /\ \A p : p \notin PacketsOf(s)' =>
              Copies(p, wire') = Copies(p, wire)
         /\ s \notin stale =>
              /\ s \notin DOMAIN data.recv_records
              /\ answers[s] = 0
              /\ \A p \in arrived : p.seq # s
              /\ \A p \in PacketsOf(s)' : Copies(p, wire') = MaxCopies
         /\ ~Ended
         /\ UNCHANGED <<restarts, data, poisoned, thread, acking, started,
                        port, main, report, forwarding, delivered, answers,
                        arrived, repeated, stale, given_up, traffic>>
<1>1. /\ sizes \in Seq(FrameSizes) /\ Len(sizes) \in Nat
      /\ s = Len(sizes) + 1 /\ sizes' = Append(sizes, size)
      /\ FrameSizes \subseteq Nat
  BY ReceiverAssumption, LenProperties
  DEF SendFrame, SoundInv, TypeInv, TypeOK
<1>2. /\ Len(sizes') = s
      /\ \A t \in Sent : sizes'[t] = sizes[t]
      /\ sizes'[s] = size
  BY <1>1, AppendProperties DEF Sent
<1>3. Sent' = Sent \cup {s} /\ s \notin Sent /\ \A t \in Sent : t < s
  BY <1>1, <1>2 DEF Sent
<1>4. \A t \in Sent : PacketsOf(t)' = PacketsOf(t) /\ Count(t)' = Count(t)
  BY <1>2 DEF PacketsOf, Count
<1>5. PacketsOf(s)' = FramePackets(s, size)
  BY <1>2 DEF PacketsOf
<1>6. \A p \in PacketsOf(s)' : p.seq = s
  BY <1>1, <1>5, FramePacketsType
<1> DEFINE A == [p \in FramePackets(s, size) |-> MaxCopies]
           C == wire (+) A
<1>7. /\ BagToSet(C) = BagToSet(wire) \cup DOMAIN A
      /\ \A q \in DOMAIN A \ BagToSet(wire) : Copies(q, C) = MaxCopies
      /\ \A q : q \notin DOMAIN A => Copies(q, C) = Copies(q, wire)
  <2>1. IsABag(wire) /\ MaxCopies \in Nat \ {0}
    BY ReceiverAssumption DEF SoundInv, TypeInv, TypeOK
  <2>2. \A q \in DOMAIN A : A[q] = MaxCopies
    OBVIOUS
  <2> HIDE DEF A
  <2> QED
    BY <2>1, <2>2, Sending
<1>8. DOMAIN A = PacketsOf(s)' /\ wire' = C
  BY <1>5 DEF SendFrame
<1> HIDE DEF A, C
<1>9. ASSUME s \notin stale
      PROVE  /\ s \notin DOMAIN data.recv_records
             /\ answers[s] = 0
             /\ \A p \in arrived : p.seq # s
             /\ \A p \in PacketsOf(s)' : Copies(p, wire') = MaxCopies
  <2>1. \A p \in BagToSet(wire) \cup arrived : p.seq # s
    BY <1>3, <1>9 DEF SoundInv, Origin
  <2>2. s \notin DOMAIN data.recv_records
    BY <1>3, <1>9 DEF SoundInv, RecordsSound
  <2>3. answers[s] \in Nat /\ ~(answers[s] > 0)
    BY <1>3, <1>9 DEF SoundInv, AnsweredWhole, TypeInv, TypeOK
  <2> QED
    BY <1>6, <1>7, <1>8, <2>1, <2>2, <2>3
<1> QED
  BY <1>1, <1>2, <1>3, <1>4, <1>6, <1>7, <1>8, <1>9
  DEF SendFrame, mainVars, outputs, history

\* What the receive thread makes of a record of another frame: nothing.
LEMMA OtherRecords ==
  ASSUME TypeInv, NEW p \in BagToSet(wire), Receive(p), NEW s, s # p.seq
  PROVE  /\ s \in DOMAIN data'.recv_records <=> s \in DOMAIN data.recv_records
         /\ s \in DOMAIN data.recv_records => Rec(s)' = Rec(s)
<1> DEFINE recs == data.recv_records
           r == Recorded(data, p)
<1>1. \/ data'.recv_records = recs
      \/ data'.recv_records = insert(recs, p.seq, r)
  BY ReceiveEffect
  DEF Uncounted, JustRecorded, StartsAcking, DiesOfPort, Seen
<1> HIDE DEF r, recs
<1>2. /\ s \in DOMAIN data'.recv_records <=> s \in DOMAIN recs
      /\ s \in DOMAIN recs => data'.recv_records[s] = recs[s]
  BY <1>1 DEF insert
<1> QED
  BY <1>2 DEF Rec, recs

\* A record still is one when more has arrived.
LEMMA RecordOfMore ==
  ASSUME NEW s, NEW r, NEW from, NEW more, from \subseteq more,
         RecordOf(s, r, from)
  PROVE  RecordOf(s, r, more)
BY DEF RecordOf

\* A step of the receive thread keeps the invariant.
LEMMA ReceiveSound ==
  ASSUME SoundInv, NEW p \in BagToSet(wire), Receive(p)
  PROVE  SoundInv'
<1>1. TypeInv /\ TypeInv'
  BY ReceiveType DEF SoundInv
<1> DEFINE s == p.seq
           r == Recorded(data, p)
<1>2. /\ arrived' = arrived \cup {p} /\ stale' = stale /\ Sent' = Sent
      /\ \A t : PacketsOf(t)' = PacketsOf(t) /\ Count(t)' = Count(t)
      /\ BagToSet(wire') \subseteq BagToSet(wire)
      /\ answers' = answers
  BY ReceiveFrame
<1>3. s \notin stale =>
        /\ s \in Sent /\ p \in PacketsOf(s)
        /\ RecordOf(s, r, arrived')
        /\ determine_complete(r) => PacketsOf(s) \subseteq arrived'
  BY <1>2, RecordedSound
<1>4. s \in 1 .. Frames
  BY <1>1 DEF TypeInv, TypeOK, Datagram
<1>5. Origin'
  BY <1>2, <1>3 DEF SoundInv, Origin
<1>6. RecordsSound'
  <2>1. SUFFICES ASSUME NEW t \in DOMAIN data'.recv_records \ stale
                 PROVE  t \in Sent /\ Sampled(t) /\ RecordOf(t, Rec(t)', arrived')
    BY <1>2 DEF RecordsSound, RecordOf
  <2>2. CASE t # s
    <3>1. t \in DOMAIN data.recv_records /\ Rec(t)' = Rec(t)
      BY <1>1, <2>1, <2>2, OtherRecords
    <3>2. t \in Sent /\ Sampled(t) /\ RecordOf(t, Rec(t), arrived)
      BY <2>1, <3>1 DEF SoundInv, RecordsSound
    <3> QED
      BY <1>2, <3>1, <3>2, RecordOfMore
  <2>3. CASE t = s
    <3>1. s \in DOMAIN data.recv_records =>
            Sampled(s) /\ RecordOf(s, Rec(s), arrived)
      BY <2>1, <2>3 DEF SoundInv, RecordsSound
    <3>2. CASE data'.recv_records = data.recv_records
      BY <1>2, <1>3, <2>1, <2>3, <3>1, <3>2, RecordOfMore DEF Rec
    <3>3. CASE /\ data'.recv_records = insert(data.recv_records, s, r)
               /\ Sampled(s)
      <4>1. Rec(s)' = r
        BY <3>3 DEF Rec, insert
      <4> QED
        BY <1>3, <2>1, <2>3, <3>3, <4>1
    <3> QED
      BY <1>1, <3>2, <3>3, ReceiveEffect
      DEF Uncounted, JustRecorded, StartsAcking, DiesOfPort, Seen
  <2> QED
    BY <2>2, <2>3
<1>7. given_up' = given_up
  BY ReceiveFrame
<1>8. AnsweredWhole' /\ GivenUpWhole'
  BY <1>2, <1>7 DEF SoundInv, AnsweredWhole, GivenUpWhole, Whole
<1> QED
  BY <1>1, <1>5, <1>6, <1>8 DEF SoundInv

\* The frame that is being answered is whole, or has a number of which an
\* earlier session has left something.
LEMMA AckingWhole ==
  ASSUME SoundInv, NEW s \in acking
  PROVE  /\ ~poisoned /\ acking = {s} /\ s \in 1 .. Frames
         /\ s \in DOMAIN data.recv_records
         /\ s \notin stale =>
              /\ s \in Sent /\ Sampled(s) /\ Whole(s)
              /\ \A q \in PacketsOf(s) : Kept(q)
              /\ Gatherable(Rec(s))
              /\ gather(Rec(s)) = generate_packets(s, sizes[s])
<1>1. TypeInv
  BY DEF SoundInv
<1>2. /\ ~poisoned /\ acking = {s} /\ s \in 1 .. Frames
      /\ s \in DOMAIN data.recv_records /\ determine_complete(Rec(s))
  BY <1>1 DEF TypeInv, TypeOK, AckingHeld
<1>3. ASSUME s \notin stale
      PROVE  /\ s \in Sent /\ Sampled(s) /\ Whole(s)
             /\ \A q \in PacketsOf(s) : Kept(q)
             /\ Gatherable(Rec(s))
             /\ gather(Rec(s)) = generate_packets(s, sizes[s])
  <2>1. s \in Sent /\ Sampled(s) /\ RecordOf(s, Rec(s), arrived)
    BY <1>2, <1>3 DEF SoundInv, RecordsSound
  <2>2. /\ PacketsOf(s) \subseteq arrived
        /\ \A q \in PacketsOf(s) : q.offset \in DOMAIN Rec(s).packets
        /\ Gatherable(Rec(s))
        /\ gather(Rec(s)) = generate_packets(s, sizes[s])
    BY <1>1, <1>2, <2>1, CompleteRecord
  <2>3. PacketsOf(s) # {}
    BY <2>1 DEF RecordOf
  <2>4. ASSUME NEW q \in PacketsOf(s) PROVE Kept(q)
    <3>1. q.seq = s
      BY <1>1, <2>1, SentPackets
    <3> QED
      BY <1>2, <2>2, <3>1 DEF Kept
  <2> QED
    BY <2>1, <2>2, <2>3, <2>4 DEF Whole
<1> QED
  BY <1>2, <1>3

\* What the end of a turn makes of the records of the other frames: nothing.
LEMMA RecordsAfter ==
  ASSUME SoundInv, NEW s \in acking, Acknowledge(s)
  PROVE  /\ DOMAIN data'.recv_records \subseteq DOMAIN data.recv_records
         /\ \A u \in DOMAIN data'.recv_records : Rec(u)' = Rec(u)
         /\ \A u \in DOMAIN data.recv_records \ {s} :
              u \in DOMAIN data'.recv_records
         /\ ~poisoned' => s \notin DOMAIN data'.recv_records
         /\ \A u \in 1 .. Frames \ {s} :
              /\ answers'[u] = answers[u]
              /\ u \in given_up' <=> u \in given_up
         /\ Sent' = Sent
         /\ \A u : PacketsOf(u)' = PacketsOf(u) /\ Count(u)' = Count(u)
         /\ \A u : Whole(u)' = Whole(u)
<1>1. TypeInv
  BY DEF SoundInv
<1>2. /\ Frees(s) \/ DiesForwarding(s)
      /\ Answer(s) \/ GiveUp(s)
      /\ sizes' = sizes /\ arrived' = arrived
  BY <1>1, AcknowledgeEffect
<1>3. \/ data'.recv_records = remove(data.recv_records, s)
      \/ data'.recv_records = data.recv_records /\ poisoned'
  BY <1>2 DEF Frees, DiesForwarding
<1>4. answers \in [1 .. Frames -> Nat]
  BY <1>1 DEF TypeInv, TypeOK
<1>5. \A u \in 1 .. Frames \ {s} : /\ answers'[u] = answers[u]
                                   /\ u \in given_up' <=> u \in given_up
  BY <1>2, <1>4 DEF Answer, GiveUp
<1>6. /\ Sent' = Sent
      /\ \A u : PacketsOf(u)' = PacketsOf(u) /\ Count(u)' = Count(u)
  BY <1>2 DEF Sent, PacketsOf, Count
<1>7. \A u : Whole(u)' = Whole(u)
  BY <1>2, <1>6 DEF Whole
<1> QED
  BY <1>3, <1>5, <1>6, <1>7 DEF Rec, remove

LEMMA AcknowledgeSound ==
  ASSUME SoundInv, NEW s \in acking, Acknowledge(s)
  PROVE  SoundInv'
<1>1. TypeInv /\ TypeInv'
  BY AcknowledgeType DEF SoundInv
<1>2. UNCHANGED <<sizes, wire, arrived, stale>> /\ (Answer(s) \/ GiveUp(s))
  BY <1>1, AcknowledgeEffect
<1>3. Origin'
  BY <1>2 DEF SoundInv, Origin, Sent, PacketsOf
<1>4. RecordsSound'
  <2>1. SUFFICES ASSUME NEW u \in DOMAIN data'.recv_records \ stale
                 PROVE  u \in Sent /\ Sampled(u) /\ RecordOf(u, Rec(u)', arrived)
    BY <1>2, RecordsAfter DEF RecordsSound, RecordOf
  <2>2. u \in DOMAIN data.recv_records \ stale /\ Rec(u)' = Rec(u)
    BY <2>1, RecordsAfter
  <2> QED
    BY <2>2 DEF SoundInv, RecordsSound
<1>5. AnsweredWhole'
  <2>1. SUFFICES ASSUME NEW u \in 1 .. Frames \ stale, answers'[u] > 0
                 PROVE  u \in Sent /\ Whole(u)
    BY <1>2, RecordsAfter DEF AnsweredWhole
  <2>2. CASE u = s
    BY <2>1, <2>2, AckingWhole
  <2>3. CASE u # s
    BY <2>1, <2>3, RecordsAfter DEF SoundInv, AnsweredWhole
  <2> QED
    BY <2>2, <2>3
<1>6. GivenUpWhole'
  <2>1. given_up' \subseteq given_up \cup {s}
    BY <1>2 DEF Answer, GiveUp
  <2> QED
    BY <1>2, <2>1, AckingWhole, RecordsAfter DEF SoundInv, GivenUpWhole
<1> QED
  BY <1>1, <1>3, <1>4, <1>5, <1>6 DEF SoundInv

LEMMA SendFrameSound ==
  ASSUME SoundInv, NEW s \in 1 .. Frames, NEW size \in FrameSizes,
         SendFrame(s, size)
  PROVE  SoundInv'
<1>1. TypeInv'
  BY SendFrameType DEF SoundInv
<1>2. Origin'
  BY SendFrameEffect DEF SoundInv, Origin
<1>3. RecordsSound'
  <2>1. SUFFICES ASSUME NEW t \in DOMAIN data.recv_records \ stale
                 PROVE  /\ t \in Sent' /\ Sampled(t)
                        /\ RecordOf(t, Rec(t), arrived)'
    BY SendFrameEffect DEF RecordsSound
  <2>2. t \in Sent /\ Sampled(t) /\ RecordOf(t, Rec(t), arrived)
    BY <2>1 DEF SoundInv, RecordsSound
  <2> QED
    BY <2>2, SendFrameEffect DEF RecordOf, Rec
<1>4. AnsweredWhole' /\ GivenUpWhole'
  BY SendFrameEffect DEF SoundInv, AnsweredWhole, GivenUpWhole, Whole
<1> QED
  BY <1>1, <1>2, <1>3, <1>4 DEF SoundInv

\* After a restart nothing is known of the new session, and everything that
\* is left of the old ones is stale.
LEMMA RestartSound ==
  ASSUME SoundInv, Restart
  PROVE  SoundInv'
<1>1. TypeInv /\ TypeInv'
  BY RestartType DEF SoundInv
<1>2. Origin' /\ RecordsSound'
  BY <1>1, RestartEffect DEF Origin, RecordsSound
<1>3. AnsweredWhole' /\ GivenUpWhole'
  BY <1>1, RestartEffect DEF AnsweredWhole, GivenUpWhole
<1> QED
  BY <1>1, <1>2, <1>3 DEF SoundInv

LEMMA AsideSound ==
  ASSUME SoundInv, Aside
  PROVE  SoundInv'
<1>1. TypeInv /\ TypeInv'
  BY AsideType DEF SoundInv
<1>2. UNCHANGED <<sizes, wire, data, poisoned, answers, arrived, stale,
                  given_up>>
  BY <1>1, AsideEffect
<1>3. Origin' /\ RecordsSound' /\ AnsweredWhole' /\ GivenUpWhole'
  BY <1>2 DEF SoundInv, Origin, RecordsSound, AnsweredWhole, GivenUpWhole,
              Whole, Sent, PacketsOf, RecordOf, Count, Rec
<1> QED
  BY <1>1, <1>3 DEF SoundInv

LEMMA InitSound == Init => SoundInv
<1> SUFFICES ASSUME Init PROVE SoundInv
  OBVIOUS
<1>1. TypeInv
  BY InitType
<1>2. /\ BagToSet(wire) = {} /\ arrived = {}
      /\ DOMAIN data.recv_records = {}
      /\ \A s \in 1 .. Frames : answers[s] = 0
  BY DEF Init, EmptyBag, SetToBag, BagToSet, RecvData_new
<1>3. given_up = {}
  BY DEF Init
<1> QED
  BY <1>1, <1>2, <1>3
  DEF SoundInv, Origin, RecordsSound, AnsweredWhole, GivenUpWhole

LEMMA StepSound ==
  ASSUME SoundInv, [Next]_vars
  PROVE  SoundInv'
BY Steps, SendFrameSound, RestartSound, ReceiveSound, AcknowledgeSound,
   AsideSound

\* No frame is answered that has not been sent in this session, or of which a
\* packet is missing: however often the network repeats, reorders or loses
\* the packets, and however often the sender is restarted.
THEOREM OnlyWholeAnswered == Spec => []AnsweredWhole
<1>1. SoundInv => AnsweredWhole
  BY DEF SoundInv
<1> QED
  BY <1>1, InitSound, StepSound, PTL DEF Spec

\* What is forwarded to the decoder is a whole frame of the sender, in the
\* order of its packets, unless a session before has left some of it.
THEOREM NothingMangled == Spec => []DeliveredIntact
<1>1. Init => DeliveredIntact
  BY DEF Init, DeliveredIntact
<1>2. ASSUME SoundInv, DeliveredIntact, [Next]_vars
      PROVE  DeliveredIntact'
  <2>1. delivered \in Seq(Seq(Datagram)) /\ TypeInv
    BY <1>2 DEF SoundInv, TypeInv, TypeOK
  <2>2. ASSUME NEW s \in 1 .. Frames, NEW size \in FrameSizes,
               SendFrame(s, size)
        PROVE  DeliveredIntact'
    <3>1. /\ Sent \subseteq Sent' /\ stale' = stale
          /\ delivered' = delivered
          /\ \A t \in Sent : sizes'[t] = sizes[t]
      BY <1>2, <2>2, SendFrameEffect
    <3> QED
      BY <1>2, <3>1 DEF DeliveredIntact
  <2>3. CASE Restart
    BY <2>1, <2>3, RestartEffect DEF DeliveredIntact
  <2>4. ASSUME NEW p \in BagToSet(wire), Receive(p)
        PROVE  DeliveredIntact'
    <3>1. UNCHANGED <<delivered, sizes, stale>> /\ Sent' = Sent
      BY <1>2, <2>4, ReceiveFrame
    <3> QED
      BY <1>2, <3>1 DEF DeliveredIntact
  <2>6. ASSUME NEW s \in acking, Acknowledge(s)
        PROVE  DeliveredIntact'
    <3>1. /\ stale' = stale /\ sizes' = sizes /\ Sent' = Sent
          /\ Frees(s) \/ DiesForwarding(s)
      BY <1>2, <2>1, <2>6, AcknowledgeEffect DEF Sent
    <3>2. CASE delivered' = delivered
      BY <1>2, <3>1, <3>2 DEF DeliveredIntact
    <3>3. CASE delivered' = Append(delivered, gather(Rec(s)))
      <4> DEFINE g == gather(Rec(s))
                 n == Len(delivered)
      <4>1. s \in stale
            \/ (s \in Sent /\ g = generate_packets(s, sizes[s]))
        BY <1>2, AckingWhole
      <4> HIDE DEF g
      <4>2. /\ n \in Nat /\ delivered' = Append(delivered, g)
            /\ Len(delivered') = n + 1
            /\ \A i \in 1 .. n : delivered'[i] = delivered[i]
            /\ delivered'[n + 1] = g
        <5>1. delivered \in Seq(Seq(Datagram) \cup {g})
              /\ g \in Seq(Datagram) \cup {g}
          BY <2>1
        <5> QED
          BY <3>3, <5>1, AppendProperties, LenProperties DEF g
      <4>3. \A i \in 1 .. n + 1 : i \in 1 .. n \/ i = n + 1
        BY <4>2
      <4> QED
        BY <1>2, <3>1, <4>1, <4>2, <4>3 DEF DeliveredIntact
    <3> QED
      BY <3>1, <3>2, <3>3 DEF Frees, DiesForwarding
  <2>5. CASE Aside
    <3>1. UNCHANGED <<delivered, sizes, stale>>
      BY <2>1, <2>5, AsideEffect
    <3> QED
      BY <1>2, <3>1 DEF DeliveredIntact, Sent
  <2> QED
    BY <1>2, <2>2, <2>3, <2>4, <2>5, <2>6, Steps
<1> QED
  BY <1>1, <1>2, InitSound, StepSound, PTL DEF Spec


-----------------------------------------------------------------------------
(* Nothing is forgotten, and every whole frame is answered at once *)

\* The first copy of a packet of this session completes its frame exactly if
\* all of it has now arrived.
LEMMA FirstCopy ==
  ASSUME SoundInv, RecordsComplete, NEW p \in BagToSet(wire), Receive(p),
         p.seq \notin repeated' \cup stale
  PROVE  LET s == p.seq
         IN  /\ s \in Sent \ (repeated \cup stale)
             /\ p \in PacketsOf(s) /\ p \notin arrived
             /\ ~Whole(s)
             /\ Completes(data, p) <=> Sampled(s) /\ Whole(s)'
<1> DEFINE s == p.seq
           r == Recorded(data, p)
<1>1. /\ ~poisoned /\ arrived' = arrived \cup {p}
      /\ PacketsOf(s)' = PacketsOf(s)
      /\ p \notin arrived /\ s \notin repeated
  BY ReceiveFrame
<1>2. /\ s \in Sent /\ p \in PacketsOf(s)
      /\ determine_complete(r) <=>
           0 .. Count(s) - 1 \subseteq DOMAIN r.packets
      /\ determine_complete(r) => PacketsOf(s) \subseteq arrived \cup {p}
  BY RecordedSound
<1>3. ~Whole(s)
  BY <1>1, <1>2 DEF Whole
<1>4. TypeInv /\ p \in Datagram
  BY DEF SoundInv, TypeInv, TypeOK
<1>5. ASSUME Sampled(s), Whole(s)' PROVE determine_complete(r)
  <2>1. SUFFICES ASSUME NEW o \in 0 .. Count(s) - 1
                 PROVE  o \in DOMAIN r.packets
    BY <1>2
  <2>2. PICK q \in PacketsOf(s) : q.offset = o
    BY <1>2, <1>4, SentPackets
  <2>3. q \in arrived \cup {p}
    BY <1>1, <1>5, <2>2 DEF Whole
  <2>4. DOMAIN r.packets =
          (IF s \in DOMAIN data.recv_records THEN DOMAIN Rec(s).packets
           ELSE {}) \cup {p.offset}
    BY <1>4, RecordedEffect
  <2>5. q \in arrived => /\ s \in DOMAIN data.recv_records
                         /\ o \in DOMAIN Rec(s).packets
    <3>1. q.seq = s
      BY <1>2, <1>4, <2>2, SentPackets
    <3> QED
      BY <1>1, <1>2, <1>3, <1>5, <2>2, <3>1 DEF RecordsComplete, Kept
  <2> QED
    BY <2>2, <2>3, <2>4, <2>5
<1>6. determine_complete(r) => Whole(s)'
  BY <1>1, <1>2 DEF Whole
<1> QED
  BY <1>1, <1>2, <1>3, <1>5, <1>6 DEF Completes

\* A packet of another frame makes no difference to a frame.
LEMMA OtherFrame ==
  ASSUME SoundInv, NEW p \in BagToSet(wire), Receive(p),
         NEW s \in Sent, s # p.seq
  PROVE  /\ Whole(s)' <=> Whole(s)
         /\ PacketsOf(s) \cap arrived' = PacketsOf(s) \cap arrived
         /\ \A q \in PacketsOf(s) : Kept(q)' <=> Kept(q)
         /\ s \in DOMAIN data'.recv_records <=>
              s \in DOMAIN data.recv_records
<1>1. TypeInv
  BY DEF SoundInv
<1>2. /\ s \in 1 .. Frames
      /\ \A q \in PacketsOf(s) : q.seq = s
  BY <1>1, SentPackets
<1>3. arrived' = arrived \cup {p} /\ PacketsOf(s)' = PacketsOf(s)
  BY ReceiveFrame
<1>4. /\ s \in DOMAIN data'.recv_records <=> s \in DOMAIN data.recv_records
      /\ s \in DOMAIN data.recv_records => Rec(s)' = Rec(s)
  BY <1>1, <1>2, OtherRecords
<1>5. ASSUME NEW q \in PacketsOf(s) PROVE Kept(q)' <=> Kept(q)
  BY <1>2, <1>4 DEF Kept
<1>6. p \notin PacketsOf(s)
  BY <1>2
<1>7. (Whole(s)' <=> Whole(s))
      /\ PacketsOf(s) \cap arrived' = PacketsOf(s) \cap arrived
  BY <1>3, <1>6 DEF Whole
<1> QED
  BY <1>4, <1>5, <1>7

LEMMA ReceiveComplete ==
  ASSUME SoundInv, RecordsComplete, NEW p \in BagToSet(wire), Receive(p)
  PROVE  RecordsComplete'
<1> DEFINE s == p.seq
           r == Recorded(data, p)
<1>1. /\ ~poisoned /\ arrived' = arrived \cup {p} /\ stale' = stale
      /\ repeated \subseteq repeated' /\ Sent' = Sent /\ acking = {}
      /\ \A t : PacketsOf(t)' = PacketsOf(t)
      /\ PongPortFits' = PongPortFits
  BY ReceiveFrame DEF PongPortFits
<1>2. TypeInv /\ p \in Datagram
  BY DEF SoundInv, TypeInv, TypeOK
<1>3. SUFFICES ASSUME ~poisoned',
                      NEW t \in Sent \ (repeated' \cup stale)
               PROVE  /\ Whole(t)' /\ t \in DOMAIN data'.recv_records =>
                           t \in acking'
                      /\ ~Whole(t)' /\ Sampled(t) =>
                           \A q \in PacketsOf(t) \cap arrived' : Kept(q)'
                      /\ Whole(t)' /\ Sampled(t) => PongPortFits
  BY <1>1 DEF RecordsComplete
<1>4. CASE t # s
  <2>1. t \in Sent \ (repeated \cup stale)
    BY <1>1, <1>3
  <2> QED
    BY <1>1, <1>4, <2>1, OtherFrame DEF RecordsComplete
<1>5. CASE t = s
  <2>1. /\ s \in Sent \ (repeated \cup stale)
        /\ ~Whole(s) /\ p \in PacketsOf(s)
        /\ Completes(data, p) <=> Sampled(s) /\ Whole(s)'
    BY <1>3, <1>5, FirstCopy
  <2>2. \A q \in PacketsOf(s) : q.seq = s
    BY <1>2, <2>1, SentPackets
  <2>3. CASE ~Sampled(s)
    <3>1. s \notin DOMAIN data.recv_records
      BY <2>1, <2>3 DEF SoundInv, RecordsSound
    <3>2. data'.recv_records = data.recv_records
      BY <1>2, <1>3, <2>3, ReceiveEffect
      DEF Uncounted, JustRecorded, StartsAcking, DiesOfPort, Seen, Dies
    <3> QED
      BY <1>5, <2>3, <3>1, <3>2
  <2>4. CASE Sampled(s) /\ Whole(s)'
    <3>1. acking' = {s} /\ PongPortFits
      BY <1>2, <1>3, <2>1, <2>4, ReceiveEffect
      DEF Uncounted, JustRecorded, StartsAcking, DiesOfPort, Dies
    <3> QED
      BY <1>5, <2>4, <3>1
  <2>5. CASE Sampled(s) /\ ~Whole(s)'
    <3>1. data'.recv_records = insert(data.recv_records, s, r)
      BY <1>2, <1>3, <2>1, <2>5, ReceiveEffect
      DEF Uncounted, JustRecorded, StartsAcking, DiesOfPort, Seen, Dies
    <3>2. s \in DOMAIN data'.recv_records /\ Rec(s)' = r
      BY <3>1 DEF insert, Rec
    <3>3. DOMAIN r.packets =
            (IF s \in DOMAIN data.recv_records THEN DOMAIN Rec(s).packets
             ELSE {}) \cup {p.offset}
      BY <1>2, RecordedEffect
    <3>4. ASSUME NEW q \in PacketsOf(s) \cap arrived' PROVE Kept(q)'
      <4>1. q.seq = s
        BY <2>2
      <4>2. q = p \/ Kept(q)
        BY <1>1, <2>1, <2>5, <3>4 DEF RecordsComplete
      <4>3. q.offset \in DOMAIN r.packets
        BY <3>3, <4>1, <4>2 DEF Kept
      <4> QED
        BY <3>2, <4>1, <4>3 DEF Kept
    <3> QED
      BY <1>5, <2>5, <3>4
  <2> QED
    BY <2>3, <2>4, <2>5
<1> QED
  BY <1>4, <1>5

\* Of a frame that has just been sent nothing has arrived.
LEMMA NothingArrived ==
  ASSUME SoundInv, NEW s \in 1 .. Frames, NEW size \in FrameSizes,
         SendFrame(s, size), s \notin stale
  PROVE  PacketsOf(s)' \cap arrived = {} /\ ~Whole(s)'
<1>1. /\ \A p \in PacketsOf(s)' : p.seq = s
      /\ \A p \in arrived : p.seq # s
      /\ arrived' = arrived
  BY SendFrameEffect
<1> QED
  BY <1>1 DEF Whole

\* And the frames before it are as they were.
LEMMA FramesBefore ==
  ASSUME SoundInv, NEW s \in 1 .. Frames, NEW size \in FrameSizes,
         SendFrame(s, size), NEW t \in Sent
  PROVE  /\ PacketsOf(t)' = PacketsOf(t)
         /\ Whole(t)' <=> Whole(t)
         /\ \A q : Kept(q)' <=> Kept(q)
<1>1. /\ PacketsOf(t)' = PacketsOf(t) /\ arrived' = arrived
      /\ data' = data
  BY SendFrameEffect
<1> QED
  BY <1>1 DEF Whole, Kept, Rec

LEMMA StepComplete ==
  ASSUME SoundInv, RecordsComplete, [Next]_vars
  PROVE  RecordsComplete'
<1>1. TypeInv
  BY DEF SoundInv
<1>2. ASSUME NEW s \in 1 .. Frames, NEW size \in FrameSizes,
             SendFrame(s, size)
      PROVE  RecordsComplete'
  <2>1. /\ Sent' = Sent \cup {s} /\ data' = data /\ poisoned' = poisoned
        /\ arrived' = arrived /\ repeated' = repeated /\ stale' = stale
        /\ acking' = acking /\ port' = port
        /\ s \notin Sent
    BY <1>2, SendFrameEffect
  <2>2. SUFFICES ASSUME ~poisoned,
                        NEW t \in Sent' \ (repeated \cup stale)
                 PROVE  /\ Whole(t)' /\ t \in DOMAIN data.recv_records =>
                             t \in acking
                        /\ ~Whole(t)' /\ Sampled(t) =>
                             \A q \in PacketsOf(t)' \cap arrived : Kept(q)'
                        /\ Whole(t)' /\ Sampled(t) => PongPortFits
    BY <2>1 DEF RecordsComplete, PongPortFits
  <2>3. CASE t = s
    BY <1>2, <2>2, <2>3, NothingArrived
  <2>4. CASE t \in Sent
    BY <1>2, <2>2, <2>4, FramesBefore DEF RecordsComplete
  <2> QED
    BY <2>1, <2>2, <2>3, <2>4
<1>3. CASE Restart
  <2>1. Sent' = {}
    BY <1>1, <1>3, RestartEffect, EmptySeq DEF Sent
  <2> QED
    BY <2>1 DEF RecordsComplete
<1>4. CASE Aside
  <2>1. UNCHANGED <<sizes, data, poisoned, arrived, repeated, stale, acking,
                    port>>
    BY <1>1, <1>4, AsideEffect
  <2> QED
    BY <2>1 DEF RecordsComplete, Whole, Kept, Rec, Sent, PacketsOf, PongPortFits
<1>5. ASSUME NEW s \in acking, Acknowledge(s)
      PROVE  RecordsComplete'
  <2>1. /\ UNCHANGED <<arrived, repeated, stale, port>> /\ Sent' = Sent
        /\ ~poisoned /\ acking = {s}
        /\ \A u : Whole(u)' = Whole(u) /\ PacketsOf(u)' = PacketsOf(u)
    BY <1>1, <1>5, AcknowledgeEffect, RecordsAfter, AckingWhole
  <2>2. SUFFICES ASSUME ~poisoned', NEW u \in Sent \ (repeated \cup stale)
                 PROVE  /\ Whole(u) => u \notin DOMAIN data'.recv_records
                        /\ ~Whole(u) /\ Sampled(u) =>
                             \A q \in PacketsOf(u) \cap arrived : Kept(q)'
                        /\ Whole(u) /\ Sampled(u) => PongPortFits
    BY <2>1 DEF RecordsComplete, PongPortFits
  <2>3. CASE u = s
    BY <1>5, <2>1, <2>2, <2>3, AckingWhole, RecordsAfter DEF RecordsComplete
  <2>4. CASE u # s
    <3>1. ASSUME NEW q \in PacketsOf(u), Kept(q) PROVE Kept(q)'
      <4>1. q.seq = u
        BY <1>1, <2>2, <3>1, SentPackets
      <4>2. /\ u \in DOMAIN data'.recv_records
            /\ Rec(u)' = Rec(u)
        BY <1>5, <2>4, <3>1, <4>1, RecordsAfter DEF Kept
      <4> QED
        BY <3>1, <4>1, <4>2 DEF Kept
    <3>2. u \in DOMAIN data'.recv_records => u \in DOMAIN data.recv_records
      BY <1>5, RecordsAfter
    <3> QED
      BY <2>1, <2>2, <2>4, <3>1, <3>2 DEF RecordsComplete
  <2> QED
    BY <2>3, <2>4
<1> QED
  BY <1>2, <1>3, <1>4, <1>5, Steps, ReceiveComplete

LEMMA InitSent == Init => Sent = {} /\ poisoned = FALSE
BY DEF Init, Sent

\* The receiver holds records of exactly the frames of which it has a part:
\* no reordering leaves the record of a whole frame behind, and none loses a
\* packet of another.
THEOREM PartsHeld == Spec => []RecordsExact
<1>1. Init => RecordsComplete
  BY InitSent DEF RecordsComplete
<1>2. ASSUME SoundInv, RecordsComplete PROVE RecordsExact
  <2>1. SUFFICES ASSUME ~poisoned,
                        NEW s \in 1 .. Frames \ (repeated \cup stale)
                 PROVE  s \in DOMAIN data.recv_records <=>
                          /\ s \in Sent /\ Sampled(s)
                          /\ PacketsOf(s) \cap arrived # {}
                          /\ Whole(s) => s \in acking
    BY DEF RecordsExact
  <2>2. ASSUME s \in DOMAIN data.recv_records
        PROVE  /\ s \in Sent /\ Sampled(s)
               /\ PacketsOf(s) \cap arrived # {}
               /\ Whole(s) => s \in acking
    <3>1. s \in Sent /\ Sampled(s) /\ RecordOf(s, Rec(s), arrived)
      BY <1>2, <2>1, <2>2 DEF SoundInv, RecordsSound
    <3>2. PacketsOf(s) \cap arrived # {}
      BY <3>1 DEF RecordOf
    <3> QED
      BY <1>2, <2>1, <2>2, <3>1, <3>2 DEF RecordsComplete
  <2>3. ASSUME s \in Sent, Sampled(s), ~Whole(s),
               PacketsOf(s) \cap arrived # {}
        PROVE  s \in DOMAIN data.recv_records
    <3>1. PICK p \in PacketsOf(s) \cap arrived : Kept(p)
      BY <1>2, <2>1, <2>3 DEF RecordsComplete
    <3>2. p.seq = s
      BY <1>2, <2>3, SentPackets DEF SoundInv
    <3> QED
      BY <3>1, <3>2 DEF Kept
  <2>4. s \in acking => s \in DOMAIN data.recv_records
    BY <1>2, AckingWhole
  <2> QED
    BY <2>2, <2>3, <2>4
<1> QED
  BY <1>1, <1>2, InitSound, StepSound, StepComplete, PTL DEF Spec


LEMMA StepAnswered ==
  ASSUME SoundInv, RecordsComplete, AnsweredExactly, [Next]_vars
  PROVE  AnsweredExactly'
<1>1. TypeInv
  BY DEF SoundInv
<1>2. ASSUME NEW s \in 1 .. Frames, NEW size \in FrameSizes,
             SendFrame(s, size)
      PROVE  AnsweredExactly'
  <2>1. /\ Sent' = Sent \cup {s} /\ poisoned' = poisoned
        /\ traffic' = traffic /\ answers' = answers
        /\ repeated' = repeated /\ stale' = stale
        /\ acking' = acking /\ given_up' = given_up /\ port' = port
        /\ s \notin stale => answers[s] = 0
        /\ s \notin Sent
    BY <1>2, SendFrameEffect
  <2>2. SUFFICES ASSUME ~poisoned \/ traffic < U32,
                        NEW u \in Sent' \ (repeated \cup stale)
                 PROVE  answers[u] + Times(u \in given_up)
                          + Times(u \in acking)
                          = Times(Whole(u)' /\ Sampled(u) /\ PongPortFits)
    BY <2>1 DEF AnsweredExactly, PongPortFits
  <2>3. CASE u = s
    <3>1. ~Whole(u)' /\ answers[u] = 0
      BY <1>2, <2>1, <2>2, <2>3, NothingArrived
    <3>2. u \notin given_up
      BY <2>1, <2>2, <2>3 DEF SoundInv, GivenUpWhole
    <3>3. u \notin acking
      BY <2>1, <2>2, <2>3, AckingWhole
    <3> QED
      BY <3>1, <3>2, <3>3 DEF Times
  <2>4. CASE u \in Sent
    BY <1>2, <2>2, <2>4, FramesBefore DEF AnsweredExactly
  <2> QED
    BY <2>1, <2>2, <2>3, <2>4
<1>3. CASE Restart
  <2>1. Sent' = {}
    BY <1>1, <1>3, RestartEffect, EmptySeq DEF Sent
  <2> QED
    BY <2>1 DEF AnsweredExactly
<1>4. CASE Aside
  <2>1. UNCHANGED <<sizes, data, poisoned, arrived, repeated, stale, answers,
                    given_up, acking, port, traffic>>
    BY <1>1, <1>4, AsideEffect
  <2> QED
    BY <2>1 DEF AnsweredExactly, Whole, Sent, PacketsOf, PongPortFits
<1>5. ASSUME NEW p \in BagToSet(wire), Receive(p) PROVE AnsweredExactly'
  <2> DEFINE s == p.seq
  <2>1. /\ ~poisoned /\ stale' = stale /\ Sent' = Sent /\ acking = {}
        /\ repeated \subseteq repeated' /\ answers' = answers
        /\ given_up' = given_up /\ port' = port
    BY <1>5, ReceiveFrame
  <2>2. SUFFICES ASSUME ~poisoned' \/ traffic' < U32,
                        NEW u \in Sent \ (repeated' \cup stale)
                 PROVE  answers[u] + Times(u \in given_up)
                          + Times(u \in acking')
                          = Times(Whole(u)' /\ Sampled(u) /\ PongPortFits)
    BY <2>1 DEF AnsweredExactly, PongPortFits
  <2>3. /\ answers[u] \in Nat
        /\ answers[u] + Times(u \in given_up) + Times(u \in acking)
             = Times(Whole(u) /\ Sampled(u) /\ PongPortFits)
    <3>1. u \in 1 .. Frames
      BY <1>1, <2>2, SentPackets
    <3> QED
      BY <1>1, <2>1, <2>2, <3>1 DEF AnsweredExactly, TypeInv, TypeOK
  <2>4. ~Uncounted(p)
    <3>1. traffic' \in Nat /\ U32 \in Nat
      BY <1>1, <1>5, ReceiveType, ReceiverAssumption DEF TypeInv, TypeOK
    <3> QED
      BY <2>1, <2>2, <3>1 DEF Uncounted, Dies
  <2>5. \/ acking' = {} /\ ~(Completes(data, p) /\ PongPortFits)
        \/ acking' = {s} /\ Completes(data, p) /\ PongPortFits
    BY <1>1, <1>5, <2>1, <2>4, ReceiveEffect
    DEF JustRecorded, StartsAcking, DiesOfPort, Dies
  <2>6. CASE u # s
    BY <1>5, <2>1, <2>2, <2>3, <2>5, <2>6, OtherFrame
  <2>7. CASE u = s
    <3>1. /\ ~Whole(s)
          /\ Completes(data, p) <=> Sampled(s) /\ Whole(s)'
      BY <1>5, <2>2, <2>7, FirstCopy
    <3>2. answers[s] = 0 /\ s \notin given_up
      BY <2>3, <2>7, <3>1 DEF Times
    <3> QED
      BY <2>5, <2>7, <3>1, <3>2 DEF Times
  <2> QED
    BY <2>6, <2>7
<1>6. ASSUME NEW s \in acking, Acknowledge(s) PROVE AnsweredExactly'
  <2>1. /\ UNCHANGED <<repeated, stale, port>> /\ Sent' = Sent
        /\ ~poisoned /\ acking = {s} /\ acking' = {} /\ s \in 1 .. Frames
        /\ Answer(s) \/ GiveUp(s)
        /\ \A u : Whole(u)' = Whole(u)
    BY <1>1, <1>6, AcknowledgeEffect, RecordsAfter, AckingWhole
  <2>2. SUFFICES ASSUME NEW u \in Sent \ (repeated \cup stale)
                 PROVE  answers'[u] + Times(u \in given_up')
                          + Times(u \in acking')
                          = Times(Whole(u) /\ Sampled(u) /\ PongPortFits)
    BY <2>1 DEF AnsweredExactly, PongPortFits, Times
  <2>3. /\ answers[u] \in Nat /\ u \in 1 .. Frames
        /\ answers[u] + Times(u \in given_up) + Times(u \in acking)
             = Times(Whole(u) /\ Sampled(u) /\ PongPortFits)
    <3>1. u \in 1 .. Frames
      BY <1>1, <2>2, SentPackets
    <3> QED
      BY <1>1, <2>1, <2>2, <3>1 DEF AnsweredExactly, TypeInv, TypeOK
  <2>4. CASE u # s
    <3>1. /\ answers'[u] = answers[u]
          /\ u \in given_up' <=> u \in given_up
          /\ u \notin acking /\ u \notin acking'
      BY <1>6, <2>1, <2>3, <2>4, RecordsAfter
    <3> QED
      BY <2>3, <3>1 DEF Times
  <2>5. CASE u = s
    <3>1. /\ answers[s] = 0 /\ s \notin given_up
          /\ Whole(s) /\ Sampled(s) /\ PongPortFits
      BY <2>1, <2>3, <2>5 DEF Times
    <3>2. CASE Answer(s)
      <4>1. answers \in [1 .. Frames -> Nat]
        BY <1>1 DEF TypeInv, TypeOK
      <4>2. answers'[s] = 1 /\ s \notin given_up'
        BY <2>1, <3>1, <3>2, <4>1 DEF Answer
      <4> QED
        BY <2>1, <2>5, <3>1, <4>2 DEF Times
    <3>3. CASE GiveUp(s)
      <4>1. answers'[s] = 0 /\ s \in given_up'
        BY <3>1, <3>3 DEF GiveUp
      <4> QED
        BY <2>1, <2>5, <3>1, <4>1 DEF Times
    <3> QED
      BY <2>1, <3>2, <3>3
  <2> QED
    BY <2>4, <2>5
<1> QED
  BY <1>2, <1>3, <1>4, <1>5, <1>6, Steps

\* Until data_len overflows, and if the port of the pongs is a u16, a frame is
\* taken to send_ack as soon as all of it has arrived, and once, in whatever
\* order its packets come and whatever becomes of its pong.
THEOREM WholeAnsweredOnce == Spec => []AnsweredOnce
<1>1. Init => RecordsComplete /\ AnsweredExactly
  BY InitSent DEF RecordsComplete, AnsweredExactly
<1>2. AnsweredExactly => AnsweredOnce
  BY DEF AnsweredExactly, AnsweredOnce
<1> QED
  BY <1>1, <1>2, InitSound, StepSound, StepComplete, StepAnswered,
     PTL DEF Spec

-----------------------------------------------------------------------------
(* The receiver is a pong service *)

\* Two packets of a frame at the same offset are the same.
LEMMA SameOffset ==
  ASSUME TypeInv, NEW s \in Sent, NEW p \in PacketsOf(s),
         NEW q \in PacketsOf(s), p.offset = q.offset
  PROVE  p = q
BY SentPackets

\* A packet that is kept is a copy off the wire.
LEMMA ReceiveSpent ==
  ASSUME SoundInv, CopiesSpent, NEW p \in BagToSet(wire), Receive(p)
  PROVE  CopiesSpent'
<1> DEFINE s == p.seq
           r == Recorded(data, p)
           bit(b) == IF b THEN 1 ELSE 0
<1>1. /\ ~poisoned /\ arrived' = arrived \cup {p} /\ stale' = stale
      /\ Sent' = Sent /\ \A t : PacketsOf(t)' = PacketsOf(t)
  BY ReceiveFrame
<1>2. TypeInv /\ p \in Datagram
  BY DEF SoundInv, TypeInv, TypeOK
<1>3. /\ Copies(p, wire) \in Nat \ {0}
      /\ Copies(p, wire') = Copies(p, wire) - 1
      /\ \A q : q # p => Copies(q, wire') = Copies(q, wire)
  BY Delivered DEF Receive, SoundInv, TypeInv, TypeOK
<1>4. SUFFICES ASSUME ~poisoned', NEW t \in Sent \ stale,
                      NEW q \in PacketsOf(t)
               PROVE  answers'[t] + bit(Kept(q)') + Copies(q, wire')
                        <= MaxCopies
  BY <1>1 DEF CopiesSpent
<1>5. answers[t] + bit(Kept(q)) + Copies(q, wire) <= MaxCopies
  BY <1>1, <1>4 DEF CopiesSpent
<1>6. q.seq = t /\ t \in 1 .. Frames
  BY <1>2, <1>4, SentPackets
<1>7. CASE t # s
  <2>1. /\ answers'[t] = answers[t] /\ (Kept(q)' <=> Kept(q))
    BY <1>4, <1>7, OtherFrame, ReceiveFrame
  <2>2. Copies(q, wire') = Copies(q, wire)
    BY <1>3, <1>6, <1>7
  <2> QED
    BY <1>5, <2>1, <2>2
<1>8. CASE t = s
  <2>1. p \in PacketsOf(s)
    BY <1>4, <1>8, RecordedSound
  <2>2. answers[s] \in Nat /\ MaxCopies \in Nat /\ Copies(q, wire) \in Nat
    <3>1. IsABag(wire)
      BY <1>2 DEF TypeInv, TypeOK
    <3>2. Copies(q, wire) \in Nat
      BY <3>1 DEF Copies, IsABag, BagToSet
    <3> QED
      BY <1>2, <1>6, <1>8, <3>2, ReceiverAssumption DEF TypeInv, TypeOK
  <2>3. DOMAIN r.packets =
          (IF s \in DOMAIN data.recv_records THEN DOMAIN Rec(s).packets
           ELSE {}) \cup {p.offset}
    BY <1>2, RecordedEffect
  <2>4. q.offset \in DOMAIN r.packets <=> Kept(q) \/ q = p
    BY <1>2, <1>4, <1>6, <1>8, <2>1, <2>3, SameOffset DEF Kept
  <2>5. answers'[t] = answers[t] /\ ~Uncounted(p)
    BY <1>1, <1>4, ReceiveFrame DEF Uncounted, Dies
  <2>6. Kept(q)' => Kept(q) \/ q = p
    <3>1. CASE data'.recv_records = data.recv_records
      BY <3>1 DEF Kept, Rec
    <3>2. CASE data'.recv_records = insert(data.recv_records, s, r)
      <4>1. Rec(s)' = r
        BY <3>2 DEF Rec, insert
      <4> QED
        BY <1>6, <1>8, <2>4, <4>1 DEF Kept
    <3> QED
      BY <1>2, <2>5, <3>1, <3>2, ReceiveEffect
      DEF JustRecorded, StartsAcking, DiesOfPort, Seen
  <2> HIDE DEF s, r
  <2>7. CASE q = p
    BY <1>3, <1>5, <1>8, <2>2, <2>5, <2>7
  <2>8. CASE q # p
    <3>1. Copies(q, wire') = Copies(q, wire) /\ (Kept(q)' => Kept(q))
      BY <1>3, <2>6, <2>8
    <3> QED
      BY <1>5, <1>8, <2>2, <2>5, <3>1
  <2> QED
    BY <2>7, <2>8
<1> QED
  BY <1>7, <1>8

\* An answer takes a copy of each packet of its frame.
LEMMA AcknowledgeSpent ==
  ASSUME SoundInv, CopiesSpent, NEW s \in acking, Acknowledge(s)
  PROVE  CopiesSpent'
<1>1. TypeInv
  BY DEF SoundInv
<1>2. /\ UNCHANGED <<wire, stale>> /\ Sent' = Sent /\ ~poisoned
      /\ Answer(s) \/ GiveUp(s)
      /\ \A u : PacketsOf(u)' = PacketsOf(u)
  BY <1>1, AcknowledgeEffect, RecordsAfter, AckingWhole
<1>3. SUFFICES ASSUME ~poisoned', NEW u \in Sent \ stale,
                      NEW q \in PacketsOf(u)
               PROVE  answers'[u] + (IF Kept(q)' THEN 1 ELSE 0)
                        + Copies(q, wire) <= MaxCopies
  BY <1>2 DEF CopiesSpent
<1>4. answers[u] + (IF Kept(q) THEN 1 ELSE 0) + Copies(q, wire) <= MaxCopies
  BY <1>2, <1>3 DEF CopiesSpent
<1>5. q.seq = u /\ u \in 1 .. Frames
  BY <1>1, <1>3, SentPackets
<1>6. answers[u] \in Nat /\ MaxCopies \in Nat /\ Copies(q, wire) \in Nat
  <2>1. IsABag(wire)
    BY <1>1 DEF TypeInv, TypeOK
  <2>2. Copies(q, wire) \in Nat
    BY <2>1 DEF Copies, IsABag, BagToSet
  <2> QED
    BY <1>1, <1>5, <2>2, ReceiverAssumption DEF TypeInv, TypeOK
<1>7. CASE u = s
  <2>1. Kept(q) /\ ~Kept(q)'
    BY <1>3, <1>5, <1>7, AckingWhole, RecordsAfter DEF Kept
  <2>2. answers'[u] \in {answers[u], answers[u] + 1}
    BY <1>1, <1>2, <1>5, <1>7 DEF Answer, GiveUp, TypeInv, TypeOK
  <2> QED
    BY <1>4, <1>6, <2>1, <2>2
<1>8. CASE u # s
  <2>1. answers'[u] = answers[u]
    BY <1>5, <1>8, RecordsAfter
  <2>2. Kept(q)' => Kept(q)
    BY <1>5, RecordsAfter DEF Kept
  <2> QED
    BY <1>4, <1>6, <2>1, <2>2
<1> QED
  BY <1>7, <1>8

LEMMA StepSpent ==
  ASSUME SoundInv, CopiesSpent, [Next]_vars
  PROVE  CopiesSpent'
<1>1. TypeInv
  BY DEF SoundInv
<1>2. ASSUME NEW s \in 1 .. Frames, NEW size \in FrameSizes,
             SendFrame(s, size)
      PROVE  CopiesSpent'
  <2>1. /\ Sent' = Sent \cup {s} /\ poisoned' = poisoned
        /\ answers' = answers /\ stale' = stale /\ data' = data
        /\ \A p \in PacketsOf(s)' : p.seq = s
        /\ \A p : p \notin PacketsOf(s)' =>
             Copies(p, wire') = Copies(p, wire)
        /\ s \notin stale =>
             /\ s \notin DOMAIN data.recv_records
             /\ answers[s] = 0
             /\ \A p \in PacketsOf(s)' : Copies(p, wire') = MaxCopies
        /\ s \notin Sent
    BY <1>2, SendFrameEffect
  <2>2. SUFFICES ASSUME ~poisoned,
                        NEW t \in Sent' \ stale, NEW q \in PacketsOf(t)'
                 PROVE  answers[t] + (IF Kept(q)' THEN 1 ELSE 0)
                          + Copies(q, wire') <= MaxCopies
    BY <2>1 DEF CopiesSpent
  <2>3. CASE t = s
    <3>1. ~Kept(q)' /\ answers[t] = 0 /\ Copies(q, wire') = MaxCopies
      BY <2>1, <2>2, <2>3 DEF Kept
    <3> QED
      BY <3>1, ReceiverAssumption
  <2>4. CASE t \in Sent
    <3>1. PacketsOf(t)' = PacketsOf(t) /\ (Kept(q)' <=> Kept(q))
      BY <1>2, <2>4, FramesBefore
    <3>2. q \in PacketsOf(t) /\ q.seq = t
      BY <1>1, <2>2, <2>4, <3>1, SentPackets
    <3>3. Copies(q, wire') = Copies(q, wire)
      BY <2>1, <2>4, <3>2
    <3> QED
      BY <2>2, <2>4, <3>1, <3>2, <3>3 DEF CopiesSpent
  <2> QED
    BY <2>1, <2>2, <2>3, <2>4
<1>3. CASE Restart
  <2>1. Sent' = {}
    BY <1>1, <1>3, RestartEffect, EmptySeq DEF Sent
  <2> QED
    BY <2>1 DEF CopiesSpent
<1>4. CASE Aside
  <2>1. UNCHANGED <<sizes, wire, data, poisoned, stale, answers>>
    BY <1>1, <1>4, AsideEffect
  <2> QED
    BY <2>1 DEF CopiesSpent, Kept, Rec, Sent, PacketsOf
<1> QED
  BY <1>2, <1>3, <1>4, Steps, ReceiveSpent, AcknowledgeSpent

\* Every session of the sender sees a pong service: nothing is answered that
\* has not been sent, nor more often than the network repeats a datagram. That
\* is what the sender's measurement of its round-trip times relies on.
THEOREM Refinement == Spec => ImplementsPongs
<1>1. Init => PongService!Init
  BY InitSent DEF Init, PongService!Init
<1>2. Init => CopiesSpent
  BY InitSent DEF CopiesSpent
<1>3. ASSUME SoundInv, CopiesSpent, [Next]_vars
      PROVE  [PongService!Next \/ StaleAnswer \/ restarts' # restarts
             ]_<<Sent, answers>>
  <2>1. TypeInv
    BY <1>3 DEF SoundInv
  <2>2. ASSUME NEW s \in 1 .. Frames, NEW size \in FrameSizes,
               SendFrame(s, size)
        PROVE  PongService!Next
    <3>1. PongService!SendFrame(s)
      BY <1>3, <2>2, SendFrameEffect DEF PongService!SendFrame
    <3> QED
      BY <3>1 DEF PongService!Next
  <2>3. CASE Restart
    <3>1. restarts' = restarts + 1 /\ restarts \in Nat
      BY <2>1, <2>3, RestartEffect, ReceiverAssumption DEF TypeInv, TypeOK
    <3> QED
      BY <3>1
  <2>4. CASE Aside
    BY <2>1, <2>4, AsideEffect DEF Sent
  <2>5. ASSUME NEW p \in BagToSet(wire), Receive(p)
        PROVE  UNCHANGED <<Sent, answers>>
    BY <1>3, <2>5, ReceiveFrame
  <2>6. ASSUME NEW s \in acking, Acknowledge(s)
        PROVE  [PongService!Next \/ StaleAnswer]_<<Sent, answers>>
    <3>1. /\ ~poisoned /\ Sent' = Sent /\ sizes' = sizes
          /\ Answer(s) \/ GiveUp(s)
      BY <1>3, <2>1, <2>6, AcknowledgeEffect, RecordsAfter, AckingWhole
    <3>2. CASE GiveUp(s)
      BY <3>1, <3>2 DEF GiveUp
    <3>3. CASE Answer(s) /\ s \in stale
      BY <3>1, <3>3 DEF StaleAnswer, Answer
    <3>4. CASE Answer(s) /\ s \notin stale
      <4>1. /\ s \in Sent /\ s \in 1 .. Frames /\ Whole(s)
            /\ \A q \in PacketsOf(s) : Kept(q)
        BY <1>3, <3>4, AckingWhole
      <4>2. PICK q \in PacketsOf(s) : Kept(q)
        BY <4>1 DEF Whole
      <4>3. answers[s] + (IF Kept(q) THEN 1 ELSE 0) + Copies(q, wire)
              <= MaxCopies
        BY <1>3, <3>1, <3>4, <4>1, <4>2 DEF CopiesSpent
      <4>4. Copies(q, wire) \in Nat /\ answers[s] \in Nat
        <5>1. IsABag(wire)
          BY <2>1 DEF TypeInv, TypeOK
        <5> QED
          BY <2>1, <4>1, <5>1 DEF Copies, IsABag, BagToSet, TypeInv, TypeOK
      <4>5. answers[s] < MaxCopies
        BY <4>2, <4>3, <4>4, ReceiverAssumption
      <4>6. PongService!Answer(s)
        BY <3>1, <3>4, <4>1, <4>5 DEF PongService!Answer, Answer
      <4> QED
        BY <4>1, <4>6 DEF PongService!Next
    <3> QED
      BY <3>1, <3>2, <3>3, <3>4
  <2> QED
    BY <1>3, <2>2, <2>3, <2>4, <2>5, <2>6, Steps
<1> QED
  BY <1>1, <1>2, <1>3, InitSound, StepSound, StepSpent, PTL
  DEF Spec, ImplementsPongs


-----------------------------------------------------------------------------
(* The report *)

LEMMA Interval ==
  ASSUME NEW n \in Nat
  PROVE  IsFiniteSet(1 .. n) /\ Cardinality(1 .. n) = n
BY FS_Interval

\* The frames released are finitely many.
LEMMA ReleasedType ==
  ASSUME TypeInv
  PROVE  IsFiniteSet(Released) /\ Cardinality(Released) \in Nat
<1>1. IsFiniteSet(1 .. Frames)
  BY ReceiverAssumption, FS_Interval
<1> QED
  BY <1>1, FS_Subset, FS_CardinalityType DEF Released

LEMMA ReceiveCounts ==
  ASSUME SoundInv, CountsExact, NEW p \in BagToSet(wire), Receive(p)
  PROVE  CountsExact'
<1> DEFINE s == p.seq
<1>1. /\ ~poisoned /\ main' = main /\ ~Ended /\ stale' = stale
      /\ restarts' = restarts /\ Sent' = Sent /\ sizes' = sizes
      /\ arrived' = arrived \cup {p} /\ repeated \subseteq repeated'
      /\ forwarding' = forwarding /\ port' = port /\ report' = report
      /\ answers' = answers /\ given_up' = given_up
  BY ReceiveFrame
<1>2. TypeInv /\ TypeInv' /\ p \in Datagram
  BY ReceiveType DEF SoundInv, TypeInv, TypeOK
<1>3. report' = None
  BY <1>1 DEF CountsExact
<1>4. restarts' = 0 => stale' = {}
  BY <1>1 DEF CountsExact
<1>5. SUFFICES ASSUME Undisturbed'
               PROVE  /\ ~poisoned' =>
                           /\ data'.recevied = Cardinality(Released')
                           /\ \A q \in arrived' : q.seq <= data'.last_seq
                           /\ data'.last_seq <= Len(sizes)
                      /\ poisoned' => Prevented'
  BY <1>1, <1>3, <1>4 DEF CountsExact
<1>6. Undisturbed /\ stale = {} /\ repeated' = {}
  BY <1>1, <1>5 DEF Undisturbed, CountsExact
<1>7. s \in Sent
  BY <1>6, RecordedSound
<1>8. /\ data.recevied = Cardinality(Released)
      /\ \A q \in arrived : q.seq <= data.last_seq
      /\ data.last_seq <= Len(sizes)
  BY <1>1, <1>6 DEF CountsExact
<1>9. Released' = Released
  BY <1>1 DEF Released
<1>10. ASSUME Seen(p)
       PROVE  /\ data'.recevied = Cardinality(Released')
              /\ \A q \in arrived' : q.seq <= data'.last_seq
              /\ data'.last_seq <= Len(sizes)
  <2>0. /\ data.last_seq \in Nat /\ sizes \in Seq(FrameSizes)
        /\ arrived \subseteq Datagram
    BY DEF SoundInv, TypeInv, TypeOK, IsRecvData
  <2>1. /\ data.last_seq \in Nat /\ s \in Nat /\ Len(sizes) \in Nat
        /\ s <= Len(sizes)
    BY <1>7, <2>0, LenProperties DEF Sent
  <2>2. \A q \in arrived : q.seq \in Nat
    BY <2>0 DEF Datagram
  <2>3. /\ data'.last_seq = IF s > data.last_seq THEN s ELSE data.last_seq
        /\ data'.recevied = data.recevied
    BY <1>10 DEF Seen
  <2>4. data'.last_seq >= data.last_seq /\ data'.last_seq >= s
        /\ data'.last_seq \in Nat /\ data'.last_seq <= Len(sizes)
    BY <1>8, <2>1, <2>3
  <2>5. ASSUME NEW q \in arrived' PROVE q.seq <= data'.last_seq
    <3>1. CASE q = p
      BY <2>1, <2>4, <3>1
    <3>2. CASE q \in arrived
      BY <1>8, <2>1, <2>2, <2>4, <3>2
    <3> QED
      BY <1>1, <2>5, <3>1, <3>2
  <2> QED
    BY <1>8, <1>9, <2>3, <2>4, <2>5
<1>11. CASE Uncounted(p)
  BY <1>11 DEF Uncounted, Dies, Prevented
<1>12. CASE JustRecorded(p) \/ StartsAcking(p)
  BY <1>1, <1>10, <1>12 DEF JustRecorded, StartsAcking
<1>13. CASE DiesOfPort(p)
  BY <1>1, <1>13 DEF DiesOfPort, Dies, Prevented, PongPortFits
<1> QED
  BY <1>2, <1>11, <1>12, <1>13, ReceiveEffect

\* A frame that is released is counted; and of a frame that is whole no
\* packet is missing, so that it is released if it can be forwarded.
LEMMA AcknowledgeCounts ==
  ASSUME SoundInv, AnsweredExactly, CountsExact,
         NEW s \in acking, Acknowledge(s)
  PROVE  CountsExact'
<1>1. TypeInv
  BY DEF SoundInv
<1>2. /\ UNCHANGED <<sizes, restarts, port, main, report, forwarding, arrived,
                     repeated, stale, traffic>>
      /\ ~Ended /\ ~poisoned /\ s \in 1 .. Frames /\ acking = {s}
      /\ data'.last_seq = data.last_seq
      /\ Answer(s) \/ GiveUp(s)
      /\ Frees(s) \/ DiesForwarding(s)
  BY <1>1, AcknowledgeEffect, AckingWhole
<1>3. report' = None
  BY <1>2 DEF CountsExact
<1>4. SUFFICES ASSUME Undisturbed
               PROVE  /\ ~poisoned' => data'.recevied = Cardinality(Released')
                      /\ poisoned' => Prevented
  BY <1>2, <1>3 DEF CountsExact, Undisturbed, Prevented, PongPortFits
<1>5. stale = {} /\ repeated = {}
  BY <1>4 DEF CountsExact, Undisturbed
<1>6. s \in Sent /\ Gatherable(Rec(s))
  BY <1>5, AckingWhole
<1>7. CASE DiesForwarding(s)
  BY <1>6, <1>7 DEF DiesForwarding, ForwardPanics, Rec, Prevented
<1>8. CASE Frees(s)
  <2>1. data'.recevied = data.recevied + 1 /\ ~poisoned'
    BY <1>2, <1>8 DEF Frees
  <2>2. answers \in [1 .. Frames -> Nat]
    BY <1>1 DEF TypeInv, TypeOK
  <2>3. answers[s] = 0 /\ s \notin given_up
    <3>1. answers[s] + Times(s \in given_up) + Times(s \in acking)
            = Times(Whole(s) /\ Sampled(s) /\ PongPortFits)
      BY <1>2, <1>5, <1>6 DEF AnsweredExactly
    <3>2. answers[s] \in Nat
      BY <1>2, <2>2
    <3> QED
      BY <3>1, <3>2 DEF Times
  <2>4. Released' = Released \cup {s} /\ s \notin Released
    <3>1. s \notin Released
      BY <2>3 DEF Released
    <3>2. CASE Answer(s)
      <4>1. /\ answers' = [answers EXCEPT ![s] = @ + 1]
            /\ given_up' = given_up
        BY <3>2 DEF Answer
      <4>2. answers'[s] > 0
        BY <1>2, <2>2, <2>3, <4>1
      <4>3. \A u \in 1 .. Frames \ {s} : answers'[u] = answers[u]
        BY <2>2, <4>1
      <4> QED
        BY <1>2, <3>1, <4>1, <4>2, <4>3 DEF Released
    <3>3. CASE GiveUp(s)
      BY <1>2, <3>1, <3>3 DEF GiveUp, Released
    <3> QED
      BY <1>2, <3>2, <3>3
  <2>5. Cardinality(Released') = Cardinality(Released) + 1
    BY <1>1, <2>4, ReleasedType, FS_AddElement
  <2> QED
    BY <1>2, <1>4, <2>1, <2>5 DEF CountsExact
<1> QED
  BY <1>2, <1>7, <1>8

LEMMA StepCounts ==
  ASSUME SoundInv, RecordsComplete, AnsweredExactly, CountsExact,
         [Next]_vars
  PROVE  CountsExact'
<1>1. TypeInv
  BY DEF SoundInv
<1>2. ASSUME NEW s \in 1 .. Frames, NEW size \in FrameSizes,
             SendFrame(s, size)
      PROVE  CountsExact'
  <2>1. /\ UNCHANGED <<restarts, stale, repeated, poisoned, data, answers,
                       given_up, acking, port, arrived, forwarding, traffic,
                       main, report>>
        /\ Len(sizes') = Len(sizes) + 1
    BY <1>2, SendFrameEffect
  <2>2. data.last_seq \in Nat /\ Len(sizes) \in Nat
    BY <1>1, LenProperties DEF TypeInv, TypeOK, IsRecvData
  <2>3. data.last_seq <= Len(sizes) => data.last_seq <= Len(sizes')
    BY <2>1, <2>2
  <2> QED
    BY <2>1, <2>3
    DEF CountsExact, Undisturbed, Released, Ended, Prevented, PongPortFits
<1>3. CASE Restart
  <2>1. /\ restarts' # 0 /\ poisoned' = poisoned /\ main' = main
        /\ acking' = acking /\ report' = report
    <3>1. restarts' = restarts + 1 /\ restarts \in Nat
      BY <1>1, <1>3, RestartEffect, ReceiverAssumption DEF TypeInv, TypeOK
    <3> QED
      BY <1>1, <1>3, <3>1, RestartEffect
  <2> QED
    BY <2>1 DEF CountsExact, Undisturbed, Ended
<1>4. CASE Aside
  <2>1. /\ UNCHANGED <<sizes, restarts, stale, repeated, poisoned, data,
                       answers, given_up, acking, port, arrived, traffic>>
        /\ forwarding' => forwarding
    BY <1>1, <1>4, AsideEffect
  <2>2. report' # None => Ended' /\ ~poisoned /\ acking = {}
    <3>1. CASE UNCHANGED <<main, report>>
      BY <3>1 DEF CountsExact, Ended
    <3>2. CASE Main /\ report' = report
      BY <1>1, <3>2, MainEffect DEF CountsExact
    <3>3. CASE Main /\ report' # report
      BY <1>1, <3>3, MainEffect DEF Ended
    <3> QED
      BY <1>1, <1>4, <3>1, <3>2, <3>3, AsideEffect
  <2>3. Prevented => Prevented'
    BY <2>1 DEF Prevented, PongPortFits
  <2> QED
    BY <2>1, <2>2, <2>3 DEF CountsExact, Undisturbed, Released
<1> QED
  BY <1>2, <1>3, <1>4, Steps, ReceiveCounts, AcknowledgeCounts

LEMMA InitCounts == Init => CountsExact
<1> SUFFICES ASSUME Init PROVE CountsExact
  OBVIOUS
<1>1. Released = {}
  BY DEF Init, Released
<1>2. data.recevied = 0 /\ data.last_seq = 0 /\ Len(sizes) = 0
  BY EmptySeq DEF Init, RecvData_new
<1> QED
  BY <1>1, <1>2, FS_EmptySet DEF Init, CountsExact, Undisturbed

\* Of the frames heard of, those that are whole have been released, but for
\* one that is being answered, and no others: the subtraction of main cannot
\* underflow.
LEMMA ReportedFrames ==
  ASSUME SoundInv, RecordsComplete, AnsweredExactly, CountsExact,
         Undisturbed, ~poisoned
  PROVE  /\ Released \subseteq 1 .. data.last_seq
         /\ 1 .. data.last_seq \subseteq Sent
         /\ data.recevied = Cardinality(Released)
         /\ data.recevied <= data.last_seq
         /\ sample_rate = 1 /\ acking = {} =>
              Released = {s \in 1 .. data.last_seq : Whole(s)}
<1>1. /\ stale = {} /\ repeated = {} /\ TypeInv
      /\ data.recevied = Cardinality(Released)
      /\ \A p \in arrived : p.seq <= data.last_seq
      /\ data.last_seq <= Len(sizes)
  BY DEF CountsExact, Undisturbed, SoundInv
<1>2. data.last_seq \in Nat /\ Len(sizes) \in Nat
  BY <1>1, LenProperties DEF TypeInv, TypeOK, IsRecvData
<1>3. 1 .. data.last_seq \subseteq Sent
  BY <1>1, <1>2 DEF Sent
<1>4. ASSUME NEW s \in Released PROVE s \in 1 .. data.last_seq /\ Whole(s)
  <2>1. s \in Sent /\ Whole(s) /\ s \in Nat /\ s >= 1
    BY <1>1, <1>4 DEF Released, SoundInv, AnsweredWhole, GivenUpWhole
  <2>2. PICK p \in PacketsOf(s) : p \in arrived
    BY <2>1 DEF Whole
  <2>3. p.seq = s
    BY <1>1, <2>1, SentPackets
  <2>4. s <= data.last_seq
    BY <1>1, <2>2, <2>3
  <2> QED
    BY <1>2, <2>1, <2>4
<1>5. Cardinality(Released) <= data.last_seq
  <2>1. /\ IsFiniteSet(1 .. data.last_seq)
        /\ Cardinality(1 .. data.last_seq) = data.last_seq
    BY <1>2, Interval
  <2>2. Cardinality(Released) <= Cardinality(1 .. data.last_seq)
    BY <1>4, <2>1, FS_Subset
  <2> QED
    BY <2>1, <2>2
<1>6. ASSUME sample_rate = 1, acking = {}
      PROVE  Released = {s \in 1 .. data.last_seq : Whole(s)}
  <2>1. SUFFICES ASSUME NEW s \in 1 .. data.last_seq, Whole(s)
                 PROVE  s \in Released
    BY <1>4
  <2>2. s \in Sent /\ s \in Nat /\ s \in 1 .. Frames
    BY <1>1, <1>2, <1>3, SentPackets
  <2>3. Sampled(s) /\ PongPortFits
    BY <1>1, <1>6, <2>1, <2>2 DEF Sampled, RecordsComplete
  <2>4. answers[s] + Times(s \in given_up) + Times(s \in acking)
          = Times(Whole(s) /\ Sampled(s) /\ PongPortFits)
    BY <1>1, <2>2 DEF AnsweredExactly
  <2>5. answers[s] \in Nat
    BY <1>1, <2>2 DEF TypeInv, TypeOK
  <2>6. answers[s] > 0 \/ s \in given_up
    BY <1>6, <2>1, <2>3, <2>4, <2>5 DEF Times
  <2> QED
    BY <2>2, <2>6 DEF Released
<1> QED
  BY <1>1, <1>3, <1>4, <1>5, <1>6

\* Without repeated datagrams and restarts main prints the loss, unless the
\* forward thread has gone, the traffic has overflown a u32 or the port of the
\* pongs a u16.
THEOREM ReportPrinted == Spec => []ReportDelivered
<1> DEFINE Inv == /\ SoundInv /\ RecordsComplete /\ AnsweredExactly
                  /\ CountsExact
<1>1. Init => Inv /\ ReportDelivered
  <2>1. Init => RecordsComplete /\ AnsweredExactly
    BY InitSent DEF RecordsComplete, AnsweredExactly
  <2>2. Init => ReportDelivered
    BY DEF Init, ReportDelivered
  <2> QED
    BY <2>1, <2>2, InitSound, InitCounts
<1>2. Inv /\ [Next]_vars => Inv'
  BY StepSound, StepComplete, StepAnswered, StepCounts
<1>3. ASSUME Inv, ReportDelivered, [Next]_vars PROVE ReportDelivered'
  <2>1. TypeInv
    BY <1>3 DEF SoundInv
  <2>2. ASSUME NEW s \in 1 .. Frames, NEW size \in FrameSizes,
               SendFrame(s, size)
        PROVE  ReportDelivered'
    <3>1. ~Ended /\ main' = main
      BY <1>3, <2>2, SendFrameEffect
    <3> QED
      BY <3>1 DEF ReportDelivered, Ended
  <2>3. CASE Restart
    <3>1. ~Ended /\ main' = main
      BY <2>1, <2>3, RestartEffect DEF Restart
    <3> QED
      BY <3>1 DEF ReportDelivered, Ended
  <2>4. ASSUME NEW p \in BagToSet(wire), Receive(p) PROVE ReportDelivered'
    <3>1. ~Ended /\ main' = main
      BY <1>3, <2>4, ReceiveFrame
    <3> QED
      BY <3>1 DEF ReportDelivered, Ended
  <2>5. ASSUME NEW s \in acking, Acknowledge(s) PROVE ReportDelivered'
    <3>1. ~Ended /\ main' = main
      BY <2>1, <2>5, AcknowledgeEffect
    <3> QED
      BY <3>1 DEF ReportDelivered, Ended
  <2>6. CASE Aside
    <3>1. /\ UNCHANGED <<repeated, restarts, traffic, port>>
          /\ forwarding' => forwarding
          /\ Main \/ UNCHANGED <<main, report>>
      BY <2>1, <2>6, AsideEffect
    <3>2. Prevented => Prevented'
      BY <3>1 DEF Prevented, PongPortFits
    <3>3. CASE UNCHANGED <<main, report>>
      BY <1>3, <3>1, <3>2, <3>3 DEF ReportDelivered, Undisturbed
    <3>4. ASSUME Main, Undisturbed, main' = "panicked", report' = None
          PROVE  poisoned
      <4>1. poisoned \/ data.recevied > data.last_seq
        BY <2>1, <3>4, MainEffect
      <4>2. ~poisoned => data.recevied <= data.last_seq
        BY <1>3, <3>4, ReportedFrames
      <4>3. data.recevied \in Nat /\ data.last_seq \in Nat
        BY <2>1 DEF TypeInv, TypeOK, IsRecvData
      <4> QED
        BY <4>1, <4>2, <4>3
    <3>5. Undisturbed /\ poisoned => Prevented
      BY <1>3 DEF CountsExact
    <3> QED
      BY <3>1, <3>2, <3>3, <3>4, <3>5 DEF ReportDelivered, Undisturbed
  <2> QED
    BY <1>3, <2>2, <2>3, <2>4, <2>5, <2>6, Steps
<1> HIDE DEF Inv
<1> QED
  BY <1>1, <1>2, <1>3, PTL DEF Spec

\* And the loss it reports is the number of frames that are not whole.
THEOREM LossReported == Spec => []LossExact
<1> DEFINE Inv == /\ SoundInv /\ RecordsComplete /\ AnsweredExactly
                  /\ CountsExact
<1>1. Init => Inv /\ LossExact
  <2>1. Init => RecordsComplete /\ AnsweredExactly
    BY InitSent DEF RecordsComplete, AnsweredExactly
  <2>2. Init => LossExact
    BY DEF Init, LossExact
  <2> QED
    BY <2>1, <2>2, InitSound, InitCounts
<1>2. Inv /\ [Next]_vars => Inv'
  BY StepSound, StepComplete, StepAnswered, StepCounts
<1>3. ASSUME Inv, LossExact, [Next]_vars PROVE LossExact'
  <2>1. TypeInv
    BY <1>3 DEF SoundInv
  <2>2. ~Ended => report = None
    BY <1>3 DEF CountsExact
  <2>3. ASSUME NEW s \in 1 .. Frames, NEW size \in FrameSizes,
               SendFrame(s, size)
        PROVE  LossExact'
    <3>1. ~Ended /\ report' = report
      BY <1>3, <2>3, SendFrameEffect
    <3> QED
      BY <2>2, <3>1 DEF LossExact
  <2>4. CASE Restart
    <3>1. ~Ended /\ report' = report
      BY <2>1, <2>4, RestartEffect DEF Restart
    <3> QED
      BY <2>2, <3>1 DEF LossExact
  <2>5. ASSUME NEW p \in BagToSet(wire), Receive(p) PROVE LossExact'
    <3>1. ~Ended /\ report' = report
      BY <1>3, <2>5, ReceiveFrame
    <3> QED
      BY <2>2, <3>1 DEF LossExact
  <2>6. ASSUME NEW s \in acking, Acknowledge(s) PROVE LossExact'
    <3>1. ~Ended /\ report' = report
      BY <2>1, <2>6, AcknowledgeEffect
    <3> QED
      BY <2>2, <3>1 DEF LossExact
  <2>7. CASE Main /\ report' # report
    <3>1. SUFFICES ASSUME Undisturbed', sample_rate = 1
                   PROVE  report' =
                            Cardinality({s \in 1 .. data.last_seq : ~Whole(s)})
      <4>1. UNCHANGED <<sizes, data, arrived>>
        BY <2>1, <2>7, AsideEffect DEF Aside
      <4> QED
        BY <3>1, <4>1 DEF LossExact, Whole, PacketsOf
    <3>2. /\ Undisturbed /\ ~poisoned /\ acking = {}
          /\ report' = data.last_seq - data.recevied
      BY <2>1, <2>7, <3>1, AsideEffect, MainEffect DEF Aside, Undisturbed
    <3> DEFINE heard == 1 .. data.last_seq
    <3>3. /\ Released = {s \in heard : Whole(s)}
          /\ data.recevied = Cardinality(Released)
      BY <1>3, <3>1, <3>2, ReportedFrames
    <3>4. IsFiniteSet(heard) /\ Cardinality(heard) = data.last_seq
      <4>1. data.last_seq \in Nat
        BY <2>1 DEF TypeInv, TypeOK, IsRecvData
      <4> QED
        BY <4>1, Interval
    <3>5. {s \in heard : ~Whole(s)} = heard \ Released
      BY <3>3
    <3>6. /\ heard \cap Released = Released
          /\ Cardinality(heard \ Released) =
               Cardinality(heard) - Cardinality(heard \cap Released)
      BY <2>1, <3>3, <3>4, ReleasedType, FS_Difference
    <3> QED
      BY <3>2, <3>3, <3>4, <3>5, <3>6
  <2>8. CASE Aside /\ report' = report
    BY <1>3, <2>1, <2>8, AsideEffect
    DEF LossExact, Undisturbed, Whole, PacketsOf
  <2>9. Aside => (Main /\ report' # report) \/ report' = report
    BY <2>1, AsideEffect
  <2> QED
    BY <1>3, <2>3, <2>4, <2>5, <2>6, <2>7, <2>8, <2>9, Steps
<1> HIDE DEF Inv
<1> QED
  BY <1>1, <1>2, <1>3, PTL DEF Spec

\* Together: the loss is printed, and it is exact.
THEOREM ReportRight == Spec => []ReportExact
BY ReportPrinted, LossReported, PTL DEF ReportExact
=============================================================================
