---------------------------- MODULE RecvRecords ----------------------------
(***************************************************************************)
(* The receiver's bookkeeping: RecvRecord and RecvData of rx/src/record.rs *)
(* and handle_rtt of rx/src/destination.rs, as operators on records that   *)
(* have the fields of the structs.  A hash map is a function on the keys   *)
(* it holds.  The receive times, which only `delta` uses, and is_ack,      *)
(* which nothing reads, are left out; ack_times is their number.           *)
(***************************************************************************)
EXTENDS Packets, FiniteSets

CONSTANTS
  sample_rate,   \* args.sample_rate
  None           \* Option::None

ASSUME RecordAssumption ==
  /\ sample_rate \in Nat \ {0}
  /\ None \notin Nat

\* What a hash map holds after insert and after remove.
insert(map, key, value) ==
  [k \in DOMAIN map \cup {key} |-> IF k = key THEN value ELSE map[k]]

remove(map, key) == [k \in DOMAIN map \ {key} |-> map[k]]

-----------------------------------------------------------------------------
(* RecvRecord *)

RecvRecord_new == [packets |-> <<>>, last_packet_id |-> None]

IsRecvRecord(r) ==
  /\ DOMAIN r = {"packets", "last_packet_id"}
  /\ DOMAIN r.packets \subseteq Nat
  /\ \A i \in DOMAIN r.packets : r.packets[i] \in Packet
  /\ r.last_packet_id \in Nat \cup {None}

record(r, packet) ==
  [packets |-> insert(r.packets, packet.offset, packet),
   last_packet_id |-> IF packet.last_one THEN packet.offset
                      ELSE r.last_packet_id]

\* A mutant of determine_complete: the last packet is taken for the end.
determine_complete_LastSeen(r) == r.last_packet_id # None

\* Another one: a frame without a gap is taken for complete.
determine_complete_NoGap(r) ==
  0 .. Cardinality(DOMAIN r.packets) - 1 \subseteq DOMAIN r.packets

determine_complete(r) ==
  /\ r.last_packet_id # None
  /\ 0 .. r.last_packet_id \subseteq DOMAIN r.packets

\* gather() unwraps the packets 0, 1, ... as many as there are.
Gatherable(r) ==
  0 .. Cardinality(DOMAIN r.packets) - 1 \subseteq DOMAIN r.packets

gather(r) ==
  [i \in 1 .. Cardinality(DOMAIN r.packets) |-> r.packets[i - 1]]

-----------------------------------------------------------------------------
(* RecvData *)

RecvData_new ==
  [recv_records |-> <<>>, last_seq |-> 0, recevied |-> 0, data_len |-> 0,
   ack_times |-> 0]

IsRecvData(d) ==
  /\ DOMAIN d = {"recv_records", "last_seq", "recevied", "data_len",
                 "ack_times"}
  /\ DOMAIN d.recv_records \subseteq Nat
  /\ \A s \in DOMAIN d.recv_records : IsRecvRecord(d.recv_records[s])
  /\ d.last_seq \in Nat
  /\ d.recevied \in Nat
  /\ d.data_len \in Nat
  /\ d.ack_times \in Nat

Sampled(seq) == seq % sample_rate = 0

\* The record of the packet's frame, an empty one if there is none, with the
\* packet in it.
Recorded(d, packet) ==
  record(IF packet.seq \in DOMAIN d.recv_records
         THEN d.recv_records[packet.seq] ELSE RecvRecord_new, packet)

\* A mutant of Completes: every packet is answered.
Completes_EachPacket(d, packet) == Sampled(packet.seq)

\* The packet completes a frame, which is then answered.
Completes(d, packet) ==
  Sampled(packet.seq) /\ determine_complete(Recorded(d, packet))

\* A mutant of see: the last sequence number is that of the last packet.
see_Latest(d, seq) == [d EXCEPT !.last_seq = seq]

see(d, seq) == [d EXCEPT !.last_seq = IF seq > @ THEN seq ELSE @]

keep(d, packet) ==
  [d EXCEPT !.recv_records = insert(@, packet.seq, Recorded(d, packet))]

\* handle_rtt up to the answer: the packet is in its record, which is still
\* there when the frame is complete; the time of that goes to ack_times.
handle_rtt(d, packet) ==
  LET seen == see(d, packet.seq)
  IN  IF Completes(d, packet)
      THEN [keep(seen, packet) EXCEPT !.ack_times = @ + 1]
      ELSE IF Sampled(packet.seq) THEN keep(seen, packet)
      ELSE seen

\* A mutant of finish: the record of a finished frame is kept.
finish_KeepsRecord(d, seq) == [d EXCEPT !.recevied = @ + 1]

\* handle_rtt after the answer.
finish(d, seq) ==
  [d EXCEPT !.recv_records = remove(@, seq), !.recevied = @ + 1]
=============================================================================
