------------------------------ MODULE Packets ------------------------------
(***************************************************************************)
(* How a frame (one entry of a trace, one buffer of a live stream) is cut  *)
(* into UDP packets: core/src/packet.rs and generate_packets, with the     *)
(* packet count every source thread computes, of tx/src/source.rs.         *)
(* A packet keeps what the rest of the system looks at: its sequence       *)
(* number, its offset in the frame, its payload length and whether it is   *)
(* the last one.  Payload bytes, port and arrival time are left out.       *)
(***************************************************************************)
EXTENDS Integers, Sequences

CONSTANT MAX_PAYLOAD_LEN        \* payload bytes of a full packet (1463)

ASSUME PayloadAssumption == MAX_PAYLOAD_LEN \in Nat \ {0}

Packet == [seq : Nat, offset : Nat, length : Nat, last_one : BOOLEAN]

\* `num`: full packets, and one more for the bytes that remain.
PacketCount(size) ==
  (size \div MAX_PAYLOAD_LEN)
    + (IF size % MAX_PAYLOAD_LEN > 0 THEN 1 ELSE 0)

\* The bytes a packet is given: the last one always gets `_remains`, which
\* is zero when the frame is a whole number of full packets.
PayloadLength(size, offset) ==
  IF offset = PacketCount(size) - 1
  THEN size % MAX_PAYLOAD_LEN
  ELSE MAX_PAYLOAD_LEN

\* The packets of frame `seq`, in offset order; none when size is zero.
generate_packets(seq, size) ==
  [i \in 1 .. PacketCount(size) |->
     [seq |-> seq,
      offset |-> i - 1,
      length |-> PayloadLength(size, i - 1),
      last_one |-> i = PacketCount(size)]]

\* q is what may leave the sender right after p: the next packet of the same
\* frame, or the first packet of a later frame.
Follows(p, q) ==
  \/ /\ q.seq = p.seq
     /\ q.offset = p.offset + 1
     /\ ~p.last_one
  \/ /\ q.seq > p.seq
     /\ q.offset = 0
=============================================================================
