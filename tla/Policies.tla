------------------------------ MODULE Policies ------------------------------
(***************************************************************************)
(* The link a packet is sent on: SchedulingMessage and the four policies   *)
(* of tx/src/policies.  A message keeps what the policies read.  The f32   *)
(* parameters are natural numbers, theta_1 in units of 1 / THETA_UNIT; a   *)
(* quotient is compared by cross-multiplication, which also gives the      *)
(* answer of the f32 division by zero (infinity is never less).            *)
(***************************************************************************)
EXTENDS Naturals, Sequences

CONSTANTS
  THETA_UNIT,   \* resolution of theta_1
  NoRate,       \* mcs_values when the rate of some link is unknown
  None          \* Option::None

ASSUME PolicyAssumption ==
  /\ THETA_UNIT \in Nat \ {0}
  /\ NoRate \notin Nat
  /\ NoRate \notin Seq(Nat)

Policy == {"QueueAware", "SimpleQueueAware", "ConditionalRR", "HardThreshold"}

PolicyParameter == [theta_1 : Nat, theta_3 : Nat, theta_4 : Nat]

\* The links; a PacketType is a link and whether the packet is the last one.
Channel == {0, 1}

SchedulingMessage ==
  [current_time : Nat, offset : Nat, num : Nat,
   blocked_signals : [Channel -> BOOLEAN],
   ac1_info : Seq(Nat), mcs_values : Seq(Nat) \cup {NoRate}]

\* A mutant of update: the message keeps the blocked signals it had.
update_KeepsSignals(sm, packet, blocked) ==
  [sm EXCEPT !.offset = packet.offset, !.num = packet.num]

\* A mutant of update: the message keeps the offset it had.
update_KeepsOffset(sm, packet, blocked) ==
  [sm EXCEPT !.blocked_signals = blocked]

\* The message of the last snapshot is used again for another packet.
update(sm, packet, blocked) ==
  [sm EXCEPT !.offset = packet.offset, !.num = packet.num,
             !.blocked_signals = blocked]

ASSUME MessageAssumption == None \notin SchedulingMessage

is_last(sm) == sm.offset = sm.num - 1

-----------------------------------------------------------------------------
(* The queue-aware policies compare the time the two queues take to drain. *)

Faster(queue1, rate1, queue2, rate2) == queue1 * rate2 < queue2 * rate1

QueueAware_first(sm, p) ==
  Faster(1 + sm.ac1_info[1], 100 * p.theta_3 * sm.mcs_values[1] + 1,
         1 + sm.ac1_info[2], 100 * p.theta_4 * sm.mcs_values[2] + 1)

SimpleQueueAware_first(sm, p) ==
  LET left_pkts == sm.num - sm.offset
  IN  Faster(left_pkts + sm.ac1_info[1], p.theta_3 * sm.mcs_values[1],
             left_pkts + sm.ac1_info[2], p.theta_4 * sm.mcs_values[2])

\* They unwrap mcs_values and index both vectors.
QueuesKnown(sm) ==
  /\ sm.mcs_values # NoRate
  /\ Len(sm.mcs_values) >= 2
  /\ Len(sm.ac1_info) >= 2

PolicyPanics(policy, sm) ==
  policy \in {"QueueAware", "SimpleQueueAware"} /\ ~QueuesKnown(sm)

ConditionalRR_first(sm, p) ==
  ~(sm.blocked_signals[0] /\ ~sm.blocked_signals[1])

\* A mutant of HardThreshold_first: the packets are counted from one.
HardThreshold_first_FromOne(sm, p) ==
  (sm.offset + 1) * THETA_UNIT < p.theta_1 * sm.num

HardThreshold_first(sm, p) ==
  sm.offset * THETA_UNIT < p.theta_1 * sm.num

link_of(first) == IF first THEN 0 ELSE 1

\* Policy::get_packet_state, the link of it.
get_packet_state(policy, sm, p) ==
  LET first == CASE policy = "QueueAware"       -> QueueAware_first(sm, p)
                 [] policy = "SimpleQueueAware" -> SimpleQueueAware_first(sm, p)
                 [] policy = "ConditionalRR"    -> ConditionalRR_first(sm, p)
                 [] policy = "HardThreshold"    -> HardThreshold_first(sm, p)
  IN  link_of(first)

\* A mutant of update_sended_counter: the counters of the links are swapped.
update_sended_counter_Swapped(sm, channel) ==
  [sm EXCEPT !.ac1_info[2 - channel] = @ + 1]

\* Another one: what is sent is taken off the queue.
update_sended_counter_Down(sm, channel) ==
  [sm EXCEPT !.ac1_info[channel + 1] = @ - 1]

\* It indexes ac1_info by the link.
update_sended_counter(sm, channel) ==
  [sm EXCEPT !.ac1_info[channel + 1] = @ + 1]
=============================================================================
