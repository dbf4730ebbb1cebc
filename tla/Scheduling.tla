----------------------------- MODULE Scheduling -----------------------------
(***************************************************************************)
(* How a packet gets its link: the callback of process_queue               *)
(* (tx/src/source.rs), TxPartCtler (tx/src/tx_part_ctl.rs), the monitor    *)
(* thread that publishes the queues of the devices on a LatestBus          *)
(* (tx/src/statistic/mac_queue.rs), and the IPC thread that changes the    *)
(* policy parameters.  The callback takes the lock of TxPartCtler twice,   *)
(* to decide and to note that a link refused; the lock of the throttler is *)
(* held throughout.  A panic ends the source thread and poisons the locks  *)
(* it holds.                                                               *)
(*                                                                         *)
(* The packets, the links and the values the monitor reads are external.   *)
(***************************************************************************)
EXTENDS Policies

CONSTANTS
  Setups,        \* the streams there may be: see Setup
  Queues,        \* queue lengths the monitor may read
  Rates,         \* link rates it may read
  Reliable,      \* links that take a packet in the end
  MaxNum,        \* bound of the model: packets in a frame
  MaxSnapshots,  \* bound of the model: snapshots
  MaxCount       \* bound of the model: no decision beyond this queue length

\* What the command line and the manifest decide for a stream: is_mon is
\* --mon-mac; devices are the tx_ipaddrs that belong to one; links those for
\* which dispatch has made a socket, the first ones; parameters the ones the
\* manifest and the IPC commands set.
Setup ==
  [is_mon : BOOLEAN, devices : Nat, links : {{}, {0}, Channel},
   policy : Policy, parameters : SUBSET PolicyParameter]

ASSUME SchedulingAssumption ==
  /\ Setups \subseteq Setup
  /\ Queues \subseteq Nat /\ Rates \subseteq Nat
  /\ Reliable \subseteq Channel
  /\ MaxNum \in Nat \ {0}
  /\ MaxSnapshots \in Nat /\ MaxCount \in Nat

VARIABLES
  setup,              \* the stream there is
  monitor,            \* the monitor thread runs
  bus,                \* the latest snapshot
  policy_parameters,  \* TxPartCtler.policy_parameters
  blocked_signals,    \* TxPartCtler.blocked_signals
  schedule_message,   \* TxPartCtler.schedule_message
  packet,             \* the packet at the head of the buffer
  pc,                 \* the callback
  indicator,          \* the PacketType it has chosen
  poisoned,           \* the locks a panic has poisoned
  gone                \* history, with --mon-mac: per link, the packets sent
                      \* since the snapshot of schedule_message was first used

statistics == <<monitor, bus>>
vars == <<setup, statistics, policy_parameters, blocked_signals,
          schedule_message, packet, pc, indicator, poisoned, gone>>

is_mon == setup.is_mon
sockets == setup.links
policy == setup.policy

Snapshot ==
  [taken_at : Nat, queues : Seq(Nat), link : Seq(Nat \cup {NoRate})]

TypeOK ==
  /\ setup \in Setups
  /\ monitor \in BOOLEAN
  /\ bus \in Snapshot
  /\ policy_parameters \in PolicyParameter
  /\ blocked_signals \in [Channel -> BOOLEAN]
  /\ schedule_message \in SchedulingMessage \cup {None}
  /\ packet \in [offset : Nat, num : Nat]
  /\ packet.offset < packet.num
  /\ pc \in {"decide", "send", "panicked"}
  /\ indicator \in [channel : Channel, last : BOOLEAN]
  /\ poisoned \subseteq {"throttler", "tx_part_ctler"}
  /\ gone \in [Channel -> Nat]

Init ==
  /\ setup \in Setups
  /\ monitor = is_mon
  /\ bus = [taken_at |-> 0, queues |-> <<>>, link |-> <<>>]
  /\ policy_parameters \in setup.parameters
  /\ blocked_signals = [c \in Channel |-> FALSE]
  /\ schedule_message = None
  /\ packet \in [offset : {0}, num : 1 .. MaxNum]
  /\ pc = "decide"
  /\ indicator = [channel |-> 0, last |-> FALSE]
  /\ poisoned = {}
  /\ gone = [c \in Channel |-> 0]

-----------------------------------------------------------------------------
(* The monitor thread and the IPC thread *)

\* What update_queue_info and update_link_info leave for the devices: the
\* length of access category 1, 0 if there is none, and the rate, unknown
\* while the device is not connected.  What cannot be read stays as it was,
\* at first 0 and unknown.
QueueReadings == [1 .. setup.devices -> Queues \cup {0}]

LinkReadings == [1 .. setup.devices -> Rates \cup {NoRate}]

\* The hash maps of a snapshot are read in an order that differs from map to
\* map, so the n-th queue and the n-th rate are those of any two devices.
Publish ==
  /\ monitor
  /\ bus.taken_at < MaxSnapshots
  /\ \E queues \in QueueReadings, link \in LinkReadings :
       bus' = [taken_at |-> bus.taken_at + 1, queues |-> queues, link |-> link]
  /\ UNCHANGED <<setup, monitor, policy_parameters, blocked_signals,
                 schedule_message, packet, pc, indicator, poisoned, gone>>

\* `output().unwrap()`: iw cannot be run.  The last snapshot stays the latest.
MonitorPanics ==
  /\ monitor
  /\ setup.devices > 0
  /\ monitor' = FALSE
  /\ UNCHANGED <<setup, bus, policy_parameters, blocked_signals,
                 schedule_message, packet, pc, indicator, poisoned, gone>>

\* `if let Ok(..)`: nothing is set once the lock is poisoned.
set_policy_parameters(p) ==
  /\ "tx_part_ctler" \notin poisoned
  /\ policy_parameters' = p
  /\ UNCHANGED <<setup, statistics, blocked_signals, schedule_message,
                 packet, pc, indicator, poisoned, gone>>

-----------------------------------------------------------------------------
(* The callback *)

\* A mutant of NothingKnown: the policies decide on whatever is known.
NothingKnown_Never == FALSE

\* Until the monitor has found a device nothing is sent.
NothingKnown == is_mon /\ (bus.queues = <<>> \/ bus.link = <<>>)

\* The message was made from the snapshot that is the latest.
SameSnapshot ==
  /\ schedule_message # None
  /\ schedule_message.current_time = bus.taken_at

\* collect() into an Option: no rates unless every one is known.
mcs_values ==
  IF \E i \in DOMAIN bus.link : bus.link[i] = NoRate THEN NoRate ELSE bus.link

\* The message determine_schedule_info leaves and returns.
determine_schedule_info ==
  IF SameSnapshot THEN update(schedule_message, packet, blocked_signals)
  ELSE [current_time |-> bus.taken_at, offset |-> packet.offset,
        num |-> packet.num, blocked_signals |-> blocked_signals,
        ac1_info |-> bus.queues, mcs_values |-> mcs_values]

WithinCount(sm) == \A i \in DOMAIN sm.ac1_info : sm.ac1_info[i] < MaxCount

\* get_packet_state counts the packet, before it is sent, if it monitors.
Counts(sm, channel) ==
  IF is_mon THEN update_sended_counter(sm, channel) ELSE sm

DecisionPanics(sm) ==
  \/ PolicyPanics(policy, sm)
  \/ /\ ~PolicyPanics(policy, sm)
     /\ is_mon
     /\ Len(sm.ac1_info) < get_packet_state(policy, sm, policy_parameters) + 1

Decide ==
  /\ pc = "decide"
  /\ ~NothingKnown
  /\ LET sm == determine_schedule_info
     IN  /\ WithinCount(sm)
         /\ gone' = IF SameSnapshot THEN gone ELSE [c \in Channel |-> 0]
         /\ \/ /\ DecisionPanics(sm)
               /\ pc' = "panicked"
               /\ poisoned' = {"throttler", "tx_part_ctler"}
               /\ schedule_message' = sm
               /\ UNCHANGED indicator
            \/ /\ ~DecisionPanics(sm)
               /\ pc' = "send"
               /\ LET channel == get_packet_state(policy, sm,
                                                  policy_parameters)
                  IN  /\ indicator' = [channel |-> channel,
                                       last |-> is_last(sm)]
                      /\ schedule_message' = Counts(sm, channel)
               /\ UNCHANGED poisoned
  /\ UNCHANGED <<setup, statistics, policy_parameters, blocked_signals,
                 packet>>

\* The socket took the packet: the callback returns true, and the next one
\* is of the same frame or begins another.
Send ==
  /\ pc = "send"
  /\ indicator.channel \in sockets
  /\ pc' = "decide"
  /\ gone' = IF is_mon THEN [gone EXCEPT ![indicator.channel] = @ + 1] ELSE gone
  /\ \/ /\ packet.offset + 1 < packet.num
        /\ packet' = [packet EXCEPT !.offset = @ + 1]
     \/ /\ packet.offset + 1 = packet.num
        /\ packet' \in [offset : {0}, num : 1 .. MaxNum]
  /\ UNCHANGED <<setup, statistics, policy_parameters, blocked_signals,
                 schedule_message, indicator, poisoned>>

signal(channel) == [blocked_signals EXCEPT ![channel] = TRUE]

\* It would block, or failed: the callback returns false.
Refused ==
  /\ pc = "send"
  /\ indicator.channel \in sockets
  /\ pc' = "decide"
  /\ blocked_signals' = signal(indicator.channel)
  /\ UNCHANGED <<setup, statistics, policy_parameters, schedule_message,
                 packet, indicator, poisoned, gone>>

\* panic!("No socket found ..."): the lock of the controller has been released.
NoSocket ==
  /\ pc = "send"
  /\ indicator.channel \notin sockets
  /\ pc' = "panicked"
  /\ poisoned' = {"throttler"}
  /\ UNCHANGED <<setup, statistics, policy_parameters, blocked_signals,
                 schedule_message, packet, indicator, gone>>

-----------------------------------------------------------------------------
Next ==
  \/ Publish
  \/ MonitorPanics
  \/ \E p \in setup.parameters : set_policy_parameters(p)
  \/ Decide
  \/ Send
  \/ Refused
  \/ NoSocket

Spec == Init /\ [][Next]_vars

\* The source thread is scheduled, and a reliable link that is tried again
\* and again takes a packet in the end.
FairSpec ==
  /\ Spec
  /\ WF_vars(Decide)
  /\ WF_vars(Send \/ Refused \/ NoSocket)
  /\ \A c \in Reliable : SF_vars(Send /\ indicator.channel = c)

-----------------------------------------------------------------------------
(* Safety *)

QueuePolicies == {"QueueAware", "SimpleQueueAware"}

\* The links the policy may want: HardThreshold the first one unless it has
\* no share, and the second unless the first one has the whole frame;
\* ConditionalRR the second only when the first one has refused a packet.
Wanted(c) ==
  CASE policy = "HardThreshold" ->
         \E p \in setup.parameters :
           IF c = 0 THEN p.theta_1 > 0 ELSE p.theta_1 < THETA_UNIT
    [] policy = "ConditionalRR" -> c = 0 \/ blocked_signals[0]
    [] OTHER -> TRUE

\* It dies for three reasons only: the policy wants a link for which there is
\* no socket; a monitor has fewer devices than there are links; or a policy
\* looks at the queues without a monitor, or while a rate is unknown.
OnlySetupPanics ==
  pc = "panicked" =>
    \/ \E c \in Channel \ sockets : Wanted(c)
    \/ is_mon /\ setup.devices < 2
    \/ /\ policy \in QueuePolicies
       /\ ~is_mon \/ schedule_message.mcs_values = NoRate

\* The packet is flagged for what it is, though the message that decided was
\* made for an earlier packet: the receiver completes a frame by that flag.
LastFlagged ==
  pc = "send" => indicator.last = (packet.offset + 1 = packet.num)

\* What the policies take for the queue of a link has at least what the
\* snapshot found there and what has been sent on it since: however often a
\* snapshot is used again, no packet is forgotten.
NothingForgotten ==
  is_mon /\ SameSnapshot =>
    \A c \in Channel :
      c + 1 \in DOMAIN bus.queues =>
        schedule_message.ac1_info[c + 1] >= bus.queues[c + 1] + gone[c]

-----------------------------------------------------------------------------
(* Liveness *)

\* ConditionalRR fails over: with two links packets keep leaving by the
\* second, whatever the first one does, as long as the second never refuses.
\* (It may not refuse even once: blocked_signals is never cleared, and with
\* both links marked the policy goes back to the first.)
KeepsSending ==
  policy = "ConditionalRR" /\ sockets = Channel /\ ~is_mon =>
    ([]~blocked_signals[1] => []<><<Send>>_vars)
=============================================================================
