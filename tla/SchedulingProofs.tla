-------------------------- MODULE SchedulingProofs --------------------------
(***************************************************************************)
(* Proofs about Scheduling, for any stream, monitor, parameters, queues    *)
(* and rates: what its variables hold, for which reasons the source thread *)
(* may die in the callback, that packets are flagged for what they are and *)
(* that no packet is forgotten.                                            *)
(***************************************************************************)
EXTENDS Scheduling, SequenceTheorems, TLAPS

-----------------------------------------------------------------------------
(* The operators *)

\* A stream is one of those there may be.
LEMMA SetupType ==
  ASSUME setup \in Setups
  PROVE  /\ is_mon \in BOOLEAN /\ setup.devices \in Nat
         /\ sockets \subseteq Channel /\ policy \in Policy
         /\ setup.parameters \subseteq PolicyParameter
BY SchedulingAssumption DEF Setup, is_mon, sockets, policy, Channel

\* Every policy chooses one of the two links.
LEMMA ChannelType ==
  ASSUME NEW pol, NEW sm, NEW p
  PROVE  get_packet_state(pol, sm, p) \in Channel
BY DEF get_packet_state, link_of, Channel

\* A message that is used again, or has counted a packet, is a message, and
\* has as many queues and rates as before.
LEMMA MessageType ==
  ASSUME NEW sm \in SchedulingMessage, NEW c \in Channel,
         NEW pkt \in [offset : Nat, num : Nat],
         NEW blocked \in [Channel -> BOOLEAN]
  PROVE  /\ update(sm, pkt, blocked) \in SchedulingMessage
         /\ update(sm, pkt, blocked).ac1_info = sm.ac1_info
         /\ update(sm, pkt, blocked).mcs_values = sm.mcs_values
         /\ Counts(sm, c) \in SchedulingMessage
         /\ Len(Counts(sm, c).ac1_info) = Len(sm.ac1_info)
         /\ Counts(sm, c).mcs_values = sm.mcs_values
<1>1. /\ update(sm, pkt, blocked) \in SchedulingMessage
      /\ update(sm, pkt, blocked).ac1_info = sm.ac1_info
      /\ update(sm, pkt, blocked).mcs_values = sm.mcs_values
  BY DEF update, SchedulingMessage
<1>2. sm.ac1_info \in Seq(Nat) /\ c + 1 \in Nat
  BY DEF SchedulingMessage, Channel
<1> DEFINE more == [sm.ac1_info EXCEPT ![c + 1] = sm.ac1_info[c + 1] + 1]
<1>3. more \in Seq(Nat) /\ Len(more) = Len(sm.ac1_info)
  <2>1. CASE c + 1 \in 1 .. Len(sm.ac1_info)
    <3>1. sm.ac1_info[c + 1] \in Nat
      BY <1>2, <2>1, ElementOfSeq
    <3>. QED
      BY <1>2, <2>1, <3>1, ExceptSeq
  <2>2. CASE c + 1 \notin 1 .. Len(sm.ac1_info)
    <3>1. more = sm.ac1_info
      BY <1>2, <2>2, LenProperties
    <3>. QED
      BY <1>2, <3>1
  <2>. QED
    BY <2>1, <2>2
<1>4. Counts(sm, c) = IF is_mon THEN [sm EXCEPT !.ac1_info = more] ELSE sm
  BY DEF Counts, update_sended_counter
<1>. HIDE DEF more
<1>5. /\ [sm EXCEPT !.ac1_info = more] \in SchedulingMessage
      /\ [sm EXCEPT !.ac1_info = more].ac1_info = more
      /\ [sm EXCEPT !.ac1_info = more].mcs_values = sm.mcs_values
  BY <1>3 DEF SchedulingMessage
<1>. QED
  BY <1>1, <1>3, <1>4, <1>5

\* The rates are all there or NoRate stands for them.
LEMMA RatesType ==
  ASSUME TypeOK
  PROVE  mcs_values \in Seq(Nat) \cup {NoRate}
<1>1. CASE \E i \in DOMAIN bus.link : bus.link[i] = NoRate
  BY <1>1 DEF mcs_values
<1>2. CASE \A i \in DOMAIN bus.link : bus.link[i] # NoRate
  <2>1. bus.link \in Seq(Nat \cup {NoRate})
    BY DEF TypeOK, Snapshot
  <2>2. bus.link \in [1 .. Len(bus.link) -> Nat]
    BY <1>2, <2>1
  <2>3. bus.link \in Seq(Nat)
    BY <2>1, <2>2
  <2>. QED
    BY <1>2, <2>3 DEF mcs_values
<1>. QED
  BY <1>1, <1>2

\* What the monitor reads has an entry for each device.
LEMMA ReadingsType ==
  ASSUME setup \in Setups, NEW queues \in QueueReadings,
         NEW link \in LinkReadings
  PROVE  /\ queues \in Seq(Nat) /\ Len(queues) = setup.devices
         /\ link \in Seq(Nat \cup {NoRate}) /\ Len(link) = setup.devices
<1>1. /\ queues \in [1 .. setup.devices -> Nat]
      /\ link \in [1 .. setup.devices -> Nat \cup {NoRate}]
  <2>1. Queues \cup {0} \subseteq Nat /\ Rates \cup {NoRate} \subseteq Nat \cup {NoRate}
    <3>1. Queues \subseteq Nat /\ Rates \subseteq Nat
      BY SchedulingAssumption
    <3>2. 0 \in Nat
      OBVIOUS
    <3>. QED
      BY <3>1, <3>2
  <2>2. /\ queues \in [1 .. setup.devices -> Queues \cup {0}]
        /\ link \in [1 .. setup.devices -> Rates \cup {NoRate}]
    BY DEF QueueReadings, LinkReadings
  <2>. QED
    BY <2>1, <2>2
<1>2. setup.devices \in Nat
  BY SetupType
<1>3. queues \in Seq(Nat) /\ link \in Seq(Nat \cup {NoRate})
  BY <1>1, <1>2, SeqDef
<1>. QED
  BY <1>1, <1>2, <1>3, LenProperties

\* What determine_schedule_info returns is a message.
LEMMA DecisionType ==
  ASSUME TypeOK
  PROVE  determine_schedule_info \in SchedulingMessage
<1>1. CASE SameSnapshot
  <2>1. schedule_message \in SchedulingMessage
    BY <1>1 DEF SameSnapshot, TypeOK
  <2>2. 0 \in Channel
    BY DEF Channel
  <2>. QED
    BY <1>1, <2>1, <2>2, MessageType DEF determine_schedule_info, TypeOK
<1>2. CASE ~SameSnapshot
  <2>1. /\ bus.taken_at \in Nat /\ bus.queues \in Seq(Nat)
        /\ packet.offset \in Nat /\ packet.num \in Nat
    BY DEF TypeOK, Snapshot
  <2>2. blocked_signals \in [Channel -> BOOLEAN]
    BY DEF TypeOK
  <2>3. [current_time |-> bus.taken_at, offset |-> packet.offset,
         num |-> packet.num, blocked_signals |-> blocked_signals,
         ac1_info |-> bus.queues, mcs_values |-> mcs_values]
           \in SchedulingMessage
    BY <2>1, <2>2, RatesType DEF SchedulingMessage
  <2>. QED
    BY <1>2, <2>3 DEF determine_schedule_info
<1>. QED
  BY <1>1, <1>2

-----------------------------------------------------------------------------
(* Type correctness *)

\* The initial states are well typed.
LEMMA InitType == Init => TypeOK
<1>. SUFFICES ASSUME Init PROVE TypeOK
  OBVIOUS
<1>1. bus \in Snapshot
  BY DEF Init, Snapshot
<1>2. monitor \in BOOLEAN /\ policy_parameters \in PolicyParameter
  BY SetupType DEF Init
<1>3. packet \in [offset : Nat, num : Nat] /\ packet.offset < packet.num
  BY SchedulingAssumption DEF Init
<1>4. indicator \in [channel : Channel, last : BOOLEAN]
  BY DEF Init, Channel
<1>. QED
  BY <1>1, <1>2, <1>3, <1>4, SchedulingAssumption DEF Init, TypeOK

\* So is every step.
LEMMA StepType == TypeOK /\ [Next]_vars => TypeOK'
<1>. SUFFICES ASSUME TypeOK, [Next]_vars PROVE TypeOK'
  OBVIOUS
<1>1. CASE Publish
  <2>1. PICK queues \in QueueReadings, link \in LinkReadings :
          bus' = [taken_at |-> bus.taken_at + 1, queues |-> queues, link |-> link]
    BY <1>1 DEF Publish
  <2>2. queues \in Seq(Nat) /\ link \in Seq(Nat \cup {NoRate})
    BY ReadingsType DEF TypeOK
  <2>3. bus' \in Snapshot
    BY <2>1, <2>2 DEF TypeOK, Snapshot
  <2>. QED
    BY <1>1, <2>3 DEF Publish, TypeOK
<1>2. ASSUME NEW p \in setup.parameters, set_policy_parameters(p) PROVE TypeOK'
  <2>1. p \in PolicyParameter
    BY <1>2, SetupType DEF TypeOK
  <2>. QED
    BY <1>2, <2>1 DEF set_policy_parameters, statistics, TypeOK
<1>8. CASE MonitorPanics
  BY <1>8 DEF MonitorPanics, TypeOK
<1>3. CASE Decide
  <2> DEFINE sm == determine_schedule_info
             c  == get_packet_state(policy, sm, policy_parameters)
  <2>1. sm \in SchedulingMessage
    BY DecisionType
  <2>2. c \in Channel
    BY ChannelType
  <2>3. Counts(sm, c) \in SchedulingMessage
    <3>1. packet \in [offset : Nat, num : Nat]
          /\ blocked_signals \in [Channel -> BOOLEAN]
      BY DEF TypeOK
    <3>. QED
      BY <2>1, <2>2, <3>1, MessageType
  <2>4. schedule_message' \in SchedulingMessage \cup {None}
    BY <1>3, <2>1, <2>3 DEF Decide
  <2>5. indicator' \in [channel : Channel, last : BOOLEAN]
    <3>1. is_last(sm) \in BOOLEAN
      BY DEF is_last
    <3>2. indicator \in [channel : Channel, last : BOOLEAN]
      BY DEF TypeOK
    <3>3. indicator' = indicator \/ indicator' = [channel |-> c, last |-> is_last(sm)]
      BY <1>3 DEF Decide
    <3>. QED
      BY <2>2, <3>1, <3>2, <3>3
  <2>6. /\ pc' \in {"decide", "send", "panicked"}
        /\ poisoned' \subseteq {"throttler", "tx_part_ctler"}
    BY <1>3 DEF Decide, statistics, TypeOK
  <2>7. gone' \in [Channel -> Nat]
    BY <1>3 DEF Decide, statistics, TypeOK
  <2>. QED
    BY <1>3, <2>4, <2>5, <2>6, <2>7 DEF Decide, statistics, TypeOK
<1>4. CASE Send
  <2>1. gone' \in [Channel -> Nat]
    BY <1>4 DEF Send, statistics, TypeOK
  <2>2. packet' \in [offset : Nat, num : Nat] /\ packet'.offset < packet'.num
    <3>1. packet \in [offset : Nat, num : Nat]
      BY DEF TypeOK
    <3>2. CASE packet.offset + 1 < packet.num /\ packet' = [packet EXCEPT !.offset = @ + 1]
      BY <3>1, <3>2
    <3>3. CASE packet' \in [offset : {0}, num : 1 .. MaxNum]
      BY <3>3, SchedulingAssumption
    <3>. QED
      BY <1>4, <3>2, <3>3 DEF Send
  <2>. QED
    BY <1>4, <2>1, <2>2 DEF Send, statistics, TypeOK
<1>5. CASE Refused
  <2>1. blocked_signals' \in [Channel -> BOOLEAN]
    BY <1>5 DEF Refused, signal, TypeOK
  <2>. QED
    BY <1>5, <2>1 DEF Refused, statistics, TypeOK
<1>6. CASE NoSocket
  BY <1>6 DEF NoSocket, statistics, TypeOK
<1>7. CASE UNCHANGED vars
  BY <1>7 DEF vars, statistics, TypeOK
<1>. QED
  BY <1>1, <1>2, <1>3, <1>4, <1>5, <1>6, <1>7, <1>8 DEF Next

\* Every reachable state is well typed.
THEOREM TypeCorrect == Spec => []TypeOK
BY InitType, StepType, PTL DEF Spec

-----------------------------------------------------------------------------
(* Why the source thread dies *)

\* A snapshot is empty or knows every device.
BusKnown ==
  \/ bus.queues = <<>> /\ bus.link = <<>>
  \/ Len(bus.queues) = setup.devices /\ Len(bus.link) = setup.devices

\* A message made under a monitor has the queues of all devices, and the
\* rates of all of them or none.
MessageKnown(sm) ==
  is_mon => /\ Len(sm.ac1_info) = setup.devices
            /\ sm.mcs_values = NoRate \/ Len(sm.mcs_values) = setup.devices

\* The link that has been chosen is one that the policy may want.
ChosenWanted == pc = "send" => Wanted(indicator.channel)

PanicInv ==
  /\ policy_parameters \in setup.parameters
  /\ BusKnown
  /\ schedule_message # None => MessageKnown(schedule_message)
  /\ ChosenWanted
  /\ OnlySetupPanics

\* The message of a decision knows what a message of its snapshot does, and
\* it is about the packet at hand and the signals of this moment.
LEMMA DecisionKnown ==
  ASSUME TypeOK, BusKnown, ~NothingKnown,
         schedule_message # None => MessageKnown(schedule_message)
  PROVE  /\ MessageKnown(determine_schedule_info)
         /\ determine_schedule_info.offset = packet.offset
         /\ determine_schedule_info.num = packet.num
         /\ determine_schedule_info.blocked_signals = blocked_signals
<1> DEFINE sm == determine_schedule_info
<1>1. CASE SameSnapshot
  <2>1. schedule_message \in SchedulingMessage /\ MessageKnown(schedule_message)
    BY <1>1 DEF SameSnapshot, TypeOK
  <2>2. sm = update(schedule_message, packet, blocked_signals)
    BY <1>1 DEF determine_schedule_info
  <2>3. /\ sm.ac1_info = schedule_message.ac1_info
        /\ sm.mcs_values = schedule_message.mcs_values
        /\ sm.offset = packet.offset /\ sm.num = packet.num
        /\ sm.blocked_signals = blocked_signals
    BY <2>1, <2>2 DEF update, SchedulingMessage
  <2>. QED
    BY <2>1, <2>3 DEF MessageKnown
<1>2. CASE ~SameSnapshot
  <2>1. /\ sm.ac1_info = bus.queues /\ sm.mcs_values = mcs_values
        /\ sm.offset = packet.offset /\ sm.num = packet.num
        /\ sm.blocked_signals = blocked_signals
    BY <1>2 DEF determine_schedule_info
  <2>2. is_mon => Len(bus.queues) = setup.devices /\ Len(bus.link) = setup.devices
    BY DEF NothingKnown, BusKnown
  <2>3. mcs_values = NoRate \/ mcs_values = bus.link
    BY DEF mcs_values
  <2>. QED
    BY <2>1, <2>2, <2>3 DEF MessageKnown
<1>. QED
  BY <1>1, <1>2

\* A packet of a frame that goes to the first link whole is sent on it.
LEMMA FullShareFirst ==
  ASSUME NEW offset \in Nat, NEW num \in Nat, offset < num,
         NEW unit \in Nat \ {0}, NEW theta \in Nat, theta >= unit
  PROVE  offset * unit < theta * num
<1>1. PICK more \in Nat : theta = unit + more
  <2>1. theta - unit \in Nat /\ theta = unit + (theta - unit)
    OBVIOUS
  <2>. QED
    BY <2>1
<1>2. PICK rest \in Nat : num = offset + 1 + rest
  <2>1. num - offset - 1 \in Nat /\ num = offset + 1 + (num - offset - 1)
    OBVIOUS
  <2>. QED
    BY <2>1
<1>3. theta * num = unit * num + more * num
  BY <1>1
<1>4. unit * num = unit * offset + unit + unit * rest
  BY <1>2
<1>5. more * num \in Nat /\ unit * rest \in Nat /\ unit * offset \in Nat
  OBVIOUS
<1>6. offset * unit = unit * offset
  OBVIOUS
<1>. QED
  BY <1>3, <1>4, <1>5, <1>6

\* What a policy chooses is one of the links it may want.
LEMMA ChoiceWanted ==
  ASSUME TypeOK, policy_parameters \in setup.parameters,
         NEW sm \in SchedulingMessage,
         sm.offset = packet.offset, sm.num = packet.num,
         sm.blocked_signals = blocked_signals
  PROVE  Wanted(get_packet_state(policy, sm, policy_parameters))
<1> DEFINE c == get_packet_state(policy, sm, policy_parameters)
<1>1. CASE policy = "HardThreshold"
  <2>1. c = IF sm.offset * THETA_UNIT < policy_parameters.theta_1 * sm.num
            THEN 0 ELSE 1
    BY <1>1 DEF get_packet_state, link_of, HardThreshold_first
  <2>2. /\ sm.offset \in Nat /\ sm.num \in Nat /\ sm.offset < sm.num
        /\ THETA_UNIT \in Nat \ {0} /\ policy_parameters.theta_1 \in Nat
    BY PolicyAssumption DEF TypeOK, PolicyParameter
  <2>3. CASE c = 0
    <3>1. sm.offset * THETA_UNIT < policy_parameters.theta_1 * sm.num
      BY <2>1, <2>3
    <3>2. policy_parameters.theta_1 # 0
      <4>1. 0 * sm.num = 0 /\ ~(sm.offset * THETA_UNIT < 0)
        <5>1. sm.offset * THETA_UNIT \in Nat
          BY <2>2
        <5>. QED
          BY <2>2, <5>1
      <4>. QED
        BY <3>1, <4>1
    <3>. QED
      BY <1>1, <2>2, <2>3, <3>2 DEF Wanted
  <2>4. CASE c = 1
    <3>1. ~(policy_parameters.theta_1 >= THETA_UNIT)
      BY <2>1, <2>2, <2>4, FullShareFirst
    <3>. QED
      BY <1>1, <2>2, <2>4, <3>1 DEF Wanted
  <2>. QED
    BY <2>1, <2>3, <2>4
<1>2. CASE policy = "ConditionalRR"
  BY <1>2 DEF get_packet_state, link_of, ConditionalRR_first, Wanted
<1>3. CASE policy \in QueuePolicies
  BY <1>3 DEF QueuePolicies, Wanted
<1>. QED
  BY <1>1, <1>2, <1>3, SetupType DEF TypeOK, Policy, QueuePolicies

\* A step keeps the reasons.
LEMMA StepPanic ==
  ASSUME TypeOK, PanicInv, [Next]_vars
  PROVE  PanicInv'
<1> USE DEF is_mon, sockets, policy, statistics
<1>1. CASE Publish
  <2>1. PICK queues \in QueueReadings, link \in LinkReadings :
          bus' = [taken_at |-> bus.taken_at + 1, queues |-> queues, link |-> link]
    BY <1>1 DEF Publish
  <2>2. Len(queues) = setup.devices /\ Len(link) = setup.devices
    BY ReadingsType DEF TypeOK
  <2>3. BusKnown'
    BY <1>1, <2>1, <2>2 DEF Publish, BusKnown
  <2>. QED
    BY <1>1, <2>3 DEF Publish, PanicInv, MessageKnown, ChosenWanted,
         OnlySetupPanics, Wanted
<1>2. ASSUME NEW p \in setup.parameters, set_policy_parameters(p) PROVE PanicInv'
  BY <1>2 DEF set_policy_parameters, PanicInv, BusKnown, MessageKnown,
       ChosenWanted, OnlySetupPanics, Wanted
<1>3. CASE MonitorPanics
  BY <1>3 DEF MonitorPanics, PanicInv, BusKnown, MessageKnown, ChosenWanted,
       OnlySetupPanics, Wanted
<1>4. CASE Decide
  <2> DEFINE sm == determine_schedule_info
             c  == get_packet_state(policy, sm, policy_parameters)
  <2>1. /\ MessageKnown(sm) /\ sm \in SchedulingMessage
        /\ sm.offset = packet.offset /\ sm.num = packet.num
        /\ sm.blocked_signals = blocked_signals
    BY <1>4, DecisionKnown, DecisionType DEF Decide, PanicInv
  <2>2. c \in Channel
    BY ChannelType
  <2>3. Wanted(c)
    BY <2>1, ChoiceWanted DEF PanicInv
  <2>4. UNCHANGED <<setup, bus, policy_parameters, blocked_signals>>
    BY <1>4 DEF Decide
  <2>5. BusKnown' /\ (policy_parameters \in setup.parameters)'
    BY <2>4 DEF PanicInv, BusKnown
  <2>6. CASE DecisionPanics(sm) /\ pc' = "panicked" /\ schedule_message' = sm
    <3>1. MessageKnown(schedule_message)' /\ OnlySetupPanics'
      <4>1. CASE PolicyPanics(policy, sm)
        <5>1. policy \in QueuePolicies /\ ~QueuesKnown(sm)
          BY <4>1 DEF PolicyPanics, QueuePolicies
        <5>2. is_mon /\ sm.mcs_values # NoRate => setup.devices < 2
          <6>1. setup.devices \in Nat
            BY SetupType DEF TypeOK
          <6>. QED
            BY <2>1, <5>1, <6>1 DEF MessageKnown, QueuesKnown
        <5>. QED
          BY <2>1, <2>4, <2>6, <5>1, <5>2 DEF OnlySetupPanics, MessageKnown
      <4>2. CASE is_mon /\ Len(sm.ac1_info) < c + 1
        <5>1. setup.devices < 2
          BY <2>1, <2>2, <4>2, SetupType DEF MessageKnown, Channel, TypeOK
        <5>. QED
          BY <2>1, <2>4, <2>6, <4>2, <5>1 DEF OnlySetupPanics, MessageKnown
      <4>. QED
        BY <2>6, <4>1, <4>2 DEF DecisionPanics
    <3>. QED
      BY <2>5, <2>6, <3>1 DEF PanicInv, MessageKnown, ChosenWanted
  <2>7. CASE /\ pc' = "send" /\ indicator' = [channel |-> c, last |-> is_last(sm)]
             /\ schedule_message' = Counts(sm, c)
    <3>1. MessageKnown(schedule_message)'
      <4>1. packet \in [offset : Nat, num : Nat]
            /\ blocked_signals \in [Channel -> BOOLEAN]
        BY DEF TypeOK
      <4>2. /\ Len(Counts(sm, c).ac1_info) = Len(sm.ac1_info)
            /\ Counts(sm, c).mcs_values = sm.mcs_values
        BY <2>1, <2>2, <4>1, MessageType
      <4>3. MessageKnown(Counts(sm, c))
        BY <2>1, <4>2 DEF MessageKnown
      <4>. QED
        BY <2>4, <2>7, <4>3 DEF MessageKnown
    <3>2. ChosenWanted'
      BY <2>3, <2>4, <2>7 DEF ChosenWanted, Wanted
    <3>. QED
      BY <2>5, <2>7, <3>1, <3>2 DEF PanicInv, OnlySetupPanics, MessageKnown
  <2>. QED
    BY <1>4, <2>6, <2>7 DEF Decide
<1>5. CASE Send
  BY <1>5 DEF Send, PanicInv, BusKnown, MessageKnown, ChosenWanted,
       OnlySetupPanics
<1>6. CASE Refused
  BY <1>6 DEF Refused, PanicInv, BusKnown, MessageKnown, ChosenWanted,
       OnlySetupPanics
<1>7. CASE NoSocket
  <2>1. indicator.channel \in Channel \ sockets /\ Wanted(indicator.channel)
    BY <1>7 DEF NoSocket, PanicInv, ChosenWanted, TypeOK
  <2>2. OnlySetupPanics'
    BY <1>7, <2>1 DEF NoSocket, OnlySetupPanics, Wanted
  <2>. QED
    BY <1>7, <2>2 DEF NoSocket, PanicInv, BusKnown, MessageKnown, ChosenWanted
<1>8. CASE UNCHANGED vars
  BY <1>8 DEF vars, PanicInv, BusKnown, MessageKnown, ChosenWanted,
       OnlySetupPanics, Wanted
<1>. QED
  BY <1>1, <1>2, <1>3, <1>4, <1>5, <1>6, <1>7, <1>8 DEF Next

\* The source thread dies for the reasons OnlySetupPanics names and no other,
\* whichever queues the monitor reads, in whichever order, whatever the IPC
\* sets, and whichever links refuse: with a socket for both links and, for
\* the policies that look at the queues, a monitor with two devices whose
\* rates are known, it never does.
THEOREM SourceThreadSurvives == Spec => []OnlySetupPanics
<1>1. Init => TypeOK /\ PanicInv
  <2>1. Init => PanicInv
    BY DEF Init, PanicInv, BusKnown, ChosenWanted, OnlySetupPanics
  <2>. QED
    BY <2>1, InitType
<1>2. TypeOK /\ PanicInv /\ [Next]_vars => TypeOK' /\ PanicInv'
  BY StepType, StepPanic
<1>3. PanicInv => OnlySetupPanics
  BY DEF PanicInv
<1>. QED
  BY <1>1, <1>2, <1>3, PTL DEF Spec

-----------------------------------------------------------------------------
(* The flag of the last packet *)

\* A decision is about the packet it is made for, so the flag is right.
THEOREM FlagsRight == Spec => []LastFlagged
<1> DEFINE IInv == TypeOK /\ PanicInv /\ LastFlagged
<1>1. Init => IInv
  <2>1. Init => PanicInv /\ LastFlagged
    BY DEF Init, PanicInv, BusKnown, ChosenWanted, OnlySetupPanics, LastFlagged
  <2>. QED
    BY <2>1, InitType
<1>2. IInv /\ [Next]_vars => IInv'
  <2> SUFFICES ASSUME TypeOK, PanicInv, LastFlagged, [Next]_vars
      PROVE  LastFlagged'
    BY StepType, StepPanic
  <2>1. CASE Decide
    <3>1. /\ determine_schedule_info.offset = packet.offset
          /\ determine_schedule_info.num = packet.num
      BY <2>1, DecisionKnown DEF Decide, PanicInv
    <3>2. pc' = "send" =>
            indicator'.last = (determine_schedule_info.offset =
                                 determine_schedule_info.num - 1)
      BY <2>1 DEF Decide, is_last
    <3>3. packet.offset \in Nat /\ packet.num \in Nat /\ packet' = packet
      BY <2>1 DEF Decide, TypeOK
    <3>. QED
      BY <3>1, <3>2, <3>3 DEF LastFlagged
  <2>2. CASE pc' # "send"
    BY <2>2 DEF LastFlagged
  <2>3. CASE UNCHANGED <<pc, indicator, packet>>
    BY <2>3 DEF LastFlagged
  <2>. QED
    BY <2>1, <2>2, <2>3 DEF Next, vars, Publish, MonitorPanics,
         set_policy_parameters, Send, Refused, NoSocket
<1>3. IInv => LastFlagged
  OBVIOUS
<1>. QED
  BY <1>1, <1>2, <1>3, PTL DEF Spec

-----------------------------------------------------------------------------
(* The counters *)

\* What has been decided for a link but has not been sent.
pending(c) == IF pc = "send" /\ indicator.channel = c THEN 1 ELSE 0

\* The counter of a link has what the snapshot found and every packet since,
\* the one that is about to be sent included; a message is never newer than
\* the snapshot it was made from.
Counted ==
  /\ schedule_message # None => schedule_message.current_time <= bus.taken_at
  /\ is_mon /\ SameSnapshot =>
       /\ Len(schedule_message.ac1_info) = Len(bus.queues)
       /\ \A c \in Channel :
            c + 1 \in DOMAIN bus.queues =>
              schedule_message.ac1_info[c + 1] >=
                bus.queues[c + 1] + gone[c] + pending(c)

\* Counting a packet adds one to the queue of its link.
LEMMA CountsOne ==
  ASSUME is_mon, NEW sm \in SchedulingMessage, NEW c \in Channel,
         NEW d \in Channel, d + 1 \in 1 .. Len(sm.ac1_info)
  PROVE  /\ Counts(sm, c).current_time = sm.current_time
         /\ Counts(sm, c).ac1_info[d + 1] =
              sm.ac1_info[d + 1] + (IF d = c THEN 1 ELSE 0)
<1>1. sm.ac1_info \in Seq(Nat) /\ sm.ac1_info[d + 1] \in Nat
  BY ElementOfSeq DEF SchedulingMessage
<1>2. DOMAIN sm.ac1_info = 1 .. Len(sm.ac1_info)
  BY <1>1, LenProperties
<1> DEFINE more == [sm.ac1_info EXCEPT ![c + 1] = sm.ac1_info[c + 1] + 1]
<1>3. more[d + 1] = IF d = c THEN sm.ac1_info[d + 1] + 1 ELSE sm.ac1_info[d + 1]
  BY <1>1, <1>2 DEF Channel
<1>4. Counts(sm, c) = [sm EXCEPT !.ac1_info = more]
  BY DEF Counts, update_sended_counter
<1>. HIDE DEF more
<1>5. /\ [sm EXCEPT !.ac1_info = more].ac1_info = more
      /\ [sm EXCEPT !.ac1_info = more].current_time = sm.current_time
  BY DEF SchedulingMessage
<1>. QED
  BY <1>1, <1>3, <1>4, <1>5

\* A decision counts the packet it is made for, and starts from the snapshot
\* if that is a new one.
LEMMA DecisionCounts ==
  ASSUME TypeOK, PanicInv, Counted, Decide
  PROVE  Counted'
<1> USE DEF is_mon, sockets, policy, statistics
<1> DEFINE sm == determine_schedule_info
           c  == get_packet_state(policy, sm, policy_parameters)
           before == IF SameSnapshot THEN gone ELSE [d \in Channel |-> 0]
<1>1. sm \in SchedulingMessage /\ c \in Channel /\ TypeOK'
  BY DecisionType, ChannelType, StepType DEF Next
<1>2. /\ UNCHANGED <<setup, bus>> /\ gone' = before
      /\ pc = "decide" /\ pc' \in {"send", "panicked"}
  BY DEF Decide
<1>3. /\ sm.current_time = bus.taken_at
      /\ is_mon => /\ Len(sm.ac1_info) = Len(bus.queues)
                   /\ \A d \in Channel :
                        d + 1 \in DOMAIN bus.queues =>
                          sm.ac1_info[d + 1] >= bus.queues[d + 1] + before[d]
  <2>0. bus.taken_at \in Nat /\ bus.queues \in Seq(Nat)
    BY DEF TypeOK, Snapshot
  <2>1. CASE SameSnapshot
    <3>1. /\ sm.current_time = schedule_message.current_time
          /\ sm.ac1_info = schedule_message.ac1_info
      <4>1. schedule_message \in SchedulingMessage
        BY <2>1 DEF SameSnapshot, TypeOK
      <4>. QED
        BY <2>1, <4>1 DEF determine_schedule_info, update, SchedulingMessage
    <3>2. \A d \in Channel : pending(d) = 0
      BY <1>2 DEF pending
    <3>3. \A d \in Channel : gone[d] \in Nat /\ gone[d] + 0 = gone[d]
      BY DEF TypeOK
    <3>4. \A d \in Channel : d + 1 \in DOMAIN bus.queues => bus.queues[d + 1] \in Nat
      BY <2>0, ElementOfSeq, LenProperties
    <3>. QED
      BY <2>1, <3>1, <3>2, <3>3, <3>4 DEF Counted, SameSnapshot
  <2>2. CASE ~SameSnapshot
    <3>1. sm.current_time = bus.taken_at /\ sm.ac1_info = bus.queues
      BY <2>2 DEF determine_schedule_info
    <3>2. \A d \in Channel : d + 1 \in DOMAIN bus.queues =>
            bus.queues[d + 1] \in Nat /\ before[d] = 0
      BY <2>0, <2>2, ElementOfSeq, LenProperties
    <3>. QED
      BY <3>1, <3>2
  <2>. QED
    BY <2>1, <2>2
<1>4. CASE pc' = "panicked" /\ schedule_message' = sm
  <2>1. \A d \in Channel : pending(d)' = 0
    BY <1>4 DEF pending
  <2>2. \A d \in Channel : before[d] \in Nat
    BY DEF TypeOK
  <2>3. bus.taken_at \in Nat
    BY DEF TypeOK, Snapshot
  <2>4. \A d \in Channel : d + 1 \in DOMAIN bus.queues => bus.queues[d + 1] \in Nat
    BY ElementOfSeq, LenProperties DEF TypeOK, Snapshot
  <2>. HIDE DEF sm, before
  <2>5. (schedule_message # None => schedule_message.current_time <= bus.taken_at)'
    BY <1>2, <1>3, <1>4, <2>3
  <2>6. is_mon' => /\ Len(schedule_message'.ac1_info) = Len(bus'.queues)
                   /\ \A d \in Channel :
                        d + 1 \in DOMAIN bus'.queues =>
                          schedule_message'.ac1_info[d + 1] >=
                            bus'.queues[d + 1] + gone'[d] + pending(d)'
    BY <1>2, <1>3, <1>4, <2>1, <2>2, <2>4
  <2>. QED
    BY <2>5, <2>6 DEF Counted
<1>5. CASE /\ pc' = "send" /\ indicator' = [channel |-> c, last |-> is_last(sm)]
           /\ schedule_message' = Counts(sm, c)
  <2>1. \A d \in Channel : pending(d)' = IF d = c THEN 1 ELSE 0
    BY <1>5 DEF pending
  <2>2. \A d \in Channel : before[d] \in Nat
    BY DEF TypeOK
  <2>3. bus.taken_at \in Nat
    BY DEF TypeOK, Snapshot
  <2>4. \A d \in Channel : d + 1 \in DOMAIN bus.queues =>
          bus.queues[d + 1] \in Nat /\ d + 1 \in 1 .. Len(bus.queues)
    BY ElementOfSeq, LenProperties DEF TypeOK, Snapshot
  <2>5. Counts(sm, c).current_time = sm.current_time
    BY <1>1 DEF Counts, update_sended_counter, SchedulingMessage
  <2>6. Len(Counts(sm, c).ac1_info) = Len(sm.ac1_info)
    <3>1. packet \in [offset : Nat, num : Nat]
          /\ blocked_signals \in [Channel -> BOOLEAN]
      BY DEF TypeOK
    <3>. QED
      BY <1>1, <3>1, MessageType
  <2>7. ASSUME is_mon, NEW d \in Channel, d + 1 \in DOMAIN bus.queues
        PROVE  /\ Counts(sm, c).ac1_info[d + 1] =
                     sm.ac1_info[d + 1] + (IF d = c THEN 1 ELSE 0)
               /\ sm.ac1_info[d + 1] \in Nat
    <3>1. sm.ac1_info \in Seq(Nat) /\ d + 1 \in 1 .. Len(sm.ac1_info)
      BY <1>1, <1>3, <2>4, <2>7 DEF SchedulingMessage
    <3>. HIDE DEF sm, c
    <3>2. sm.ac1_info[d + 1] \in Nat
      BY <3>1, ElementOfSeq
    <3>. QED
      BY <1>1, <2>7, <3>1, <3>2, CountsOne
  <2>. HIDE DEF sm, before, c
  <2>8. (schedule_message # None => schedule_message.current_time <= bus.taken_at)'
    BY <1>2, <1>3, <1>5, <2>3, <2>5
  <2>9. ASSUME is_mon, NEW d \in Channel, d + 1 \in DOMAIN bus.queues
        PROVE  schedule_message'.ac1_info[d + 1] >=
                 bus.queues[d + 1] + gone'[d] + pending(d)'
    BY <1>2, <1>3, <1>5, <2>1, <2>2, <2>4, <2>7, <2>9
  <2>. QED
    BY <1>2, <1>3, <1>5, <2>6, <2>8, <2>9 DEF Counted
<1>. QED
  BY <1>4, <1>5 DEF Decide

\* However often a snapshot is used again, under refusals, and with the
\* monitor publishing between a decision and its packet, no packet that has
\* been sent is missing from the queue the policies take it for.
THEOREM NoPacketForgotten == Spec => []NothingForgotten
<1> DEFINE IInv == TypeOK /\ PanicInv /\ Counted
<1>1. Init => IInv
  <2>1. Init => PanicInv /\ Counted
    BY DEF Init, PanicInv, BusKnown, ChosenWanted, OnlySetupPanics, Counted,
         SameSnapshot
  <2>. QED
    BY <2>1, InitType
<1>2. IInv /\ [Next]_vars => IInv'
  <2> SUFFICES ASSUME TypeOK, PanicInv, Counted, [Next]_vars
      PROVE  Counted'
    BY StepType, StepPanic
  <2> USE DEF is_mon, statistics
  <2>1. CASE Decide
    BY <2>1, DecisionCounts
  <2>2. CASE Publish
    <3>1. /\ bus'.taken_at = bus.taken_at + 1 /\ bus.taken_at \in Nat
          /\ UNCHANGED <<setup, schedule_message>>
      BY <2>2 DEF Publish, TypeOK, Snapshot
    <3>2. schedule_message # None => schedule_message.current_time \in Nat
      BY DEF TypeOK, SchedulingMessage
    <3>3. ~SameSnapshot' /\ (schedule_message # None =>
                               schedule_message.current_time <= bus.taken_at)'
      BY <3>1, <3>2 DEF Counted, SameSnapshot
    <3>. QED
      BY <3>1, <3>3 DEF Counted
  <2>3. CASE Send
    <3>1. ASSUME is_mon, NEW c \in Channel
          PROVE  gone'[c] + pending(c)' = gone[c] + pending(c)
      <4>1. gone[c] \in Nat /\ indicator.channel \in Channel
            /\ gone \in [Channel -> Nat]
        BY DEF TypeOK
      <4>2. /\ gone' = [gone EXCEPT ![indicator.channel] = @ + 1]
            /\ pc = "send" /\ pc' = "decide"
        BY <2>3, <3>1 DEF Send
      <4>. QED
        BY <4>1, <4>2 DEF pending
    <3>2. UNCHANGED <<setup, bus, schedule_message>>
      BY <2>3 DEF Send
    <3>3. \A c \in Channel : gone[c] \in Nat /\ gone'[c] \in Nat
                            /\ pending(c) \in Nat /\ pending(c)' \in Nat
      <4>1. TypeOK'
        BY StepType
      <4>. QED
        BY <4>1 DEF TypeOK, pending
    <3>4. \A c \in Channel : c + 1 \in DOMAIN bus.queues => bus.queues[c + 1] \in Nat
      BY ElementOfSeq, LenProperties DEF TypeOK, Snapshot
    <3>5. ASSUME is_mon, NEW c \in Channel, c + 1 \in DOMAIN bus.queues
          PROVE  bus.queues[c + 1] + gone'[c] + pending(c)' =
                   bus.queues[c + 1] + gone[c] + pending(c)
      BY <3>1, <3>3, <3>4, <3>5
    <3>. QED
      BY <3>2, <3>5 DEF Counted, SameSnapshot
  <2>4. CASE Refused \/ NoSocket
    <3>1. UNCHANGED <<setup, bus, schedule_message, gone>> /\ pc' # "send"
      BY <2>4 DEF Refused, NoSocket
    <3>2. \A c \in Channel : gone[c] \in Nat /\ pending(c)' = 0
                            /\ pending(c) \in {0, 1}
      BY <3>1 DEF TypeOK, pending
    <3>3. \A c \in Channel : c + 1 \in DOMAIN bus.queues =>
            bus.queues[c + 1] \in Nat
      BY ElementOfSeq, LenProperties DEF TypeOK, Snapshot
    <3>4. SameSnapshot =>
            \A c \in Channel : c + 1 \in 1 .. Len(schedule_message.ac1_info) =>
              schedule_message.ac1_info[c + 1] \in Nat
      BY ElementOfSeq DEF TypeOK, SameSnapshot, SchedulingMessage
    <3>5. DOMAIN bus.queues = 1 .. Len(bus.queues)
      BY LenProperties DEF TypeOK, Snapshot
    <3>. QED
      BY <3>1, <3>2, <3>3, <3>4, <3>5 DEF Counted, SameSnapshot
  <2>5. CASE UNCHANGED <<setup, bus, schedule_message, gone, pc, indicator>>
    BY <2>5 DEF Counted, SameSnapshot, pending
  <2>. QED
    BY <2>1, <2>2, <2>3, <2>4, <2>5 DEF Next, vars, MonitorPanics,
         set_policy_parameters
<1>3. IInv => NothingForgotten
  <2> SUFFICES ASSUME TypeOK, Counted, is_mon, SameSnapshot,
                      NEW c \in Channel, c + 1 \in DOMAIN bus.queues
      PROVE  schedule_message.ac1_info[c + 1] >= bus.queues[c + 1] + gone[c]
    BY DEF NothingForgotten
  <2>1. bus.queues[c + 1] \in Nat /\ c + 1 \in 1 .. Len(bus.queues)
    BY ElementOfSeq, LenProperties DEF TypeOK, Snapshot
  <2>2. schedule_message.ac1_info[c + 1] \in Nat
    BY <2>1, ElementOfSeq DEF TypeOK, SameSnapshot, SchedulingMessage, Counted
  <2>3. gone[c] \in Nat /\ pending(c) \in {0, 1}
    BY DEF TypeOK, pending
  <2>. QED
    BY <2>1, <2>2, <2>3 DEF Counted
<1>. QED
  BY <1>1, <1>2, <1>3, PTL DEF Spec
=============================================================================
