---------------------------- MODULE MCScheduling ----------------------------
(***************************************************************************)
(* Scheduling for TLC: the streams of the run, which a configuration file  *)
(* cannot write.                                                           *)
(***************************************************************************)
EXTENDS Scheduling

Thetas(t1, t3, t4) == [theta_1 |-> t1, theta_3 |-> t3, theta_4 |-> t4]

\* No share of a frame on the first link, half of it, all of it; either link
\* preferred.
NoShare == {Thetas(0, 0, 0)}
Shares == {Thetas(1, 1, 1), Thetas(2, 1, 2)}
FullShare == {Thetas(2, 1, 1)}

Streams(mon, devices, linkSets, policies, parameters) ==
  [is_mon : {mon}, devices : devices, links : linkSets, policy : policies,
   parameters : {parameters}]

\* The queue-aware policies under a monitor that finds two devices; all of
\* them with fewer devices; and streams without a monitor, with each set of
\* links and the shares of HardThreshold that suit them.
ExampleSetups ==
  Streams(TRUE, {2}, {Channel}, QueuePolicies, Shares)
    \cup Streams(TRUE, {0, 1}, {Channel, {0}}, Policy, FullShare)
    \cup Streams(FALSE, {0}, {Channel, {0}}, Policy, FullShare)
    \cup Streams(FALSE, {0}, {Channel, {0}, {}}, {"HardThreshold"}, NoShare)
    \cup Streams(FALSE, {0}, {Channel}, {"HardThreshold"}, Shares)
=============================================================================
