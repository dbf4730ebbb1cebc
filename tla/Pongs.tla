------------------------------- MODULE Pongs -------------------------------
(***************************************************************************)
(* What the sender may rely on of everything between the socket a frame    *)
(* leaves by and the socket its pong comes back to: frames are sent in     *)
(* increasing order, some never; a frame that was sent is answered at most *)
(* MaxCopies times, in any order, or never; nothing else is answered.      *)
(***************************************************************************)
EXTENDS Naturals

CONSTANTS
  Frames,      \* bound: frames are 1 .. Frames
  MaxCopies    \* copies of a datagram the network may deliver

VARIABLES
  sent,        \* the frames that have left
  answers      \* how often each frame has been answered

Init == sent = {} /\ answers = [s \in 1 .. Frames |-> 0]

SendFrame(s) ==
  /\ \A earlier \in sent : earlier < s
  /\ sent' = sent \cup {s}
  /\ UNCHANGED answers

Answer(s) ==
  /\ s \in sent
  /\ answers[s] < MaxCopies
  /\ answers' = [answers EXCEPT ![s] = @ + 1]
  /\ UNCHANGED sent

Next == \E s \in 1 .. Frames : SendFrame(s) \/ Answer(s)

Spec == Init /\ [][Next]_<<sent, answers>>
=============================================================================
