----------------------------- MODULE FrameQueue -----------------------------
(***************************************************************************)
(* What the application-layer queue of a stream promises, whatever the     *)
(* throttle, the clock and the network do: frames are offered one after    *)
(* the other; the packets of a frame enter the queue in order, as many as  *)
(* there is room for (the tail of the frame is dropped, never a packet     *)
(* before it); packets leave from the front, one at a time, each once;     *)
(* and closing the stream discards what is left.                           *)
(***************************************************************************)
EXTENDS Packets

CONSTANTS
  Capacity,    \* most packets the queue holds; 0 is "no bound"
  Sizes        \* the frame sizes that may be offered

VARIABLES queue, offered, closed

vars == <<queue, offered, closed>>

Room(n) == Capacity = 0 \/ Len(queue) + n <= Capacity

Init == queue = <<>> /\ offered = 0 /\ closed = FALSE

\* The longest prefix of the frame that fits is admitted.
Offer(size) ==
  LET packets == generate_packets(offered + 1, size)
  IN  /\ ~closed
      /\ offered' = offered + 1
      /\ \E n \in 0 .. Len(packets) :
           /\ Room(n)
           /\ n < Len(packets) => ~Room(n + 1)
           /\ queue' = queue \o SubSeq(packets, 1, n)
      /\ UNCHANGED closed

Transmit ==
  /\ ~closed
  /\ queue # <<>>
  /\ queue' = Tail(queue)
  /\ UNCHANGED <<offered, closed>>

Close ==
  /\ ~closed
  /\ closed' = TRUE
  /\ queue' = <<>>
  /\ UNCHANGED offered

Next == (\E size \in Sizes : Offer(size)) \/ Transmit \/ Close

Spec == Init /\ [][Next]_vars
=============================================================================
