----------------------------- MODULE RttChannel -----------------------------
(***************************************************************************)
(* What either direction of an RTT link promises: a FIFO queue.  Bytes are *)
(* received once, in the order sent.  The end that reads takes any number  *)
(* of bytes at a time; it may lose what it took when the link fails at     *)
(* that moment, and it then loses whole batches, never the order.          *)
(***************************************************************************)
EXTENDS Naturals, Sequences

CONSTANT MayLose   \* whether the link can fail so that a batch is lost

VARIABLES queue, received

Init == queue = << >> /\ received = << >>

Send ==
  /\ \E k \in 1..Len(queue') :
       queue = SubSeq(queue', 1, Len(queue') - k)
  /\ UNCHANGED received

Take(k) == queue' = SubSeq(queue, k + 1, Len(queue))

Receive ==
  \E k \in 1..Len(queue) :
    Take(k) /\ received' = received \o SubSeq(queue, 1, k)

Lose == MayLose /\ (\E k \in 1..Len(queue) : Take(k)) /\ UNCHANGED received

Next == Send \/ Receive \/ Lose

Spec == Init /\ [][Next]_<<queue, received>>
=============================================================================
