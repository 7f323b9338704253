-------------------------------- MODULE Fifo --------------------------------
(***************************************************************************)
(* What inc/ringbuffer.h promises its users: a bounded first-in first-out  *)
(* queue.  A push on a full queue and a pop on an empty one are stutters.  *)
(***************************************************************************)
EXTENDS Integers, Sequences

CONSTANTS Capacity,   \* items the queue can hold
          Items       \* what may be queued

VARIABLES q,      \* the queue
          item    \* what pop handed out last

Init == q = <<>> /\ item \in Items

Push(x) ==
    /\ Len(q) < Capacity
    /\ q' = Append(q, x)
    /\ UNCHANGED item

Pop ==
    /\ q # <<>>
    /\ item' = Head(q)
    /\ q' = Tail(q)

Next == Pop \/ \E x \in Items : Push(x)

Spec == Init /\ [][Next]_<<q, item>>
=============================================================================
