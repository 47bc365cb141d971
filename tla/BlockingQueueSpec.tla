------------------------- MODULE BlockingQueueSpec -------------------------
(***************************************************************************)
(* What LockableQueue<T> and TaskQueue<T> promise their users, with the    *)
(* mutex, the condition variable and the waiting threads abstracted away:  *)
(* a first-in first-out queue.  Items enter at the tail in one or several  *)
(* at a time, leave from the head one at a time, each to one taker, and    *)
(* nothing is ever lost, invented, duplicated or overtaken.                *)
(***************************************************************************)
EXTENDS Naturals, Sequences

CONSTANTS Items,      \* the elements that can be stored
          Takers,     \* the threads that take elements
          MaxBatch    \* the longest batch put in at once

VARIABLES contents,   \* the elements inside, oldest first
          received    \* received[t]: what taker t got, oldest first

vars == <<contents, received>>

Init == /\ contents = <<>>
        /\ received = [t \in Takers |-> <<>>]

Put(batch) == /\ contents' = contents \o batch
              /\ UNCHANGED received

Take(t) == /\ contents # <<>>
           /\ contents' = Tail(contents)
           /\ received' = [received EXCEPT ![t] = Append(@, Head(contents))]

Batches == UNION {[1..n -> Items] : n \in 1..MaxBatch}

Next == \/ \E batch \in Batches : Put(batch)
        \/ \E t \in Takers : Take(t)

Spec == Init /\ [][Next]_vars
=============================================================================
