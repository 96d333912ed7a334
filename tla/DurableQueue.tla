---------------------------- MODULE DurableQueue ----------------------------
(***************************************************************************)
(* What the operation log promises: a queue of operations that have been   *)
(* committed and not yet durably executed.  A commit appends all           *)
(* operations of its batch at once; the background process removes the     *)
(* oldest ones when their effect is durable.  A crash changes nothing.     *)
(***************************************************************************)
EXTENDS Naturals, Sequences

CONSTANTS
    MaxBatch,     \* the most operations one commit of the application appends
    CommitBatch   \* the most operations one commit of the background process removes

VARIABLE queue

Init == queue = <<>>

Enqueue ==
    /\ Len(queue') \in (Len(queue) + 1)..(Len(queue) + MaxBatch)
    /\ SubSeq(queue', 1, Len(queue)) = queue

Dequeue ==
    \E n \in 1..CommitBatch : n <= Len(queue) /\ queue' = SubSeq(queue, n + 1, Len(queue))

Next == Enqueue \/ Dequeue

Spec == Init /\ [][Next]_queue
=============================================================================
