------------------------------- MODULE Queues -------------------------------
(* Queues of numbers, which are given out in the order of submission. *)
EXTENDS Integers, Sequences

\* i is an element of the queue q.
Queued(i, q) == \E k \in 1 .. Len(q) : q[k] = i

\* The elements of a queue are in the order in which they were submitted.
Sorted(q) == \A k, l \in 1 .. Len(q) : k < l => q[k] < q[l]
=============================================================================
