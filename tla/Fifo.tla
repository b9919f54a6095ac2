-------------------------------- MODULE Fifo --------------------------------
(***************************************************************************)
(* What a queue of the kernel promises (Kernel/include/queue.h): a         *)
(* sequence that grows at the end, shrinks at the front, and loses the     *)
(* first match of a removal.  Modules ProcessManager and Semaphores use    *)
(* queues as such sequences; module LinkedQueue implements them.           *)
(***************************************************************************)
EXTENDS Integers, Sequences

CONSTANTS Data, Capacity

VARIABLE q

Init == q = << >>

Put(d) == Len(q) < Capacity /\ q' = Append(q, d)

Get == q # << >> /\ q' = Tail(q)

RemoveFirst(d) ==
  \E i \in 1..Len(q) :
    /\ q[i] = d /\ \A j \in 1..(i - 1) : q[j] # d
    /\ q' = SubSeq(q, 1, i - 1) \o SubSeq(q, i + 1, Len(q))

Clear == q' = << >>

Next == (\E d \in Data : Put(d) \/ RemoveFirst(d)) \/ Get \/ Clear

Spec == Init /\ [][Next]_q
=============================================================================
