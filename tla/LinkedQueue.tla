---------------------------- MODULE LinkedQueue ----------------------------
(***************************************************************************)
(* Kernel/dataStructures/queue.c: a singly linked list with a pointer to   *)
(* its last node and a count.  mem holds [data, next] for each node that   *)
(* the allocator has handed out.                                           *)
(***************************************************************************)
EXTENDS ListParameters

VARIABLES front, rear, size, mem
vars == <<front, rear, size, mem>>

\* createQueue.
Init ==
  /\ front = NULL /\ rear = NULL /\ size = 0
  /\ mem = << >>

\* enqueue, with the node n that allocMemory returns.
Enqueue(n, d) ==
  /\ n \notin DOMAIN mem
  /\ LET filled == With(mem, n, [data |-> d, next |-> NULL])
     IN  mem' = IF rear = NULL THEN filled ELSE [filled EXCEPT ![rear].next = n]
  /\ front' = IF rear = NULL THEN n ELSE front
  /\ rear' = n
  /\ size' = size + 1

Dequeue ==
  /\ front # NULL
  /\ front' = mem[front].next
  /\ rear' = IF mem[front].next = NULL THEN NULL ELSE rear
  /\ mem' = Without(mem, {front})
  /\ size' = size - 1

\* The i-th node of the list from front, NULL past the end.
Walk ==
  LET f[i \in 1..(Cardinality(Node) + 1)] ==
        IF i = 1 THEN front ELSE IF f[i - 1] = NULL THEN NULL ELSE mem[f[i - 1]].next
  IN  f

\* Mutant: the search goes on to the last match.
LastMatch(i, d) ==
  /\ Walk[i] # NULL /\ mem[Walk[i]].data = d
  /\ \A j \in (i + 1)..Cardinality(Node) : Walk[j] # NULL => mem[Walk[j]].data # d

\* The loop of containsQueue and remove stops at node i of the list.
FirstMatch(i, d) ==
  /\ Walk[i] # NULL /\ mem[Walk[i]].data = d
  /\ \A j \in 1..(i - 1) : mem[Walk[j]].data # d

\* rear after remove has unlinked a node.
RearAfterRemove(node, previous) == IF node = rear THEN previous ELSE rear

Remove(d) ==
  \E i \in 1..Cardinality(Node) :
    LET node     == Walk[i]
        previous == IF i = 1 THEN NULL ELSE Walk[i - 1]
    IN  /\ FirstMatch(i, d)
        /\ front' = IF previous = NULL THEN mem[node].next ELSE front
        /\ mem' = IF previous = NULL
                  THEN Without(mem, {node})
                  ELSE Without([mem EXCEPT ![previous].next = mem[node].next], {node})
        /\ rear' = RearAfterRemove(node, previous)
        /\ size' = size - 1

\* The nodes that clearQueue frees: those of the list.  (freeQueue frees the
\* queue as well; a client starts again with createQueue.)
Listed == {Walk[i] : i \in DOMAIN Walk} \ {NULL}

ClearQueue ==
  /\ mem' = Without(mem, Listed)
  /\ front' = NULL /\ rear' = NULL /\ size' = 0

Next ==
  \/ \E n \in Node, d \in Data : Enqueue(n, d)
  \/ Dequeue
  \/ \E d \in Data : Remove(d)
  \/ ClearQueue

Spec == Init /\ [][Next]_vars

-----------------------------------------------------------------------------
(* Correctness.                                                             *)

\* The list ends after size nodes and rear is the last one (or both pointers
\* are NULL), and every allocated node is in it: no node leaks, none is freed
\* while it is linked.
WellLinked ==
  /\ size \in 0..Cardinality(Node)
  /\ \A i \in DOMAIN Walk : Walk[i] = NULL <=> i > size
  /\ rear = IF size = 0 THEN NULL ELSE Walk[size]
  /\ Listed = DOMAIN mem

\* The data of the list, in order, behave as the queue of module Fifo.
Contents == [i \in 1..size |-> mem[Walk[i]].data]

Abstract == INSTANCE Fifo WITH q <- Contents, Capacity <- Cardinality(Node)

ImplementsFifo == Abstract!Spec
=============================================================================
