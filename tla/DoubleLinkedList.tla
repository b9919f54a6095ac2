-------------------------- MODULE DoubleLinkedList --------------------------
(***************************************************************************)
(* Kernel/dataStructures/double_linked_list.c: nodes linked both ways,     *)
(* with pointers to the first and the last one and a count.  heap holds    *)
(* [data, next, prev] for each node that the allocator has handed out;     *)
(* alive says that the list itself is allocated.                           *)
(***************************************************************************)
EXTENDS ListParameters

VARIABLES first, last, length, heap, alive
vars == <<first, last, length, heap, alive>>

\* No list yet.
Init ==
  /\ first = NULL /\ last = NULL /\ length = 0
  /\ heap = << >>
  /\ alive = FALSE

CreateDoubleLinkedList ==
  /\ ~alive
  /\ first' = NULL /\ last' = NULL /\ length' = 0
  /\ alive' = TRUE
  /\ UNCHANGED heap

\* A store through a pointer, if the pointer is not NULL.
Store(h, n, field, value) == IF n = NULL THEN h ELSE [h EXCEPT ![n][field] = value]

\* createNode: the node n that allocMemory returns, filled in by the caller.
CreateNode(n, d, next, prev) == With(heap, n, [data |-> d, next |-> next, prev |-> prev])

InsertFirst(n, d) ==
  /\ alive /\ n \notin DOMAIN heap
  /\ heap' = Store(CreateNode(n, d, first, NULL), first, "prev", n)
  /\ first' = n
  /\ last' = IF last = NULL THEN n ELSE last
  /\ length' = length + 1
  /\ UNCHANGED alive

InsertLast(n, d) ==
  /\ alive /\ n \notin DOMAIN heap
  /\ heap' = Store(CreateNode(n, d, NULL, last), last, "next", n)
  /\ last' = n
  /\ first' = IF first = NULL THEN n ELSE first
  /\ length' = length + 1
  /\ UNCHANGED alive

RemoveFirst ==
  LET next == heap[first].next
  IN  /\ alive /\ first # NULL
      /\ heap' = Without(Store(heap, next, "prev", NULL), {first})
      /\ first' = next
      /\ last' = IF next = NULL THEN NULL ELSE last
      /\ length' = length - 1
      /\ UNCHANGED alive

RemoveLast ==
  LET prev == heap[last].prev
  IN  /\ alive /\ last # NULL
      /\ heap' = Without(Store(heap, prev, "next", NULL), {last})
      /\ last' = prev
      /\ first' = IF prev = NULL THEN NULL ELSE first
      /\ length' = length - 1
      /\ UNCHANGED alive

\* Mutant: the next node still points back to the node that is freed.
UnlinkForwards(n) ==
  LET node == heap[n]
  IN  /\ heap' = Without(Store(heap, node.prev, "next", node.next), {n})
      /\ first' = IF node.prev = NULL THEN node.next ELSE first
      /\ last' = IF node.next = NULL THEN node.prev ELSE last

\* removeElement: the links and the end pointers around the node it found.
Unlink(n) ==
  LET node == heap[n]
      h1   == Store(heap, node.prev, "next", node.next)
      h2   == Store(h1, node.next, "prev", node.prev)
  IN  /\ heap' = Without(h2, {n})
      /\ first' = IF node.prev = NULL THEN node.next ELSE first
      /\ last' = IF node.next = NULL THEN node.prev ELSE last

\* The i-th node from one end, following one kind of link.
Forward ==
  LET f[i \in 1..(Cardinality(Node) + 1)] ==
        IF i = 1 THEN first ELSE IF f[i - 1] = NULL THEN NULL ELSE heap[f[i - 1]].next
  IN  f

Backward ==
  LET f[i \in 1..(Cardinality(Node) + 1)] ==
        IF i = 1 THEN last ELSE IF f[i - 1] = NULL THEN NULL ELSE heap[f[i - 1]].prev
  IN  f

RemoveElement(d) ==
  /\ alive
  /\ \E i \in 1..Cardinality(Node) :
       /\ Forward[i] # NULL /\ heap[Forward[i]].data = d
       /\ \A j \in 1..(i - 1) : heap[Forward[j]].data # d
       /\ Unlink(Forward[i])
  /\ length' = length - 1
  /\ UNCHANGED alive

\* freeList walks the list forwards, and frees the list at the end.
FreeList ==
  /\ alive
  /\ heap' = Without(heap, {Forward[i] : i \in DOMAIN Forward} \ {NULL})
  /\ first' = NULL /\ last' = NULL /\ length' = 0
  /\ alive' = FALSE

Next ==
  \/ CreateDoubleLinkedList
  \/ \E n \in Node, d \in Data : InsertFirst(n, d) \/ InsertLast(n, d)
  \/ RemoveFirst
  \/ RemoveLast
  \/ \E d \in Data : RemoveElement(d)
  \/ FreeList

Spec == Init /\ [][Next]_vars

-----------------------------------------------------------------------------
(* Correctness.                                                             *)

\* Both directions go through the same length nodes in opposite orders, and
\* those are all the nodes that are allocated.
WellLinked ==
  /\ length \in 0..Cardinality(Node)
  /\ \A i \in DOMAIN Forward : Forward[i] = NULL <=> i > length
  /\ \A i \in 1..length : Backward[i] = Forward[length + 1 - i]
  /\ Backward[length + 1] = NULL
  /\ DOMAIN heap = {Forward[i] : i \in 1..length}

Elements == [i \in 1..length |-> heap[Forward[i]].data]

Abstract == INSTANCE Deque WITH q <- Elements, Capacity <- Cardinality(Node)

ImplementsDeque == Abstract!DequeSpec
=============================================================================
