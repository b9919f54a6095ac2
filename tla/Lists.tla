-------------------------------- MODULE Lists --------------------------------
(***************************************************************************)
(* The two linked structures of Kernel/dataStructures, one at a time: the  *)
(* kernel's queues and the doubly linked list.                             *)
(***************************************************************************)
EXTENDS ListParameters

VARIABLES
  structure,                            \* which of the two is in use
  front, rear, size, mem,               \* module LinkedQueue
  first, last, length, heap, alive      \* module DoubleLinkedList

Queue == INSTANCE LinkedQueue
List  == INSTANCE DoubleLinkedList

queueVars == <<front, rear, size, mem>>
listVars  == <<first, last, length, heap, alive>>
vars      == <<structure, queueVars, listVars>>

Init == structure \in {"queue", "list"} /\ Queue!Init /\ List!Init

QueueStep == structure = "queue" /\ Queue!Next /\ UNCHANGED <<structure, listVars>>

ListStep == structure = "list" /\ List!Next /\ UNCHANGED <<structure, queueVars>>

Next == QueueStep \/ ListStep

Spec == Init /\ [][Next]_vars

-----------------------------------------------------------------------------
(* Correctness, of either structure.                                        *)

\* Whatever is put in and taken out at whichever end or in the middle, the
\* links, the end pointers and the count of queue.c and of
\* double_linked_list.c describe the same nodes, none leaks and none is freed
\* while it is linked.
WellLinked == Queue!WellLinked /\ List!WellLinked

\* queue.c is a first-in first-out queue with removal, double_linked_list.c a
\* double-ended queue with removal: every call changes the sequence of stored
\* pointers as modules Fifo and Deque say.
ImplementSequences == Queue!ImplementsFifo /\ List!ImplementsDeque
==============================================================================
