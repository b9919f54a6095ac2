-------------------------------- MODULE Deque --------------------------------
(***************************************************************************)
(* What the doubly linked list promises                                    *)
(* (Kernel/include/double_linked_list.h): the sequence of module Fifo,     *)
(* which can also grow at the front and shrink at the end.                 *)
(***************************************************************************)
EXTENDS Fifo

PutFront(d) == Len(q) < Capacity /\ q' = <<d>> \o q

GetBack == q # << >> /\ q' = SubSeq(q, 1, Len(q) - 1)

DequeNext == Next \/ (\E d \in Data : PutFront(d)) \/ GetBack

DequeSpec == Init /\ [][DequeNext]_q
==============================================================================
