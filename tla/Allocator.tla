------------------------------ MODULE Allocator ------------------------------
(***************************************************************************)
(* What a memory manager promises (Kernel/include/memoryManager.h): the    *)
(* blocks that are handed out lie inside the heap and never overlap, and a *)
(* block is handed out until it is freed.  Both managers of the kernel,    *)
(* modules Bitmap and Buddy, implement it.                                 *)
(***************************************************************************)
EXTENDS Naturals

CONSTANT HeapUnits      \* the heap is the units 0..HeapUnits - 1

VARIABLE live           \* the blocks handed out: [at, size], in units

Span(b) == b.at..(b.at + b.size - 1)

Init == live = {}

Alloc(b) ==
  /\ live' = live \cup {b}
  /\ \A c \in live : Span(b) \cap Span(c) = {}

Free(b) == b \in live /\ live' = live \ {b}

Next ==
  \/ \E at \in 0..(HeapUnits - 1) : \E size \in 1..(HeapUnits - at) :
       Alloc([at |-> at, size |-> size])
  \/ \E b \in live : Free(b)

Spec == Init /\ [][Next]_live
==============================================================================
