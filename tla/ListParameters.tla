--------------------------- MODULE ListParameters ---------------------------
(***************************************************************************)
(* What the linked structures of Kernel/dataStructures share: the          *)
(* addresses the allocator has for nodes, what is stored in them, and the  *)
(* memory as a function whose domain is the nodes that are allocated.      *)
(***************************************************************************)
EXTENDS Integers, Sequences, FiniteSets

CONSTANTS
  Node,      \* the addresses the allocator has for nodes
  Data,      \* what is stored: pointers
  NULL

ASSUME NodeAssumption == NULL \notin Node /\ IsFiniteSet(Node)

\* The memory h once allocMemory has returned n and its fields are filled in.
With(h, n, node) == [m \in DOMAIN h \cup {n} |-> IF m = n THEN node ELSE h[m]]

\* The memory h once freeMemory has taken back the nodes S.
Without(h, S) == [m \in DOMAIN h \ S |-> h[m]]
=============================================================================
