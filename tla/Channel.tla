------------------------------- MODULE Channel -------------------------------
(***************************************************************************)
(* What a pipe promises: a bounded first-in first-out channel of bytes     *)
(* that can be emptied.  Kernel/pipes/pipe.c implements it with a circular *)
(* buffer and three semaphores (module Pipe).                              *)
(***************************************************************************)
EXTENDS Naturals, Sequences

CONSTANTS Byte, Capacity

VARIABLES
  chan,     \* the bytes written and not yet read, oldest first
  out       \* the byte the last read delivered

Init == chan = << >> /\ out \in Byte

Put(b) ==
  /\ Len(chan) < Capacity
  /\ chan' = Append(chan, b)
  /\ UNCHANGED out

Get ==
  /\ chan # << >>
  /\ chan' = Tail(chan)
  /\ out' = Head(chan)

Clear ==
  /\ chan' = << >>
  /\ UNCHANGED out

Next == (\E b \in Byte : Put(b)) \/ Get \/ Clear

Spec == Init /\ [][Next]_<<chan, out>>
==============================================================================
