-------------------------------- MODULE MVar --------------------------------
(***************************************************************************)
(* The mvar program, Userland/SampleCodeModule/shell/haskell.c: writers    *)
(* and readers share a one-place variable made of two pipes.  A byte in    *)
(* token_pipe says that the variable is empty; the value is in data_pipe.  *)
(*                                                                         *)
(* The pipes are the channels of module Channel, which module Pipe         *)
(* implements: a read waits for a byte and takes the oldest.  Nobody       *)
(* closes or clears them, so that the branches for read and write errors   *)
(* are not taken.  A process is suspended at will between two calls        *)
(* (active_wait_random and the scheduler).                                 *)
(***************************************************************************)
EXTENDS Integers, Sequences, FiniteSets

CONSTANTS Writers, Readers, None

ASSUME MVarAssumption ==
  /\ Writers \cap Readers = {} /\ None \notin Writers
  /\ IsFiniteSet(Writers) /\ IsFiniteSet(Readers)

VARIABLES
  data_pipe,     \* the values, here the writers that wrote them
  token_pipe,    \* the number of tokens
  pc,            \* per process: its next call
  put, got       \* the last value written and the last one printed
vars == <<data_pipe, token_pipe, pc, put, got>>

\* mvar: both pipes are created, and one token is written before the first
\* process starts.
Init ==
  /\ data_pipe = << >>
  /\ token_pipe = 1
  /\ pc = [p \in Writers \cup Readers |-> IF p \in Writers THEN "acquire" ELSE "take"]
  /\ put = None /\ got = None

\* mvar_writer_entry: syscall_read(token_pipe).
Acquire(w) ==
  /\ pc[w] = "acquire"
  /\ token_pipe > 0
  /\ token_pipe' = token_pipe - 1
  /\ pc' = [pc EXCEPT ![w] = "write"]
  /\ UNCHANGED <<data_pipe, put, got>>

\* mvar_writer_entry: syscall_write(data_pipe).
Write(w) ==
  /\ pc[w] = "write"
  /\ data_pipe' = Append(data_pipe, w)
  /\ put' = w
  /\ pc' = [pc EXCEPT ![w] = "acquire"]
  /\ UNCHANGED <<token_pipe, got>>

\* mvar_reader_entry: syscall_read(data_pipe), and printing the value.
Take(r) ==
  /\ pc[r] = "take"
  /\ data_pipe # << >>
  /\ data_pipe' = Tail(data_pipe)
  /\ got' = Head(data_pipe)
  /\ pc' = [pc EXCEPT ![r] = "release"]
  /\ UNCHANGED <<token_pipe, put>>

\* Mutant: two tokens are given back.
ReleaseTwice(r) ==
  /\ pc[r] = "release"
  /\ token_pipe' = token_pipe + 2
  /\ pc' = [pc EXCEPT ![r] = "take"]
  /\ UNCHANGED <<data_pipe, put, got>>

\* Mutant: the reader keeps the token.
ReleaseNothing(r) ==
  /\ pc[r] = "release"
  /\ pc' = [pc EXCEPT ![r] = "take"]
  /\ UNCHANGED <<data_pipe, token_pipe, put, got>>

\* mvar_reader_entry: syscall_write(token_pipe).
Release(r) ==
  /\ pc[r] = "release"
  /\ token_pipe' = token_pipe + 1
  /\ pc' = [pc EXCEPT ![r] = "take"]
  /\ UNCHANGED <<data_pipe, put, got>>

WriterStep(w) == Acquire(w) \/ Write(w)
ReaderStep(r) == Take(r) \/ Release(r)

Next == (\E w \in Writers : WriterStep(w)) \/ (\E r \in Readers : ReaderStep(r))

Spec == Init /\ [][Next]_vars

\* Every process is scheduled, and the queue of a pipe's semaphore serves
\* whoever sleeps on it in turn (ReadersAreServed of module Pipe).
FairSpec ==
  /\ Spec
  /\ \A w \in Writers : SF_vars(Acquire(w)) /\ WF_vars(Write(w))
  /\ \A r \in Readers : SF_vars(Take(r)) /\ WF_vars(Release(r))

\* The variable is a single place: empty with its token free, or one process
\* is on its way, or one value is stored, and that is the last one written.
\* No value is overwritten before it is printed: when the place is empty the
\* last value put is the last one printed.
SinglePlace ==
  /\ token_pipe + Len(data_pipe)
       + Cardinality({p \in Writers \cup Readers : pc[p] \in {"write", "release"}}) = 1
  /\ data_pipe # << >> => data_pipe = <<put>>
  /\ token_pipe = 1 => got = put

\* Every writer gets its turn to put a value, and every reader to print one.
EverybodyServed ==
  /\ \A w \in Writers : []<>(pc[w] = "write")
  /\ \A r \in Readers : []<>(pc[r] = "release")
=============================================================================
