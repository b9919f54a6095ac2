----------------------------- MODULE PipeTable -----------------------------
(***************************************************************************)
(* The table of pipes of Kernel/pipes/pipe.c: which slot an id names and   *)
(* which semaphores a pipe uses.  The bytes are in module Pipe.            *)
(*                                                                         *)
(* createPipe takes semaphore ids from a counter of its own, next_sem_id,  *)
(* while everybody else takes an entry of the same table: the first unused *)
(* one (a parent's children_sem), or one that a program chooses itself     *)
(* (test_sync).                                                            *)
(***************************************************************************)
EXTENDS Integers, FiniteSets

CONSTANTS
  MAX_PIPES,
  NUM_SEMS,
  FixedSems,     \* the ids that programs give to sem_open (test_sync: SEM_ID, 10)
  MaxCreates,    \* bound: calls of createPipe that take semaphore ids
  MaxOthers      \* bound: semaphores that others hold at a time

ASSUME TableAssumption ==
  /\ MAX_PIPES \in Nat \ {0} /\ NUM_SEMS \in Nat \ 0..2 /\ FixedSems \subseteq Nat
  /\ MaxCreates \in Nat /\ MaxOthers \in Nat

VARIABLES
  pipes,         \* pipes.pipes: isOpen and the three semaphore ids
  next_sem_id,
  used,          \* the semaphores in use
  others,        \* those among them that others took
  given,         \* the ids that createPipe returned, and are not closed
  lost           \* slots createPipe left open when it failed
table == <<pipes, next_sem_id, used, others, given, lost>>

Slot == 0..(MAX_PIPES - 1)
ClosedPipe == [isOpen |-> FALSE, semReaders |-> -1, semWriters |-> -1, mutex |-> -1]

\* createProcessOnPCB has opened the shell's pipe, the first one.
Init ==
  /\ pipes = [i \in Slot |-> IF i # 0 THEN ClosedPipe
                             ELSE [isOpen |-> TRUE, semReaders |-> 0, semWriters |-> 1, mutex |-> 2]]
  /\ next_sem_id = 3
  /\ used = 0..2 /\ others = {} /\ given = {0} /\ lost = {}

\* The id createPipe returns for a slot, and PIPE_ID_CHECK's way back.
ExportedId(i) == IF i = 0 THEN 0 ELSE i + 2

\* Mutant: ids are slots.
NoShift(id) == id

SlotOf(id) == IF id > 2 THEN id - 2 ELSE id

PipeIdCheck(id) == id >= 0 /\ id < MAX_PIPES /\ pipes[SlotOf(id)].isOpen

\* The first closed slot, for createPipe.
FirstClosed(i) == ~pipes[i].isOpen /\ \A j \in 0..(i - 1) : pipes[j].isOpen

\* semInit(id, _) >= 0
SemInitWorks(id) == id < NUM_SEMS /\ id \notin used

\* The semaphores that createPipe initialises: it stops at the first failure.
Initialised(r) ==
  IF ~SemInitWorks(r) THEN {}
  ELSE IF ~SemInitWorks(r + 1) THEN {r}
  ELSE IF ~SemInitWorks(r + 2) THEN {r, r + 1} ELSE {r, r + 1, r + 2}

CreatePipe ==
  /\ next_sem_id < 3 * MaxCreates
  /\ \E i \in Slot :
       /\ FirstClosed(i)
       /\ pipes' = [pipes EXCEPT ![i] = [isOpen     |-> TRUE,
                                         semReaders |-> next_sem_id,
                                         semWriters |-> next_sem_id + 1,
                                         mutex      |-> next_sem_id + 2]]
       /\ next_sem_id' = next_sem_id + 3
       /\ used' = used \cup Initialised(next_sem_id)
       /\ IF Cardinality(Initialised(next_sem_id)) = 3
          THEN given' = given \cup {ExportedId(i)} /\ UNCHANGED lost
          ELSE lost' = lost \cup {i} /\ UNCHANGED given
       /\ UNCHANGED others

\* pipeClose(id) returns 0: after PIPE_ID_CHECK, slots 0..2 are refused.
CloseWorks(id) == PipeIdCheck(id) /\ SlotOf(id) > 2

Sems(i) == {pipes[i].semReaders, pipes[i].semWriters, pipes[i].mutex}

\* A program closes a pipe it opened.
PipeClose(id) ==
  /\ CloseWorks(id)
  /\ pipes' = [pipes EXCEPT ![SlotOf(id)] = ClosedPipe]
  /\ used' = used \ Sems(SlotOf(id))
  /\ given' = given \ {id}
  /\ UNCHANGED <<next_sem_id, others, lost>>

\* createProcessOnPCB takes the first free semaphore for the children, kill
\* gives it back; sem_open takes the one the program names, if nobody has it,
\* and its opener closes it.
OthersTake ==
  /\ Cardinality(others) < MaxOthers
  /\ \E s \in 0..(NUM_SEMS - 1) :
       /\ s \notin used
       /\ s \in FixedSems \/ \A t \in 0..(s - 1) : t \in used
       /\ used' = used \cup {s}
       /\ others' = others \cup {s}
  /\ UNCHANGED <<pipes, next_sem_id, given, lost>>

OthersGive ==
  /\ \E s \in others : used' = used \ {s} /\ others' = others \ {s}
  /\ UNCHANGED <<pipes, next_sem_id, given, lost>>

-----------------------------------------------------------------------------
(* Correctness.                                                             *)

\* The slots of the pipes that creation reported as good.
Good == {i \in Slot : pipes[i].isOpen} \ lost

\* The pipes that creation reported as good keep apart: the semaphores of each
\* are initialised, shared with no other pipe and with nobody else who uses the
\* table; and the ids handed out, where PIPE_ID_CHECK lets them through, name
\* different ones of them, however pipes and processes come and go.
PipesKeepApart ==
  /\ \A i \in Good :
       /\ Sems(i) \subseteq used \ others
       /\ \A j \in Good \ {i} : Sems(i) \cap Sems(j) = {}
  /\ \A id \in {d \in given : d < MAX_PIPES} :
       /\ SlotOf(id) \in Good
       /\ \A other \in given \ {id} : SlotOf(other) # SlotOf(id)
=============================================================================
