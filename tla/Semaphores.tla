----------------------------- MODULE Semaphores -----------------------------
(***************************************************************************)
(* Kernel/semaphores/semaphore.c: a table of counting semaphores, each     *)
(* with a queue of the pids that sleep on it.  The spin lock inside sem_t  *)
(* is not modelled: it is taken and released with interrupts off on a      *)
(* single core, so it is never found held.                                 *)
(*                                                                         *)
(* k.sems[s] is [value, used, blocked]; blocked is empty while the entry   *)
(* is unused, since semClose frees the queue and semInit builds a new one. *)
(***************************************************************************)
EXTENDS Dispatcher

CONSTANT NUM_SEMS       \* entries of the table

ASSUME NumSemsAssumption == NUM_SEMS \in Nat

SemId == 0..(NUM_SEMS - 1)

UnusedSem == [value |-> 0, used |-> FALSE, blocked |-> << >>]

CreateSemaphoresManager == [s \in SemId |-> UnusedSem]

\* semInit: no change when the entry is in use (it returns -1).
SemInit(k, s, value) ==
  IF k.sems[s].used
  THEN k
  ELSE [k EXCEPT !.sems[s] = [value |-> value, used |-> TRUE, blocked |-> << >>]]

\* semClose: the queue is freed with whoever is still in it.
SemClose(k, s) == IF k.sems[s].used THEN [k EXCEPT !.sems[s] = UnusedSem] ELSE k

\* getFreeSemId: the smallest unused index, or -1.
GetFreeSemId(k) ==
  IF \A s \in SemId : k.sems[s].used
  THEN -1
  ELSE CHOOSE s \in SemId : /\ ~k.sems[s].used
                            /\ \A t \in 0..(s - 1) : k.sems[t].used

\* Mutant: the unit is taken before the test.
SemWaitTakesFirst(k, s) ==
  LET k1 == [k EXCEPT !.sems[s].value = @ - 1]
  IN  IF k.sems[s].value > 0 THEN k1
      ELSE BlockProcessBySem([k1 EXCEPT !.sems[s].blocked = Append(@, k.current)], k.current)

\* wait: take a unit, or go to sleep in the semaphore's queue.  The caller is
\* whoever the kernel believes is current, and a caller that is not in the
\* ready queue (idle) is queued and returns at once.
SemWait(k, s) ==
  IF k.sems[s].value > 0
  THEN [k EXCEPT !.sems[s].value = @ - 1]
  ELSE BlockProcessBySem([k EXCEPT !.sems[s].blocked = Append(@, k.current)], k.current)

\* wait when the queue node cannot be allocated: enqueue's result is ignored
\* and the process sleeps without being in the queue.
SemWaitNoNode(k, s) == BlockProcessBySem(k, k.current)

\* Mutants: post adds a unit whoever sleeps; post drops the first sleeper.
SemPostAlwaysAdds(k, s) == [k EXCEPT !.sems[s].value = @ + 1]
SemPostForgets(k, s) ==
  IF k.sems[s].blocked # << >>
  THEN [k EXCEPT !.sems[s].blocked = Tail(@)] ELSE SemPostAlwaysAdds(k, s)

\* post: wake the first sleeper, or leave a unit when nobody sleeps.
SemPost(k, s) ==
  IF k.sems[s].blocked # << >>
  THEN UnblockProcessBySem([k EXCEPT !.sems[s].blocked = Tail(@)],
                           Head(k.sems[s].blocked))
  ELSE [k EXCEPT !.sems[s].value = @ + 1]
=============================================================================
