------------------------------ MODULE TestSync ------------------------------
(***************************************************************************)
(* The kernel's synchronisation test,                                      *)
(* Userland/SampleCodeModule/tests/test_sync.c: process 2 opens a          *)
(* semaphore, starts PAIRS processes that decrement a shared variable and  *)
(* PAIRS that increment it, waits for all of them, closes the semaphore    *)
(* and prints the variable.                                                *)
(*                                                                         *)
(* d has the shared variable, the test's second argument and, per process, *)
(* the local copy and the iterations done.                                 *)
(***************************************************************************)
EXTENDS Program

Last     == 2 + 2 * PAIRS
Children == 3..Last

\* my_process_inc is started in pairs, the decrementing process first.
Inc(p) == IF p % 2 = 1 THEN -1 ELSE 1

SyncInit ==
  /\ Boot("open", "enter")
  /\ \E u \in UseSem : d = [aux     |-> [p \in Children |-> 0],
                             count   |-> [p \in {Test} \cup Children |-> 0],
                             global  |-> 0,
                             use_sem |-> u]

-----------------------------------------------------------------------------
(* my_process_inc, statement by statement.                                  *)

\* Mutant: the semaphore is not taken.
EnterFreely(p) ==
  /\ At(p, "enter")
  /\ Goto(p, "load")
  /\ UNCHANGED <<k, d>>

Enter(p) ==
  /\ At(p, "enter")
  /\ k' = IF d.use_sem THEN SemWait(k, SEM_ID) ELSE k
  /\ Goto(p, "load")
  /\ UNCHANGED d

Load(p) ==
  /\ At(p, "load")
  /\ d' = [d EXCEPT !.aux[p] = d.global]
  /\ Goto(p, "store")
  /\ UNCHANGED k

\* slowInc yields at random between reading and writing.
SlowYield(p) ==
  /\ At(p, "store")
  /\ k' = Yield(k)
  /\ UNCHANGED <<pc, d>>

Store(p) ==
  /\ At(p, "store")
  /\ d' = [d EXCEPT !.global = d.aux[p] + Inc(p), !.aux[p] = 0]
  /\ Goto(p, "leave")
  /\ UNCHANGED k

Leave(p) ==
  /\ At(p, "leave")
  /\ k' = IF d.use_sem THEN SemPost(k, SEM_ID) ELSE k
  /\ d' = [d EXCEPT !.count[p] = @ + 1]
  /\ Goto(p, IF d.count[p] + 1 < N THEN "enter" ELSE "exit")

-----------------------------------------------------------------------------
(* test_sync.  d.count[Test] is its loop variable.                          *)

Open ==
  /\ At(Test, "open")
  /\ k' = IF d.use_sem THEN SemInit(k, SEM_ID, 1) ELSE k
  /\ Goto(Test, "spawn")
  /\ UNCHANGED d

\* A child: priority 1, in background, no standard input.
Spawn ==
  /\ At(Test, "spawn")
  /\ IF k.nextPid <= Last
     THEN k' = CreateProcess(k, 1, FALSE, FALSE) /\ UNCHANGED pc
     ELSE Goto(Test, "join") /\ UNCHANGED k
  /\ UNCHANGED d

\* The child that is waited for next: the pids in the order of their birth.
Joining == 3 + d.count[Test]

\* Mutant: the last child is not waited for.
JoinLess == IF Joining < Last THEN "join" ELSE "close"

\* What follows the waitpid of the child in turn.
AfterJoin == IF Joining <= Last THEN "join" ELSE "close"

\* waitpid of each child in turn.
Join ==
  /\ At(Test, "join")
  /\ IF AfterJoin = "close"
     THEN Goto(Test, "close") /\ UNCHANGED <<k, d>>
     ELSE /\ AwaitChild(Joining, "join")
          /\ d' = IF pc'[Test] = "resume" THEN d ELSE [d EXCEPT !.count[Test] = @ + 1]

JoinResume ==
  /\ At(Test, "resume")
  /\ d' = [d EXCEPT !.count[Test] = @ + 1]
  /\ Goto(Test, "join")
  /\ UNCHANGED k

Close ==
  /\ At(Test, "close")
  /\ k' = IF d.use_sem THEN SemClose(k, SEM_ID) ELSE k
  /\ Goto(Test, "exit")
  /\ UNCHANGED d

SyncChild(p) == Enter(p) \/ Load(p) \/ Store(p) \/ Leave(p) \/ Exit(p)
SyncTest     == Open \/ Spawn \/ Join \/ JoinResume \/ Close \/ Exit(Test)
SyncNext     == (\E p \in Children : SyncChild(p) \/ SlowYield(p)) \/ SyncTest \/ Tick

-----------------------------------------------------------------------------
(* Correctness.                                                             *)

Inside(p) == pc[p] \in {"load", "store", "leave"} /\ ~InQueue(k, "blockedBySem", p)

\* With the semaphore, one process at a time is between reading and writing
\* the shared variable, and a process that a post has woken counts as inside:
\* the unit is handed over.
MutualExclusion ==
  program = "test_sync" /\ d.use_sem => \A p, r \in Children : Inside(p) /\ Inside(r) => p = r

\* test_sync closes the semaphore after every process has ended, whichever
\* ended first and whether it was waited for before or after its death; and
\* with the semaphore it then prints 0.
EndsWithZero ==
  program = "test_sync" /\ pc[Test] \in {"close", "exit", "halt"} =>
    /\ \A p \in Children : k.pcb[p].state = "UNUSED" /\ d.count[p] = N
    /\ k.sems[SEM_ID].blocked = << >>
    /\ d.use_sem => d.global = 0
=============================================================================
