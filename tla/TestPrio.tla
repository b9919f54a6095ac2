------------------------------ MODULE TestPrio ------------------------------
(***************************************************************************)
(* Userland/SampleCodeModule/tests/test_prio.c: process 2 runs three       *)
(* rounds of TOTAL_PROCESSES processes that count to max_value.  It leaves *)
(* their priorities alone, changes them, and changes them while the        *)
(* processes are blocked; and it waits for all of them.                    *)
(*                                                                         *)
(* d.i is the loop variable, d.value the processes' own counters.          *)
(***************************************************************************)
EXTENDS Program

PrioInit ==
  /\ Boot("create", "count")
  /\ d = [round |-> 1, i |-> 1, value |-> [i \in 1..TOTAL_PROCESSES |-> 0]]

\* prio[i]: LOWEST, MEDIUM, HIGHEST.
Prio(i) == i - 1

\* pids[i]: the children of a round have the next pids.
PidOf(i) == 2 + (d.round - 1) * TOTAL_PROCESSES + i

\* The loop at place goes on there, or the test goes on with after.
NextI(place, after) ==
  /\ d' = [d EXCEPT !.i = IF d.i < TOTAL_PROCESSES THEN d.i + 1 ELSE 1]
  /\ Goto(Test, IF d.i < TOTAL_PROCESSES THEN place ELSE after)

CreateNext ==
  /\ At(Test, "create")
  /\ k' = CreateProcess(k, MIN_PRIORITY, FALSE, FALSE)
  /\ CASE d.round = 1 -> NextI("create", "wait")
       [] d.round = 2 -> Goto(Test, "prio") /\ UNCHANGED d
       [] d.round = 3 -> Goto(Test, "block") /\ UNCHANGED d

\* syscall_block fails when the child has ended, or has no queue of its own.
BlockNew ==
  /\ At(Test, "block")
  /\ k' = BlockProcess(k, PidOf(d.i))
  /\ Goto(Test, "prio")
  /\ UNCHANGED d

SetPrio ==
  /\ At(Test, "prio")
  /\ k' = ChangePrio(k, PidOf(d.i), Prio(d.i))
  /\ NextI("create", IF d.round = 3 THEN "unblock" ELSE "wait")

\* Mutant: the last process stays blocked.
UnblockLess ==
  /\ At(Test, "unblock")
  /\ k' = IF d.i < TOTAL_PROCESSES THEN UnblockProcess(k, PidOf(d.i)) ELSE k
  /\ NextI("unblock", "wait")

UnblockNext ==
  /\ At(Test, "unblock")
  /\ k' = UnblockProcess(k, PidOf(d.i))
  /\ NextI("unblock", "wait")

\* What comes after waitpid of child i: the next child, or the next round.
Awaited ==
  IF d.i < TOTAL_PROCESSES THEN [at |-> "wait", d |-> [d EXCEPT !.i = @ + 1]]
  ELSE IF d.round < 3
       THEN [at |-> "create", d |-> [round |-> d.round + 1, i |-> 1, value |-> [j \in 1..TOTAL_PROCESSES |-> 0]]]
       ELSE [at |-> "exit", d |-> [d EXCEPT !.i = 1]]

WaitNext ==
  /\ At(Test, "wait")
  /\ AwaitChild(PidOf(d.i), Awaited.at)
  /\ d' = IF pc'[Test] = "resume" THEN d ELSE Awaited.d

WaitResume ==
  /\ At(Test, "resume")
  /\ Goto(Test, Awaited.at)
  /\ d' = Awaited.d
  /\ UNCHANGED k

\* zero_to_max.
Count(i) ==
  LET p == PidOf(i)
  IN  /\ At(p, "count")
      /\ d' = [d EXCEPT !.value[i] = @ + 1]
      /\ Goto(p, IF d.value[i] + 1 = max_value THEN "exit" ELSE "count")
      /\ UNCHANGED k

PrioChild(i) == Count(i) \/ Exit(PidOf(i))
PrioTest     == CreateNext \/ BlockNew \/ SetPrio \/ UnblockNext \/ WaitNext \/ WaitResume \/ Exit(Test)
PrioNext     == (\E i \in 1..TOTAL_PROCESSES : PrioChild(i)) \/ PrioTest \/ Tick

-----------------------------------------------------------------------------
(* Correctness.                                                             *)

\* While the test waits for a round, its children that live have the priority
\* meant for them and none of them is blocked; before it, no child of an earlier
\* round is left.
RoundIsReady ==
  program = "test_prio" =>
    /\ pc[Test] \in {"wait", "resume"} =>
         \A i \in 1..TOTAL_PROCESSES : k.pcb[PidOf(i)].state # "UNUSED" =>
           /\ k.pcb[PidOf(i)].priority = IF d.round = 1 THEN MIN_PRIORITY ELSE Prio(i)
           /\ k.pcb[PidOf(i)].state # "BLOCKED"
    /\ \A p \in 3..(PidOf(1) - 1) : k.pcb[p].state = "UNUSED"
==============================================================================
