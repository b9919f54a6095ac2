-------------------------------- MODULE Clock --------------------------------
(***************************************************************************)
(* Sleeping: Kernel/drivers/time.c (timer_handler, wait_ticks) under the   *)
(* program loop of Userland/SampleCodeModule/shell/programs.c, which       *)
(* sleeps and prints for ever.  The shell has started one loop in the      *)
(* background, process 2, and waits for another, process 3.  Interrupt 20h *)
(* is raised by the timer and, in software, by every yield; its handler    *)
(* counts a tick either way.                                               *)
(*                                                                         *)
(* ticks only matters relative to a sleeper's target, so d.left keeps the  *)
(* difference targetTicks - ticks, down to 0.  pc[p] is "user" or a place  *)
(* in wait_ticks: "loop" (about to yield) or "read" (about to read ticks   *)
(* again).  wait_ticks enables interrupts.                                 *)
(***************************************************************************)
EXTENDS Program

Loopers == {2, 3}

SleepInit ==
  /\ k = LET k1 == CreateProcess(SwitchContext(BootKernel), MAX_PRIORITY, FALSE, FALSE)
         IN  WaitpidBlock(CreateProcess(k1, MAX_PRIORITY, TRUE, FALSE), 3)
  /\ pc = [p \in Pid |-> IF p \in Loopers THEN "user" ELSE IF p = ShellPid THEN "resume" ELSE "halt"]
  /\ \E t \in [Loopers -> 1..MaxWait] : d = [time |-> t, left |-> [p \in Loopers |-> 0]]

\* timer_handler: ticks++, whoever raised the interrupt.
TimerHandler(left) == [p \in Loopers |-> IF left[p] > 0 THEN left[p] - 1 ELSE 0]

\* IRQ 0.
SleepTick ==
  /\ Interrupt
  /\ d' = [d EXCEPT !.left = TimerHandler(@)]
  /\ UNCHANGED pc

\* The start of syscall_wait_seconds, after printing.
SysWait(p) ==
  /\ At(p, "user")
  /\ d' = [d EXCEPT !.left[p] = d.time[p]]
  /\ Goto(p, "loop")
  /\ UNCHANGED k

\* The body of wait_ticks' loop, up to the switch.
WaitYield(p) ==
  /\ At(p, "loop")
  /\ k' = Yield(k)
  /\ d' = [d EXCEPT !.left = TimerHandler(@)]
  /\ Goto(p, "read")

\* Mutant: the test of the loop is never true.
WaitForever(left) == "loop"

\* The test of the loop: where wait_ticks goes once it has read ticks.
AfterRead(left) == IF left > 0 THEN "loop" ELSE "user"

WaitRead(p) ==
  /\ At(p, "read")
  /\ Goto(p, AfterRead(d.left[p]))
  /\ UNCHANGED <<k, d>>

LoopStep(p) == SysWait(p) \/ WaitYield(p) \/ WaitRead(p)
SleepNext   == (\E p \in Loopers : LoopStep(p)) \/ SleepTick
==============================================================================
