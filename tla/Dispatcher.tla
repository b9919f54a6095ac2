----------------------------- MODULE Dispatcher -----------------------------
(***************************************************************************)
(* The timer-driven half of Kernel/processes/scheduler.c: the quantum, the *)
(* context switch, and blocking and unblocking on top of the queues of     *)
(* ProcessManager.                                                         *)
(***************************************************************************)
EXTENDS ProcessManager

CONSTANTS
  QUANTUM,        \* ticks given to a process of the largest priority number
  MAX_PRIORITY    \* user priorities are 0..MAX_PRIORITY

ASSUME QuantumAssumption  == QUANTUM \in Nat \ {0}
ASSUME PriorityAssumption == MAX_PRIORITY \in Nat

MIN_PRIORITY  == 0
IDLE_PRIORITY == MAX_PRIORITY + 1

CalculateQuantum(priority) ==
  IF priority = IDLE_PRIORITY THEN QUANTUM
                              ELSE QUANTUM * (MAX_PRIORITY - priority + 1)

\* The part of schedule() that hands the CPU to the next process.  The very
\* first switch leaves the boot stack behind instead of saving it.
SwitchContext(k) ==
  LET k1 == [k EXCEPT !.pcb[k.current].rsp = IF k.first THEN @ ELSE k.cpu,
                      !.pcb[k.current].state = IF @ = "RUNNING" THEN "READY" ELSE @]
      k2 == GetNextProcess(k1)
      n  == k2.current
  IN  [k2 EXCEPT !.pcb[n].state = "RUNNING",
                 !.first        = FALSE,
                 !.currentPid   = n,
                 !.quantum      = CalculateQuantum(k2.pcb[n].priority),
                 !.cpu          = k2.pcb[n].rsp]

\* schedule(rsp), the body of the timer interrupt.
Schedule(k) ==
  IF k.quantum > 0 /\ k.pcb[k.current].state = "RUNNING"
  THEN [k EXCEPT !.quantum = @ - 1]
  ELSE SwitchContext(k)

\* yield(): a software timer interrupt with the quantum used up.
Yield(k) == Schedule([k EXCEPT !.quantum = 0])

BlockProcess(k, p) ==
  LET k1 == BlockProcessQueue(k, p)
  IN  IF CanBlock(k, p) /\ p = k1.current THEN Yield(k1) ELSE k1

BlockProcessBySem(k, p) ==
  LET k1 == BlockProcessQueueBySem(k, p)
  IN  IF InQueue(k, "ready", p) /\ p = k1.current THEN Yield(k1) ELSE k1

UnblockProcess(k, p) == UnblockProcessQueue(k, p)

UnblockProcessBySem(k, p) == UnblockProcessQueueBySem(k, p)
=============================================================================
