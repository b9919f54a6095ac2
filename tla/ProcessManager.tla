--------------------------- MODULE ProcessManager ---------------------------
(***************************************************************************)
(* The process manager of Kernel/processes/process.c: the four queues that *)
(* hold every process, the process the kernel believes is running, and the *)
(* foreground process.                                                     *)
(*                                                                         *)
(* The kernel is single-core and a system call runs with interrupts off,   *)
(* so a C function that changes kernel state is an operator from a kernel  *)
(* state to a kernel state, and a handler is the composition of the        *)
(* functions it calls.  A kernel state k is a record:                      *)
(*                                                                         *)
(*   queue       one sequence of pids per queue of ProcessManagerCDT       *)
(*   current     pm->currentProcess (a pid; idle is 0)                     *)
(*   foreground  pm->foregroundProcess (a pid, or NoPid for NULL)          *)
(*   currentPid, nextPid, quantum, first   the statics of scheduler.c      *)
(*   cpu         the execution context whose stack the CPU is running on   *)
(*   pcb         the PCBs, by pid; state UNUSED before the PCB exists and  *)
(*               after it has been freed                                   *)
(*   sems        the semaphore table (module Semaphores)                   *)
(*                                                                         *)
(* An execution context is a suspended or running stack; rsp names it.     *)
(* Context p is the one built for process p by setUpStackFrame, context 0  *)
(* idle's loop, BootCtx the one kernel main() was running on.              *)
(***************************************************************************)
EXTENDS Integers, Sequences, FiniteSets

CONSTANT MaxPid     \* bound: pids 0..MaxPid are handed out (nextPid is int32)

\* pid 0 is idle and pid 1 the shell; the bound leaves room for both.
ASSUME MaxPidAssumption == MaxPid \in Nat /\ MaxPid >= 1

Pid      == 0..MaxPid
IdlePid  == 0
ShellPid == 1
NoPid    == -1
BootCtx  == -1
Context  == Pid \cup {BootCtx}

QueueName == {"ready", "blocked", "blockedBySem", "zombie"}

\* enum State of shared_structs.h; UNUSED stands for "no PCB".
State == {"UNUSED", "READY", "RUNNING", "BLOCKED", "ZOMBIE"}

-----------------------------------------------------------------------------
(* The queue operations the process manager uses (dataStructures/queue.c).  *)
(* A node unlinked from one queue is freed just before one of the same size *)
(* is allocated for the next, with interrupts off: moving a process never   *)
(* lacks memory.  Only a new process can (CreateProcessNoNode).             *)

\* containsQueue(queue, &pid, hasPid) # NULL
InQueue(k, q, p) == \E i \in 1..Len(k.queue[q]) : k.queue[q][i] = p

\* The position of the first node whose pid is p (the loop of remove()).
FirstIndex(s, p) ==
  CHOOSE i \in 1..Len(s) : s[i] = p /\ \A j \in 1..(i - 1) : s[j] # p

\* remove(queue, &pid, hasPid): unlink the first match, if there is one.
RemovePid(s, p) ==
  IF \E i \in 1..Len(s) : s[i] = p
  THEN LET n == FirstIndex(s, p)
       IN  [j \in 1..(Len(s) - 1) |-> IF j < n THEN s[j] ELSE s[j + 1]]
  ELSE s

\* Mutant: new nodes go to the front.
EnqueueFront(k, q, p) == [k EXCEPT !.queue[q] = <<p>> \o @]

Enqueue(k, q, p) == [k EXCEPT !.queue[q] = Append(@, p)]

\* Mutant: the pid stays in the queue it comes from.
CopyBetweenQueues(k, from, to, p) == IF InQueue(k, from, p) THEN Enqueue(k, to, p) ELSE k

\* Mutant: the pid leaves its queue and enters no other.
DropBetweenQueues(k, from, to, p) == [k EXCEPT !.queue[from] = RemovePid(@, p)]

\* switchProcessFromQueues: no change when pid is not in queueFrom.
SwitchProcessFromQueues(k, from, to, p) ==
  IF InQueue(k, from, p)
  THEN Enqueue([k EXCEPT !.queue[from] = RemovePid(@, p)], to, p)
  ELSE k

SetState(k, p, s) == [k EXCEPT !.pcb[p].state = s]

-----------------------------------------------------------------------------
(* process.c, function by function.                                         *)

\* getProcess(pm, pid) # NULL
HasProcess(k, p) ==
  \/ \E q \in QueueName : InQueue(k, q, p)
  \/ p = k.current
  \/ p = IdlePid

\* addProcess: a process added while idle is current becomes current at once,
\* whether or not it could be queued.
AddProcess(k, p) ==
  Enqueue([k EXCEPT !.current = IF @ = IdlePid THEN p ELSE @], "ready", p)

AddToBlocked(k, p) == Enqueue(k, "blocked", p)

RemoveFromZombie(k, p) == [k EXCEPT !.queue["zombie"] = RemovePid(@, p)]

\* blockProcessQueue returns 0 exactly when this holds.
CanBlock(k, p) == ~InQueue(k, "blockedBySem", p) /\ InQueue(k, "ready", p)

BlockProcessQueue(k, p) ==
  IF CanBlock(k, p)
  THEN SetState(SwitchProcessFromQueues(k, "ready", "blocked", p), p, "BLOCKED")
  ELSE k

BlockProcessQueueBySem(k, p) ==
  IF InQueue(k, "ready", p)
  THEN SetState(SwitchProcessFromQueues(k, "ready", "blockedBySem", p), p, "BLOCKED")
  ELSE k

\* Mutant: unblock also wakes a process that sleeps on a semaphore.
UnblockAnybody(k, p) ==
  SetState(SwitchProcessFromQueues(
             SwitchProcessFromQueues(k, "blocked", "ready", p), "blockedBySem", "ready", p),
           p, IF InQueue(k, "blocked", p) \/ InQueue(k, "blockedBySem", p)
              THEN "READY" ELSE k.pcb[p].state)

UnblockProcessQueue(k, p) ==
  IF InQueue(k, "blocked", p)
  THEN SetState(SwitchProcessFromQueues(k, "blocked", "ready", p), p, "READY")
  ELSE k

UnblockProcessQueueBySem(k, p) ==
  IF InQueue(k, "blockedBySem", p)
  THEN SetState(SwitchProcessFromQueues(k, "blockedBySem", "ready", p), p, "READY")
  ELSE k

\* Mutant: the head of the ready queue runs and stays at the head.
GetNextStaysAtHead(k) ==
  [k EXCEPT !.current = IF k.queue["ready"] = << >> THEN IdlePid ELSE Head(k.queue["ready"])]

\* getNextProcess: the head of the ready queue goes to its tail and becomes
\* current (and foreground, if it is a foreground process); idle when empty.
GetNextProcess(k) ==
  IF k.queue["ready"] = << >>
  THEN [k EXCEPT !.current = IdlePid]
  ELSE LET p == Head(k.queue["ready"])
       IN  [k EXCEPT !.queue["ready"] = Append(Tail(@), p),
                     !.current = p,
                     !.foreground = IF k.pcb[p].foreground THEN p ELSE @]

\* killProcess looks for pid in these queues, in this order, never in zombie.
Killable(k, p) == \E q \in QueueName \ {"zombie"} : InQueue(k, q, p)

\* Mutant: only the ready queue is searched.
KillFromReady(k, p) == "ready"

QueueToKillFrom(k, p) ==
  IF InQueue(k, "ready", p) THEN "ready"
  ELSE IF InQueue(k, "blocked", p) THEN "blocked" ELSE "blockedBySem"

\* Mutant: the foreground pointer survives.
KillProcessKeepsForeground(k, p) ==
  LET k1 == [k EXCEPT !.current = IF @ = p THEN IdlePid ELSE @]
  IN  IF Killable(k1, p)
      THEN SetState(SwitchProcessFromQueues(k1, QueueToKillFrom(k1, p), "zombie", p), p, "ZOMBIE")
      ELSE k1

\* killProcess: the current process is replaced by idle before the queues are
\* searched; the foreground pointer and the state only change on success.
KillProcess(k, p) ==
  LET k1 == [k EXCEPT !.current = IF @ = p THEN IdlePid ELSE @]
      k2 == SwitchProcessFromQueues(k1, QueueToKillFrom(k1, p), "zombie", p)
  IN  IF Killable(k1, p)
      THEN SetState([k2 EXCEPT !.foreground = IF @ = p THEN NoPid ELSE @], p, "ZOMBIE")
      ELSE k1
=============================================================================
