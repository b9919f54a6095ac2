------------------------------ MODULE Lifecycle ------------------------------
(***************************************************************************)
(* The other half of Kernel/processes/scheduler.c, function by function:   *)
(* birth, death, priorities and waiting.                                   *)
(***************************************************************************)
EXTENDS Semaphores

-----------------------------------------------------------------------------
(* The ranges of the kernel's fields.                                       *)

Pcb == [state : State, parentPid : Pid \cup {NoPid}, waitingForPid : Pid \cup {NoPid},
        priority : 0..IDLE_PRIORITY, foreground : BOOLEAN,
        children_sem : SemId \cup {-1}, children_count : Int, rsp : Context]

Sem == [value : Nat, used : BOOLEAN, blocked : Seq(Pid)]

KernelState ==
  [queue : [QueueName -> Seq(Pid)], current : Pid, foreground : Pid \cup {NoPid},
   currentPid : Pid \cup {NoPid}, nextPid : Nat, quantum : Nat, first : BOOLEAN,
   cpu : Context, pcb : [Pid -> Pcb], sems : [SemId -> Sem]]

-----------------------------------------------------------------------------
FreePcb ==
  [state |-> "UNUSED", parentPid |-> NoPid, waitingForPid |-> NoPid,
   priority |-> 0, foreground |-> FALSE, children_sem |-> -1,
   children_count |-> 0, rsp |-> BootCtx]

NewPcb(p, parent, priority, fg) ==
  [state |-> "READY", parentPid |-> parent, waitingForPid |-> NoPid,
   priority |-> IF priority > IDLE_PRIORITY THEN MAX_PRIORITY ELSE priority,
   foreground |-> fg, children_sem |-> -1, children_count |-> 0, rsp |-> p]

\* The state main() leaves when it enables interrupts: startScheduler made
\* idle, createProcess made the shell, and the CPU is still on main's stack.
BootKernel ==
  [queue      |-> [q \in QueueName |-> IF q = "ready" THEN <<ShellPid>> ELSE << >>],
   current    |-> ShellPid,
   foreground |-> NoPid,
   currentPid |-> NoPid,
   nextPid    |-> ShellPid + 1,
   quantum    |-> 0,
   first      |-> TRUE,
   cpu        |-> BootCtx,
   pcb        |-> [p \in Pid |-> IF p = IdlePid THEN NewPcb(p, NoPid, IDLE_PRIORITY, FALSE)
                               ELSE IF p = ShellPid THEN NewPcb(p, IdlePid, 0, TRUE)
                               ELSE FreePcb],
   sems       |-> CreateSemaphoresManager]

\* createProcessOnPCB: the first foreground child gives its parent a semaphore
\* from the table, if one is free; a parent without one does not count.
CountForegroundChild(k0, parent) ==
  LET s  == GetFreeSemId(k0)
      k1 == IF k0.pcb[parent].children_sem = -1 /\ s >= 0
            THEN [SemInit(k0, s, 0) EXCEPT !.pcb[parent].children_sem = s]
            ELSE k0
  IN  IF k1.pcb[parent].children_sem >= 0
      THEN [k1 EXCEPT !.pcb[parent].children_count = @ + 1]
      ELSE k1

\* createProcessOnPCB for a process other than idle and the shell.  tty says
\* that the new process asks for the terminal as standard input.  (The PCB is
\* filled in before the parent's count in the code: the two do not overlap.)
CreateProcess(k0, priority, fg, tty) ==
  LET p   == k0.nextPid
      new == NewPcb(p, k0.current, priority, fg)
      k1  == IF fg /\ k0.current > 0 THEN CountForegroundChild(k0, k0.current) ELSE k0
      k2  == [k1 EXCEPT !.nextPid = @ + 1, !.pcb[p] = new]
  IN  IF ~fg /\ tty
      THEN AddToBlocked(SetState(k2, p, "BLOCKED"), p)
      ELSE IF new.priority # IDLE_PRIORITY THEN AddProcess(k2, p) ELSE k2

\* The same when the allocator has no memory left for the queue node: enqueue's
\* result is ignored, so the pid is spent, the process exists, is counted by
\* its parent and may be current at once, but is in no queue.
CreateProcessNoNode(k0, priority, fg, tty) ==
  [CreateProcess(k0, priority, fg, tty) EXCEPT !.queue = k0.queue]

\* reapCild: the PCB leaves the zombie queue and is freed.
ReapChild(k0, p) == [RemoveFromZombie(k0, p) EXCEPT !.pcb[p] = FreePcb]

\* Mutant: the parent keeps the semaphore it has closed.
UncountKeepsSem(k0, parent) ==
  LET k1 == [k0 EXCEPT !.pcb[parent].children_count = @ - 1]
      s  == k0.pcb[parent].children_sem
  IN  IF k1.pcb[parent].children_count = 0 THEN SemClose(SemPost(k1, s), s) ELSE k1

\* kill: the parent's count of foreground children, and its semaphore when
\* the last one goes.
UncountForegroundChild(k0, parent) ==
  LET k1 == [k0 EXCEPT !.pcb[parent].children_count = @ - 1]
      s  == k0.pcb[parent].children_sem
  IN  IF k1.pcb[parent].children_count = 0
      THEN [SemClose(SemPost(k1, s), s) EXCEPT !.pcb[parent].children_sem = -1]
      ELSE k1

\* Mutant: a death wakes nobody.
WakeNobody(k0, parent, child) == k0

\* wakeUpWaitingParent, without the reaping (every dead child is reaped by
\* kill, here or there).
WakeUpWaitingParent(k0, parent, child) ==
  IF /\ HasProcess(k0, parent)
     /\ k0.pcb[parent].state = "BLOCKED"
     /\ k0.pcb[parent].waitingForPid = child
  THEN UnblockProcess(k0, parent)
  ELSE k0

\* kill.  Nobody kills idle or the shell; a dead current process yields.
Kill(k0, p) ==
  LET parent == k0.pcb[p].parentPid
      k1 == KillProcess(k0, p)
      k2 == IF /\ parent > 0 /\ k0.pcb[p].foreground
               /\ HasProcess(k1, parent) /\ k1.pcb[parent].children_sem >= 0
            THEN UncountForegroundChild(k1, parent)
            ELSE k1
      k3 == ReapChild(WakeUpWaitingParent(k2, parent, p), p)
  IN  IF p <= ShellPid THEN k0
      ELSE IF ~Killable(k0, p) THEN k1
      ELSE IF p = k0.currentPid THEN Yield(k3)
      ELSE k3

ChangePrio(k0, p, newPrio) ==
  IF p <= ShellPid \/ ~HasProcess(k0, p) THEN k0
  ELSE [k0 EXCEPT !.pcb[p].priority =
          IF newPrio < MIN_PRIORITY THEN MIN_PRIORITY
          ELSE IF newPrio > MAX_PRIORITY THEN MAX_PRIORITY ELSE newPrio]

\* Mutant: anybody may wait for anybody.
MayWaitForAny(k0, p) == HasProcess(k0, p)

\* waitpid goes past its checks: the target exists and is a child of the
\* caller, or the one the caller was already waiting for.
MayWaitFor(k0, p) ==
  /\ HasProcess(k0, p)
  /\ \/ k0.pcb[p].parentPid = k0.current
     \/ k0.pcb[k0.current].waitingForPid = p

\* waitpid up to blockProcess, for a target that is not a zombie.
WaitpidBlock(k0, p) ==
  LET k1 == [k0 EXCEPT !.pcb[k0.current].waitingForPid = p,
                       !.pcb[k0.current].state = "BLOCKED"]
  IN  IF CanBlock(k0, k0.current)
      THEN BlockProcess(k1, k0.current)
      ELSE [k0 EXCEPT !.pcb[k0.current].waitingForPid = NoPid,
                      !.pcb[k0.current].state = "READY"]

\* waitpid finds a zombie: only then does it return the pid.
WaitpidReap(k0, p) == ReapChild([k0 EXCEPT !.pcb[k0.current].waitingForPid = NoPid], p)
==============================================================================
