------------------------------ MODULE Scheduler ------------------------------
(***************************************************************************)
(* Processes of the kernel: creation, death, waiting, blocking, priorities *)
(* and the semaphore system calls (Kernel/processes/scheduler.c and the    *)
(* process and semaphore entries of syscallDispatcher.c), driven by any    *)
(* program on the CPU, the timer and the keyboard's Ctrl-C.                *)
(*                                                                         *)
(* A system call is one step up to the point where it gives the CPU away;  *)
(* only waitpid has code after that point (action WaitpidResume).          *)
(* frame[c] says where context c is: "user" (in a program), "waitpid"      *)
(* (suspended inside waitpid, waiting for frame[c].pid) or "halt" (a hlt   *)
(* loop: idle(), main() after boot, the end of wrapper).                   *)
(***************************************************************************)
EXTENDS Lifecycle

CONSTANTS
  Prios,         \* priorities that programs pass to createProcess and nice
  UserSems,      \* semaphore ids that programs use
  InitValues,    \* initial values programs pass to sem_open
  MaxValue,      \* bound: no post when a semaphore has this value
  MaxWaiters,    \* bound: no wait when this many pids sleep on a semaphore
  Env            \* which of EnvKind the environment does

\* ctrlC        the user presses Ctrl-C
\* selfKill     a program calls kill with its own pid
\* closeBusy    a program closes a semaphore that others sleep on
\* outOfMemory  the allocator may fail: for a new process's stack or queue node,
\*              or for the node of a process about to sleep on a semaphore
\* block        programs block each other
EnvKind == {"ctrlC", "selfKill", "closeBusy", "outOfMemory", "block"}

ASSUME PriosAssumption    == Prios \subseteq Nat
ASSUME UserSemsAssumption == UserSems \subseteq SemId
ASSUME ValuesAssumption   == InitValues \subseteq Nat
ASSUME BoundsAssumption   == MaxValue \in Nat /\ MaxWaiters \in Nat
ASSUME EnvAssumption      == Env \subseteq EnvKind

VARIABLES k, frame
vars == <<k, frame>>

Where == {"user", "waitpid", "halt"}

-----------------------------------------------------------------------------
(* The machine.                                                             *)

\* Every context but the hlt loops of idle() and main() runs a program.
Init ==
  /\ k = BootKernel
  /\ frame = [c \in Context |->
                [at |-> IF c \in {IdlePid, BootCtx} THEN "halt" ELSE "user", pid |-> NoPid]]

InProgram == frame[k.cpu].at = "user"

\* Interrupts are enabled in programs and in the hlt loops.
Interruptible == frame[k.cpu].at # "waitpid"

\* IRQ 0.
TimerTick ==
  /\ Interruptible
  /\ k' = Schedule(k)
  /\ UNCHANGED frame

\* IRQ 1 with Ctrl and c: bufferWrite kills the foreground process.
CtrlC ==
  /\ "ctrlC" \in Env
  /\ Interruptible
  /\ k.foreground # NoPid
  /\ k' = Kill(k, k.foreground)
  /\ UNCHANGED frame

SysCreateProcess(priority, fg, tty) ==
  /\ InProgram
  /\ k.nextPid <= MaxPid
  /\ k' = CreateProcess(k, priority, fg, tty)
  /\ UNCHANGED frame

\* createProcessOnPCB without memory for the stack: the pid is spent.
SysCreateNoStack ==
  /\ InProgram
  /\ "outOfMemory" \in Env
  /\ k.nextPid <= MaxPid
  /\ k' = [k EXCEPT !.nextPid = @ + 1]
  /\ UNCHANGED frame

\* createProcessOnPCB without memory for the queue node of a process that it
\* queues.
SysCreateNoNode(priority, fg, tty) ==
  /\ InProgram
  /\ "outOfMemory" \in Env
  /\ k.nextPid <= MaxPid
  /\ priority # IDLE_PRIORITY \/ (~fg /\ tty)
  /\ k' = CreateProcessNoNode(k, priority, fg, tty)
  /\ UNCHANGED frame

\* wrapper: a program's function returned (or called exit); after the call
\* comes a hlt loop.  The shell's loop never ends.
SysExit ==
  /\ InProgram
  /\ k.cpu # ShellPid
  /\ k' = Kill(k, k.current)
  /\ frame' = [frame EXCEPT ![k.cpu].at = "halt"]

SysKill(p) ==
  /\ InProgram
  /\ p # k.current \/ "selfKill" \in Env
  /\ k' = Kill(k, p)
  /\ UNCHANGED frame

SysBlock(p) ==
  /\ InProgram
  /\ "block" \in Env
  /\ k' = BlockProcess(k, p)
  /\ UNCHANGED frame

SysUnblock(p) ==
  /\ InProgram
  /\ k' = UnblockProcess(k, p)
  /\ UNCHANGED frame

SysYield ==
  /\ InProgram
  /\ k' = Yield(k)
  /\ UNCHANGED frame

SysChangePrio(p, priority) ==
  /\ InProgram
  /\ k' = ChangePrio(k, p, priority)
  /\ UNCHANGED frame

\* waitpid, up to the switch; WaitpidResume is what it does when it gets the
\* CPU back.
SysWaitpid(p) ==
  /\ InProgram
  /\ MayWaitFor(k, p)
  /\ IF k.pcb[p].state = "ZOMBIE"
     THEN k' = WaitpidReap(k, p) /\ UNCHANGED frame
     ELSE /\ k' = WaitpidBlock(k, p)
          /\ frame' = IF CanBlock(k, k.current)
                      THEN [frame EXCEPT ![k.cpu] = [at |-> "waitpid", pid |-> p]]
                      ELSE frame

\* What waitpid returns when it resumes.
WaitpidResult(k0, p) ==
  IF HasProcess(k0, p) /\ k0.pcb[p].state = "ZOMBIE" THEN p ELSE -1

WaitpidResume ==
  /\ frame[k.cpu].at = "waitpid"
  /\ LET p == frame[k.cpu].pid
     IN  k' = IF WaitpidResult(k, p) = p THEN WaitpidReap(k, p) ELSE k
  /\ frame' = [frame EXCEPT ![k.cpu] = [at |-> "user", pid |-> NoPid]]

SysSemOpen(s, value) ==
  /\ InProgram
  /\ k' = SemInit(k, s, value)
  /\ UNCHANGED frame

\* Programs wait on and post to semaphores they have opened.
SysSemWait(s) ==
  /\ InProgram
  /\ k.sems[s].used
  /\ Len(k.sems[s].blocked) < MaxWaiters
  /\ k' = SemWait(k, s)
  /\ UNCHANGED frame

SysSemWaitNoNode(s) ==
  /\ InProgram
  /\ "outOfMemory" \in Env
  /\ k.sems[s].used
  /\ k.sems[s].value = 0
  /\ k' = SemWaitNoNode(k, s)
  /\ UNCHANGED frame

SysSemPost(s) ==
  /\ InProgram
  /\ k.sems[s].used
  /\ k.sems[s].value < MaxValue
  /\ k' = SemPost(k, s)
  /\ UNCHANGED frame

SysSemClose(s) ==
  /\ InProgram
  /\ k.sems[s].blocked = << >> \/ "closeBusy" \in Env
  /\ k' = SemClose(k, s)
  /\ UNCHANGED frame

Next ==
  \/ TimerTick
  \/ CtrlC
  \/ \E priority \in Prios, fg, tty \in BOOLEAN :
       SysCreateProcess(priority, fg, tty) \/ SysCreateNoNode(priority, fg, tty)
  \/ SysCreateNoStack
  \/ SysExit
  \/ \E p \in Pid : SysKill(p) \/ SysBlock(p) \/ SysUnblock(p) \/ SysWaitpid(p)
  \/ SysYield
  \/ \E p \in Pid, priority \in Prios : SysChangePrio(p, priority)
  \/ WaitpidResume
  \/ \E s \in UserSems, v \in InitValues : SysSemOpen(s, v)
  \/ \E s \in UserSems :
       SysSemWait(s) \/ SysSemWaitNoNode(s) \/ SysSemPost(s) \/ SysSemClose(s)

Spec == Init /\ [][Next]_vars

\* The timer interrupts any program and any hlt loop, and what is interrupted
\* inside waitpid continues.  A system call in between may keep the timer out
\* for a moment, so the tick needs strong fairness.
FairSpec == Spec /\ SF_vars(TimerTick) /\ WF_vars(WaitpidResume)
-----------------------------------------------------------------------------
(* Correctness.                                                             *)

\* The fields of the PCBs, of the manager and of the semaphores keep their
\* ranges, through every kernel function.
TypeOK ==
  /\ k \in KernelState
  /\ frame \in [Context -> [at : Where, pid : Pid \cup {NoPid}]]

\* A process is in at most one queue, once: what getProcess, remove and
\* killProcess, which stop at the first match, rely on, and what makes the
\* loop of getProcessInfo, which counts to processCount, end.
OneQueue ==
  \A q, r \in QueueName :
    \A i \in 1..Len(k.queue[q]), j \in 1..Len(k.queue[r]) :
      k.queue[q][i] = k.queue[r][j] => q = r /\ i = j

\* The state field of a PCB says which queue holds it.
StateMatchesQueue ==
  \A p \in Pid :
    /\ InQueue(k, "ready", p) => k.pcb[p].state \in {"READY", "RUNNING"}
    /\ InQueue(k, "blocked", p) \/ InQueue(k, "blockedBySem", p) => k.pcb[p].state = "BLOCKED"

\* Idle is never queued, and between system calls nobody is a zombie: kill
\* frees every PCB it takes out of the other queues.
NobodyUndead == k.queue["zombie"] = << >> /\ \A q \in QueueName : ~InQueue(k, q, IdlePid)

\* The queues hold each process once, as its state says.
QueueInv == OneQueue /\ StateMatchesQueue /\ NobodyUndead

\* The processes that exist in no queue, where no tick, kill, unblock or post
\* finds them.  (A process created with idle's priority is not meant to be
\* queued: createProcessOnPCB leaves it out.)
Lost(k0) ==
  {p \in Pid \ {IdlePid} :
     /\ k0.pcb[p].state # "UNUSED" /\ k0.pcb[p].priority # IDLE_PRIORITY
     /\ \A q \in QueueName : ~InQueue(k0, q, p)}

\* No operation drops a process between two queues: blocking, waking, killing,
\* switching and changing priorities lose nobody, and creation loses only the
\* process it makes, when it finds no memory for the queue node.
NobodyDropped ==
  [][Lost(k') \subseteq Lost(k) \cup (IF "outOfMemory" \in Env THEN {k.nextPid} ELSE {})]_vars

\* Every process that exists is in the one queue its state says, from its
\* creation, unless that found no memory, to its death.
QueuesHold == []QueueInv /\ NobodyDropped

\* currentProcess and foregroundProcess never point to a freed PCB: the
\* current process is idle, or ready, or one that creation made current
\* without memory to queue it; the foreground one is queued somewhere.
NoDanglingPointer ==
  /\ k.current = IdlePid \/ InQueue(k, "ready", k.current) \/ k.current \in Lost(k)
  /\ k.foreground = NoPid \/ \E q \in QueueName : InQueue(k, q, k.foreground)

\* A semaphore with units has nobody asleep on it (post never leaves a unit
\* behind while somebody waits).
NoUnitWhileAsleep == \A s \in SemId : k.sems[s].value > 0 => k.sems[s].blocked = << >>

\* Whoever sleeps in a semaphore's queue and is alive is in blockedBySem, and
\* nobody is queued twice: post wakes exactly the process it takes out.  (A
\* lost process that waits enters the semaphore's queue and does not sleep.)
SleepersAreBlocked ==
  \A s, t \in SemId :
    \A i \in 1..Len(k.sems[s].blocked), j \in 1..Len(k.sems[t].blocked) :
      LET p == k.sems[s].blocked[i]
      IN  k.pcb[p].state \notin {"UNUSED", "ZOMBIE"} /\ p # IdlePid /\ p \notin Lost(k)
            => /\ InQueue(k, "blockedBySem", p)
               /\ p = k.sems[t].blocked[j] => s = t /\ i = j

\* Everybody in blockedBySem is in the queue of a semaphore in use, so that
\* some post can wake it.
EverySleeperCanWake ==
  \A p \in Pid : InQueue(k, "blockedBySem", p) =>
    \E s \in SemId : k.sems[s].used /\ \E i \in 1..Len(k.sems[s].blocked) : k.sems[s].blocked[i] = p

\* A process suspended inside waitpid for a process that is alive is recorded
\* as its waiter and is its parent: wakeUpWaitingParent will find it.
WaiterWillBeFound ==
  \A p \in Pid \ {IdlePid} :
    LET f == frame[p]
    IN  k.pcb[p].state # "UNUSED" /\ f.at = "waitpid" /\ k.pcb[f.pid].state # "UNUSED"
          => k.pcb[p].waitingForPid = f.pid /\ k.pcb[f.pid].parentPid = p

ForegroundChildren(p) ==
  {c \in Pid : k.pcb[c].state # "UNUSED" /\ k.pcb[c].parentPid = p /\ k.pcb[c].foreground}

\* children_sem and children_count follow the foreground children: a parent
\* holds a semaphore of its own exactly while it has some, and the count is
\* their number.  (Idle never holds one.)
ChildrenCounted ==
  \A p \in Pid \ {IdlePid} : k.pcb[p].state # "UNUSED" =>
    LET s == k.pcb[p].children_sem
    IN  /\ k.pcb[p].children_count = Cardinality(ForegroundChildren(p))
        /\ s >= 0 <=> ForegroundChildren(p) # {}
        /\ s >= 0 => /\ k.sems[s].used
                     /\ \A r \in Pid \ {p} : k.pcb[r].children_sem # s

\* Whoever is ready keeps its place in line: no step moves a process that
\* stays ready back, except the one that dispatches it.
NeverOvertaken ==
  [][\A p \in Pid : InQueue(k, "ready", p) /\ InQueue(k', "ready", p) /\ k'.current # p =>
       FirstIndex(k'.queue["ready"], p) <= FirstIndex(k.queue["ready"], p)]_vars

\* Every ready process gets the CPU, or stops being ready: round robin does
\* not starve anybody, whatever the priorities and the system calls in between.
ReadyIsDispatched ==
  \A p \in Pid \ {IdlePid} :
    InQueue(k, "ready", p) ~> (k.current = p \/ ~InQueue(k, "ready", p))

\* A process suspended in waitpid returns from it once its child is dead, or
\* is killed first (when programs do not block each other).
WaiterReturns ==
  \A p \in Pid \ {IdlePid}, c \in Pid :
    (frame[p] = [at |-> "waitpid", pid |-> c] /\ k.pcb[c].state = "UNUSED")
      ~> (frame[p].at # "waitpid" \/ k.pcb[p].state = "UNUSED")
=============================================================================
