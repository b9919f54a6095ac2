--------------------------- MODULE SchedulerProofs ---------------------------
(***************************************************************************)
(* Proofs that the process manager, the scheduler and the semaphore table  *)
(* keep their invariants for any number of processes and semaphores, any   *)
(* quantum and priorities, and in any environment (Ctrl-C, self-kill,      *)
(* semaphores closed under their sleepers, allocation failures).  Three    *)
(* theorems restrict the environment, each as its statement says.          *)
(*                                                                         *)
(* The step lemma of an action cites the lemma of KernelProofs about the   *)
(* kernel function it runs.                                                *)
(***************************************************************************)
EXTENDS Scheduler, KernelProofs, FiniteSetTheorems

-----------------------------------------------------------------------------
(* The inductive invariant and the theorems.                                *)

FrameOK ==
  /\ frame \in [Context -> [at : Where, pid : Pid \cup {NoPid}]]
  /\ \A c \in Context : frame[c].at = "waitpid" => frame[c].pid \in Pid

\* QueuesHold, NoDanglingPointer, NoUnitWhileAsleep and SleepersAreBlocked hold
\* together or not at all: the queues stay disjoint because the current process
\* is idle, ready or lost and pids are fresh, and a post wakes one process
\* because sleepers are queued once.
IInv ==
  /\ WF(k, Lost(k))
  /\ CurOK(k, Lost(k))
  /\ Sleepers(k, Lost(k))
  /\ NoZombies(k)
  /\ FrameOK
  /\ "outOfMemory" \notin Env => Lost(k) = {}

\* A creation that finds no memory for the queue node.
CreatesNoNode ==
  \E priority \in Prios, fg \in BOOLEAN, tty \in BOOLEAN : SysCreateNoNode(priority, fg, tty)

\* The lost processes stay the same, or such a creation adds the one it makes.
Kept ==
  \/ Lost(k') = Lost(k)
  \/ CreatesNoNode /\ Lost(k') \subseteq Lost(k) \cup {k.nextPid}

\* The set that a well-formed state names is the set of its lost processes.
LEMMA LostSet ==
  ASSUME NEW lost, NEW k0, WF(k0, lost)
  PROVE  lost = Lost(k0)
<1>1. \A p \in Pid : Queued(k0, p) <=> ~(\A q \in QueueName : ~InQueue(k0, q, p))
  BY DEF Queued
<1>2. QED
  BY <1>1 DEF WF, Strays, Lost

\* The kernel that main() leaves behind satisfies the inductive invariant.
LEMMA InitInv == Init => IInv
<1> SUFFICES ASSUME Init PROVE IInv
  OBVIOUS
<1>1. WF(k, {}) /\ CurOK(k, {}) /\ NoZombies(k) /\ Sleepers(k, {})
  BY BootFact DEF Init
<1>2. Lost(k) = {}
  BY <1>1, LostSet
<1>3. FrameOK
  BY DEF Init, FrameOK, Where
<1>4. QED
  BY <1>1, <1>2, <1>3 DEF IInv

\* A step of the kernel that leaves a sound state with the same lost processes,
\* and a frame in order.
LEMMA SoundStep ==
  ASSUME IInv, Sound(k, k', Lost(k)), FrameOK'
  PROVE  IInv' /\ Kept
<1>1. Lost(k') = Lost(k)
  BY LostSet DEF Sound
<1>2. QED
  BY <1>1 DEF IInv, Kept, Sound, NoZombies

\* The step that may lose a process.
LEMMA NoNodeStep ==
  ASSUME IInv, NEW priority \in Prios, NEW fg \in BOOLEAN, NEW tty \in BOOLEAN,
         SysCreateNoNode(priority, fg, tty), FrameOK'
  PROVE  IInv' /\ Kept
<1>1. /\ WF(k, Lost(k)) /\ CurOK(k, Lost(k)) /\ Sleepers(k, Lost(k)) /\ NoZombies(k)
      /\ priority \in Nat
  BY PriosAssumption DEF IInv
<1>2. /\ k' = CreateProcessNoNode(k, priority, fg, tty)
      /\ "outOfMemory" \in Env /\ k.nextPid <= MaxPid
  BY DEF SysCreateNoNode
<1>3. PICK left : /\ left \subseteq Lost(k) \cup {k.nextPid}
                  /\ WF(k', left) /\ CurOK(k', left) /\ k'.queue = k.queue
                  /\ Sleepers(k, Lost(k)) => Sleepers(k', left)
  BY <1>1, <1>2, NoNodeFact
<1>4. Lost(k') = left
  BY <1>3, LostSet
<1>5. NoZombies(k')
  BY <1>1, <1>3 DEF NoZombies, InQueue
<1>6. QED
  BY <1>1, <1>2, <1>3, <1>4, <1>5 DEF IInv, Kept, CreatesNoNode

\* Every system call, interrupt and resumption preserves the inductive
\* invariant and loses at most a process that it makes.
LEMMA StepInv == IInv /\ [Next]_vars => IInv' /\ Kept
<1> SUFFICES ASSUME IInv, [Next]_vars PROVE IInv' /\ Kept
  OBVIOUS
<1>1. /\ WF(k, Lost(k)) /\ CurOK(k, Lost(k)) /\ Sleepers(k, Lost(k)) /\ NoZombies(k) /\ FrameOK
      /\ k.cpu \in Context /\ k.current \in Pid /\ k.foreground \in Pid \cup {NoPid}
  BY DEF IInv, WF, KernelState
<1>2. UNCHANGED frame => FrameOK'
  BY <1>1 DEF FrameOK
<1>3. \A k1 : Steps(k, k1, Lost(k)) => Sound(k, k1, Lost(k))
  BY <1>1, StepsSound
<1>4. Sound(k, k, Lost(k))
  BY <1>1 DEF Sound
<1>5. CASE TimerTick
  <2>1. Steps(k, Schedule(k), Lost(k))
    BY <1>1, ScheduleFact, KeepsQuietSteps
  <2>2. QED
    BY <1>2, <1>3, <1>5, <2>1, SoundStep DEF TimerTick
<1>6. CASE CtrlC
  <2>1. Sound(k, Kill(k, k.foreground), Lost(k))
    BY <1>1, <1>6, KillFact DEF CtrlC
  <2>2. QED
    BY <1>2, <1>6, <2>1, SoundStep DEF CtrlC
<1>7. CASE \E priority \in Prios, fg, tty \in BOOLEAN :
             SysCreateProcess(priority, fg, tty) \/ SysCreateNoNode(priority, fg, tty)
  <2>1. PICK priority \in Prios, fg \in BOOLEAN, tty \in BOOLEAN :
               SysCreateProcess(priority, fg, tty) \/ SysCreateNoNode(priority, fg, tty)
    BY <1>7
  <2>2. priority \in Nat
    BY PriosAssumption
  <2>3. CASE SysCreateProcess(priority, fg, tty)
    <3>1. Sound(k, CreateProcess(k, priority, fg, tty), Lost(k))
      BY <1>1, <2>2, <2>3, CreateFact DEF SysCreateProcess
    <3>2. QED
      BY <1>2, <2>3, <3>1, SoundStep DEF SysCreateProcess
  <2>4. CASE SysCreateNoNode(priority, fg, tty)
    <3>1. UNCHANGED frame
      BY <2>4 DEF SysCreateNoNode
    <3>2. QED
      BY <1>2, <2>4, <3>1, NoNodeStep
  <2>5. QED
    BY <2>1, <2>3, <2>4
<1>8. CASE SysCreateNoStack
  <2>1. Sound(k, k', Lost(k))
    BY <1>1, <1>8, NoStackFact DEF SysCreateNoStack
  <2>2. QED
    BY <1>2, <1>8, <2>1, SoundStep DEF SysCreateNoStack
<1>9. CASE SysExit
  <2>1. Sound(k, Kill(k, k.current), Lost(k))
    BY <1>1, KillFact
  <2>2. FrameOK'
    BY <1>1, <1>9 DEF SysExit, FrameOK, Where
  <2>3. QED
    BY <1>9, <2>1, <2>2, SoundStep DEF SysExit
<1>10. CASE \E p \in Pid : SysKill(p) \/ SysBlock(p) \/ SysUnblock(p) \/ SysWaitpid(p)
  <2>1. PICK p \in Pid : SysKill(p) \/ SysBlock(p) \/ SysUnblock(p) \/ SysWaitpid(p)
    BY <1>10
  <2>2. CASE SysKill(p)
    BY <1>1, <1>2, <2>2, KillFact, SoundStep DEF SysKill
  <2>3. CASE SysBlock(p)
    <3>1. Steps(k, BlockProcess(k, p), Lost(k))
      BY <1>1, BlockFact, KeepsQuietSteps
    <3>2. QED
      BY <1>2, <1>3, <2>3, <3>1, SoundStep DEF SysBlock
  <2>4. CASE SysUnblock(p)
    <3>1. Steps(k, UnblockProcess(k, p), Lost(k))
      BY <1>1, BlockFact, KeepsQuietSteps
    <3>2. QED
      BY <1>2, <1>3, <2>4, <3>1, SoundStep DEF SysUnblock
  <2>5. CASE SysWaitpid(p)
    <3>1. CASE k.pcb[p].state = "ZOMBIE"
      <4>1. Sound(k, WaitpidReap(k, p), Lost(k))
        BY <1>1, <2>5, <3>1, WaitpidReapFact DEF SysWaitpid, MayWaitFor
      <4>2. k' = WaitpidReap(k, p) /\ UNCHANGED frame
        BY <2>5, <3>1 DEF SysWaitpid
      <4>3. QED
        BY <1>2, <4>1, <4>2, SoundStep
    <3>2. CASE k.pcb[p].state # "ZOMBIE"
      <4>1. Sound(k, WaitpidBlock(k, p), Lost(k))
        BY <1>1, WaitpidBlockFact
      <4>2. /\ k' = WaitpidBlock(k, p)
            /\ frame' = IF CanBlock(k, k.current)
                        THEN [frame EXCEPT ![k.cpu] = [at |-> "waitpid", pid |-> p]] ELSE frame
        BY <2>5, <3>2 DEF SysWaitpid
      <4>3. FrameOK'
        BY <1>1, <4>2 DEF FrameOK, Where
      <4>4. QED
        BY <4>1, <4>2, <4>3, SoundStep
    <3>3. QED
      BY <3>1, <3>2
  <2>6. QED
    BY <2>1, <2>2, <2>3, <2>4, <2>5
<1>11. CASE SysYield
  <2>1. Steps(k, Yield(k), Lost(k))
    BY <1>1, ScheduleFact, KeepsQuietSteps
  <2>2. QED
    BY <1>2, <1>3, <1>11, <2>1, SoundStep DEF SysYield
<1>12. CASE \E p \in Pid, priority \in Prios : SysChangePrio(p, priority)
  <2>1. PICK p \in Pid, priority \in Prios : SysChangePrio(p, priority)
    BY <1>12
  <2>2. priority \in Nat
    BY PriosAssumption
  <2>3. Sound(k, ChangePrio(k, p, priority), Lost(k))
    BY <1>1, <2>2, ChangePrioFact
  <2>4. QED
    BY <1>2, <2>1, <2>3, SoundStep DEF SysChangePrio
<1>13. CASE WaitpidResume
  <2> DEFINE p == frame[k.cpu].pid
  <2>1. p \in Pid
    BY <1>1, <1>13 DEF WaitpidResume, FrameOK
  <2>2. k' = IF WaitpidResult(k, p) = p THEN WaitpidReap(k, p) ELSE k
    BY <1>13 DEF WaitpidResume
  <2>3. FrameOK'
    BY <1>1, <1>13 DEF WaitpidResume, FrameOK, Where
  <2> HIDE DEF p
  <2>4. CASE WaitpidResult(k, p) = p
    <3>1. HasProcess(k, p) /\ k.pcb[p].state = "ZOMBIE"
      BY <2>1, <2>4 DEF WaitpidResult, Pid
    <3>2. QED
      BY <1>1, <2>1, <2>2, <2>3, <2>4, <3>1, WaitpidReapFact, SoundStep
  <2>5. CASE WaitpidResult(k, p) # p
    BY <1>4, <2>2, <2>3, <2>5, SoundStep
  <2>6. QED
    BY <2>4, <2>5
<1>14. CASE \E s \in UserSems, v \in InitValues : SysSemOpen(s, v)
  <2>1. PICK s \in UserSems, v \in InitValues : SysSemOpen(s, v)
    BY <1>14
  <2>2. s \in SemId /\ v \in Nat
    BY UserSemsAssumption, ValuesAssumption
  <2>3. Steps(k, SemInit(k, s, v), Lost(k))
    BY <1>1, <2>2, SemEntryFact
  <2>4. QED
    BY <1>2, <1>3, <2>1, <2>3, SoundStep DEF SysSemOpen
<1>15. CASE \E s \in UserSems :
              SysSemWait(s) \/ SysSemWaitNoNode(s) \/ SysSemPost(s) \/ SysSemClose(s)
  <2>1. PICK s \in UserSems :
               SysSemWait(s) \/ SysSemWaitNoNode(s) \/ SysSemPost(s) \/ SysSemClose(s)
    BY <1>15
  <2>2. s \in SemId /\ 0 \in Nat
    BY UserSemsAssumption
  <2>3. /\ Steps(k, SemWait(k, s), Lost(k)) /\ Steps(k, SemWaitNoNode(k, s), Lost(k))
        /\ Steps(k, SemPost(k, s), Lost(k)) /\ Steps(k, SemClose(k, s), Lost(k))
    BY <1>1, <2>2, SemWaitFact, SemPostFact, SemEntryFact
  <2>4. UNCHANGED frame /\ Steps(k, k', Lost(k))
    BY <2>1, <2>3 DEF SysSemWait, SysSemWaitNoNode, SysSemPost, SysSemClose
  <2>5. QED
    BY <1>2, <1>3, <2>4, SoundStep
<1>16. CASE UNCHANGED vars
  BY <1>2, <1>4, <1>16, SoundStep DEF vars
<1>17. QED
  BY <1>5, <1>6, <1>7, <1>8, <1>9, <1>10, <1>11, <1>12, <1>13, <1>14, <1>15, <1>16 DEF Next

\* IInv is an invariant of the kernel.
THEOREM Invariance == Spec => []IInv
BY InitInv, StepInv, PTL DEF Spec

\* Every field of the kernel's records keeps its range (TypeOK), whatever
\* system calls the programs make.
THEOREM TypeCorrect == Spec => []TypeOK
<1>1. IInv => TypeOK
  BY DEF IInv, WF, FrameOK, TypeOK
<1>2. QED
  BY <1>1, Invariance, PTL

\* The queues of process.c hold each process at most once, as its state field
\* says, idle in none, and kill leaves no zombie behind (QueueInv).
THEOREM QueuesMatchStates == Spec => []QueueInv
<1>1. ASSUME IInv PROVE QueueInv
  <2>1. /\ WF(k, Lost(k)) /\ NoZombies(k) /\ Queues(k) /\ States(k)
        /\ k.queue \in [QueueName -> Seq(Pid)]
    BY <1>1 DEF IInv, WF, KernelState
  <2>2. OneQueue
    <3> SUFFICES ASSUME NEW q \in QueueName, NEW r \in QueueName,
                        NEW i \in 1..Len(k.queue[q]), NEW j \in 1..Len(k.queue[r]),
                        k.queue[q][i] = k.queue[r][j]
                 PROVE  q = r /\ i = j
      BY DEF OneQueue
    <3>1. k.queue[q][i] \in Pid
      BY <2>1
    <3>2. InQueue(k, q, k.queue[q][i]) /\ InQueue(k, r, k.queue[q][i])
      BY DEF InQueue
    <3>3. q = r
      BY <2>1, <3>1, <3>2 DEF Queues
    <3>4. QED
      BY <2>1, <3>3 DEF Queues, NoDup
  <2>3. StateMatchesQueue
    BY <2>1 DEF States, StateMatchesQueue
  <2>4. NobodyUndead
    <3>1. k.queue["zombie"] \in Seq(Pid)
      BY <2>1, PidFact
    <3>2. \A i \in 1..Len(k.queue["zombie"]) : k.queue["zombie"][i] \in Pid
      BY <3>1
    <3>3. \A i \in 1..Len(k.queue["zombie"]) : FALSE
      BY <2>1, <3>2 DEF NoZombies, InQueue
    <3>4. k.queue["zombie"] = << >>
      BY <3>1, <3>3
    <3>5. QED
      BY <2>1, <3>4 DEF NobodyUndead, Queues
  <2>5. QED
    BY <2>2, <2>3, <2>4 DEF QueueInv
<1>2. QED
  BY <1>1, Invariance, PTL

\* No operation of process.c drops a process between two queues, and creation
\* loses no other process than the one it found no memory to queue
\* (NobodyDropped).
THEOREM QueuesKeepEverybody == Spec => NobodyDropped
<1>1. IInv /\ [Next]_vars =>
        [Lost(k') \subseteq Lost(k) \cup (IF "outOfMemory" \in Env THEN {k.nextPid} ELSE {})]_vars
  BY StepInv DEF Kept, CreatesNoNode, SysCreateNoNode
<1>2. QED
  BY <1>1, Invariance, PTL DEF Spec, NobodyDropped

\* Both together: every process is in the one queue its state says, from its
\* creation with memory to its death (QueuesHold).
THEOREM QueuesCorrect == Spec => QueuesHold
  BY QueuesMatchStates, QueuesKeepEverybody DEF QueuesHold

\* While allocations succeed, every process that exists is queued where ticks,
\* kills and posts find it.
THEOREM NobodyLost ==
  ASSUME "outOfMemory" \notin Env
  PROVE  Spec => [](Lost(k) = {})
<1>1. IInv => Lost(k) = {}
  BY DEF IInv
<1>2. QED
  BY <1>1, Invariance, PTL

\* currentProcess and foregroundProcess never point to a PCB that reapCild has
\* freed (NoDanglingPointer).
THEOREM PointersCorrect == Spec => []NoDanglingPointer
<1>1. IInv => NoDanglingPointer
  BY DEF IInv, WF, CurOK, Foreground, Queued, NoDanglingPointer
<1>2. QED
  BY <1>1, Invariance, PTL

\* post never leaves a unit in a semaphore somebody sleeps on
\* (NoUnitWhileAsleep).
THEOREM UnitsCorrect == Spec => []NoUnitWhileAsleep
<1>1. IInv => NoUnitWhileAsleep
  BY DEF IInv, Sleepers, NoUnitWhileAsleep
<1>2. QED
  BY <1>1, Invariance, PTL

\* A living process in a semaphore's queue is in blockedBySem and is queued
\* once in the whole table (SleepersAreBlocked).
THEOREM SleepersCorrect == Spec => []SleepersAreBlocked
<1>1. ASSUME IInv PROVE SleepersAreBlocked
  <2>1. WF(k, Lost(k)) /\ Sleepers(k, Lost(k))
    BY <1>1 DEF IInv
  <2> SUFFICES ASSUME NEW s \in SemId, NEW t \in SemId,
                      NEW i \in 1..Len(k.sems[s].blocked), NEW j \in 1..Len(k.sems[t].blocked),
                      k.pcb[k.sems[s].blocked[i]].state \notin {"UNUSED", "ZOMBIE"},
                      k.sems[s].blocked[i] # IdlePid, k.sems[s].blocked[i] \notin Lost(k)
               PROVE  /\ InQueue(k, "blockedBySem", k.sems[s].blocked[i])
                      /\ k.sems[s].blocked[i] = k.sems[t].blocked[j] => s = t /\ i = j
    BY DEF SleepersAreBlocked
  <2>2. Alive(k, k.sems[s].blocked[i], Lost(k))
    BY DEF Alive
  <2>3. InQueue(k, "blockedBySem", k.sems[s].blocked[i])
    BY <2>1, <2>2 DEF Sleepers
  <2>4. QED
    BY <2>1, <2>2, <2>3, SleeperUnique
<1>2. QED
  BY <1>1, Invariance, PTL

-----------------------------------------------------------------------------
(* Who waits for whom.                                                      *)

\* Whoever somebody is recorded to wait for is dead or a child of his.
Awaited(k0) ==
  /\ k0.pcb[IdlePid].parentPid = NoPid
  /\ \A x \in Pid : LET c == k0.pcb[x].waitingForPid
                    IN  c # NoPid => /\ c # IdlePid /\ c < k0.nextPid
                                     /\ Exists(k0, c) => k0.pcb[c].parentPid = x

\* A process suspended in waitpid left its stack there, and is recorded to
\* wait for the process that it waits for.
Suspended(k0, fr) ==
  \A x \in Pid : fr[x].at = "waitpid" =>
    /\ x # IdlePid /\ x < k0.nextPid
    /\ fr[x].pid \in Pid \ {IdlePid} /\ fr[x].pid < k0.nextPid
    /\ Exists(k0, x) => /\ k0.pcb[x].rsp = x /\ (k0.current = x => k0.cpu = x)
                        /\ Exists(k0, fr[x].pid) => k0.pcb[x].waitingForPid = fr[x].pid

Waits(k0, fr, lost) == OwnStack(k0, lost) /\ Awaited(k0) /\ Suspended(k0, fr)

\* Dispatching.
LEMMA DispatchWaits ==
  ASSUME NEW lost, NEW k0, WF(k0, lost), NEW fr, Waits(k0, fr, lost), NEW k1, WF(k1, lost), Dispatched(k0, k1), k1.nextPid = k0.nextPid
  PROVE  Waits(k1, fr, lost)
<1>1. /\ \A x \in Pid \ {IdlePid} : Exists(k1, x) <=> Exists(k0, x)
      /\ \A x \in Pid : /\ k1.pcb[x].parentPid = k0.pcb[x].parentPid
                        /\ k1.pcb[x].waitingForPid = k0.pcb[x].waitingForPid
  BY DEF Dispatched, SameFields, SameKin, Exists
<1>2. \A x \in Pid : k0.pcb[x].waitingForPid \in Pid \cup {NoPid}
  BY DEF WF, KernelState, Pcb
<1>3. k0.current \in Pid /\ k1.current \in Pid
  BY DEF WF, KernelState
<1>4. Awaited(k1)
  BY <1>1, <1>2, PidFact DEF Waits, Awaited
<1>own. OwnStack(k1, lost)
  BY DispatchOwn DEF Waits
<1>5. CASE SameCpu(k0, k1)
  <2>1. Suspended(k1, fr)
    BY <1>1, <1>5 DEF Waits, Suspended, SameCpu
  <2>2. QED
    BY <1>4, <1>own, <2>1 DEF Waits
<1>6. CASE Switched(k0, k1)
  <2>3. Suspended(k1, fr)
    <3> SUFFICES ASSUME NEW x \in Pid, fr[x].at = "waitpid"
                 PROVE  /\ x # IdlePid /\ x < k1.nextPid
                        /\ fr[x].pid \in Pid \ {IdlePid} /\ fr[x].pid < k1.nextPid
                        /\ Exists(k1, x) => /\ k1.pcb[x].rsp = x /\ (k1.current = x => k1.cpu = x)
                                            /\ Exists(k1, fr[x].pid) => k1.pcb[x].waitingForPid = fr[x].pid
      BY DEF Suspended
    <3>1. /\ x # IdlePid /\ x < k0.nextPid
          /\ fr[x].pid \in Pid \ {IdlePid} /\ fr[x].pid < k0.nextPid
          /\ Exists(k0, x) => /\ k0.pcb[x].rsp = x /\ (k0.current = x => k0.cpu = x)
                              /\ Exists(k0, fr[x].pid) => k0.pcb[x].waitingForPid = fr[x].pid
      BY DEF Waits, Suspended
    <3>2. Exists(k1, x) => k1.pcb[x].rsp = x
      BY <1>1, <1>6, <3>1 DEF Switched
    <3>3. k1.cpu = k1.pcb[k1.current].rsp
      BY <1>6 DEF Switched
    <3>4. QED
      BY <1>1, <3>1, <3>2, <3>3
  <2>4. QED
    BY <1>4, <1>own, <2>3 DEF Waits
<1>7. QED
  BY <1>5, <1>6 DEF Dispatched

\* A death.
LEMMA KillWaits ==
  ASSUME NEW lost, NEW k0, WF(k0, lost), NEW fr, Waits(k0, fr, lost), NEW k1, WF(k1, lost), NEW p \in Pid, p # IdlePid,
         Killed(k0, k1, p), KillCpu(k0, k1, p)
  PROVE  Waits(k1, fr, lost)
<1>1. /\ \A x \in Pid \ {IdlePid} : Exists(k1, x) => Exists(k0, x) /\ x # p
      /\ \A x \in Pid \ {p} : /\ k1.pcb[x].parentPid = k0.pcb[x].parentPid
                              /\ k1.pcb[x].waitingForPid = k0.pcb[x].waitingForPid
      /\ k1.pcb[p].waitingForPid = NoPid /\ k1.nextPid = k0.nextPid /\ ~Exists(k1, p)
      /\ k1.current # p
  BY DEF Killed, SameKin, Exists
<1>2. \A x \in Pid : k0.pcb[x].waitingForPid \in Pid \cup {NoPid}
  BY DEF WF, KernelState, Pcb
<1>3. k0.current \in Pid /\ k1.current \in Pid /\ BootCtx \notin Pid
  BY DEF WF, KernelState, BootCtx, Pid
<1>4. Awaited(k1)
  <2> SUFFICES ASSUME NEW x \in Pid, k1.pcb[x].waitingForPid # NoPid, NEW c, c = k1.pcb[x].waitingForPid
               PROVE  c # IdlePid /\ c < k1.nextPid /\ (Exists(k1, c) => k1.pcb[c].parentPid = x)
    <3>1. k1.pcb[IdlePid].parentPid = NoPid
      BY <1>1, <1>2, PidFact DEF Waits, Awaited
    <3>2. QED
      BY <3>1 DEF Awaited
  <2>1. x # p /\ c = k0.pcb[x].waitingForPid /\ c \in Pid
    BY <1>1, <1>2
  <2>2. c # IdlePid /\ c < k0.nextPid /\ (Exists(k0, c) => k0.pcb[c].parentPid = x)
    BY <2>1 DEF Waits, Awaited
  <2>3. QED
    BY <1>1, <2>1, <2>2
<1>own. OwnStack(k1, lost)
  BY KillOwn DEF Waits
<1> DEFINE cur == IF k0.current = p THEN IdlePid ELSE k0.current
<1>5. k1.pcb[p].rsp = BootCtx
  BY DEF KillCpu
<1>6. ASSUME NEW x \in Pid, fr[x].at = "waitpid"
      PROVE  /\ x # IdlePid /\ x < k1.nextPid
             /\ fr[x].pid \in Pid \ {IdlePid} /\ fr[x].pid < k1.nextPid
             /\ Exists(k1, x) => /\ x # p /\ k0.pcb[x].rsp = x /\ (k0.current = x => k0.cpu = x)
                                 /\ Exists(k1, fr[x].pid) => k1.pcb[x].waitingForPid = fr[x].pid
  <2>1. /\ x # IdlePid /\ x < k0.nextPid
        /\ fr[x].pid \in Pid \ {IdlePid} /\ fr[x].pid < k0.nextPid
        /\ Exists(k0, x) => /\ k0.pcb[x].rsp = x /\ (k0.current = x => k0.cpu = x)
                            /\ Exists(k0, fr[x].pid) => k0.pcb[x].waitingForPid = fr[x].pid
    BY <1>6 DEF Waits, Suspended
  <2>2. QED
    BY <1>1, <2>1
<1>7. CASE /\ k1.cpu = k0.cpu /\ k1.first = k0.first /\ k1.current = cur
           /\ \A x \in Pid \ {p} : k1.pcb[x].rsp = k0.pcb[x].rsp
  <2>1. Suspended(k1, fr)
    BY <1>6, <1>7 DEF Suspended
  <2>2. QED
    BY <1>4, <1>own, <2>1 DEF Waits
<1>8. CASE /\ k1.first = FALSE
           /\ \A x \in Pid \ {p} :
                k1.pcb[x].rsp = IF x = cur /\ ~k0.first THEN k0.cpu ELSE k0.pcb[x].rsp
           /\ k1.cpu = k1.pcb[k1.current].rsp
  <2>3. \A x \in Pid : fr[x].at = "waitpid" /\ Exists(k1, x) => k1.pcb[x].rsp = x
    BY <1>6, <1>8
  <2>4. Suspended(k1, fr)
    BY <1>6, <1>8, <2>3 DEF Suspended
  <2>5. QED
    BY <1>4, <1>own, <2>4 DEF Waits
<1>9. QED
  BY <1>7, <1>8 DEF KillCpu

\* A birth.
LEMMA CreateWaits ==
  ASSUME NEW lost, NEW k0, WF(k0, lost), NEW fr, Waits(k0, fr, lost), NEW k1, k0.nextPid <= MaxPid,
         NEW left, left \subseteq lost \cup {k0.nextPid}, WF(k1, left),
         NEW fg \in BOOLEAN, Created(k0, k1, fg)
  PROVE  Waits(k1, fr, left)
<1> DEFINE p == k0.nextPid
<1>1. p \in Pid /\ p # IdlePid /\ p \in Nat /\ ~Exists(k0, p)
  BY DEF WF, KernelState, Fresh, Pid, ShellPid, IdlePid, Exists
<1>2. /\ k1.nextPid = p + 1 /\ k1.cpu = k0.cpu
      /\ k1.current = k0.current \/ k0.current = IdlePid
      /\ k1.current = k0.current \/ k1.current = p
      /\ k1.pcb[p].waitingForPid = NoPid /\ k1.pcb[p].rsp = p
      /\ \A x \in Pid \ {p} : /\ k1.pcb[x].rsp = k0.pcb[x].rsp
                              /\ k1.pcb[x].parentPid = k0.pcb[x].parentPid
                              /\ k1.pcb[x].waitingForPid = k0.pcb[x].waitingForPid
                              /\ x # IdlePid => (Exists(k1, x) <=> Exists(k0, x))
  BY DEF Created, SameKin, Exists
<1> HIDE DEF p
<1>3. p = k0.nextPid
  BY DEF p
<1>4. \A x \in Pid : k0.pcb[x].waitingForPid \in Pid \cup {NoPid}
  BY DEF WF, KernelState, Pcb
<1>5. \A x \in Pid : x < k0.nextPid => x < k1.nextPid /\ x # p
  BY <1>1, <1>2, <1>3 DEF Pid
<1>6. Awaited(k1)
  <2> SUFFICES ASSUME NEW x \in Pid, k1.pcb[x].waitingForPid # NoPid, NEW c, c = k1.pcb[x].waitingForPid
               PROVE  c # IdlePid /\ c < k1.nextPid /\ (Exists(k1, c) => k1.pcb[c].parentPid = x)
    <3>1. k1.pcb[IdlePid].parentPid = NoPid
      BY <1>1, <1>2, PidFact DEF Waits, Awaited
    <3>2. QED
      BY <3>1 DEF Awaited
  <2>1. x # p /\ c = k0.pcb[x].waitingForPid /\ c \in Pid
    BY <1>2, <1>4
  <2>2. c # IdlePid /\ c < k0.nextPid /\ (Exists(k0, c) => k0.pcb[c].parentPid = x)
    BY <2>1 DEF Waits, Awaited
  <2>3. QED
    BY <1>2, <1>5, <2>1, <2>2
<1>7. OwnStack(k1, left)
  BY CreateOwn DEF Waits
<1>8. Suspended(k1, fr)
  <2> SUFFICES ASSUME NEW x \in Pid, fr[x].at = "waitpid"
               PROVE  /\ x # IdlePid /\ x < k1.nextPid
                      /\ fr[x].pid \in Pid \ {IdlePid} /\ fr[x].pid < k1.nextPid
                      /\ Exists(k1, x) => /\ k1.pcb[x].rsp = x /\ (k1.current = x => k1.cpu = x)
                                          /\ Exists(k1, fr[x].pid) => k1.pcb[x].waitingForPid = fr[x].pid
    BY DEF Suspended
  <2>1. /\ x # IdlePid /\ x < k0.nextPid
        /\ fr[x].pid \in Pid \ {IdlePid} /\ fr[x].pid < k0.nextPid
        /\ Exists(k0, x) => /\ k0.pcb[x].rsp = x /\ (k0.current = x => k0.cpu = x)
                            /\ Exists(k0, fr[x].pid) => k0.pcb[x].waitingForPid = fr[x].pid
    BY DEF Waits, Suspended
  <2>2. QED
    BY <1>2, <1>5, <2>1
<1>9. QED
  BY <1>6, <1>7, <1>8 DEF Waits

\* Whom getProcess finds is queued, or lost and current: then it is no zombie.
LEMMA FoundFact ==
  ASSUME NEW lost, NEW k0, WF(k0, lost), CurOK(k0, lost), NEW p \in Pid \ {IdlePid}, HasProcess(k0, p)
  PROVE  /\ Exists(k0, p)
         /\ k0.pcb[p].state = "ZOMBIE" => InQueue(k0, "zombie", p)
<1>1. Queued(k0, p) \/ k0.pcb[p].state \in {"READY", "RUNNING"}
  BY PidFact DEF HasProcess, CurOK, Queued
<1>2. QED
  BY <1>1 DEF Queued, QueueName, WF, States, Exists

\* Whom waitpid accepts.
LEMMA TargetFact ==
  ASSUME NEW lost, NEW k0, WF(k0, lost), CurOK(k0, lost), Awaited(k0),
         NEW p \in Pid, MayWaitFor(k0, p)
  PROVE  /\ p # IdlePid /\ p < k0.nextPid
         /\ k0.pcb[p].state = "ZOMBIE" => InQueue(k0, "zombie", p)
         /\ k0.pcb[p].parentPid = k0.current
<1>1. k0.current \in Pid /\ k0.pcb[k0.current].waitingForPid \in Pid \cup {NoPid} /\ p # NoPid
  BY PidFact DEF WF, KernelState, Pcb
<1>2. p # IdlePid
  <2>1. ASSUME p = IdlePid PROVE FALSE
    <3>1. k0.pcb[p].parentPid # k0.current
      BY <1>1, <2>1, PidFact DEF Awaited
    <3>2. k0.pcb[k0.current].waitingForPid = p
      BY <3>1 DEF MayWaitFor
    <3>3. QED
      BY <1>1, <2>1, <3>2 DEF Awaited
  <2>2. QED
    BY <2>1
<1>4. /\ Exists(k0, p)
      /\ k0.pcb[p].state = "ZOMBIE" => InQueue(k0, "zombie", p)
  BY <1>2, FoundFact DEF MayWaitFor
<1>5. p < k0.nextPid
  BY <1>4 DEF WF, Fresh, Exists, KernelState, Pid
<1>6. k0.pcb[p].parentPid = k0.current
  BY <1>1, <1>4 DEF MayWaitFor, Awaited
<1>7. QED
  BY <1>2, <1>4, <1>5, <1>6

\* waitpid up to the switch.
LEMMA WaitpidWaits ==
  ASSUME NEW lost, NEW k0, WF(k0, lost), CurOK(k0, lost), NEW fr \in [Context -> [at : Where, pid : Pid \cup {NoPid}]],
         Waits(k0, fr, lost), fr[k0.cpu].at = "user", k0.cpu # IdlePid,
         NEW p \in Pid, p # IdlePid, p < k0.nextPid, k0.pcb[p].parentPid = k0.current,
         NEW k1, WF(k1, lost), k1 = WaitpidBlock(k0, p),
         NEW f1, f1 = IF CanBlock(k0, k0.current)
                      THEN [fr EXCEPT ![k0.cpu] = [at |-> "waitpid", pid |-> p]] ELSE fr
  PROVE  Waits(k1, f1, lost)
<1> DEFINE c == k0.current
<1>1. /\ k1.sems = k0.sems /\ k1.nextPid = k0.nextPid
      /\ \A x \in Pid : /\ k1.pcb[x].parentPid = k0.pcb[x].parentPid
                        /\ k1.pcb[x].foreground = k0.pcb[x].foreground
                        /\ SameCounts(k0, k1, x)
                        /\ x # IdlePid => (k1.pcb[x].state = "UNUSED" <=> k0.pcb[x].state = "UNUSED")
                        /\ InQueue(k1, "blockedBySem", x) <=> InQueue(k0, "blockedBySem", x)
      /\ \A x \in Pid \ {c} : k1.pcb[x].waitingForPid = k0.pcb[x].waitingForPid
      /\ CanBlock(k0, c) => /\ Switched(k0, k1) /\ c # IdlePid
                            /\ k1.pcb[c].waitingForPid = p
      /\ ~CanBlock(k0, c) => /\ c = IdlePid \/ c \in lost
                             /\ SameCpu(k0, k1)
                             /\ k1.pcb[c].waitingForPid = NoPid
  BY WaitpidBlockEffect
<1>2. \A x \in Pid \ {IdlePid} : Exists(k1, x) <=> Exists(k0, x)
  BY <1>1 DEF Exists
<1>3. /\ \A x \in Pid : k0.pcb[x].waitingForPid \in Pid \cup {NoPid}
      /\ c \in Pid /\ k0.cpu \in Context /\ k1.current \in Pid
  BY DEF WF, KernelState, Pcb
<1>4. c = k0.current
  OBVIOUS
<1> HIDE DEF c
<1>5. Awaited(k1)
  <2> SUFFICES ASSUME NEW x \in Pid, k1.pcb[x].waitingForPid # NoPid, NEW d, d = k1.pcb[x].waitingForPid
               PROVE  d # IdlePid /\ d < k1.nextPid /\ (Exists(k1, d) => k1.pcb[d].parentPid = x)
    <3>1. k1.pcb[IdlePid].parentPid = NoPid
      BY <1>1, PidFact DEF Waits, Awaited
    <3>2. QED
      BY <3>1 DEF Awaited
  <2>1. CASE x # c
    <3>1. d = k0.pcb[x].waitingForPid /\ d \in Pid
      BY <1>1, <1>3, <2>1
    <3>2. d # IdlePid /\ d < k0.nextPid /\ (Exists(k0, d) => k0.pcb[d].parentPid = x)
      BY <3>1 DEF Waits, Awaited
    <3>3. QED
      BY <1>1, <1>2, <3>1, <3>2
  <2>2. CASE x = c
    <3>1. d = p
      BY <1>1, <2>2
    <3>2. QED
      BY <1>1, <1>4, <2>2, <3>1
  <2>3. QED
    BY <2>1, <2>2
<1>own. OwnStack(k1, lost)
  BY <1>1, <1>2, <1>4, StackOwn DEF Waits
<1>6. CASE ~CanBlock(k0, c)
  <2>1. f1 = fr /\ SameCpu(k0, k1) /\ (c = IdlePid \/ c \in lost)
    BY <1>1, <1>4, <1>6
  <2>2. ASSUME NEW x \in Pid, fr[x].at = "waitpid", Exists(k0, x) PROVE x # c
    BY <1>4, <2>2 DEF Waits, Suspended
  <2>3. Suspended(k1, f1)
    BY <1>1, <1>2, <2>1, <2>2 DEF Waits, Suspended, SameCpu
  <2>4. QED
    BY <1>5, <1>own, <2>3 DEF Waits
<1>7. CASE CanBlock(k0, c)
  <2>1. /\ f1 = [fr EXCEPT ![k0.cpu] = [at |-> "waitpid", pid |-> p]]
        /\ Switched(k0, k1) /\ c # IdlePid /\ k1.pcb[c].waitingForPid = p
    BY <1>1, <1>4, <1>7
  <2>2. /\ \A x \in Pid : k1.pcb[x].rsp = IF x = c /\ ~k0.first THEN k0.cpu ELSE k0.pcb[x].rsp
        /\ k1.cpu = k1.pcb[k1.current].rsp
    BY <1>4, <2>1 DEF Switched
  <2>5. Suspended(k1, f1)
    <3> SUFFICES ASSUME NEW x \in Pid, f1[x].at = "waitpid"
                 PROVE  /\ x # IdlePid /\ x < k1.nextPid
                        /\ f1[x].pid \in Pid \ {IdlePid} /\ f1[x].pid < k1.nextPid
                        /\ Exists(k1, x) => /\ k1.pcb[x].rsp = x /\ (k1.current = x => k1.cpu = x)
                                            /\ Exists(k1, f1[x].pid) => k1.pcb[x].waitingForPid = f1[x].pid
      BY DEF Suspended
    <3>1. CASE x = k0.cpu
      <4>1. f1[x].pid = p
        BY <1>3, <2>1, <3>1
      <4>2. x # IdlePid /\ x < k1.nextPid
        BY <1>1, <3>1 DEF Waits, OwnStack
      <4>3. ASSUME Exists(k1, x) PROVE x = c /\ k1.pcb[x].rsp = x
        <5>1. x = c
          BY <1>2, <1>4, <3>1, <4>2, <4>3 DEF Waits, OwnStack
        <5>2. ~k0.first
          BY <3>1 DEF Waits, OwnStack, BootCtx, Pid
        <5>3. QED
          BY <2>2, <3>1, <5>1, <5>2
      <4>4. QED
        BY <1>1, <2>1, <2>2, <4>1, <4>2, <4>3
    <3>2. CASE x # k0.cpu
      <4>1. f1[x] = fr[x] /\ fr[x].at = "waitpid"
        BY <1>3, <2>1, <3>2 DEF Context
      <4>2. /\ x # IdlePid /\ x < k0.nextPid
            /\ fr[x].pid \in Pid \ {IdlePid} /\ fr[x].pid < k0.nextPid
            /\ Exists(k0, x) => /\ k0.pcb[x].rsp = x /\ (k0.current = x => k0.cpu = x)
                                /\ Exists(k0, fr[x].pid) => k0.pcb[x].waitingForPid = fr[x].pid
        BY <4>1 DEF Waits, Suspended
      <4>3. Exists(k1, x) => x # c /\ k1.pcb[x].rsp = x
        BY <1>2, <1>4, <2>2, <3>2, <4>2
      <4>4. QED
        BY <1>1, <1>2, <2>2, <4>1, <4>2, <4>3
    <3>3. QED
      BY <3>1, <3>2
  <2>6. QED
    BY <1>5, <1>own, <2>5 DEF Waits
<1>8. QED
  BY <1>6, <1>7

\* A context returns from waitpid, or to its hlt loop.
LEMMA LeaveWaits ==
  ASSUME NEW lost, NEW k0, NEW fr, Waits(k0, fr, lost), NEW f1,
         \A x \in Pid : f1[x].at = "waitpid" => f1[x] = fr[x]
  PROVE  Waits(k0, f1, lost)
<1>1. Suspended(k0, f1)
  BY DEF Waits, Suspended
<1>2. QED
  BY <1>1 DEF Waits

\* A pid is spent without a process.
LEMMA NoStackWaits ==
  ASSUME NEW lost, NEW k0, WF(k0, lost), NEW fr, Waits(k0, fr, lost), NEW k1, k1 = [k0 EXCEPT !.nextPid = @ + 1]
  PROVE  Waits(k1, fr, lost)
<1>1. /\ k1.pcb = k0.pcb /\ k1.cpu = k0.cpu /\ k1.current = k0.current /\ k1.first = k0.first
      /\ k1.nextPid = k0.nextPid + 1 /\ k0.nextPid \in Nat
      /\ \A x \in Pid : k0.pcb[x].waitingForPid \in Pid \cup {NoPid}
  BY DEF WF, KernelState, Pcb
<1>2. \A x \in Pid : x < k0.nextPid => x < k1.nextPid
  BY <1>1 DEF Pid
<1>3. \A x : Exists(k1, x) <=> Exists(k0, x)
  BY <1>1 DEF Exists
<1>4. Awaited(k1)
  BY <1>1, <1>2, <1>3 DEF Waits, Awaited
<1>5. OwnStack(k1, lost)
  BY <1>1, <1>2, <1>3 DEF Waits, OwnStack
<1>6. Suspended(k1, fr)
  BY <1>1, <1>2, <1>3 DEF Waits, Suspended
<1>7. QED
  BY <1>4, <1>5, <1>6 DEF Waits

\* A lost process that was current is killed: idle is current, nobody is freed.
LEMMA UncurrentWaits ==
  ASSUME NEW lost, NEW k0, WF(k0, lost), NEW fr, Waits(k0, fr, lost), k0.current \in lost,
         NEW k1, k1 = [k0 EXCEPT !.current = IdlePid]
  PROVE  Waits(k1, fr, lost)
<1>1. /\ k1.pcb = k0.pcb /\ k1.cpu = k0.cpu /\ k1.nextPid = k0.nextPid
      /\ k1.current = IdlePid
  BY DEF WF, KernelState
<1>2. \A x : Exists(k1, x) <=> Exists(k0, x)
  BY <1>1 DEF Exists
<1>3. OwnStack(k1, lost)
  BY UncurrentOwn DEF Waits
<1>4. Awaited(k1)
  BY <1>1, <1>2 DEF Waits, Awaited
<1>5. Suspended(k1, fr)
  BY <1>1, <1>2 DEF Waits, Suspended
<1>6. QED
  BY <1>3, <1>4, <1>5 DEF Waits

\* The loops of idle() and of main() call nothing.
Halted == \A c \in {IdlePid, BootCtx} : frame[c].at = "halt"

WaitInv == IInv /\ Waits(k, frame, Lost(k)) /\ Halted

\* Nobody waits when the scheduler starts.
LEMMA WaitInit == Init => WaitInv
<1> SUFFICES ASSUME Init PROVE WaitInv
  OBVIOUS
<1>1. IInv
  BY InitInv
<1>2. /\ k.first = TRUE /\ k.cpu = BootCtx /\ BootCtx \notin Pid /\ IdlePid # ShellPid
      /\ \A p \in Pid : /\ k.pcb[p].waitingForPid = NoPid
                        /\ k.pcb[p].parentPid = IF p = ShellPid THEN IdlePid ELSE NoPid
                        /\ p < k.nextPid => k.pcb[p].rsp = p
                        /\ p >= k.nextPid => k.pcb[p] = FreePcb
  <2>1. k = BootKernel
    BY DEF Init
  <2>2. k.first = TRUE /\ k.cpu = BootCtx
    BY <2>1, BootFact
  <2>3. \A p \in Pid : k.pcb[p].waitingForPid = NoPid
    BY <2>1, BootFact
  <2>4. \A p \in Pid : k.pcb[p].parentPid = IF p = ShellPid THEN IdlePid ELSE NoPid
    BY <2>1 DEF BootKernel, NewPcb, FreePcb, IdlePid, ShellPid, Pid
  <2>5. \A p \in Pid : p < k.nextPid => k.pcb[p].rsp = p
    BY <2>1, BootFact
  <2>6. \A p \in Pid : p >= k.nextPid => k.pcb[p] = FreePcb
    BY <2>1, BootFact
  <2>7. BootCtx \notin Pid /\ IdlePid # ShellPid
    BY MaxPidAssumption DEF BootCtx, Pid, IdlePid, ShellPid
  <2>8. QED
    BY <2>2, <2>3, <2>4, <2>5, <2>6, <2>7
<1>3. OwnStack(k, Lost(k))
  <2>1. WF(k, {}) /\ OwnStack(k, {})
    BY BootFact, BootOwn DEF Init
  <2>2. QED
    BY <2>1, LostSet
<1>4. Awaited(k)
  BY <1>2, PidFact DEF Awaited
<1>5. Halted /\ \A x \in Pid : frame[x].at # "waitpid"
  BY PidFact DEF Init, Context, Halted
<1>6. Suspended(k, frame)
  BY <1>5 DEF Suspended
<1>7. QED
  BY <1>1, <1>3, <1>4, <1>5, <1>6 DEF WaitInv, Waits

\* A creation without memory for the queue node keeps the records of who waits.
LEMMA NoNodeWaits == WaitInv /\ [Next]_vars /\ CreatesNoNode => WaitInv'
<1> SUFFICES ASSUME WaitInv, [Next]_vars, CreatesNoNode PROVE WaitInv'
  OBVIOUS
<1>1. /\ IInv /\ WF(k, Lost(k)) /\ CurOK(k, Lost(k)) /\ Waits(k, frame, Lost(k)) /\ Halted
      /\ IInv' /\ WF(k', Lost(k')) /\ Kept
  BY StepInv DEF WaitInv, IInv
<1>2. PICK priority \in Prios, fg \in BOOLEAN, tty \in BOOLEAN : SysCreateNoNode(priority, fg, tty)
  BY DEF CreatesNoNode
<1>3. /\ priority \in Nat /\ k.nextPid <= MaxPid /\ UNCHANGED frame
      /\ k' = CreateProcessNoNode(k, priority, fg, tty)
  BY <1>2, PriosAssumption DEF SysCreateNoNode
<1>4. Created(k, k', fg)
  BY <1>1, <1>3, NoNodeEffect
<1>5. Lost(k') \subseteq Lost(k) \cup {k.nextPid}
  BY <1>1 DEF Kept
<1>6. Waits(k', frame, Lost(k'))
  BY <1>1, <1>3, <1>4, <1>5, CreateWaits
<1>7. QED
  BY <1>1, <1>3, <1>6 DEF WaitInv, Halted

\* Every system call, interrupt and resumption keeps the records of who waits.
LEMMA WaitStep == WaitInv /\ [Next]_vars => WaitInv'
<1> SUFFICES ASSUME WaitInv, [Next]_vars, ~CreatesNoNode PROVE WaitInv'
  BY NoNodeWaits
<1>1. /\ IInv /\ WF(k, Lost(k)) /\ CurOK(k, Lost(k)) /\ Waits(k, frame, Lost(k)) /\ NoZombies(k) /\ FrameOK
      /\ k.cpu \in Context /\ k.current \in Pid /\ k.foreground \in Pid \cup {NoPid}
      /\ frame \in [Context -> [at : Where, pid : Pid \cup {NoPid}]] /\ Halted
  BY DEF WaitInv, IInv, WF, KernelState, FrameOK
<1>2. IInv' /\ WF(k', Lost(k)) /\ Lost(k') = Lost(k)
  BY <1>1, StepInv DEF IInv, Kept
<1>3. InProgram \/ frame[k.cpu].at = "waitpid" => k.cpu \notin {IdlePid, BootCtx}
  BY <1>1 DEF InProgram, Halted
<1>4. ASSUME Waits(k', frame, Lost(k)), UNCHANGED frame PROVE WaitInv'
  BY <1>1, <1>2, <1>4 DEF WaitInv, Halted
<1>5. ASSUME Dispatched(k, k'), k'.nextPid = k.nextPid, UNCHANGED frame PROVE WaitInv'
  BY <1>1, <1>2, <1>4, <1>5, DispatchWaits
<1>6. ASSUME NEW p \in Pid, k' = Kill(k, p) PROVE Waits(k', frame, Lost(k))
  <2>1. CASE k' = k
    BY <1>1, <2>1
  <2>2. CASE p > ShellPid /\ Killed(k, k', p) /\ KillCpu(k, k', p)
    <3>1. p # IdlePid
      BY <2>2 DEF ShellPid, IdlePid
    <3>2. QED
      BY <1>1, <1>2, <2>2, <3>1, KillWaits
  <2>3. CASE p \in Lost(k) /\ p = k.current /\ k' = [k EXCEPT !.current = IdlePid]
    BY <1>1, <2>3, UncurrentWaits
  <2>4. QED
    BY <1>1, <1>6, <2>1, <2>2, <2>3, KillEffect
<1>7. CASE TimerTick \/ SysYield
  <2>1. (k' = Schedule(k) \/ k' = Yield(k)) /\ UNCHANGED frame
    BY <1>7 DEF TimerTick, SysYield
  <2>2. Dispatched(k, k')
    BY <1>1, <2>1, ScheduleEffect
  <2>3. k'.nextPid = k.nextPid
    BY <1>1, <2>1, ScheduleFact DEF Quiet
  <2>4. QED
    BY <1>5, <2>1, <2>2, <2>3
<1>8. CASE CtrlC
  BY <1>1, <1>4, <1>6, <1>8 DEF CtrlC
<1>9. ASSUME NEW priority \in Prios, NEW fg \in BOOLEAN, NEW tty \in BOOLEAN,
             SysCreateProcess(priority, fg, tty)
      PROVE  WaitInv'
  <2>1. /\ priority \in Nat /\ k.nextPid <= MaxPid /\ UNCHANGED frame
        /\ k' = CreateProcess(k, priority, fg, tty)
    BY <1>9, PriosAssumption DEF SysCreateProcess
  <2>2. Created(k, k', fg)
    BY <1>1, <2>1, CreateEffect
  <2>3. QED
    BY <1>1, <1>2, <1>4, <2>1, <2>2, CreateWaits
<1>10. CASE SysCreateNoStack
  BY <1>1, <1>4, <1>10, NoStackWaits DEF SysCreateNoStack
<1>11. CASE SysExit
  <2>1. Waits(k', frame, Lost(k))
    BY <1>1, <1>6, <1>11 DEF SysExit
  <2>2. \A x \in Pid : frame'[x].at = "waitpid" => frame'[x] = frame[x]
    BY <1>1, <1>11 DEF SysExit, Context
  <2>3. Waits(k', frame', Lost(k))
    BY <2>1, <2>2, LeaveWaits
  <2>4. Halted'
    BY <1>1, <1>11, PidFact DEF SysExit, Halted, Context
  <2>5. QED
    BY <1>2, <2>3, <2>4 DEF WaitInv
<1>12. ASSUME NEW p \in Pid, SysKill(p) PROVE WaitInv'
  BY <1>4, <1>6, <1>12 DEF SysKill
<1>13. ASSUME NEW p \in Pid, SysBlock(p) PROVE WaitInv'
  <2>1. k' = BlockProcess(k, p) /\ UNCHANGED frame
    BY <1>13 DEF SysBlock
  <2>2. Dispatched(k, k') /\ k'.nextPid = k.nextPid
    BY <1>1, <2>1, BlockEffect, BlockFact DEF Quiet
  <2>3. QED
    BY <1>5, <2>1, <2>2
<1>14. ASSUME NEW p \in Pid, SysUnblock(p) PROVE WaitInv'
  <2>1. k' = UnblockProcess(k, p) /\ UNCHANGED frame
    BY <1>14 DEF SysUnblock
  <2>2. Dispatched(k, k') /\ k'.nextPid = k.nextPid
    BY <1>1, <2>1, BlockEffect, BlockFact DEF Quiet, Dispatched
  <2>3. QED
    BY <1>5, <2>1, <2>2
<1>15. ASSUME NEW p \in Pid, SysWaitpid(p) PROVE WaitInv'
  <2>1. MayWaitFor(k, p) /\ InProgram
    BY <1>15 DEF SysWaitpid
  <2>2. /\ p # IdlePid /\ p < k.nextPid
        /\ k.pcb[p].parentPid = k.current
    BY <1>1, <2>1, TargetFact DEF Waits
  <2>3. k.pcb[p].state # "ZOMBIE"
    BY <1>1, <2>1, TargetFact DEF Waits, NoZombies
  <2>4. /\ k' = WaitpidBlock(k, p)
        /\ frame' = IF CanBlock(k, k.current)
                    THEN [frame EXCEPT ![k.cpu] = [at |-> "waitpid", pid |-> p]] ELSE frame
    BY <1>15, <2>3 DEF SysWaitpid
  <2>5. k.cpu \notin {IdlePid, BootCtx} /\ frame[k.cpu].at = "user"
    BY <1>3, <2>1 DEF InProgram
  <2>6. Waits(k', frame', Lost(k))
    BY <1>1, <1>2, <2>2, <2>4, <2>5, WaitpidWaits
  <2>7. Halted'
    BY <1>1, <2>4, <2>5, PidFact DEF Halted, Context
  <2>8. QED
    BY <1>2, <2>6, <2>7 DEF WaitInv
<1>16. ASSUME NEW p \in Pid, NEW priority \in Prios, SysChangePrio(p, priority) PROVE WaitInv'
  <2>1. k' = ChangePrio(k, p, priority) /\ UNCHANGED frame /\ priority \in Nat
    BY <1>16, PriosAssumption DEF SysChangePrio
  <2>2. Dispatched(k, k') /\ k'.nextPid = k.nextPid
    BY <1>1, <2>1, ChangePrioEffect DEF Dispatched
  <2>3. QED
    BY <1>5, <2>1, <2>2
<1>17. CASE WaitpidResume
  <2> DEFINE p == frame[k.cpu].pid
  <2>1. /\ frame[k.cpu].at = "waitpid" /\ k' = IF WaitpidResult(k, p) = p THEN WaitpidReap(k, p) ELSE k
        /\ frame' = [frame EXCEPT ![k.cpu] = [at |-> "user", pid |-> NoPid]]
    BY <1>17 DEF WaitpidResume
  <2>2. k.cpu \in Pid \ {IdlePid} /\ k.cpu # BootCtx
    BY <1>1, <1>3, <2>1 DEF Context
  <2>3. p \in Pid \ {IdlePid}
    BY <1>1, <2>1, <2>2 DEF Waits, Suspended
  <2> HIDE DEF p
  <2>4. ASSUME HasProcess(k, p) PROVE k.pcb[p].state # "ZOMBIE"
    BY <1>1, <2>3, <2>4, FoundFact DEF NoZombies
  <2>5. k' = k
    BY <2>1, <2>3, <2>4 DEF WaitpidResult, Pid
  <2>6. \A x \in Pid : frame'[x].at = "waitpid" => frame'[x] = frame[x]
    BY <1>1, <2>1 DEF Context
  <2>7. Waits(k', frame', Lost(k))
    BY <1>1, <2>5, <2>6, LeaveWaits
  <2>8. Halted'
    BY <1>1, <2>1, <2>2, PidFact DEF Halted, Context
  <2>9. QED
    BY <1>2, <2>7, <2>8 DEF WaitInv
<1>18. ASSUME NEW s \in UserSems, NEW v \in InitValues, SysSemOpen(s, v) PROVE WaitInv'
  <2>1. s \in SemId /\ v \in Nat /\ k' = SemInit(k, s, v) /\ UNCHANGED frame
    BY <1>18, UserSemsAssumption, ValuesAssumption DEF SysSemOpen
  <2>2. Dispatched(k, k') /\ k'.nextPid = k.nextPid
    BY <1>1, <2>1, EntryEffect DEF Dispatched
  <2>3. QED
    BY <1>5, <2>1, <2>2
<1>19. ASSUME NEW s \in UserSems, SysSemWait(s) \/ SysSemWaitNoNode(s) \/ SysSemPost(s) \/ SysSemClose(s)
       PROVE  WaitInv'
  <2>1. s \in SemId /\ UNCHANGED frame /\ 0 \in Nat
    BY <1>19, UserSemsAssumption DEF SysSemWait, SysSemWaitNoNode, SysSemPost, SysSemClose
  <2>2. CASE k' = SemWait(k, s)
    BY <1>1, <1>5, <2>1, <2>2, SemWaitEffect, SemWaitFact DEF Steps
  <2>3. CASE k' = SemWaitNoNode(k, s)
    <3>1. k' = BlockProcessBySem(k, k.current)
      BY <2>3 DEF SemWaitNoNode
    <3>2. Dispatched(k, k')
      BY <1>1, <3>1, BlockBySemEffect
    <3>3. QED
      BY <1>1, <1>5, <2>1, <2>3, <3>2, SemWaitFact DEF Steps
  <2>4. CASE k' = SemPost(k, s)
    BY <1>1, <1>5, <2>1, <2>4, SemPostEffect, SemPostFact DEF Steps, Dispatched
  <2>5. CASE k' = SemClose(k, s)
    BY <1>1, <1>5, <2>1, <2>5, EntryEffect DEF Dispatched
  <2>6. QED
    BY <1>19, <2>2, <2>3, <2>4, <2>5 DEF SysSemWait, SysSemWaitNoNode, SysSemPost, SysSemClose
<1>20. CASE UNCHANGED vars
  BY <1>4, <1>1, <1>20 DEF vars
<1>21. QED
  BY <1>7, <1>8, <1>9, <1>10, <1>11, <1>12, <1>13, <1>14, <1>15, <1>16, <1>17, <1>18, <1>19, <1>20
     DEF Next, CreatesNoNode

\* Whoever is suspended inside waitpid for a living process is its parent and
\* recorded as its waiter: wakeUpWaitingParent finds him (WaiterWillBeFound).
THEOREM WaitersCorrect == Spec => []WaiterWillBeFound
<1>1. ASSUME WaitInv PROVE WaiterWillBeFound
  <2>1. /\ Suspended(k, frame) /\ Awaited(k)
        /\ \A x \in Pid : frame[x].at = "waitpid" => frame[x].pid \in Pid \ {IdlePid}
    BY <1>1 DEF WaitInv, Waits, Suspended
  <2>2. QED
    BY <2>1, PidFact DEF WaiterWillBeFound, Suspended, Awaited, Exists
<1>2. QED
  BY <1>1, WaitInit, WaitStep, PTL DEF Spec

-----------------------------------------------------------------------------
(* Places in the queues.                                                    *)

Ready(k0) == k0.queue["ready"]

\* x keeps its place in the ready queue, or a better one.
Ahead(k0, k1, x) ==
  InQueue(k0, "ready", x) => /\ InQueue(k1, "ready", x)
                             /\ FirstIndex(Ready(k1), x) <= FirstIndex(Ready(k0), x)

\* x, if it was in some queue, is in one.
Stays(k0, k1, x) == Queued(k0, x) => Queued(k1, x)

\* Where there are no duplicates, a position of x is the first one.
LEMMA PlaceFact ==
  ASSUME NEW s \in Seq(Pid), NoDup(s), NEW i \in 1..Len(s), NEW x, x = s[i]
  PROVE  FirstIndex(s, x) = i
<1>1. \A j \in 1..(i - 1) : s[j] # x
  BY DEF NoDup
<1>2. \A j \in 1..Len(s) : s[j] = x => j = i
  BY DEF NoDup
<1>3. QED
  BY <1>1, <1>2 DEF FirstIndex

\* remove() moves nobody back.
LEMMA RemovePlace ==
  ASSUME NEW s \in Seq(Pid), NEW p \in Pid, NoDup(s), NEW x \in Pid, x # p, In(s, x)
  PROVE  FirstIndex(RemovePid(s, p), x) <= FirstIndex(s, x)
<1>1. CASE ~In(s, p)
  <2>1. FirstIndex(s, x) \in Int
    BY FirstIndexFact
  <2>2. QED
    BY <1>1, <2>1 DEF RemovePid, In
<1>2. CASE In(s, p)
  <2> DEFINE n == FirstIndex(s, p)
             t == [j \in 1..(Len(s) - 1) |-> IF j < n THEN s[j] ELSE s[j + 1]]
  <2>1. n \in 1..Len(s) /\ s[n] = p
    BY <1>2, FirstIndexFact
  <2>2. RemovePid(s, p) = t
    BY <1>2 DEF RemovePid, In
  <2> HIDE DEF n
  <2>3. t \in Seq(Pid) /\ Len(t) = Len(s) - 1 /\ NoDup(t)
    <3>1. t \in Seq(Pid) /\ Len(t) = Len(s) - 1
      BY <2>1
    <3>2. QED
      BY <2>2, <3>1, RemovePidFact
  <2>4. PICK i \in 1..Len(s) : s[i] = x
    BY DEF In
  <2>5. FirstIndex(s, x) = i
    BY <2>4, PlaceFact
  <2>6. CASE i < n
    <3>1. i \in 1..(Len(s) - 1) /\ t[i] = x
      BY <2>1, <2>4, <2>6
    <3> HIDE DEF t
    <3>2. FirstIndex(t, x) = i
      BY <2>3, <3>1, PlaceFact
    <3>3. QED
      BY <2>2, <2>5, <3>2
  <2>7. CASE i > n
    <3>1. i - 1 \in 1..(Len(s) - 1) /\ t[i - 1] = x
      BY <2>1, <2>4, <2>7
    <3> HIDE DEF t
    <3>2. FirstIndex(t, x) = i - 1
      BY <2>3, <3>1, PlaceFact
    <3>3. QED
      BY <2>2, <2>5, <3>2
  <2>8. QED
    BY <2>1, <2>4, <2>6, <2>7
<1>3. QED
  BY <1>1, <1>2

\* enqueue() moves nobody.
LEMMA AppendPlace ==
  ASSUME NEW s \in Seq(Pid), NEW p \in Pid, NoDup(s), ~In(s, p), NEW x \in Pid, In(s, x)
  PROVE  FirstIndex(Append(s, p), x) <= FirstIndex(s, x)
<1>1. PICK i \in 1..Len(s) : s[i] = x
  BY DEF In
<1>2. Append(s, p) \in Seq(Pid) /\ NoDup(Append(s, p))
  BY AppendFact
<1>3. i \in 1..Len(Append(s, p)) /\ Append(s, p)[i] = x
  BY <1>1
<1>4. FirstIndex(s, x) = i
  BY <1>1, PlaceFact
<1>5. FirstIndex(Append(s, p), x) = i
  BY <1>2, <1>3, PlaceFact
<1>6. QED
  BY <1>4, <1>5

\* getNextProcess moves back the process it dispatches.
LEMMA RotatePlace ==
  ASSUME NEW s \in Seq(Pid), NoDup(s), s # << >>, NEW x \in Pid, In(s, x), x # Head(s)
  PROVE  FirstIndex(Append(Tail(s), Head(s)), x) <= FirstIndex(s, x)
<1> DEFINE r == Append(Tail(s), Head(s))
<1>1. PICK i \in 1..Len(s) : s[i] = x
  BY DEF In
<1>2. r \in Seq(Pid) /\ NoDup(r)
  BY RotateFact
<1>3. i - 1 \in 1..Len(r) /\ r[i - 1] = x
  <2>1. /\ Head(s) \in Pid /\ Head(s) = s[1] /\ Len(s) >= 1
        /\ Tail(s) \in Seq(Pid) /\ Len(Tail(s)) = Len(s) - 1
        /\ \A j \in 1..(Len(s) - 1) : Tail(s)[j] = s[j + 1]
    OBVIOUS
  <2>2. i # 1
    BY <1>1, <2>1
  <2>3. /\ Len(r) = Len(s)
        /\ \A j \in 1..(Len(s) - 1) : r[j] = Tail(s)[j]
    BY <2>1
  <2>4. QED
    BY <1>1, <2>1, <2>2, <2>3
<1> HIDE DEF r
<1>4. FirstIndex(s, x) = i
  BY <1>1, PlaceFact
<1>5. FirstIndex(r, x) = i - 1
  BY <1>2, <1>3, PlaceFact
<1>6. QED
  BY <1>4, <1>5 DEF r

\* Both relations compose.
LEMMA PlaceTrans ==
  ASSUME NEW lost, NEW k0, WF(k0, lost), NEW k1, WF(k1, lost), NEW k2, WF(k2, lost), NEW x \in Pid
  PROVE  /\ Stays(k0, k1, x) /\ Stays(k1, k2, x) => Stays(k0, k2, x)
         /\ Ahead(k0, k1, x) /\ Ahead(k1, k2, x) => Ahead(k0, k2, x)
<1>1. ASSUME NEW kk, WF(kk, lost), InQueue(kk, "ready", x) PROVE FirstIndex(Ready(kk), x) \in Int
  <2>1. Ready(kk) \in Seq(Pid) /\ NoDup(Ready(kk)) /\ In(Ready(kk), x)
    BY <1>1, InQueueIsIn, PidFact DEF WF, KernelState, Queues, Ready
  <2>2. QED
    BY <2>1, FirstIndexFact
<1>2. QED
  BY <1>1 DEF Stays, Ahead

\* Functions that leave the queues alone.
LEMMA SamePlace ==
  ASSUME NEW lost, NEW k0, WF(k0, lost), NEW k1, k1.queue = k0.queue \/ k1 = k0, NEW x \in Pid
  PROVE  Stays(k0, k1, x) /\ Ahead(k0, k1, x)
<1>1. \A q : InQueue(k1, q, x) <=> InQueue(k0, q, x)
  BY DEF InQueue
<1>2. Ready(k1) = Ready(k0)
  BY DEF Ready
<1>3. InQueue(k0, "ready", x) => FirstIndex(Ready(k0), x) \in Int
  <2>1. Ready(k0) \in Seq(Pid) /\ NoDup(Ready(k0))
    BY PidFact DEF WF, KernelState, Queues, Ready
  <2>2. QED
    BY <2>1, FirstIndexFact, InQueueIsIn DEF Ready
<1>4. QED
  BY <1>1, <1>2, <1>3 DEF Stays, Ahead, Queued

\* A move out of the ready queue, or into it.
LEMMA MovePlace ==
  ASSUME NEW lost, NEW k0, WF(k0, lost), NEW p \in Pid, NEW from \in QueueName, NEW to \in QueueName,
         from # to, InQueue(k0, from, p),
         NEW k1, k1.queue = SwitchProcessFromQueues(k0, from, to, p).queue
  PROVE  /\ \A x \in Pid : Stays(k0, k1, x)
         /\ \A x \in Pid \ {p} : Ahead(k0, k1, x)
         /\ from # "ready" => Ahead(k0, k1, p)
<1> DEFINE ks == SwitchProcessFromQueues(k0, from, to, p)
<1>1. k0 \in KernelState /\ Queues(k0) /\ k0.queue \in [QueueName -> Seq(Pid)]
  BY DEF WF, KernelState
<1>2. \A q \in QueueName, x \in Pid :
        InQueue(ks, q, x) <=> IF x = p THEN q = to ELSE InQueue(k0, q, x)
  BY <1>1, SwitchFact
<1>3. ks.queue = [k0.queue EXCEPT ![from] = RemovePid(k0.queue[from], p), ![to] = Append(k0.queue[to], p)]
  BY <1>1 DEF SwitchProcessFromQueues, Enqueue, KernelState
<1> HIDE DEF ks
<1>4. \A q \in QueueName, x \in Pid :
        InQueue(k1, q, x) <=> IF x = p THEN q = to ELSE InQueue(k0, q, x)
  BY <1>2 DEF InQueue, ks
<1>5. \A x \in Pid : Stays(k0, k1, x)
  BY <1>4 DEF Stays, Queued
<1>6. /\ Ready(k0) \in Seq(Pid) /\ NoDup(Ready(k0)) /\ ~In(k0.queue[to], p)
  BY <1>1, PidFact, InQueueIsIn DEF Queues, Ready
<1>7. ASSUME NEW x \in Pid, x # p, InQueue(k0, "ready", x)
      PROVE  FirstIndex(Ready(k1), x) <= FirstIndex(Ready(k0), x)
  <2>1. In(Ready(k0), x)
    BY <1>7, InQueueIsIn DEF Ready
  <2>2. CASE from = "ready"
    <3>1. Ready(k1) = RemovePid(Ready(k0), p)
      BY <1>1, <1>3, <2>2, PidFact DEF Ready, ks
    <3>2. QED
      BY <1>6, <1>7, <2>1, <3>1, RemovePlace
  <2>3. CASE to = "ready"
    <3>1. Ready(k1) = Append(Ready(k0), p)
      BY <1>1, <1>3, <2>3, PidFact DEF Ready, ks
    <3>2. QED
      BY <1>6, <2>1, <2>3, <3>1, AppendPlace DEF Ready
  <2>4. CASE from # "ready" /\ to # "ready"
    <3>1. Ready(k1) = Ready(k0)
      BY <1>1, <1>3, <2>4, PidFact DEF Ready, ks
    <3>2. FirstIndex(Ready(k0), x) \in Int
      BY <1>6, <2>1, FirstIndexFact
    <3>3. QED
      BY <3>1, <3>2
  <2>5. QED
    BY <2>2, <2>3, <2>4
<1>8. \A x \in Pid \ {p} : Ahead(k0, k1, x)
  BY <1>4, <1>7, PidFact DEF Ahead
<1>9. from # "ready" => Ahead(k0, k1, p)
  BY <1>1, PidFact DEF Ahead, Queues
<1>10. QED
  BY <1>5, <1>8, <1>9

\* Nobody who is still ready and has not been dispatched has moved back.
InLine(k0, k1) ==
  \A x \in Pid : InQueue(k0, "ready", x) /\ InQueue(k1, "ready", x) /\ k1.current # x =>
    FirstIndex(Ready(k1), x) <= FirstIndex(Ready(k0), x)

\* schedule() and yield() send the process they dispatch to the tail.
LEMMA SchedulePlace ==
  ASSUME NEW lost, NEW k0, WF(k0, lost), NEW k1, k1 = Schedule(k0) \/ k1 = Yield(k0)
  PROVE  /\ \A x \in Pid : Stays(k0, k1, x)
         /\ \A x \in Pid : k1.current # x => Ahead(k0, k1, x)
<1>1. ASSUME NEW n, NEW ka, ka = [k0 EXCEPT !.quantum = n], NEW kb, kb = SwitchContext(ka)
      PROVE  \A x \in Pid : kb.current # x /\ InQueue(k0, "ready", x) =>
               FirstIndex(Ready(kb), x) <= FirstIndex(Ready(k0), x)
  <2> DEFINE kc == [ka EXCEPT !.pcb[ka.current].rsp = IF ka.first THEN @ ELSE ka.cpu,
                              !.pcb[ka.current].state = IF @ = "RUNNING" THEN "READY" ELSE @]
             kg == GetNextProcess(kc)
             s  == Ready(k0)
  <2>1. kc.queue = k0.queue
    BY <1>1 DEF WF, KernelState
  <2>2. kb.queue = kg.queue /\ kb.current = kg.current
    <3>1. kb = [kg EXCEPT !.pcb[kg.current].state = "RUNNING",
                          !.first        = FALSE,
                          !.currentPid   = kg.current,
                          !.quantum      = CalculateQuantum(kg.pcb[kg.current].priority),
                          !.cpu          = kg.pcb[kg.current].rsp]
      BY <1>1 DEF SwitchContext
    <3> HIDE DEF kg
    <3>2. QED
      BY <3>1
  <2> HIDE DEF kc
  <2>3. s \in Seq(Pid) /\ NoDup(s) /\ k0.queue \in [QueueName -> Seq(Pid)]
    BY PidFact DEF WF, KernelState, Queues, Ready
  <2>4. CASE s = << >>
    BY <2>4 DEF InQueue, Ready
  <2>5. CASE s # << >>
    <3>1. kg = [kc EXCEPT !.queue["ready"] = Append(Tail(s), Head(s)),
                          !.current = Head(s),
                          !.foreground = IF kc.pcb[Head(s)].foreground THEN Head(s) ELSE @]
      BY <2>1, <2>5 DEF GetNextProcess, Ready
    <3>2. kg.current = Head(s) /\ kg.queue["ready"] = Append(Tail(s), Head(s))
      BY <2>1, <2>3, <3>1, PidFact
    <3>3. QED
      BY <2>2, <2>3, <2>5, <3>2, RotatePlace, InQueueIsIn DEF Ready
  <2>6. QED
    BY <2>4, <2>5
<1>2. ASSUME NEW x \in Pid, k1.current # x, InQueue(k0, "ready", x)
      PROVE  FirstIndex(Ready(k1), x) <= FirstIndex(Ready(k0), x)
  <2>1. CASE k1 = Yield(k0)
    <3> DEFINE ka == [k0 EXCEPT !.quantum = 0]
    <3>1. ka.quantum = 0
      BY DEF WF, KernelState
    <3>2. k1 = SwitchContext(ka)
      BY <2>1, <3>1 DEF Yield, Schedule
    <3>3. QED
      BY <1>1, <1>2, <3>2
  <2>2. CASE k1 = Schedule(k0)
    <3>1. CASE k0.quantum > 0 /\ k0.pcb[k0.current].state = "RUNNING"
      <4>1. k1.queue = k0.queue
        BY <2>2, <3>1 DEF Schedule, WF, KernelState
      <4>2. Ahead(k0, k1, x)
        BY <4>1, SamePlace
      <4>3. QED
        BY <1>2, <4>2 DEF Ahead
    <3>2. CASE ~(k0.quantum > 0 /\ k0.pcb[k0.current].state = "RUNNING")
      <4>1. k0 = [k0 EXCEPT !.quantum = k0.quantum]
        BY DEF WF, KernelState
      <4>2. k1 = SwitchContext(k0)
        BY <2>2, <3>2 DEF Schedule
      <4>3. QED
        BY <1>1, <1>2, <4>1, <4>2
    <3>3. QED
      BY <3>1, <3>2
  <2>3. QED
    BY <2>1, <2>2
<1>3. \A q \in QueueName, x \in Pid : InQueue(k1, q, x) <=> InQueue(k0, q, x)
  BY ScheduleFact
<1>4. QED
  BY <1>2, <1>3, PidFact DEF Stays, Ahead, Queued

\* A process leaves the ready queue; if it is the current one, yield follows.
LEMMA LeavePlace ==
  ASSUME NEW lost, NEW k0, WF(k0, lost), NEW p \in Pid, NEW to \in QueueName \ {"zombie"}, to # "ready",
         InQueue(k0, "ready", p),
         NEW ks, ks = SetState(SwitchProcessFromQueues(k0, "ready", to, p), p, "BLOCKED"),
         NEW k1, k1 = ks \/ k1 = Yield(ks)
  PROVE  InLine(k0, k1) /\ \A x \in Pid : Stays(k0, k1, x)
<1>1. /\ WF(ks, lost) /\ SameRest(k0, ks)
      /\ ks.pcb = [k0.pcb EXCEPT ![p].state = "BLOCKED"]
      /\ \A q \in QueueName, x \in Pid :
           InQueue(ks, q, x) <=> IF x = p THEN q = to ELSE InQueue(k0, q, x)
  <2> DEFINE st == "BLOCKED"
             from == "ready"
  <2>1. /\ from \in QueueName \ {"zombie"} /\ from # to /\ InQueue(k0, from, p)
        /\ st \in State /\ st = IF to = "ready" THEN "READY" ELSE "BLOCKED"
        /\ ks = SetState(SwitchProcessFromQueues(k0, from, to, p), p, st)
    BY NameFact
  <2> HIDE DEF st, from
  <2>2. /\ WF(ks, lost) /\ SameRest(k0, ks)
        /\ ks.pcb = [k0.pcb EXCEPT ![p].state = st]
        /\ \A q \in QueueName, x \in Pid :
             InQueue(ks, q, x) <=> IF x = p THEN q = to ELSE InQueue(k0, q, x)
    BY <2>1, MoveFact
  <2>3. QED
    BY <2>2 DEF st
<1>2. ks.queue = SwitchProcessFromQueues(k0, "ready", to, p).queue
  BY DEF SetState
<1>3. /\ \A x \in Pid : Stays(k0, ks, x)
      /\ \A x \in Pid \ {p} : Ahead(k0, ks, x)
  BY <1>2, MovePlace, PidFact
<1>4. ~InQueue(ks, "ready", p)
  BY <1>1, PidFact
<1>5. CASE k1 = ks
  BY <1>3, <1>4, <1>5 DEF InLine, Ahead
<1>6. CASE k1 = Yield(ks)
  <2>1. /\ WF(k1, lost) /\ \A q \in QueueName, x \in Pid : InQueue(k1, q, x) <=> InQueue(ks, q, x)
    BY <1>1, <1>6, ScheduleFact DEF Keeps
  <2>2. /\ \A x \in Pid : Stays(ks, k1, x)
        /\ \A x \in Pid : k1.current # x => Ahead(ks, k1, x)
    BY <1>1, <1>6, SchedulePlace
  <2>3. ~InQueue(k1, "ready", p)
    BY <1>4, <2>1, PidFact
  <2>4. \A x \in Pid : Stays(k0, k1, x)
    BY <1>1, <1>3, <2>1, <2>2, PlaceTrans
  <2>5. \A x \in Pid \ {p} : k1.current # x => Ahead(k0, k1, x)
    BY <1>1, <1>3, <2>1, <2>2, PlaceTrans
  <2>6. QED
    BY <2>3, <2>4, <2>5 DEF InLine, Ahead
<1>7. QED
  BY <1>5, <1>6

\* A step that only lets processes get ahead.
LEMMA AheadInLine ==
  ASSUME NEW k0, NEW k1, \A x \in Pid : k1.current # x => Ahead(k0, k1, x)
  PROVE  InLine(k0, k1)
BY DEF InLine, Ahead

\* blockProcess, unblockProcess and the two of them for semaphores.
LEMMA BlockPlace ==
  ASSUME NEW lost, NEW k0, WF(k0, lost), NEW p \in Pid, NEW k1, k1 = BlockProcess(k0, p) \/ k1 = BlockProcessBySem(k0, p)
  PROVE  InLine(k0, k1) /\ \A x \in Pid : Stays(k0, k1, x)
<1>1. CASE k1 = k0
  BY <1>1, SamePlace, AheadInLine
<1>2. CASE k1 # k0
  <2> DEFINE a == SetState(SwitchProcessFromQueues(k0, "ready", "blocked", p), p, "BLOCKED")
             b == SetState(SwitchProcessFromQueues(k0, "ready", "blockedBySem", p), p, "BLOCKED")
  <2>1. /\ InQueue(k0, "ready", p)
        /\ (k1 = a \/ k1 = Yield(a)) \/ (k1 = b \/ k1 = Yield(b))
    BY <1>2 DEF BlockProcess, BlockProcessBySem, BlockProcessQueue, BlockProcessQueueBySem, CanBlock
  <2> HIDE DEF a, b
  <2>2. CASE k1 = a \/ k1 = Yield(a)
    BY <2>1, <2>2, LeavePlace, NameFact DEF a
  <2>3. CASE k1 = b \/ k1 = Yield(b)
    BY <2>1, <2>3, LeavePlace, NameFact DEF b
  <2>4. QED
    BY <2>1, <2>2, <2>3
<1>3. QED
  BY <1>1, <1>2

\* unblockProcess puts a process at the end of the line.
LEMMA UnblockPlace ==
  ASSUME NEW lost, NEW k0, WF(k0, lost), NEW p \in Pid, NEW k1, k1 = UnblockProcess(k0, p) \/ k1 = UnblockProcessBySem(k0, p)
  PROVE  \A x \in Pid : Stays(k0, k1, x) /\ Ahead(k0, k1, x)
<1>1. CASE k1 = k0
  BY <1>1, SamePlace
<1>2. CASE k1 # k0
  <2>1. \E from \in {"blocked", "blockedBySem"} :
          /\ InQueue(k0, from, p)
          /\ k1 = SetState(SwitchProcessFromQueues(k0, from, "ready", p), p, "READY")
    BY <1>2 DEF UnblockProcess, UnblockProcessBySem, UnblockProcessQueue, UnblockProcessQueueBySem
  <2>2. PICK from \in {"blocked", "blockedBySem"} :
          /\ InQueue(k0, from, p)
          /\ k1 = SetState(SwitchProcessFromQueues(k0, from, "ready", p), p, "READY")
    BY <2>1
  <2>3. k1.queue = SwitchProcessFromQueues(k0, from, "ready", p).queue
    BY <2>2 DEF SetState
  <2>4. from \in QueueName /\ "ready" \in QueueName /\ from # "ready"
    BY DEF QueueName
  <2>5. /\ \A x \in Pid : Stays(k0, k1, x)
        /\ \A x \in Pid \ {p} : Ahead(k0, k1, x)
        /\ Ahead(k0, k1, p)
    BY <2>2, <2>3, <2>4, MovePlace
  <2>6. QED
    BY <2>5
<1>3. QED
  BY <1>1, <1>2

\* Nobody moves back and nobody is lost.
AllAhead(k0, k1) == \A x \in Pid : Stays(k0, k1, x) /\ Ahead(k0, k1, x)

\* One function after another.
LEMMA AllAheadTrans ==
  ASSUME NEW lost, NEW k0, WF(k0, lost), NEW k1, WF(k1, lost), NEW k2, WF(k2, lost), AllAhead(k0, k1), AllAhead(k1, k2)
  PROVE  AllAhead(k0, k2)
BY PlaceTrans DEF AllAhead

\* post wakes one process at most, and puts it at the end of the line.
LEMMA SemPostPlace ==
  ASSUME NEW lost, NEW k0, WF(k0, lost), NEW s \in SemId, NEW k1, k1 = SemPost(k0, s)
  PROVE  AllAhead(k0, k1)
<1> DEFINE b == k0.sems[s].blocked
<1>1. b \in Seq(Pid) /\ k0.sems[s] \in Sem
  BY SemTypeFact DEF WF, KernelState
<1>2. CASE b = << >>
  <2>1. k1.queue = k0.queue
    BY <1>2 DEF SemPost
  <2>2. QED
    BY <2>1, SamePlace DEF AllAhead
<1>3. CASE b # << >>
  <2> DEFINE h == Head(b)
             e == [k0.sems[s] EXCEPT !.blocked = Tail(@)]
             k2 == SetSem(k0, s, e)
  <2>1. h \in Pid /\ Tail(b) \in Seq(Pid)
    BY <1>1, <1>3
  <2>2. e \in Sem
    <3> DEFINE tb == Tail(b)
    <3>1. e = [k0.sems[s] EXCEPT !.blocked = tb] /\ tb \in Seq(Pid)
      BY <2>1
    <3> HIDE DEF tb, e, b
    <3>2. QED
      BY <3>1, <1>1 DEF Sem
  <2>3. k1 = UnblockProcessBySem(k2, h)
    BY <1>3 DEF SemPost, SetSem
  <2>4. k2.queue = k0.queue
    BY DEF SetSem
  <2> HIDE DEF e
  <2>5. WF(k2, lost)
    BY <2>2, SemsWriteFact
  <2> HIDE DEF k2, h
  <2>6. AllAhead(k0, k2)
    BY <2>4, SamePlace DEF AllAhead
  <2>7. AllAhead(k2, k1)
    BY <2>1, <2>3, <2>5, UnblockPlace DEF AllAhead
  <2>8. WF(k1, lost)
    BY SemPostFact DEF Steps, Keeps
  <2>9. QED
    BY <2>5, <2>6, <2>7, <2>8, AllAheadTrans
<1>4. QED
  BY <1>2, <1>3

\* wait takes a unit, or the caller out of the line.
LEMMA SemWaitPlace ==
  ASSUME NEW lost, NEW k0, WF(k0, lost), CurOK(k0, lost), NEW s \in SemId, NEW k1, k1 = SemWait(k0, s) \/ k1 = SemWaitNoNode(k0, s)
  PROVE  InLine(k0, k1) /\ \A x \in Pid : Stays(k0, k1, x)
<1> DEFINE c == k0.current
<1>1. k0.sems[s].blocked \in Seq(Pid) /\ k0.sems[s] \in Sem /\ c \in Pid
  BY SemTypeFact DEF WF, KernelState
<1>2. CASE k1 = SemWaitNoNode(k0, s)
  BY <1>1, <1>2, BlockPlace DEF SemWaitNoNode
<1>3. CASE k1 = SemWait(k0, s) /\ k0.sems[s].value > 0
  <2>1. k1.queue = k0.queue
    BY <1>3 DEF SemWait
  <2>2. QED
    BY <2>1, SamePlace, AheadInLine
<1>4. CASE k1 = SemWait(k0, s) /\ ~(k0.sems[s].value > 0)
  <2> DEFINE e == [k0.sems[s] EXCEPT !.blocked = Append(@, c)]
             k2 == SetSem(k0, s, e)
  <2>1. e \in Sem
    <3> DEFINE a == Append(k0.sems[s].blocked, c)
    <3>1. a \in Seq(Pid) /\ e = [k0.sems[s] EXCEPT !.blocked = a]
      BY <1>1
    <3> HIDE DEF a, e
    <3>2. QED
      BY <1>1, <3>1 DEF Sem
  <2>2. k1 = BlockProcessBySem(k2, c)
    BY <1>4 DEF SemWait, SetSem
  <2>3. k2.queue = k0.queue
    BY DEF SetSem
  <2> HIDE DEF e
  <2>4. WF(k2, lost)
    BY <2>1, SemsWriteFact
  <2> HIDE DEF k2
  <2>5. InLine(k2, k1) /\ \A x \in Pid : Stays(k2, k1, x)
    BY <1>1, <2>2, <2>4, BlockPlace
  <2>6. Ready(k2) = Ready(k0) /\ \A q, x : InQueue(k2, q, x) <=> InQueue(k0, q, x)
    BY <2>3 DEF Ready, InQueue
  <2>7. QED
    BY <2>5, <2>6 DEF InLine, Stays, Queued
<1>5. QED
  BY <1>2, <1>3, <1>4

\* The parent's count and semaphore, when a child dies.
LEMMA UncountPlace ==
  ASSUME NEW lost, NEW k0, WF(k0, lost), NEW p \in Pid, k0.pcb[p].children_sem >= 0,
         NEW k9, k9 = UncountForegroundChild(k0, p)
  PROVE  AllAhead(k0, k9)
<1> DEFINE s  == k0.pcb[p].children_sem
           n  == k0.pcb[p].children_count - 1
           k1 == [k0 EXCEPT !.pcb[p].children_count = n]
           k2 == SemPost(k1, s)
           k3 == SemClose(k2, s)
           k4 == [k3 EXCEPT !.pcb[p].children_sem = -1]
<1>1. /\ k0 \in KernelState /\ k0.pcb \in [Pid -> Pcb] /\ s \in SemId /\ n \in Int
      /\ k0.pcb[p].children_count \in Int
  BY DEF WF, KernelState, Pcb
<1>2. k9 = IF n = 0 THEN k4 ELSE k1
  <2>1. k1 = [k0 EXCEPT !.pcb[p].children_count = @ - 1] /\ k1.pcb[p].children_count = n
    BY <1>1 DEF Pcb, KernelState
  <2> HIDE DEF k1, n
  <2>2. QED
    BY <2>1 DEF UncountForegroundChild
<1> HIDE DEF s, n
<1>3. k1.queue = k0.queue /\ WF(k1, lost)
  <2>1. k1 = SetCounts(k0, p, n, s) /\ s \in SemId \cup {-1} /\ n \in Int
    BY <1>1, SetCountsFact DEF s
  <2> HIDE DEF k1
  <2>2. Steps(k0, k1, lost) /\ k1.queue = k0.queue
    BY <2>1, CountsWriteEffect
  <2>3. QED
    BY <2>2 DEF Steps, Keeps
<1>4. k4.queue = k3.queue /\ (k3.queue = k2.queue \/ k3 = k2)
  BY DEF SemClose
<1> HIDE DEF k1, k4
<1>5. AllAhead(k0, k1)
  BY <1>3, SamePlace DEF AllAhead
<1>6. AllAhead(k1, k2) /\ WF(k2, lost)
  BY <1>1, <1>3, SemPostPlace, SemPostFact DEF Steps, Keeps
<1> HIDE DEF k2, k3
<1>7. AllAhead(k0, k2)
  BY <1>3, <1>5, <1>6, AllAheadTrans
<1>8. AllAhead(k0, k4)
  <2>1. k4.queue = k2.queue
    BY <1>4
  <2>2. Ready(k4) = Ready(k2) /\ \A q, x : InQueue(k4, q, x) <=> InQueue(k2, q, x)
    BY <2>1 DEF Ready, InQueue
  <2>3. QED
    BY <1>7, <2>2 DEF AllAhead, Stays, Ahead, Queued
<1>9. QED
  BY <1>2, <1>5, <1>8

\* The parent that waits in waitpid goes to the end of the line.
LEMMA WakeUpPlace ==
  ASSUME NEW lost, NEW k0, WF(k0, lost), NEW parent \in Pid \cup {NoPid}, NEW child,
         NEW k1, k1 = WakeUpWaitingParent(k0, parent, child)
  PROVE  AllAhead(k0, k1)
<1>1. CASE k1 = k0
  BY <1>1, SamePlace DEF AllAhead
<1>2. CASE k1 # k0
  <2>1. HasProcess(k0, parent) /\ k1 = UnblockProcess(k0, parent)
    BY <1>2 DEF WakeUpWaitingParent
  <2>2. parent \in Pid
    <3>1. \A q \in QueueName : ~InQueue(k0, q, NoPid)
      BY PidFact DEF WF, KernelState, InQueue
    <3>2. NoPid # k0.current /\ NoPid # IdlePid
      BY PidFact DEF WF, KernelState
    <3>3. QED
      BY <2>1, <3>1, <3>2 DEF HasProcess
  <2>3. QED
    BY <2>1, <2>2, UnblockPlace DEF AllAhead
<1>3. QED
  BY <1>1, <1>2

\* killProcess takes the victim out of the line.
LEMMA KillProcessPlace ==
  ASSUME NEW lost, NEW k0, WF(k0, lost), CurOK(k0, lost), NEW p \in Pid, Killable(k0, p), NEW k1, k1 = KillProcess(k0, p)
  PROVE  \A x \in Pid \ {p} : Stays(k0, k1, x) /\ Ahead(k0, k1, x)
<1> DEFINE kc == [k0 EXCEPT !.current = IF @ = p THEN IdlePid ELSE @]
           from == QueueToKillFrom(kc, p)
           ks == SwitchProcessFromQueues(kc, from, "zombie", p)
<1>1. k0 \in KernelState /\ Queues(k0) /\ k0.queue \in [QueueName -> Seq(Pid)]
  BY DEF WF, KernelState
<1>2. kc.queue = k0.queue
  OBVIOUS
<1>3. \A q, x : InQueue(kc, q, x) <=> InQueue(k0, q, x)
  BY <1>2 DEF InQueue
<1>4. k1.queue = ks.queue
  <2>1. Killable(kc, p)
    BY <1>3 DEF Killable
  <2> HIDE DEF kc
  <2>2. k1 = SetState([ks EXCEPT !.foreground = IF @ = p THEN NoPid ELSE @], p, "ZOMBIE")
    BY <2>1 DEF KillProcess, kc
  <2> HIDE DEF ks
  <2>3. QED
    BY <2>2 DEF SetState
<1> HIDE DEF kc
<1>5. from \in QueueName \ {"zombie"} /\ InQueue(k0, from, p)
  BY <1>3 DEF QueueToKillFrom, Killable, QueueName
<1> HIDE DEF from
<1>6. SwitchProcessFromQueues(kc, from, "zombie", p).queue = SwitchProcessFromQueues(k0, from, "zombie", p).queue
  <2>1. ASSUME NEW kk, kk.queue = k0.queue, DOMAIN kk = DOMAIN k0, kk = [f \in DOMAIN k0 |-> kk[f]]
        PROVE  SwitchProcessFromQueues(kk, from, "zombie", p).queue
                 = [[k0.queue EXCEPT ![from] = RemovePid(@, p)] EXCEPT !["zombie"] = Append(@, p)]
    <3>1. InQueue(kk, from, p)
      BY <1>5, <2>1 DEF InQueue
    <3>2. QED
      BY <1>1, <2>1, <3>1 DEF SwitchProcessFromQueues, Enqueue, KernelState
  <2>2. QED
    BY <1>1, <1>2, <2>1 DEF kc, KernelState
<1>7. QED
  BY <1>4, <1>5, <1>6, MovePlace, PidFact

\* kill: everybody but the victim keeps his place, and yield may follow.
LEMMA KillPlace ==
  ASSUME NEW lost, NEW k0, WF(k0, lost), CurOK(k0, lost), NEW p \in Pid, NEW k9, k9 = Kill(k0, p)
  PROVE  InLine(k0, k9) /\ \A x \in Pid \ {p} : Stays(k0, k9, x)
<1> DEFINE parent == k0.pcb[p].parentPid
           k1 == KillProcess(k0, p)
           counted == /\ parent > 0 /\ k0.pcb[p].foreground
                      /\ HasProcess(k1, parent) /\ k1.pcb[parent].children_sem >= 0
           k2 == IF counted THEN UncountForegroundChild(k1, parent) ELSE k1
           kw == WakeUpWaitingParent(k2, parent, p)
           k3 == ReapChild(kw, p)
<1>1. CASE k9 = k0 \/ k9 = [k0 EXCEPT !.current = IdlePid]
  <2>1. k9.queue = k0.queue
    BY <1>1 DEF WF, KernelState
  <2>2. QED
    BY <2>1, SamePlace, AheadInLine
<1>2. CASE ~(k9 = k0 \/ k9 = [k0 EXCEPT !.current = IdlePid])
  <2>1. p > ShellPid /\ Killable(k0, p) /\ Killed(k0, k9, p)
    BY <1>2, KillEffect
  <2>2. k9 = IF p = k0.currentPid THEN Yield(k3) ELSE k3
    <3>1. ~(p <= ShellPid)
      BY <2>1 DEF ShellPid, Pid
    <3>2. QED
      BY <2>1, <3>1 DEF Kill
  <2>3. parent \in Pid \cup {NoPid} /\ (parent > 0 => parent \in Pid) /\ p # IdlePid
    <3>1. parent \in Pid \cup {NoPid}
      BY DEF WF, KernelState, Pcb
    <3>2. QED
      BY <2>1, <3>1 DEF NoPid, ShellPid, IdlePid
  <2>4. k1 = KillProcess(k0, p)
    OBVIOUS
  <2> HIDE DEF k1, parent
  <2>5. WF(k1, lost) /\ CurOK(k1, lost) /\ InQueue(k1, "zombie", p)
    BY <2>1, <2>3, <2>4, KillProcessFact
  <2>6. \A x \in Pid \ {p} : Stays(k0, k1, x) /\ Ahead(k0, k1, x)
    BY <2>1, <2>4, KillProcessPlace
  <2>7. AllAhead(k1, k2) /\ Steps(k1, k2, lost)
    <3>1. CASE counted
      <4>1. parent \in Pid /\ k1.pcb[parent].children_sem >= 0 /\ k2 = UncountForegroundChild(k1, parent)
        BY <2>3, <3>1
      <4> HIDE DEF k2
      <4>2. QED
        BY <2>5, <4>1, UncountPlace, UncountChildFact
    <3>2. CASE ~counted
      <4>1. k2 = k1 /\ Steps(k1, k1, lost)
        BY <2>5, <3>2, StepsRefl
      <4>2. QED
        BY <2>5, <4>1, SamePlace DEF AllAhead
    <3>3. QED
      BY <3>1, <3>2
  <2> HIDE DEF k2
  <2>8. WF(k2, lost)
    BY <2>7 DEF Steps, Keeps
  <2>9. AllAhead(k2, kw) /\ Steps(k2, kw, lost)
    BY <2>3, <2>8, WakeUpPlace, WakeUpFact
  <2> HIDE DEF kw
  <2>10. WF(kw, lost) /\ InQueue(kw, "zombie", p) /\ (CurOK(k1, lost) => CurOK(kw, lost))
    BY <2>5, <2>7, <2>9 DEF Steps, Keeps
  <2>11. AllAhead(k1, kw)
    BY <2>5, <2>7, <2>8, <2>9, <2>10, AllAheadTrans
  <2>12. \A x \in Pid \ {p} : Stays(kw, k3, x) /\ Ahead(kw, k3, x)
    <3>1. kw.queue \in [QueueName -> Seq(Pid)]
      BY <2>10 DEF WF, KernelState
    <3>2. /\ k3.queue = [kw.queue EXCEPT !["zombie"] = RemovePid(@, p)]
      BY DEF ReapChild, RemoveFromZombie
    <3>3. \A q \in QueueName \ {"zombie"} : k3.queue[q] = kw.queue[q]
      BY <3>1, <3>2
    <3> HIDE DEF k3
    <3>4. Ready(k3) = Ready(kw)
      BY <3>3 DEF Ready, QueueName
    <3>5. k3.queue["zombie"] = RemovePid(kw.queue["zombie"], p)
      BY <3>1, <3>2, PidFact
    <3>6. \A x \in Pid \ {p} : InQueue(kw, "zombie", x) => InQueue(k3, "zombie", x)
      <4>1. kw.queue["zombie"] \in Seq(Pid) /\ NoDup(kw.queue["zombie"])
        BY <2>10, PidFact DEF WF, KernelState, Queues
      <4>2. QED
        BY <3>5, <4>1, RemovePidFact, InQueueIsIn
    <3>7. ASSUME NEW x \in Pid \ {p} PROVE Stays(kw, k3, x)
      BY <3>3, <3>6, <3>7 DEF Stays, Queued, InQueue
    <3>8. ASSUME NEW x \in Pid PROVE Ahead(kw, k3, x)
      <4>1. Ahead(kw, kw, x)
        BY <2>10, SamePlace
      <4>2. InQueue(k3, "ready", x) <=> InQueue(kw, "ready", x)
        BY <3>4, InQueueIsIn DEF Ready
      <4>3. QED
        BY <3>4, <4>1, <4>2 DEF Ahead
    <3>9. QED
      BY <3>7, <3>8
  <2>13. WF(k3, lost)
    BY <2>5, <2>10, ReapFact
  <2> HIDE DEF k3
  <2>14. \A x \in Pid \ {p} : Stays(k0, k3, x) /\ Ahead(k0, k3, x)
    <3>1. ASSUME NEW x \in Pid \ {p} PROVE Stays(k0, k3, x) /\ Ahead(k0, k3, x)
      <4>1. Stays(k0, kw, x) /\ Ahead(k0, kw, x)
        BY <2>5, <2>6, <2>10, <2>11, PlaceTrans DEF AllAhead
      <4>2. QED
        BY <2>10, <2>12, <2>13, <4>1, PlaceTrans
    <3>2. QED
      BY <3>1
  <2>15. WF(k9, lost) /\ ~InQueue(k9, "ready", p)
    <3>1. WF(k9, lost)
      BY KillFact DEF Sound
    <3>2. k9.pcb[p].state = "UNUSED"
      BY <2>1 DEF Killed
    <3>3. QED
      BY <3>1, <3>2 DEF WF, States
  <2>16. \A x \in Pid \ {p} : Stays(k3, k9, x) /\ (k9.current # x => Ahead(k3, k9, x))
    BY <2>2, <2>13, SamePlace, SchedulePlace
  <2>17. \A x \in Pid \ {p} : Stays(k0, k9, x) /\ (k9.current # x => Ahead(k0, k9, x))
    <3>1. ASSUME NEW x \in Pid \ {p} PROVE Stays(k0, k9, x) /\ (k9.current # x => Ahead(k0, k9, x))
      BY <2>13, <2>14, <2>15, <2>16, PlaceTrans
    <3>2. QED
      BY <3>1
  <2>18. QED
    BY <2>15, <2>17 DEF InLine, Ahead
<1>3. QED
  BY <1>1, <1>2

\* createProcessOnPCB appends, to the ready or to the blocked queue.
LEMMA CreatePlace ==
  ASSUME NEW lost, NEW k0, WF(k0, lost), CurOK(k0, lost), k0.nextPid <= MaxPid,
         NEW prio \in Nat, NEW fg \in BOOLEAN, NEW tty \in BOOLEAN,
         NEW k9, k9 = CreateProcess(k0, prio, fg, tty)
  PROVE  InLine(k0, k9)
<1> DEFINE k1 == IF fg /\ k0.current > 0 THEN CountForegroundChild(k0, k0.current) ELSE k0
           p == k0.nextPid
<1>1. /\ Steps(k0, k1, lost)
      /\ k9 \in KernelState /\ k9.cpu = k1.cpu /\ k9.first = k1.first
      /\ \E q \in {"ready", "blocked"}, n \in Pcb :
           /\ NewFields(n, k0.nextPid, k0.current, fg) /\ Born(k1, k9, n, q)
           /\ n.priority = IDLE_PRIORITY => prio = IDLE_PRIORITY
           /\ q = "blocked" => ~fg
  BY CreateBorn
<1>2. k0.current \in Pid /\ k0.queue \in [QueueName -> Seq(Pid)] /\ p \in Pid /\ k0.pcb[p].state = "UNUSED"
  BY FreshFact DEF WF, KernelState
<1>3. k1.queue = k0.queue
  BY <1>2, CountChildEffect
<1>4. k1.nextPid = p
  BY <1>1 DEF Steps
<1> HIDE DEF k1, p
<1>5. PICK q \in {"ready", "blocked"}, n \in Pcb : Born(k1, k9, n, q)
  BY <1>1
<1>6. \/ k9.queue = k0.queue
      \/ k9.queue = [k0.queue EXCEPT ![q] = Append(k0.queue[q], p)]
  BY <1>3, <1>4, <1>5 DEF Born
<1>7. Ready(k0) \in Seq(Pid) /\ NoDup(Ready(k0)) /\ ~In(Ready(k0), p)
  BY <1>2, PidFact, InQueueIsIn DEF WF, Queues, States, Ready
<1>8. Ready(k9) = Ready(k0) \/ Ready(k9) = Append(Ready(k0), p)
  BY <1>2, <1>6, PidFact DEF Ready
<1>9. ASSUME NEW x \in Pid, InQueue(k0, "ready", x)
      PROVE  FirstIndex(Ready(k9), x) <= FirstIndex(Ready(k0), x)
  <2>1. In(Ready(k0), x)
    BY <1>9, InQueueIsIn DEF Ready
  <2>2. FirstIndex(Ready(k0), x) \in Int
    BY <1>7, <2>1, FirstIndexFact
  <2>3. FirstIndex(Append(Ready(k0), p), x) <= FirstIndex(Ready(k0), x)
    BY <1>2, <1>7, <2>1, AppendPlace
  <2>4. CASE Ready(k9) = Ready(k0)
    <3>1. FirstIndex(Ready(k9), x) = FirstIndex(Ready(k0), x)
      BY <2>4
    <3>2. QED
      BY <2>2, <3>1
  <2>5. CASE Ready(k9) = Append(Ready(k0), p)
    BY <2>3, <2>5
  <2>6. QED
    BY <1>8, <2>4, <2>5
<1>10. QED
  BY <1>9 DEF InLine

\* waitpid takes the caller out of the line.
LEMMA WaitpidPlace ==
  ASSUME NEW lost, NEW k0, WF(k0, lost), CurOK(k0, lost), NEW p \in Pid, NEW k9, k9 = WaitpidBlock(k0, p)
  PROVE  InLine(k0, k9) /\ \A x \in Pid : Stays(k0, k9, x)
<1> DEFINE c == k0.current
           kw == SetWaiting(k0, c, p)
<1>1. c \in Pid
  BY DEF WF, KernelState
<1>2. CASE CanBlock(k0, c)
  <2>1. kw = SetWaiting(k0, c, p)
    OBVIOUS
  <2> HIDE DEF kw
  <2>2. /\ WaitpidBlock(k0, p) = BlockProcess(kw, c) /\ CanBlock(kw, c)
        /\ Steps(k0, kw, lost) /\ kw.queue = k0.queue /\ kw.current = c
        /\ kw.pcb = [k0.pcb EXCEPT ![c].waitingForPid = p]
    BY <1>2, <2>1, WaitpidShape
  <2>3. WF(kw, lost)
    BY <2>2 DEF Steps, Keeps
  <2>4. InLine(kw, k9) /\ \A x \in Pid : Stays(kw, k9, x)
    BY <1>1, <2>2, <2>3, BlockPlace
  <2>5. Ready(kw) = Ready(k0) /\ \A q, x : InQueue(kw, q, x) <=> InQueue(k0, q, x)
    BY <2>2 DEF Ready, InQueue
  <2>6. QED
    BY <2>4, <2>5 DEF InLine, Stays, Queued
<1>3. CASE ~CanBlock(k0, c)
  <2>1. k9.queue = k0.queue
    BY <1>3 DEF WaitpidBlock
  <2>2. QED
    BY <2>1, SamePlace, AheadInLine
<1>4. QED
  BY <1>2, <1>3

\* Every step keeps the line.
LEMMA LineStep == IInv /\ [Next]_vars => InLine(k, k')
<1> SUFFICES ASSUME IInv, [Next]_vars PROVE InLine(k, k')
  OBVIOUS
<1>1. /\ WF(k, Lost(k)) /\ CurOK(k, Lost(k)) /\ NoZombies(k) /\ FrameOK
      /\ k.cpu \in Context /\ k.current \in Pid /\ k.foreground \in Pid \cup {NoPid}
  BY DEF IInv, WF, KernelState
<1>2. k'.queue = k.queue \/ k' = k => InLine(k, k')
  BY <1>1, SamePlace, AheadInLine
<1>3. CASE TimerTick \/ SysYield
  BY <1>1, <1>3, SchedulePlace, AheadInLine DEF TimerTick, SysYield
<1>4. CASE CtrlC
  BY <1>1, <1>4, KillPlace DEF CtrlC
<1>5. ASSUME NEW priority \in Prios, NEW fg \in BOOLEAN, NEW tty \in BOOLEAN,
             SysCreateProcess(priority, fg, tty)
      PROVE  InLine(k, k')
  BY <1>1, <1>5, CreatePlace, PriosAssumption DEF SysCreateProcess
<1>nonode. CASE CreatesNoNode
  <2>1. PICK priority \in Prios, fg \in BOOLEAN, tty \in BOOLEAN : SysCreateNoNode(priority, fg, tty)
    BY <1>nonode DEF CreatesNoNode
  <2>2. k'.queue = k.queue
    BY <1>1, <2>1, NoNodeFact, PriosAssumption DEF SysCreateNoNode
  <2>3. QED
    BY <1>2, <2>2
<1>6. CASE SysCreateNoStack
  <2>1. k'.queue = k.queue
    BY <1>6 DEF SysCreateNoStack
  <2>2. QED
    BY <1>2, <2>1
<1>7. CASE SysExit
  BY <1>1, <1>7, KillPlace DEF SysExit
<1>8. ASSUME NEW p \in Pid, SysKill(p) PROVE InLine(k, k')
  BY <1>1, <1>8, KillPlace DEF SysKill
<1>9. ASSUME NEW p \in Pid, SysBlock(p) PROVE InLine(k, k')
  BY <1>1, <1>9, BlockPlace DEF SysBlock
<1>10. ASSUME NEW p \in Pid, SysUnblock(p) PROVE InLine(k, k')
  BY <1>1, <1>10, UnblockPlace, AheadInLine DEF SysUnblock
<1>11. ASSUME NEW p \in Pid, HasProcess(k, p), k.pcb[p].state = "ZOMBIE",
              k' = WaitpidReap(k, p)
       PROVE  InLine(k, k')
  <2>1. k'.queue = [k.queue EXCEPT !["zombie"] = RemovePid(@, p)]
    BY <1>11 DEF WaitpidReap, ReapChild, RemoveFromZombie
  <2>2. k.queue \in [QueueName -> Seq(Pid)]
    BY <1>1 DEF WF, KernelState
  <2>3. Ready(k') = Ready(k)
    BY <2>1, <2>2, PidFact DEF Ready
  <2>4. InLine(k, k)
    BY <1>1, SamePlace, AheadInLine
  <2>5. ASSUME NEW x \in Pid, InQueue(k, "ready", x)
        PROVE  FirstIndex(Ready(k'), x) <= FirstIndex(Ready(k), x)
    <3>1. Ahead(k, k, x)
      BY <1>1, SamePlace
    <3>2. QED
      BY <2>3, <2>5, <3>1 DEF Ahead
  <2>6. QED
    BY <2>5 DEF InLine
<1>12. ASSUME NEW p \in Pid, SysWaitpid(p) PROVE InLine(k, k')
  <2>1. CASE k.pcb[p].state = "ZOMBIE"
    BY <1>11, <1>12, <2>1 DEF SysWaitpid, MayWaitFor
  <2>2. CASE k.pcb[p].state # "ZOMBIE"
    BY <1>1, <1>12, <2>2, WaitpidPlace DEF SysWaitpid
  <2>3. QED
    BY <2>1, <2>2
<1>13. ASSUME NEW p \in Pid, NEW priority \in Prios, SysChangePrio(p, priority) PROVE InLine(k, k')
  <2>1. k' = ChangePrio(k, p, priority) /\ priority \in Nat
    BY <1>13, PriosAssumption DEF SysChangePrio
  <2>2. k'.queue = k.queue
    BY <1>1, <2>1, ChangePrioEffect
  <2>3. QED
    BY <1>2, <2>2
<1>14. CASE WaitpidResume
  <2> DEFINE p == frame[k.cpu].pid
  <2>1. p \in Pid /\ k' = IF WaitpidResult(k, p) = p THEN WaitpidReap(k, p) ELSE k
    BY <1>1, <1>14 DEF WaitpidResume, FrameOK
  <2> HIDE DEF p
  <2>2. WaitpidResult(k, p) = p => HasProcess(k, p) /\ k.pcb[p].state = "ZOMBIE"
    BY <2>1 DEF WaitpidResult, Pid
  <2>3. QED
    BY <1>2, <1>11, <2>1, <2>2
<1>15. ASSUME NEW s \in UserSems, NEW v \in InitValues, SysSemOpen(s, v) PROVE InLine(k, k')
  <2>1. s \in SemId /\ v \in Nat /\ k' = SemInit(k, s, v)
    BY <1>15, UserSemsAssumption, ValuesAssumption DEF SysSemOpen
  <2>2. k'.queue = k.queue
    BY <1>1, <2>1, EntryEffect
  <2>3. QED
    BY <1>2, <2>2
<1>16. ASSUME NEW s \in UserSems, SysSemWait(s) \/ SysSemWaitNoNode(s) \/ SysSemPost(s) \/ SysSemClose(s)
       PROVE  InLine(k, k')
  <2>1. s \in SemId /\ 0 \in Nat
    BY UserSemsAssumption
  <2>2. CASE k' = SemWait(k, s) \/ k' = SemWaitNoNode(k, s)
    BY <1>1, <2>1, <2>2, SemWaitPlace
  <2>3. CASE k' = SemPost(k, s)
    BY <1>1, <2>1, <2>3, SemPostPlace, AheadInLine DEF AllAhead
  <2>4. CASE k' = SemClose(k, s)
    <3>1. k'.queue = k.queue
      BY <1>1, <2>1, <2>4, EntryEffect
    <3>2. QED
      BY <1>2, <3>1
  <2>5. QED
    BY <1>16, <2>2, <2>3, <2>4 DEF SysSemWait, SysSemWaitNoNode, SysSemPost, SysSemClose
<1>17. CASE UNCHANGED vars
  BY <1>2, <1>17 DEF vars
<1>18. QED
  BY <1>3, <1>4, <1>5, <1>nonode, <1>6, <1>7, <1>8, <1>9, <1>10, <1>12, <1>13, <1>14, <1>15, <1>16, <1>17
     DEF Next, CreatesNoNode

\* Round robin: whoever stays ready is never moved back, except by its own
\* dispatch (NeverOvertaken), whatever the priorities and the calls of others.
THEOREM OrderKept == Spec => NeverOvertaken
<1>1. IInv /\ [Next]_vars =>
        [\A p \in Pid : InQueue(k, "ready", p) /\ InQueue(k', "ready", p) /\ k'.current # p =>
           FirstIndex(k'.queue["ready"], p) <= FirstIndex(k.queue["ready"], p)]_vars
  BY LineStep DEF InLine, Ready
<1>2. QED
  BY <1>1, InitInv, StepInv, PTL DEF Spec, NeverOvertaken

-----------------------------------------------------------------------------
(* The parents' semaphores.                                                 *)

\* The semaphore table is long enough for one semaphore per process, and the
\* ids that programs use lie behind those: createProcess takes the smallest
\* free id, so the kernel's own semaphores stay below MaxPid.
SemsApart == NUM_SEMS >= MaxPid /\ \A s \in UserSems : s >= MaxPid

Low == {s \in SemId : s < MaxPid}

\* ForegroundChildren of p, in any kernel state.
Fg(k0, p) == {c \in Pid : Exists(k0, c) /\ k0.pcb[c].parentPid = p /\ k0.pcb[c].foreground}

Family(k0) ==
  \A p \in Pid \ {IdlePid} : Exists(k0, p) =>
    /\ k0.pcb[p].children_count = Cardinality(Fg(k0, p))
    /\ k0.pcb[p].children_sem >= 0 <=> Fg(k0, p) # {}

\* Who holds a semaphore for its children is queued, and is alone with it.
Holds(k0) ==
  /\ k0.pcb[IdlePid].children_sem = -1
  /\ \A p \in Pid : k0.pcb[p].children_sem >= 0 =>
       Queued(k0, p) /\ k0.pcb[p].children_sem \in Low /\ k0.sems[k0.pcb[p].children_sem].used
  /\ \A p, r \in Pid :
       k0.pcb[p].children_sem >= 0 /\ k0.pcb[r].children_sem = k0.pcb[p].children_sem => p = r

\* A parent that dies leaves its semaphore in use for ever, so what bounds the
\* kernel's semaphores is the number of pids that hold one or are dead.
UsedLow(k0) == {s \in Low : k0.sems[s].used}
Spent(k0) ==
  {p \in Pid \ {IdlePid} : p < k0.nextPid /\ (Exists(k0, p) => k0.pcb[p].children_sem >= 0)}
Room(k0) == Cardinality(UsedLow(k0)) <= Cardinality(Spent(k0))

\* Parents are older than their children.
Kin(k0) == \A c \in Pid : k0.pcb[c].parentPid < c

Kids(k0) == Family(k0) /\ Holds(k0) /\ Room(k0) /\ Kin(k0)

\* The sets that are counted are finite.
LEMMA KidsFinite ==
  ASSUME NEW k0, NEW p
  PROVE  /\ IsFiniteSet(Fg(k0, p)) /\ Cardinality(Fg(k0, p)) \in Nat
         /\ IsFiniteSet(UsedLow(k0)) /\ Cardinality(UsedLow(k0)) \in Nat
         /\ IsFiniteSet(Spent(k0)) /\ Cardinality(Spent(k0)) \in Nat
<1>1. IsFiniteSet(Pid) /\ IsFiniteSet(SemId)
  BY FS_Interval, MaxPidAssumption, NumSemsAssumption DEF Pid, SemId
<1>2. Fg(k0, p) \in SUBSET Pid /\ UsedLow(k0) \in SUBSET SemId /\ Spent(k0) \in SUBSET Pid
  BY DEF Fg, UsedLow, Spent, Low
<1>3. IsFiniteSet(Fg(k0, p)) /\ IsFiniteSet(UsedLow(k0)) /\ IsFiniteSet(Spent(k0))
  BY <1>1, <1>2, FS_Subset
<1>4. QED
  BY <1>3, FS_CardinalityType

\* The fields of a family, type by type.
LEMMA KidTypes ==
  ASSUME NEW k0, WF(k0, {}), NEW p \in Pid
  PROVE  /\ k0.pcb[p].children_sem \in SemId \cup {-1} /\ k0.pcb[p].parentPid \in Pid \cup {NoPid}
         /\ k0.pcb[p].children_count \in Int /\ k0.nextPid \in Nat /\ k0.current \in Pid
         /\ k0.pcb[p].foreground \in BOOLEAN
BY DEF WF, KernelState, Pcb

\* A step that leaves families, counts and the kernel's semaphores alone.
LEMMA SameFamily ==
  ASSUME NEW k0, WF(k0, {}), NEW k1, WF(k1, {}), Kids(k0), k1.nextPid = k0.nextPid,
         \A x \in Pid : /\ k1.pcb[x].parentPid = k0.pcb[x].parentPid
                        /\ k1.pcb[x].foreground = k0.pcb[x].foreground
                        /\ SameCounts(k0, k1, x) /\ Stays(k0, k1, x)
                        /\ x # IdlePid => (k1.pcb[x].state = "UNUSED" <=> k0.pcb[x].state = "UNUSED"),
         \A s \in Low : k1.sems[s].used = k0.sems[s].used
  PROVE  Kids(k1)
<1>1. Family(k0) /\ Holds(k0) /\ Room(k0) /\ Kin(k0)
  BY DEF Kids
<1>2. Kin(k1)
  BY <1>1 DEF Kin
<1>3. k0.pcb[IdlePid].parentPid \notin Pid /\ k1.pcb[IdlePid].parentPid \notin Pid
  BY <1>1, <1>2, PidFact, KidTypes DEF Kin, IdlePid, Pid
<1>4. ASSUME NEW p \in Pid PROVE Fg(k1, p) = Fg(k0, p)
  <2>1. ASSUME NEW c \in Pid PROVE c \in Fg(k1, p) <=> c \in Fg(k0, p)
    BY <1>3, <1>4 DEF Fg, Exists
  <2>2. QED
    BY <2>1 DEF Fg
<1>5. Family(k1)
  BY <1>1, <1>4 DEF Family, SameCounts, Exists
<1>6. Holds(k1)
  <2>1. k1.pcb[IdlePid].children_sem = -1
    BY <1>1, PidFact DEF Holds, SameCounts
  <2>2. ASSUME NEW p \in Pid, k1.pcb[p].children_sem >= 0
        PROVE  Queued(k1, p) /\ k1.pcb[p].children_sem \in Low /\ k1.sems[k1.pcb[p].children_sem].used
    BY <1>1, <2>2 DEF Holds, SameCounts, Stays
  <2>3. QED
    BY <1>1, <2>1, <2>2 DEF Holds, SameCounts
<1>7. UsedLow(k1) = UsedLow(k0) /\ Spent(k1) = Spent(k0)
  BY DEF UsedLow, Spent, SameCounts, Exists
<1>8. QED
  BY <1>1, <1>2, <1>5, <1>6, <1>7 DEF Kids, Room

\* kill uncounts a foreground child of a living parent, and the last one
\* takes the parent's semaphore with it.
LEMMA KillFamily ==
  ASSUME NEW k0, WF(k0, {}), NEW k1, WF(k1, {}), Kids(k0), NEW p \in Pid, p > ShellPid, Queued(k0, p),
         Exists(k0, p), Killed(k0, k1, p), \A x \in Pid \ {p} : Stays(k0, k1, x)
  PROVE  Kids(k1)
<1> DEFINE par == k0.pcb[p].parentPid
           sp == k0.pcb[par].children_sem
           last == k0.pcb[par].children_count = 1
<1>1. /\ Family(k0) /\ Holds(k0) /\ Room(k0) /\ Kin(k0)
      /\ k1.nextPid = k0.nextPid /\ \A x \in Pid \ {p} : SameKin(k0, k1, x)
      /\ k1.pcb[p].state = "UNUSED" /\ k1.pcb[p].parentPid = NoPid
      /\ k1.pcb[p].children_sem = -1 /\ ~k1.pcb[p].foreground
  BY DEF Kids, Killed
<1>2. p # IdlePid /\ IdlePid \in Pid /\ p \in Nat /\ NoPid = -1 /\ IdlePid = 0 /\ Pid \subseteq Nat
  BY PidFact DEF ShellPid, IdlePid, NoPid, Pid
<1>3. Kin(k1)
  BY <1>1, <1>2 DEF Kin, SameKin
<1>4. k0.pcb[IdlePid].parentPid \notin Pid /\ k1.pcb[IdlePid].parentPid \notin Pid
  BY <1>1, <1>3, PidFact, KidTypes DEF Kin, IdlePid, Pid
<1>5. ASSUME NEW x \in Pid PROVE Fg(k1, x) = Fg(k0, x) \ {p}
  <2>1. ASSUME NEW c \in Pid PROVE c \in Fg(k1, x) <=> c \in Fg(k0, x) \ {p}
    <3>1. CASE c = p
      BY <1>1, <3>1 DEF Fg, Exists
    <3>2. CASE c # p
      BY <1>1, <1>4, <1>5, <3>2 DEF Fg, Exists, SameKin
    <3>3. QED
      BY <3>1, <3>2
  <2>2. QED
    BY <2>1 DEF Fg
<1>6. par \in Pid \cup {NoPid} /\ par # p /\ k0.pcb[p].foreground \in BOOLEAN
  <2>1. par \in Pid \cup {NoPid} /\ k0.pcb[p].foreground \in BOOLEAN
    BY KidTypes
  <2>2. par < p /\ p \in Int /\ par \in Int
    BY <1>1, <1>2, <2>1 DEF Kin, Pid
  <2> HIDE DEF par
  <2>3. QED
    BY <2>1, <2>2
<1>7. /\ ~Counted(k0, p) => /\ \A x \in Pid \ {p} : SameCounts(k0, k1, x)
                            /\ k1.sems = k0.sems
      /\ Counted(k0, p) => /\ par \in Pid \ {IdlePid} /\ sp >= 0 /\ Queued(k0, par)
                           /\ k0.pcb[p].foreground
                           /\ \A x \in Pid \ {p, par} : SameCounts(k0, k1, x)
                           /\ Uncounted(k0, k1, par) /\ SemGone(k0, k1, par)
  <2>1. ASSUME Counted(k0, p) PROVE par \in Pid \ {IdlePid} /\ sp >= 0 /\ k0.pcb[p].foreground
    BY <1>2, <1>6, <2>1 DEF Counted
  <2>2. ASSUME Counted(k0, p) PROVE Queued(k0, par)
    BY <1>1, <2>1, <2>2 DEF Holds
  <2>3. QED
    BY <1>6, <2>1, <2>2 DEF Killed
<1>8. ASSUME NEW x \in Pid \ {IdlePid}, Exists(k0, x), p \in Fg(k0, x)
      PROVE  Counted(k0, p) /\ x = par
  <2>1. x = par /\ k0.pcb[p].foreground /\ Fg(k0, x) # {}
    BY <1>8 DEF Fg
  <2>2. k0.pcb[x].children_sem >= 0
    BY <1>1, <1>8, <2>1 DEF Family
  <2>3. Queued(k0, x)
    BY <1>1, <2>2 DEF Holds
  <2>4. x > 0
    BY <1>2
  <2>5. QED
    BY <2>1, <2>2, <2>3, <2>4 DEF Counted, HasProcess, Queued
<1>9. Counted(k0, p) => p \in Fg(k0, par) /\ Exists(k0, par) /\ par < k0.nextPid
  <2>1. ASSUME Counted(k0, p) PROVE Exists(k0, par)
    BY <1>7, <2>1 DEF Queued, QueueName, WF, States, Exists
  <2>2. ASSUME Counted(k0, p) PROVE par < k0.nextPid
    <3>1. par \in Pid /\ k0.pcb[par].state # "UNUSED"
      BY <1>7, <2>1, <2>2 DEF Exists
    <3>2. k0.nextPid \in Nat /\ \A y \in Pid : y >= k0.nextPid => k0.pcb[y].state = "UNUSED"
      BY DEF WF, Fresh, KernelState
    <3> HIDE DEF par
    <3>3. QED
      BY <1>2, <3>1, <3>2
  <2>3. QED
    BY <1>7, <2>1, <2>2 DEF Fg
<1> HIDE DEF par
<1>10. Family(k1)
  <2> SUFFICES ASSUME NEW x \in Pid \ {IdlePid}, Exists(k1, x)
               PROVE  /\ k1.pcb[x].children_count = Cardinality(Fg(k1, x))
                      /\ k1.pcb[x].children_sem >= 0 <=> Fg(k1, x) # {}
    BY DEF Family
  <2>1. x # p /\ Exists(k0, x)
    BY <1>1 DEF Exists, SameKin
  <2>2. /\ k0.pcb[x].children_count = Cardinality(Fg(k0, x))
        /\ k0.pcb[x].children_sem >= 0 <=> Fg(k0, x) # {}
    BY <1>1, <2>1 DEF Family
  <2>3. Fg(k1, x) = Fg(k0, x) \ {p}
    BY <1>5
  <2>4. CASE p \notin Fg(k0, x)
    <3>1. SameCounts(k0, k1, x)
      BY <1>7, <1>9, <2>1, <2>4
    <3>2. QED
      BY <2>2, <2>3, <2>4, <3>1 DEF SameCounts
  <2>5. CASE p \in Fg(k0, x)
    <3>1. Counted(k0, p) /\ x = par
      BY <1>8, <2>1, <2>5
    <3>2. /\ k1.pcb[x].children_count = k0.pcb[x].children_count - 1
          /\ k1.pcb[x].children_sem = IF k0.pcb[x].children_count - 1 = 0 THEN -1 ELSE k0.pcb[x].children_sem
      BY <1>7, <3>1 DEF Uncounted
    <3>3. IsFiniteSet(Fg(k0, x)) /\ Cardinality(Fg(k0, x)) \in Nat
      BY KidsFinite
    <3>4. /\ IsFiniteSet(Fg(k0, x) \ {p})
          /\ Cardinality(Fg(k0, x) \ {p}) = Cardinality(Fg(k0, x)) - 1
      BY <2>5, <3>3, FS_RemoveElement
    <3>5. Fg(k1, x) = {} <=> Cardinality(Fg(k1, x)) = 0
      BY <2>3, <3>4, FS_EmptySet
    <3>6. k0.pcb[x].children_sem \in SemId \cup {-1} /\ k0.pcb[x].children_sem >= 0
      BY <2>2, <2>5, KidTypes
    <3>7. QED
      BY <2>2, <2>3, <3>2, <3>3, <3>4, <3>5, <3>6
  <2>6. QED
    BY <2>4, <2>5
<1>11. ASSUME NEW x \in Pid, k1.pcb[x].children_sem >= 0
       PROVE  /\ x # p /\ k1.pcb[x].children_sem = k0.pcb[x].children_sem
              /\ Counted(k0, p) /\ last => x # par
  <2>1. x # p
    BY <1>1, <1>11
  <2>2. CASE Counted(k0, p) /\ x = par
    BY <1>7, <1>11, <2>1, <2>2, KidTypes DEF Uncounted
  <2>3. CASE ~(Counted(k0, p) /\ x = par)
    <3>1. SameCounts(k0, k1, x)
      BY <1>7, <2>1, <2>3
    <3>2. QED
      BY <2>1, <2>3, <3>1 DEF SameCounts
  <2>4. QED
    BY <2>2, <2>3
<1>12. Counted(k0, p) => sp \in Low /\ k0.sems[sp].used /\ \A x \in Pid : k0.pcb[x].children_sem = sp => x = par
  BY <1>1, <1>7 DEF Holds
<1>13. Holds(k1)
  <2>1. k1.pcb[IdlePid].children_sem = -1
    <3>1. SameCounts(k0, k1, IdlePid)
      BY <1>2, <1>7
    <3>2. QED
      BY <1>1, <3>1 DEF Holds, SameCounts
  <2>2. ASSUME NEW x \in Pid, k1.pcb[x].children_sem >= 0
        PROVE  Queued(k1, x) /\ k1.pcb[x].children_sem \in Low /\ k1.sems[k1.pcb[x].children_sem].used
    <3> DEFINE sx == k0.pcb[x].children_sem
    <3>1. x # p /\ k1.pcb[x].children_sem = sx /\ (Counted(k0, p) /\ last => x # par)
      BY <1>11, <2>2
    <3>2. Queued(k0, x) /\ sx \in Low /\ k0.sems[sx].used
      BY <1>1, <2>2, <3>1 DEF Holds
    <3>3. Queued(k1, x)
      BY <3>1, <3>2 DEF Stays
    <3>4. sx \in SemId
      BY <3>2 DEF Low
    <3>5. k1.sems[sx] = k0.sems[sx]
      BY <1>7, <1>12, <3>1, <3>4 DEF SemGone
    <3>6. QED
      BY <3>1, <3>2, <3>3, <3>5
  <2>3. ASSUME NEW x \in Pid, NEW r \in Pid, k1.pcb[x].children_sem >= 0,
               k1.pcb[r].children_sem = k1.pcb[x].children_sem
        PROVE  x = r
    BY <1>1, <1>11, <2>3 DEF Holds
  <2>4. QED
    BY <2>1, <2>2, <2>3 DEF Holds
<1>14. Room(k1)
  <2> DEFINE U0 == UsedLow(k0)
             U1 == UsedLow(k1)
             S0 == Spent(k0)
             S1 == Spent(k1)
  <2>1. /\ IsFiniteSet(U0) /\ IsFiniteSet(U1) /\ IsFiniteSet(S0) /\ IsFiniteSet(S1)
        /\ Cardinality(U0) \in Nat /\ Cardinality(U1) \in Nat
        /\ Cardinality(S0) \in Nat /\ Cardinality(S1) \in Nat /\ Cardinality(U0) <= Cardinality(S0)
    BY <1>1, KidsFinite DEF Room
  <2>2. ASSUME NEW x \in S0, ~(Counted(k0, p) /\ last /\ x = par) PROVE x \in S1
    <3>1. x \in Pid \ {IdlePid} /\ x < k0.nextPid /\ (Exists(k0, x) => k0.pcb[x].children_sem >= 0)
      BY <2>2 DEF Spent
    <3>2. CASE x = p
      BY <1>1, <3>1, <3>2 DEF Spent, Exists
    <3>3. CASE x # p
      <4>1. Exists(k1, x) <=> Exists(k0, x)
        BY <1>1, <3>1, <3>3 DEF SameKin, Exists
      <4>2. k1.pcb[x].children_sem = k0.pcb[x].children_sem
        <5>1. CASE Counted(k0, p) /\ x = par
          BY <1>7, <2>2, <3>1, <5>1, KidTypes DEF Uncounted
        <5>2. CASE ~(Counted(k0, p) /\ x = par)
          BY <1>7, <3>1, <3>3, <5>2 DEF SameCounts
        <5>3. QED
          BY <5>1, <5>2
      <4>3. QED
        BY <1>1, <3>1, <4>1, <4>2 DEF Spent
    <3>4. QED
      BY <3>2, <3>3
  <2>3. CASE Counted(k0, p) /\ last
    <3>1. \A t \in SemId : t # sp => k1.sems[t] = k0.sems[t]
      BY <1>7, <2>3 DEF SemGone
    <3>2. ~k1.sems[sp].used
      BY <1>7, <2>3 DEF SemGone
    <3>3. U1 = U0 \ {sp} /\ sp \in U0
      BY <1>12, <2>3, <3>1, <3>2 DEF UsedLow, Low
    <3>4. par \in S0
      BY <1>7, <1>9, <2>3 DEF Spent
    <3>5. S0 \ {par} \in SUBSET S1
      BY <2>2
    <3> HIDE DEF U0, U1, S0, S1
    <3>6. Cardinality(U1) = Cardinality(U0) - 1
      BY <2>1, <3>3, FS_RemoveElement
    <3>7. Cardinality(S0 \ {par}) = Cardinality(S0) - 1
      BY <2>1, <3>4, FS_RemoveElement
    <3>8. Cardinality(S0 \ {par}) <= Cardinality(S1)
      BY <2>1, <3>5, FS_Subset
    <3>9. Cardinality(U1) <= Cardinality(S1)
      BY <2>1, <3>6, <3>7, <3>8
    <3>10. QED
      BY <3>9 DEF Room, U1, S1
  <2>4. CASE ~(Counted(k0, p) /\ last)
    <3>1. \A t \in SemId : k1.sems[t] = k0.sems[t]
      BY <1>7, <2>4 DEF SemGone
    <3>2. U1 = U0
      BY <3>1 DEF UsedLow, Low
    <3>3. S0 \in SUBSET S1
      BY <2>2, <2>4
    <3> HIDE DEF U0, U1, S0, S1
    <3>4. Cardinality(S0) <= Cardinality(S1)
      BY <2>1, <3>3, FS_Subset
    <3>5. Cardinality(U1) <= Cardinality(S1)
      BY <2>1, <3>2, <3>4
    <3>6. QED
      BY <3>5 DEF Room, U1, S1
  <2>5. QED
    BY <2>3, <2>4
<1>15. QED
  BY <1>3, <1>10, <1>13, <1>14 DEF Kids

\* While a process without a semaphore runs and a pid is left, the kernel has
\* a semaphore left: fewer of its ids are in use than it has.
LEMMA RoomLeft ==
  ASSUME NEW k0, WF(k0, {}), Kids(k0), k0.nextPid <= MaxPid, NUM_SEMS >= MaxPid,
         k0.current # IdlePid, Exists(k0, k0.current), k0.pcb[k0.current].children_sem = -1
  PROVE  \E s \in Low : ~k0.sems[s].used
<1> DEFINE c == k0.current
           n == k0.nextPid
<1>1. c \in Pid /\ n \in Nat /\ MaxPid \in Nat /\ NUM_SEMS \in Nat /\ n > 1 /\ n <= MaxPid
  BY KidTypes, PidFact, MaxPidAssumption, NumSemsAssumption DEF WF, Fresh, ShellPid
<1>2. c < n /\ c > 0
  <2>1. k0.pcb[c].state # "UNUSED" /\ \A y \in Pid : y >= n => k0.pcb[y].state = "UNUSED"
    BY DEF WF, Fresh, Exists
  <2>2. c \in Nat /\ c # 0
    BY <1>1 DEF Pid, IdlePid
  <2> HIDE DEF c, n
  <2>3. QED
    BY <1>1, <2>1, <2>2
<1>3. c \notin Spent(k0)
  BY DEF Spent
<1>4. Spent(k0) \in SUBSET ((1..(n - 1)) \ {c})
  <2>1. ASSUME NEW x \in Spent(k0) PROVE x \in (1..(n - 1)) \ {c}
    <3>1. x \in Nat /\ x # 0 /\ x < n /\ x # c
      BY <1>3, <2>1 DEF Spent, Pid, IdlePid
    <3> HIDE DEF c, n
    <3>2. QED
      BY <1>1, <3>1
  <2>2. QED
    BY <2>1
<1> HIDE DEF c, n
<1>5. /\ IsFiniteSet(1..(n - 1)) /\ Cardinality(1..(n - 1)) = n - 1
      /\ IsFiniteSet(0..(MaxPid - 1)) /\ Cardinality(0..(MaxPid - 1)) = MaxPid
  <2>1. 1 \in Int /\ n - 1 \in Int /\ 0 \in Int /\ MaxPid - 1 \in Int
    BY <1>1
  <2>2. /\ IsFiniteSet(1..(n - 1)) /\ Cardinality(1..(n - 1)) = IF 1 > n - 1 THEN 0 ELSE n - 1 - 1 + 1
        /\ IsFiniteSet(0..(MaxPid - 1))
        /\ Cardinality(0..(MaxPid - 1)) = IF 0 > MaxPid - 1 THEN 0 ELSE MaxPid - 1 - 0 + 1
    BY <2>1, FS_Interval
  <2>3. QED
    BY <1>1, <2>2
<1>6. c \in 1..(n - 1)
  BY <1>1, <1>2 DEF Pid
<1>7. /\ IsFiniteSet((1..(n - 1)) \ {c}) /\ Cardinality((1..(n - 1)) \ {c}) = n - 2
  <2>1. Cardinality((1..(n - 1)) \ {c}) = n - 1 - 1 /\ IsFiniteSet((1..(n - 1)) \ {c})
    BY <1>5, <1>6, FS_RemoveElement
  <2>2. QED
    BY <1>1, <2>1
<1>8. Cardinality(Spent(k0)) <= n - 2
  BY <1>4, <1>7, FS_Subset
<1>9. Low = 0..(MaxPid - 1)
  BY <1>1 DEF Low, SemId
<1>10. CASE \A s \in Low : k0.sems[s].used
  <2>1. UsedLow(k0) = 0..(MaxPid - 1)
    BY <1>9, <1>10 DEF UsedLow
  <2>2. Cardinality(UsedLow(k0)) = MaxPid
    BY <1>5, <2>1
  <2>3. Cardinality(UsedLow(k0)) <= Cardinality(Spent(k0)) /\ Cardinality(Spent(k0)) \in Nat
    BY KidsFinite DEF Kids, Room
  <2>4. QED
    BY <1>1, <1>8, <2>2, <2>3
<1>11. QED
  BY <1>10

\* createProcess counts a foreground child, and gives its parent a semaphore
\* of the kernel's when it is the first.
LEMMA CreateFamily ==
  ASSUME NEW k0, WF(k0, {}), CurOK(k0, {}), NEW k1, WF(k1, {}), Kids(k0), NEW fg \in BOOLEAN, Created(k0, k1, fg),
         k0.nextPid <= MaxPid, NUM_SEMS >= MaxPid
  PROVE  Kids(k1)
<1> DEFINE p   == k0.nextPid
           par == k0.current
           s0  == k0.pcb[par].children_sem
           s   == k1.pcb[par].children_sem
           cnt == fg /\ par > 0
<1>1. /\ Family(k0) /\ Holds(k0) /\ Room(k0) /\ Kin(k0) /\ k1.nextPid = p + 1
      /\ k1.pcb[p].parentPid = par /\ k1.pcb[p].foreground = fg /\ k1.pcb[p].state # "UNUSED"
      /\ k1.pcb[p].children_sem = -1 /\ k1.pcb[p].children_count = 0
      /\ \A x \in Pid \ {p} : SameKin(k0, k1, x)
      /\ \A x \in Pid \ {p} : (x = par /\ cnt) \/ SameCounts(k0, k1, x)
      /\ cnt => CountedIn(k0, k1, par)
      /\ ~cnt => k1.sems = k0.sems
      /\ \A x \in Pid \ {p}, q \in QueueName : InQueue(k1, q, x) <=> InQueue(k0, q, x)
  BY DEF Kids, Created
<1>2. /\ p \in Pid /\ p \in Nat /\ p > 1 /\ par \in Pid /\ IdlePid \in Pid /\ IdlePid = 0 /\ Pid \subseteq Nat
      /\ MaxPid \in Nat
  BY KidTypes, PidFact, MaxPidAssumption DEF WF, Fresh, ShellPid, IdlePid, Pid
<1>3. k0.pcb[p].state = "UNUSED" /\ \A y \in Pid : y >= p => k0.pcb[y].state = "UNUSED"
  BY <1>2 DEF WF, Fresh
<1>4. par # IdlePid => Exists(k0, par)
  BY <1>2 DEF CurOK, WF, States, Exists
<1>5. par < p /\ par # p /\ (cnt => par \in Pid \ {IdlePid} /\ Exists(k0, par))
  <2>1. CASE par = IdlePid
    BY <1>2, <2>1
  <2>2. CASE par # IdlePid
    <3>1. Exists(k0, par)
      BY <1>4, <2>2
    <3>2. par \in Nat /\ ~(par >= p)
      BY <1>2, <1>3, <3>1 DEF Exists
    <3> HIDE DEF par, p
    <3>3. par < p /\ par # p
      BY <1>2, <3>2
    <3>4. QED
      BY <1>2, <2>2, <3>1, <3>3
  <2>3. QED
    BY <2>1, <2>2
<1>6. Kin(k1)
  BY <1>1, <1>5 DEF Kin, SameKin
<1>7. k0.pcb[IdlePid].parentPid \notin Pid /\ k1.pcb[IdlePid].parentPid \notin Pid
  BY <1>1, <1>6, PidFact, KidTypes DEF Kin, IdlePid, Pid
<1>8. ASSUME NEW x \in Pid PROVE Fg(k1, x) = IF x = par /\ fg THEN Fg(k0, x) \cup {p} ELSE Fg(k0, x)
  <2>1. ASSUME NEW c \in Pid
        PROVE  c \in Fg(k1, x) <=> c \in (IF x = par /\ fg THEN Fg(k0, x) \cup {p} ELSE Fg(k0, x))
    <3>1. CASE c = p
      BY <1>1, <1>3, <3>1 DEF Fg, Exists
    <3>2. CASE c # p
      BY <1>1, <1>7, <1>8, <3>2 DEF Fg, Exists, SameKin
    <3>3. QED
      BY <3>1, <3>2
  <2>2. QED
    BY <1>2, <2>1 DEF Fg
<1>9. \A x \in Pid : p \notin Fg(k0, x)
  BY <1>3 DEF Fg, Exists
<1>10. Fg(k0, p) = {}
  <2>1. ASSUME NEW c \in Fg(k0, p) PROVE FALSE
    <3>1. c \in Pid /\ Exists(k0, c) /\ p < c
      BY <1>1, <2>1 DEF Fg, Kin
    <3>2. QED
      BY <1>2, <1>3, <3>1 DEF Exists
  <2>2. QED
    BY <2>1
<1>11. /\ cnt => /\ s \in SemId /\ k1.pcb[par].children_count = k0.pcb[par].children_count + 1
                 /\ \/ s0 >= 0 /\ s = s0 /\ k1.sems = k0.sems
                    \/ /\ s0 = -1 /\ s \in Low /\ ~k0.sems[s].used /\ k1.sems[s].used
                       /\ \A t \in SemId \ {s} : k1.sems[t] = k0.sems[t]
  <2> SUFFICES ASSUME cnt
               PROVE  /\ s \in SemId /\ k1.pcb[par].children_count = k0.pcb[par].children_count + 1
                      /\ \/ s0 >= 0 /\ s = s0 /\ k1.sems = k0.sems
                         \/ /\ s0 = -1 /\ s \in Low /\ ~k0.sems[s].used /\ k1.sems[s].used
                            /\ \A t \in SemId \ {s} : k1.sems[t] = k0.sems[t]
    OBVIOUS
  <2>1. \/ s0 >= 0 /\ s = s0 /\ k1.sems = k0.sems
           /\ k1.pcb[par].children_count = k0.pcb[par].children_count + 1
        \/ /\ s0 = -1 /\ s \in SemId /\ ~k0.sems[s].used /\ \A t \in SemId : t < s => k0.sems[t].used
           /\ k1.sems = [k0.sems EXCEPT ![s] = [value |-> 0, used |-> TRUE, blocked |-> << >>]]
           /\ k1.pcb[par].children_count = k0.pcb[par].children_count + 1
        \/ s0 = -1 /\ \A t \in SemId : k0.sems[t].used
    BY <1>1 DEF CountedIn
  <2>2. s0 \in SemId \cup {-1} /\ k0.sems \in [SemId -> Sem]
    BY <1>2, KidTypes DEF WF, KernelState
  <2>3. ASSUME s0 = -1 PROVE \E t \in Low : ~k0.sems[t].used
    BY <1>4, <1>5, <2>3, RoomLeft
  <2>4. CASE s0 >= 0
    <3>1. s0 # -1
      BY <2>4
    <3>2. QED
      BY <2>1, <2>2, <2>4, <3>1, Zenon
  <2>5. CASE s0 = -1
    <3>1. PICK t \in Low : ~k0.sems[t].used
      BY <2>3, <2>5
    <3>2. t \in SemId /\ t < MaxPid
      BY <3>1 DEF Low
    <3>3. /\ s \in SemId /\ ~k0.sems[s].used /\ \A u \in SemId : u < s => k0.sems[u].used
          /\ k1.sems = [k0.sems EXCEPT ![s] = [value |-> 0, used |-> TRUE, blocked |-> << >>]]
          /\ k1.pcb[par].children_count = k0.pcb[par].children_count + 1
      <4>1. ~(s0 >= 0)
        BY <2>5
      <4>2. QED
        BY <2>1, <2>5, <3>1, <3>2, <4>1, Zenon
    <3> HIDE DEF s
    <3>4. s < MaxPid
      BY <1>2, <3>1, <3>2, <3>3 DEF SemId
    <3>5. k1.sems[s].used /\ \A u \in SemId \ {s} : k1.sems[u] = k0.sems[u]
      BY <2>2, <3>3
    <3>6. QED
      BY <2>5, <3>3, <3>4, <3>5 DEF Low
  <2>6. s0 >= 0 \/ s0 = -1
    BY <2>2 DEF SemId
  <2>7. QED
    BY <2>4, <2>5, <2>6
<1>12. Family(k1)
  <2> SUFFICES ASSUME NEW x \in Pid \ {IdlePid}, Exists(k1, x)
               PROVE  /\ k1.pcb[x].children_count = Cardinality(Fg(k1, x))
                      /\ k1.pcb[x].children_sem >= 0 <=> Fg(k1, x) # {}
    BY DEF Family
  <2>1. CASE x = p
    <3>1. Fg(k1, x) = {}
      BY <1>5, <1>8, <1>10, <2>1
    <3>2. QED
      BY <1>1, <2>1, <3>1, FS_EmptySet
  <2>2. CASE x # p /\ ~(x = par /\ fg)
    <3>1. Fg(k1, x) = Fg(k0, x) /\ SameCounts(k0, k1, x) /\ Exists(k0, x)
      BY <1>1, <1>8, <2>2 DEF SameKin, Exists
    <3>2. QED
      BY <1>1, <3>1 DEF Family, SameCounts
  <2>3. CASE x = par /\ fg
    <3>1. cnt /\ Exists(k0, x)
      <4>1. par > 0
        <5>1. x \in Nat /\ x # 0 /\ x = par
          BY <1>2, <2>3
        <5> HIDE DEF par
        <5>2. QED
          BY <5>1
      <4>2. fg
        BY <2>3
      <4>3. cnt
        BY <4>1, <4>2
      <4>4. QED
        BY <1>5, <2>3, <4>3
    <3>2. k0.pcb[x].children_count = Cardinality(Fg(k0, x))
      BY <1>1, <3>1 DEF Family
    <3>3. Fg(k1, x) = Fg(k0, x) \cup {p} /\ p \notin Fg(k0, x)
      BY <1>8, <1>9, <2>3
    <3>4. IsFiniteSet(Fg(k0, x))
      BY KidsFinite
    <3>5. Cardinality(Fg(k0, x) \cup {p}) = Cardinality(Fg(k0, x)) + 1
      BY <3>3, <3>4, FS_AddElement
    <3>6. s \in SemId /\ k1.pcb[x].children_count = k0.pcb[x].children_count + 1 /\ s = k1.pcb[x].children_sem
      BY <1>11, <2>3, <3>1
    <3>7. s >= 0
      BY <3>6 DEF SemId
    <3>8. QED
      BY <3>2, <3>3, <3>5, <3>6, <3>7
  <2>4. QED
    BY <2>1, <2>2, <2>3
<1>13. ASSUME NEW t \in SemId, k0.sems[t].used PROVE k1.sems[t].used
  BY <1>1, <1>11, <1>13
<1>14. Holds(k1)
  <2>1. k1.pcb[IdlePid].children_sem = -1
    BY <1>1, <1>2 DEF Holds, SameCounts
  <2>2. ASSUME NEW x \in Pid, k1.pcb[x].children_sem >= 0
        PROVE  /\ Queued(k1, x) /\ k1.pcb[x].children_sem \in Low /\ k1.sems[k1.pcb[x].children_sem].used
               /\ \/ k1.pcb[x].children_sem = k0.pcb[x].children_sem
                  \/ cnt /\ x = par /\ s0 = -1 /\ ~k0.sems[s].used
    <3>1. x # p
      BY <1>1, <2>2
    <3>2. CASE k1.pcb[x].children_sem = k0.pcb[x].children_sem
      <4> DEFINE sx == k0.pcb[x].children_sem
      <4>1. Queued(k0, x) /\ sx \in Low /\ k0.sems[sx].used
        BY <1>1, <2>2, <3>2 DEF Holds
      <4>2. Queued(k1, x)
        BY <1>1, <3>1, <4>1 DEF Queued
      <4>3. k1.sems[sx].used
        BY <1>13, <4>1 DEF Low
      <4>4. QED
        BY <3>2, <4>1, <4>2, <4>3
    <3>3. CASE k1.pcb[x].children_sem # k0.pcb[x].children_sem
      <4>1. cnt /\ x = par
        BY <1>1, <3>1, <3>3 DEF SameCounts
      <4>2. s0 = -1 /\ s \in Low /\ ~k0.sems[s].used /\ k1.sems[s].used
        BY <1>11, <3>3, <4>1
      <4>3. InQueue(k0, "ready", par)
        BY <1>5, <4>1 DEF CurOK
      <4>4. Queued(k1, par)
        BY <1>1, <1>2, <1>5, <4>3, PidFact DEF Queued
      <4>5. QED
        BY <4>1, <4>2, <4>4
    <3>4. QED
      BY <3>2, <3>3
  <2>3. ASSUME NEW x \in Pid, NEW r \in Pid, k1.pcb[x].children_sem >= 0,
               k1.pcb[r].children_sem = k1.pcb[x].children_sem
        PROVE  x = r
    BY <1>1, <2>2, <2>3 DEF Holds
  <2>4. QED
    BY <2>1, <2>2, <2>3 DEF Holds
<1>15. Room(k1)
  <2> DEFINE U0 == UsedLow(k0)
             U1 == UsedLow(k1)
             S0 == Spent(k0)
             S1 == Spent(k1)
  <2>1. /\ IsFiniteSet(U0) /\ IsFiniteSet(U1) /\ IsFiniteSet(S0) /\ IsFiniteSet(S1)
        /\ Cardinality(U0) \in Nat /\ Cardinality(U1) \in Nat
        /\ Cardinality(S0) \in Nat /\ Cardinality(S1) \in Nat /\ Cardinality(U0) <= Cardinality(S0)
    BY <1>1, KidsFinite DEF Room
  <2>2. ASSUME NEW x \in S0 PROVE x \in S1
    <3>1. /\ x \in Pid \ {IdlePid} /\ x < p /\ x # p /\ (Exists(k0, x) => k0.pcb[x].children_sem >= 0)
          /\ x < p + 1
      BY <1>2, <2>2 DEF Spent
    <3>2. Exists(k1, x) <=> Exists(k0, x)
      BY <1>1, <3>1 DEF SameKin, Exists
    <3>3. k0.pcb[x].children_sem >= 0 => k1.pcb[x].children_sem = k0.pcb[x].children_sem
      BY <1>1, <1>11, <3>1 DEF SameCounts
    <3>4. QED
      BY <1>1, <3>1, <3>2, <3>3 DEF Spent
  <2>3. CASE cnt /\ s0 = -1
    <3>1. s \in Low /\ ~k0.sems[s].used /\ k1.sems[s].used /\ \A t \in SemId \ {s} : k1.sems[t] = k0.sems[t]
      BY <1>11, <2>3
    <3>2. U1 = U0 \cup {s} /\ s \notin U0
      BY <3>1 DEF UsedLow, Low
    <3>3. par \notin S0
      BY <1>5, <2>3 DEF Spent
    <3>4. par \in S1
      <4>1. s \in SemId /\ par \in Pid \ {IdlePid} /\ par < p
        BY <1>5, <1>11, <2>3
      <4>2. s >= 0
        BY <4>1 DEF SemId
      <4>3. par < k1.nextPid
        <5>1. par \in Nat /\ p \in Nat /\ k1.nextPid = p + 1
          BY <1>1, <1>2
        <5> HIDE DEF par, p
        <5>2. QED
          BY <4>1, <5>1
      <4>4. QED
        BY <4>1, <4>2, <4>3 DEF Spent
    <3>5. S0 \cup {par} \in SUBSET S1
      BY <2>2, <3>4
    <3> HIDE DEF U0, U1, S0, S1, s, par
    <3>6. Cardinality(U1) = Cardinality(U0) + 1
      BY <2>1, <3>2, FS_AddElement
    <3>7. Cardinality(S0 \cup {par}) = Cardinality(S0) + 1
      BY <2>1, <3>3, FS_AddElement
    <3>8. Cardinality(S0 \cup {par}) <= Cardinality(S1)
      BY <2>1, <3>5, FS_Subset
    <3>9. Cardinality(U1) <= Cardinality(S1)
      BY <2>1, <3>6, <3>7, <3>8
    <3>10. QED
      BY <3>9 DEF Room, U1, S1
  <2>4. CASE ~(cnt /\ s0 = -1)
    <3>1. k1.sems = k0.sems
      BY <1>1, <1>11, <2>4
    <3>2. U1 = U0
      BY <3>1 DEF UsedLow
    <3>3. S0 \in SUBSET S1
      BY <2>2
    <3> HIDE DEF U0, U1, S0, S1
    <3>4. Cardinality(S0) <= Cardinality(S1)
      BY <2>1, <3>3, FS_Subset
    <3>5. Cardinality(U1) <= Cardinality(S1)
      BY <2>1, <3>2, <3>4
    <3>6. QED
      BY <3>5 DEF Room, U1, S1
  <2>5. QED
    BY <2>3, <2>4
<1>16. QED
  BY <1>6, <1>12, <1>14, <1>15 DEF Kids

\* createProcessOnPCB without memory for the stack: a pid that never lives.
LEMMA NoStackFamily ==
  ASSUME NEW k0, WF(k0, {}), Kids(k0), NEW k1, k1 = [k0 EXCEPT !.nextPid = @ + 1]
  PROVE  Kids(k1)
<1>1. /\ k1.pcb = k0.pcb /\ k1.queue = k0.queue /\ k1.sems = k0.sems
      /\ k1.nextPid = k0.nextPid + 1 /\ k0.nextPid \in Nat
  BY DEF WF, KernelState
<1>2. Family(k1) /\ Holds(k1) /\ Kin(k1)
  <2>1. \A x : Fg(k1, x) = Fg(k0, x) /\ (Exists(k1, x) <=> Exists(k0, x)) /\ (Queued(k1, x) <=> Queued(k0, x))
    BY <1>1 DEF Fg, Exists, Queued, InQueue
  <2>2. Family(k1)
    BY <1>1, <2>1 DEF Kids, Family
  <2>3. Holds(k1)
    BY <1>1, <2>1 DEF Kids, Holds
  <2>4. Kin(k1)
    BY <1>1 DEF Kids, Kin
  <2>5. QED
    BY <2>2, <2>3, <2>4
<1>3. UsedLow(k1) = UsedLow(k0)
  BY <1>1 DEF UsedLow
<1>4. Spent(k0) \in SUBSET Spent(k1)
  BY <1>1 DEF Spent, Exists, Pid
<1>5. Cardinality(Spent(k0)) <= Cardinality(Spent(k1))
  BY <1>4, KidsFinite, FS_Subset
<1>6. /\ Cardinality(Spent(k0)) \in Nat /\ Cardinality(Spent(k1)) \in Nat /\ Cardinality(UsedLow(k0)) \in Nat
      /\ Cardinality(UsedLow(k0)) <= Cardinality(Spent(k0))
  BY KidsFinite DEF Kids, Room
<1>7. QED
  BY <1>2, <1>3, <1>5, <1>6 DEF Kids, Room

KidInv == WaitInv /\ Kids(k)

\* The shell starts without children, and the semaphore table empty.
LEMMA KidInit == Init => KidInv
<1> SUFFICES ASSUME Init PROVE KidInv
  OBVIOUS
<1>1. WaitInv
  BY WaitInit
<1>2. k = BootKernel
  BY DEF Init
<1>3. /\ \A s \in SemId : k.sems[s] = UnusedSem
      /\ \A p \in Pid : k.pcb[p].children_sem = -1 /\ k.pcb[p].children_count = 0
      /\ \A p \in Pid : k.pcb[p].parentPid = IF p = ShellPid THEN IdlePid ELSE NoPid
  <2>1. \A s \in SemId : k.sems[s] = UnusedSem
    BY <1>2, BootFact, ZenonT(60)
  <2>2. \A p \in Pid : k.pcb[p].children_sem = -1 /\ k.pcb[p].children_count = 0
    BY <1>2, BootFact
  <2>3. \A p \in Pid : k.pcb[p].parentPid = IF p = ShellPid THEN IdlePid ELSE NoPid
    BY <1>2 DEF BootKernel, NewPcb, FreePcb, IdlePid, ShellPid, Pid
  <2>4. QED
    BY <2>1, <2>2, <2>3
<1>4. ASSUME NEW p \in Pid \ {IdlePid} PROVE Fg(k, p) = {}
  BY <1>3, <1>4 DEF Fg, NoPid, Pid
<1>5. Family(k)
  BY <1>3, <1>4, FS_EmptySet DEF Family
<1>6. Holds(k)
  BY <1>3, PidFact DEF Holds
<1>7. Kin(k)
  BY <1>3 DEF Kin, ShellPid, IdlePid, NoPid, Pid
<1>8. UsedLow(k) = {}
  BY <1>3 DEF UsedLow, Low, UnusedSem
<1>9. Room(k)
  BY <1>8, FS_EmptySet, KidsFinite DEF Room
<1>10. QED
  BY <1>1, <1>5, <1>6, <1>7, <1>9 DEF KidInv, Kids

\* Every step keeps the accounts of the foreground children.
LEMMA KidStep ==
  ASSUME SemsApart, "outOfMemory" \notin Env
  PROVE  KidInv /\ [Next]_vars => KidInv'
<1> SUFFICES ASSUME KidInv, [Next]_vars PROVE KidInv'
  OBVIOUS
<1>1. /\ WaitInv /\ IInv /\ WF(k, {}) /\ CurOK(k, {}) /\ Waits(k, frame, {}) /\ NoZombies(k) /\ FrameOK /\ Kids(k)
      /\ k.cpu \in Context /\ k.current \in Pid /\ k.foreground \in Pid \cup {NoPid}
  <2>1. Lost(k) = {}
    BY DEF KidInv, WaitInv, IInv
  <2>2. QED
    BY <2>1 DEF KidInv, WaitInv, IInv, WF, KernelState
<1>2. WaitInv' /\ WF(k', {})
  BY <1>1, WaitStep DEF WaitInv, IInv
<1>3. ASSUME Kids(k') PROVE KidInv'
  BY <1>2, <1>3 DEF KidInv
<1>4. ASSUME SameFields(k, k'), k'.nextPid = k.nextPid, \A x \in Pid : Stays(k, k', x),
             \A s \in Low : k'.sems[s].used = k.sems[s].used
      PROVE  KidInv'
  <2>1. \A x \in Pid : /\ k'.pcb[x].parentPid = k.pcb[x].parentPid
                       /\ k'.pcb[x].foreground = k.pcb[x].foreground
                       /\ SameCounts(k, k', x) /\ Stays(k, k', x)
                       /\ x # IdlePid => (k'.pcb[x].state = "UNUSED" <=> k.pcb[x].state = "UNUSED")
    BY <1>4 DEF SameFields, SameKin
  <2>2. Kids(k')
    BY <1>1, <1>2, <1>4, <2>1, SameFamily
  <2>3. QED
    BY <1>3, <2>2
<1>5. ASSUME k' = k PROVE KidInv'
  BY <1>1, <1>3, <1>5
<1>6. ASSUME NEW p \in Pid, k' = Kill(k, p) PROVE KidInv'
  <2>1. CASE k' = k
    BY <1>5, <2>1
  <2>2. CASE p > ShellPid /\ Killable(k, p) /\ Killed(k, k', p)
    <3>1. Queued(k, p) /\ Exists(k, p)
      BY <1>1, <2>2 DEF Killable, Queued, QueueName, Exists, WF, States
    <3>2. \A x \in Pid \ {p} : Stays(k, k', x)
      BY <1>1, <1>6, KillPlace
    <3>3. Kids(k')
      BY <1>1, <1>2, <2>2, <3>1, <3>2, KillFamily
    <3>4. QED
      BY <1>3, <3>3
  <2>3. QED
    BY <1>1, <1>6, <2>1, <2>2, KillEffect
<1>7. CASE TimerTick \/ SysYield
  <2>1. k' = Schedule(k) \/ k' = Yield(k)
    BY <1>7 DEF TimerTick, SysYield
  <2>2. Dispatched(k, k')
    BY <1>1, <2>1, ScheduleEffect
  <2>3. k'.nextPid = k.nextPid /\ k'.sems = k.sems
    BY <1>1, <2>1, ScheduleFact DEF Quiet
  <2>4. \A x \in Pid : Stays(k, k', x)
    BY <1>1, <2>1, SchedulePlace
  <2>5. QED
    BY <1>4, <2>2, <2>3, <2>4 DEF Dispatched
<1>8. CASE CtrlC
  BY <1>1, <1>6, <1>8 DEF CtrlC
<1>9. ASSUME NEW priority \in Prios, NEW fg \in BOOLEAN, NEW tty \in BOOLEAN,
             SysCreateProcess(priority, fg, tty)
      PROVE  KidInv'
  <2>1. /\ priority \in Nat /\ k.nextPid <= MaxPid /\ k' = CreateProcess(k, priority, fg, tty)
        /\ NUM_SEMS >= MaxPid
    BY <1>9, PriosAssumption DEF SysCreateProcess, SemsApart
  <2>2. Created(k, k', fg)
    BY <1>1, <2>1, CreateEffect
  <2>3. Kids(k')
    BY <1>1, <1>2, <2>1, <2>2, CreateFamily
  <2>4. QED
    BY <1>3, <2>3
<1>10. CASE SysCreateNoStack
  BY <1>1, <1>3, <1>10, NoStackFamily DEF SysCreateNoStack
<1>11. CASE SysExit
  BY <1>1, <1>6, <1>11 DEF SysExit
<1>12. ASSUME NEW p \in Pid, SysKill(p) PROVE KidInv'
  BY <1>6, <1>12 DEF SysKill
<1>13. ASSUME NEW p \in Pid, SysBlock(p) PROVE KidInv'
  <2>1. k' = BlockProcess(k, p)
    BY <1>13 DEF SysBlock
  <2>2. Dispatched(k, k') /\ k'.nextPid = k.nextPid /\ k'.sems = k.sems
    BY <1>1, <2>1, BlockEffect, BlockFact DEF Quiet
  <2>3. \A x \in Pid : Stays(k, k', x)
    BY <1>1, <2>1, BlockPlace
  <2>4. QED
    BY <1>4, <2>2, <2>3 DEF Dispatched
<1>14. ASSUME NEW p \in Pid, SysUnblock(p) PROVE KidInv'
  <2>1. k' = UnblockProcess(k, p)
    BY <1>14 DEF SysUnblock
  <2>2. SameFields(k, k') /\ k'.nextPid = k.nextPid /\ k'.sems = k.sems
    BY <1>1, <2>1, BlockEffect, BlockFact DEF Quiet
  <2>3. \A x \in Pid : Stays(k, k', x)
    BY <1>1, <2>1, UnblockPlace
  <2>4. QED
    BY <1>4, <2>2, <2>3
<1>15. ASSUME NEW p \in Pid, SysWaitpid(p) PROVE KidInv'
  <2>1. MayWaitFor(k, p)
    BY <1>15 DEF SysWaitpid
  <2>3. k.pcb[p].state # "ZOMBIE"
    BY <1>1, <2>1, TargetFact DEF Waits, NoZombies
  <2>4. k' = WaitpidBlock(k, p)
    BY <1>15, <2>3 DEF SysWaitpid
  <2>5. \A x \in Pid : Stays(k, k', x)
    BY <1>1, <2>4, WaitpidPlace
  <2>6. /\ k'.sems = k.sems /\ k'.nextPid = k.nextPid
        /\ \A x \in Pid : /\ k'.pcb[x].parentPid = k.pcb[x].parentPid
                          /\ k'.pcb[x].foreground = k.pcb[x].foreground
                          /\ SameCounts(k, k', x)
                          /\ x # IdlePid => (k'.pcb[x].state = "UNUSED" <=> k.pcb[x].state = "UNUSED")
    <3>1. k.current = k.current
      OBVIOUS
    <3>2. QED
      BY <1>1, <2>4, <3>1, WaitpidBlockEffect
  <2>7. Kids(k')
    BY <1>1, <1>2, <2>5, <2>6, SameFamily
  <2>8. QED
    BY <1>3, <2>7
<1>16. ASSUME NEW p \in Pid, NEW priority \in Prios, SysChangePrio(p, priority) PROVE KidInv'
  <2>1. k' = ChangePrio(k, p, priority) /\ priority \in Nat
    BY <1>16, PriosAssumption DEF SysChangePrio
  <2>2. SameFields(k, k') /\ k'.nextPid = k.nextPid /\ k'.sems = k.sems /\ k'.queue = k.queue
    BY <1>1, <2>1, ChangePrioEffect
  <2>3. \A x \in Pid : Stays(k, k', x)
    BY <2>2 DEF Stays, Queued, InQueue
  <2>4. QED
    BY <1>4, <2>2, <2>3
<1>17. CASE WaitpidResume
  <2> DEFINE p == frame[k.cpu].pid
  <2>1. /\ frame[k.cpu].at = "waitpid" /\ k' = IF WaitpidResult(k, p) = p THEN WaitpidReap(k, p) ELSE k
    BY <1>17 DEF WaitpidResume
  <2>2. k.cpu \in Pid \ {IdlePid}
    BY <1>1, <2>1 DEF WaitInv, Halted, Context
  <2>3. p \in Pid \ {IdlePid}
    BY <1>1, <2>1, <2>2 DEF Waits, Suspended
  <2> HIDE DEF p
  <2>4. ASSUME HasProcess(k, p) PROVE k.pcb[p].state # "ZOMBIE"
    BY <1>1, <2>3, <2>4, FoundFact DEF NoZombies
  <2>5. k' = k
    BY <2>1, <2>3, <2>4 DEF WaitpidResult, Pid
  <2>6. QED
    BY <1>5, <2>5
<1>18. ASSUME NEW s \in UserSems PROVE s \in SemId /\ \A t \in Low : t \in SemId /\ t # s
  <2>1. s \in SemId /\ s >= MaxPid /\ MaxPid \in Nat
    BY UserSemsAssumption, MaxPidAssumption DEF SemsApart
  <2>2. QED
    BY <2>1 DEF Low, SemId
<1>19. ASSUME NEW s \in UserSems, NEW v \in Nat, k' = SemInit(k, s, v) \/ k' = SemClose(k, s) PROVE KidInv'
  <2>1. s \in SemId /\ \A t \in Low : t \in SemId /\ t # s
    BY <1>18
  <2>2. /\ SameFields(k, k') /\ k'.nextPid = k.nextPid /\ k'.queue = k.queue
        /\ \A t \in SemId \ {s} : k'.sems[t] = k.sems[t]
    BY <1>1, <1>19, <2>1, EntryEffect
  <2>3. \A x \in Pid : Stays(k, k', x)
    BY <2>2 DEF Stays, Queued, InQueue
  <2>4. \A t \in Low : k'.sems[t].used = k.sems[t].used
    BY <2>1, <2>2
  <2>5. QED
    BY <1>4, <2>2, <2>3, <2>4
<1>20. ASSUME NEW s \in UserSems, NEW v \in InitValues, SysSemOpen(s, v) PROVE KidInv'
  BY <1>19, <1>20, ValuesAssumption DEF SysSemOpen
<1>21. ASSUME NEW s \in UserSems, SysSemWait(s) \/ SysSemWaitNoNode(s) \/ SysSemPost(s) \/ SysSemClose(s)
       PROVE  KidInv'
  <2>1. s \in SemId /\ 0 \in Nat /\ \A t \in Low : t \in SemId /\ t # s
    BY <1>18, <1>21
  <2>2. CASE k' = SemWait(k, s)
    <3>1. SameFields(k, k') /\ k'.nextPid = k.nextPid
      BY <1>1, <2>1, <2>2, SemWaitEffect, SemWaitFact DEF Steps, Dispatched
    <3>2. \A x \in Pid : Stays(k, k', x)
      BY <1>1, <2>1, <2>2, SemWaitPlace
    <3>3. \A t \in SemId \ {s} : k'.sems[t] = k.sems[t]
      BY <1>1, <2>1, <2>2, SemOthers
    <3>4. QED
      BY <1>4, <2>1, <3>1, <3>2, <3>3
  <2>3. CASE k' = SemWaitNoNode(k, s)
    <3>1. k' = BlockProcessBySem(k, k.current)
      BY <2>3 DEF SemWaitNoNode
    <3>2. Dispatched(k, k')
      BY <1>1, <3>1, BlockBySemEffect
    <3>3. k'.nextPid = k.nextPid /\ k'.sems = k.sems
      BY <1>1, <3>1, BlockBySemFact DEF Quiet
    <3>4. \A x \in Pid : Stays(k, k', x)
      BY <1>1, <2>1, <2>3, SemWaitPlace
    <3>5. QED
      BY <1>4, <3>2, <3>3, <3>4 DEF Dispatched
  <2>4. CASE k' = SemPost(k, s)
    <3>1. SameFields(k, k') /\ k'.nextPid = k.nextPid
      BY <1>1, <2>1, <2>4, SemPostEffect, SemPostFact DEF Steps
    <3>2. \A x \in Pid : Stays(k, k', x)
      BY <1>1, <2>1, <2>4, SemPostPlace DEF AllAhead
    <3>3. \A t \in SemId \ {s} : k'.sems[t] = k.sems[t]
      BY <1>1, <2>1, <2>4, SemOthers
    <3>4. QED
      BY <1>4, <2>1, <3>1, <3>2, <3>3
  <2>5. CASE k' = SemClose(k, s)
    BY <1>19, <2>1, <2>5
  <2>6. QED
    BY <1>21, <2>2, <2>3, <2>4, <2>5 DEF SysSemWait, SysSemWaitNoNode, SysSemPost, SysSemClose
<1>22. CASE UNCHANGED vars
  BY <1>5, <1>22 DEF vars
<1>23. QED
  BY <1>7, <1>8, <1>9, <1>10, <1>11, <1>12, <1>13, <1>14, <1>15, <1>16, <1>17, <1>20, <1>21, <1>22
     DEF Next, SysCreateNoNode

\* children_count is the number of foreground children of every process that
\* lives, and it holds a semaphore of its own exactly while it has some
\* (ChildrenCounted): createProcess, exit, kill and Ctrl-C keep the accounts,
\* when the table has an entry per process, programs leave these alone and
\* allocations succeed (a parent that no queue holds is not found when its
\* child dies).
THEOREM ChildrenCorrect ==
  ASSUME SemsApart, "outOfMemory" \notin Env
  PROVE  Spec => []ChildrenCounted
<1>1. ASSUME KidInv PROVE ChildrenCounted
  <2>1. Family(k) /\ Holds(k)
    BY <1>1 DEF KidInv, Kids
  <2>2. \A p : ForegroundChildren(p) = Fg(k, p)
    BY DEF ForegroundChildren, Fg, Exists
  <2> SUFFICES ASSUME NEW p \in Pid \ {IdlePid}, k.pcb[p].state # "UNUSED", NEW s, s = k.pcb[p].children_sem
               PROVE  /\ k.pcb[p].children_count = Cardinality(ForegroundChildren(p))
                      /\ s >= 0 <=> ForegroundChildren(p) # {}
                      /\ s >= 0 => k.sems[s].used /\ \A r \in Pid \ {p} : k.pcb[r].children_sem # s
    BY DEF ChildrenCounted
  <2>3. QED
    BY <2>1, <2>2 DEF Family, Holds, Exists
<1>2. QED
  BY <1>1, KidInit, KidStep, PTL DEF Spec

-----------------------------------------------------------------------------
(* Whoever sleeps on a semaphore can be woken.                              *)

\* Everybody in blockedBySem is in the queue of a semaphore of the programs
\* that is in use: the kernel's own, which it closes, have no sleepers.
Asleep(k0) ==
  \A x \in Pid : InQueue(k0, "blockedBySem", x) =>
    \E s \in SemId \ Low : k0.sems[s].used /\ In(k0.sems[s].blocked, x)

\* Nobody new falls asleep, and no semaphore of the programs changes.
LEMMA SameSleepers ==
  ASSUME NEW k0, Asleep(k0), NEW k1,
         \A x \in Pid : InQueue(k1, "blockedBySem", x) => InQueue(k0, "blockedBySem", x),
         \A s \in SemId \ Low : k0.sems[s].used => k1.sems[s] = k0.sems[s]
  PROVE  Asleep(k1)
BY DEF Asleep

\* wait puts the caller to sleep in the queue of the semaphore.
LEMMA SemWaitSleepers ==
  ASSUME NEW k0, WF(k0, {}), CurOK(k0, {}), Asleep(k0), NEW s \in SemId \ Low, k0.sems[s].used,
         NEW k1, k1 = SemWait(k0, s)
  PROVE  Asleep(k1)
<1> DEFINE b == k0.sems[s].blocked
           c == k0.current
<1>1. /\ s \in SemId /\ k0.sems \in [SemId -> Sem] /\ k0.sems[s] \in Sem /\ b \in Seq(Pid)
      /\ k0.sems[s].value \in Nat /\ c \in Pid /\ "blockedBySem" \in QueueName
  BY SemTypeFact DEF WF, KernelState, QueueName
<1>2. \A t \in SemId \ {s} : k1.sems[t] = k0.sems[t]
  BY <1>1, SemOthers
<1>3. CASE k0.sems[s].value > 0
  <2>1. /\ k1.sems = [k0.sems EXCEPT ![s].value = @ - 1]
        /\ \A q \in QueueName, x \in Pid : InQueue(k1, q, x) <=> InQueue(k0, q, x)
    BY <1>1, <1>3, SemTakeEffect
  <2>2. k1.sems[s].used /\ k1.sems[s].blocked = b
    BY <1>1, <2>1 DEF Sem
  <2>3. ASSUME NEW x \in Pid, InQueue(k1, "blockedBySem", x)
        PROVE  \E t \in SemId \ Low : k1.sems[t].used /\ In(k1.sems[t].blocked, x)
    <3>1. PICK t \in SemId \ Low : k0.sems[t].used /\ In(k0.sems[t].blocked, x)
      BY <1>1, <2>1, <2>3 DEF Asleep
    <3>2. k1.sems[t].used /\ In(k1.sems[t].blocked, x)
      BY <1>2, <2>2, <3>1
    <3>3. QED
      BY <3>2
  <2>4. QED
    BY <2>3 DEF Asleep
<1>4. CASE k0.sems[s].value = 0
  <2>1. /\ k1.sems = [k0.sems EXCEPT ![s].blocked = Append(@, k0.current)]
        /\ \A x \in Pid : InQueue(k1, "blockedBySem", x) => x = c \/ InQueue(k0, "blockedBySem", x)
    <3>1. k1.sems = [k0.sems EXCEPT ![s].blocked = Append(@, k0.current)]
      BY <1>1, <1>4, SemWaitEffect
    <3>2. CASE k0.current # IdlePid
      BY <1>1, <1>4, <3>1, <3>2, SemWaitEffect
    <3>3. CASE k0.current = IdlePid
      BY <1>1, <1>4, <3>1, <3>3, SemWaitEffect
    <3>4. QED
      BY <3>2, <3>3
  <2>2. k1.sems[s].used /\ k1.sems[s].blocked = Append(b, c)
    BY <1>1, <2>1 DEF Sem
  <2>3. \A x \in Pid : In(Append(b, c), x) <=> In(b, x) \/ x = c
    <3>1. Append(b, c) \in Seq(Pid) /\ Len(Append(b, c)) = Len(b) + 1 /\ Append(b, c)[Len(b) + 1] = c
          /\ Len(b) \in Nat /\ \A i \in 1..Len(b) : Append(b, c)[i] = b[i]
      BY <1>1
    <3> HIDE DEF b, c
    <3>2. QED
      BY <3>1 DEF In
  <2>4. ASSUME NEW x \in Pid, InQueue(k1, "blockedBySem", x)
        PROVE  \E t \in SemId \ Low : k1.sems[t].used /\ In(k1.sems[t].blocked, x)
    <3>1. CASE x = c
      <4>1. In(k1.sems[s].blocked, x)
        BY <1>1, <2>2, <2>3, <3>1
      <4>2. QED
        BY <2>2, <4>1
    <3>2. CASE x # c
      <4>1. PICK t \in SemId \ Low : k0.sems[t].used /\ In(k0.sems[t].blocked, x)
        BY <2>1, <2>4, <3>2 DEF Asleep
      <4>2. k1.sems[t].used /\ In(k1.sems[t].blocked, x)
        BY <1>2, <2>2, <2>3, <4>1
      <4>3. QED
        BY <4>2
    <3>3. QED
      BY <3>1, <3>2
  <2>5. QED
    BY <2>4 DEF Asleep
<1>5. QED
  BY <1>1, <1>3, <1>4

\* post takes the first sleeper out of the queue and wakes it.
LEMMA SemPostSleepers ==
  ASSUME NEW k0, WF(k0, {}), Asleep(k0), NEW s \in SemId \ Low, k0.sems[s].used,
         NEW k1, k1 = SemPost(k0, s)
  PROVE  Asleep(k1)
<1> DEFINE b == k0.sems[s].blocked
<1>1. /\ s \in SemId /\ k0.sems \in [SemId -> Sem] /\ k0.sems[s] \in Sem /\ b \in Seq(Pid)
      /\ k0.sems[s].value \in Nat /\ "blockedBySem" \in QueueName /\ "blockedBySem" # "ready"
  BY SemTypeFact DEF WF, KernelState, QueueName
<1>2. /\ \A t \in SemId \ {s} : k1.sems[t] = k0.sems[t]
      /\ \A x \in Pid : InQueue(k1, "blockedBySem", x) => InQueue(k0, "blockedBySem", x)
  BY <1>1, SemOthers
<1>3. CASE b = << >>
  <2>1. k1.sems = [k0.sems EXCEPT ![s].value = @ + 1]
    BY <1>1, <1>3 DEF SemPost
  <2>2. k1.sems[s].used /\ k1.sems[s].blocked = b
    BY <1>1, <2>1 DEF Sem
  <2>3. ASSUME NEW x \in Pid, InQueue(k1, "blockedBySem", x)
        PROVE  \E t \in SemId \ Low : k1.sems[t].used /\ In(k1.sems[t].blocked, x)
    <3>1. PICK t \in SemId \ Low : k0.sems[t].used /\ In(k0.sems[t].blocked, x)
      BY <1>2, <2>3 DEF Asleep
    <3>2. k1.sems[t].used /\ In(k1.sems[t].blocked, x)
      BY <1>2, <2>2, <3>1
    <3>3. QED
      BY <3>2
  <2>4. QED
    BY <2>3 DEF Asleep
<1>4. CASE b # << >>
  <2> DEFINE h == Head(b)
  <2>1. /\ k1.sems = [k0.sems EXCEPT ![s].blocked = Tail(@)]
        /\ \A x \in Pid : InQueue(k1, "blockedBySem", x) => x # h
    <3>0. k0.sems[s].blocked # << >>
      BY <1>4
    <3>1. /\ k1.sems = [k0.sems EXCEPT ![s].blocked = Tail(@)]
          /\ \A q \in QueueName, x \in Pid :
               InQueue(k1, q, x) <=> IF x = h /\ InQueue(k0, "blockedBySem", h)
                                     THEN q = "ready" ELSE InQueue(k0, q, x)
      BY <1>1, <3>0, SemPostEffect, ZenonT(60)
    <3> HIDE DEF h
    <3>2. ASSUME NEW x \in Pid, InQueue(k1, "blockedBySem", x) PROVE x # h
      BY <1>1, <1>2, <3>1, <3>2
    <3>3. QED
      BY <3>1, <3>2
  <2>2. k1.sems[s].used /\ k1.sems[s].blocked = Tail(b)
    BY <1>1, <2>1 DEF Sem
  <2>3. ASSUME NEW x \in Pid, In(b, x), x # h PROVE In(Tail(b), x)
    <3>1. PICK i \in 1..Len(b) : b[i] = x
      BY <2>3 DEF In
    <3>2. i # 1
      BY <1>4, <2>3, <3>1
    <3>3. i - 1 \in 1..Len(Tail(b)) /\ Tail(b)[i - 1] = b[i]
      BY <1>1, <1>4, <3>1, <3>2
    <3>4. QED
      BY <3>1, <3>3 DEF In
  <2>4. ASSUME NEW x \in Pid, InQueue(k1, "blockedBySem", x)
        PROVE  \E t \in SemId \ Low : k1.sems[t].used /\ In(k1.sems[t].blocked, x)
    <3>1. PICK t \in SemId \ Low : k0.sems[t].used /\ In(k0.sems[t].blocked, x)
      BY <1>2, <2>4 DEF Asleep
    <3>2. x # h
      BY <2>1, <2>4
    <3> HIDE DEF h
    <3>3. k1.sems[t].used /\ In(k1.sems[t].blocked, x)
      <4>1. CASE t = s
        BY <2>2, <2>3, <3>1, <3>2, <4>1
      <4>2. CASE t # s
        BY <1>2, <3>1, <4>2
      <4>3. QED
        BY <4>1, <4>2
    <3>4. QED
      BY <3>3
  <2>5. QED
    BY <2>4 DEF Asleep
<1>5. QED
  BY <1>3, <1>4

\* semInit and semClose of a semaphore that nobody sleeps on.
LEMMA EntrySleepers ==
  ASSUME NEW k0, WF(k0, {}), Asleep(k0), NEW s \in SemId, NEW v \in Nat, NEW k1,
         \/ k1 = SemInit(k0, s, v)
         \/ k1 = SemClose(k0, s) /\ k0.sems[s].blocked = << >>
  PROVE  Asleep(k1)
<1>1. k1.queue = k0.queue /\ \A t \in SemId \ {s} : k1.sems[t] = k0.sems[t]
  BY EntryEffect
<1>2. CASE k1 = k0
  BY <1>2
<1>3. CASE k1 # k0
  <2>1. ~k0.sems[s].used \/ k0.sems[s].blocked = << >>
    BY <1>3 DEF SemInit
  <2>2. ASSUME NEW x \in Pid, InQueue(k1, "blockedBySem", x)
        PROVE  \E t \in SemId \ Low : k1.sems[t].used /\ In(k1.sems[t].blocked, x)
    <3>1. InQueue(k0, "blockedBySem", x)
      BY <1>1, <2>2 DEF InQueue
    <3>2. PICK t \in SemId \ Low : k0.sems[t].used /\ In(k0.sems[t].blocked, x)
      BY <3>1 DEF Asleep
    <3>3. t # s
      BY <2>1, <3>2 DEF In
    <3>4. QED
      BY <1>1, <3>2, <3>3
  <2>3. QED
    BY <2>2 DEF Asleep
<1>4. QED
  BY <1>2, <1>3

SleepInv == KidInv /\ Asleep(k)

\* Every step leaves whoever sleeps on a semaphore in a queue that is posted.
LEMMA SleepStep ==
  ASSUME SemsApart, "closeBusy" \notin Env, "outOfMemory" \notin Env
  PROVE  SleepInv /\ [Next]_vars => SleepInv'
<1> SUFFICES ASSUME SleepInv, [Next]_vars PROVE SleepInv'
  OBVIOUS
<1>1. /\ KidInv /\ WF(k, {}) /\ CurOK(k, {}) /\ Waits(k, frame, {}) /\ NoZombies(k) /\ Kids(k) /\ Asleep(k)
      /\ k.cpu \in Context /\ k.current \in Pid /\ k.foreground \in Pid \cup {NoPid}
      /\ k.sems \in [SemId -> Sem] /\ "blockedBySem" \in QueueName
  <2>1. Lost(k) = {}
    BY DEF SleepInv, KidInv, WaitInv, IInv
  <2>2. QED
    BY <2>1 DEF SleepInv, KidInv, WaitInv, IInv, WF, KernelState, QueueName
<1>2. KidInv'
  BY <1>1, KidStep
<1>3. ASSUME Asleep(k') PROVE SleepInv'
  BY <1>2, <1>3 DEF SleepInv
<1>4. ASSUME \A x \in Pid : InQueue(k', "blockedBySem", x) => InQueue(k, "blockedBySem", x),
             \A s \in SemId \ Low : k.sems[s].used => k'.sems[s] = k.sems[s]
      PROVE  SleepInv'
  BY <1>1, <1>3, <1>4, SameSleepers
<1>5. ASSUME k' = k PROVE SleepInv'
  BY <1>1, <1>3, <1>5
<1>6. ASSUME NEW p \in Pid, k' = Kill(k, p) PROVE SleepInv'
  <2>1. CASE k' = k
    BY <1>5, <2>1
  <2>2. CASE Killed(k, k', p)
    <3>1. \A x \in Pid : InQueue(k', "blockedBySem", x) => InQueue(k, "blockedBySem", x)
      BY <2>2 DEF Killed
    <3>2. ASSUME NEW s \in SemId \ Low PROVE k'.sems[s] = k.sems[s]
      <4> DEFINE par == k.pcb[p].parentPid
      <4>1. CASE ~Counted(k, p)
        BY <2>2, <4>1 DEF Killed
      <4>2. CASE Counted(k, p)
        <5>1. par > 0 /\ par \in Pid \cup {NoPid} /\ k.pcb[par].children_sem >= 0 /\ SemGone(k, k', par)
          BY <1>1, <2>2, <4>2, KidTypes DEF Killed, Counted
        <5>2. par \in Pid
          BY <5>1 DEF NoPid
        <5>3. k.pcb[par].children_sem \in Low
          BY <1>1, <5>1, <5>2 DEF Kids, Holds
        <5>4. QED
          BY <5>1, <5>3 DEF SemGone
      <4>3. QED
        BY <4>1, <4>2
    <3>3. QED
      BY <1>4, <3>1, <3>2
  <2>3. QED
    BY <1>1, <1>6, <2>1, <2>2, KillEffect
<1>7. CASE TimerTick \/ SysYield
  <2>1. k' = Schedule(k) \/ k' = Yield(k)
    BY <1>7 DEF TimerTick, SysYield
  <2>2. k'.sems = k.sems /\ \A q \in QueueName, x \in Pid : InQueue(k', q, x) <=> InQueue(k, q, x)
    BY <1>1, <2>1, ScheduleFact DEF Quiet
  <2>3. QED
    BY <1>1, <1>4, <2>2
<1>8. CASE CtrlC
  BY <1>1, <1>6, <1>8 DEF CtrlC
<1>9. ASSUME NEW priority \in Prios, NEW fg \in BOOLEAN, NEW tty \in BOOLEAN,
             SysCreateProcess(priority, fg, tty)
      PROVE  SleepInv'
  <2> DEFINE p == k.nextPid
             par == k.current
  <2>1. /\ priority \in Nat /\ k.nextPid <= MaxPid /\ k' = CreateProcess(k, priority, fg, tty)
    BY <1>9, PriosAssumption DEF SysCreateProcess
  <2>2. Created(k, k', fg)
    BY <1>1, <2>1, CreateEffect
  <2>3. /\ \A x \in Pid \ {p}, q \in QueueName : InQueue(k', q, x) <=> InQueue(k, q, x)
        /\ \A q \in QueueName : InQueue(k', q, p) => q \in {"ready", "blocked"}
    BY <2>2 DEF Created
  <2>4. \A x \in Pid : InQueue(k', "blockedBySem", x) => InQueue(k, "blockedBySem", x)
    <3>1. ~InQueue(k', "blockedBySem", p)
      BY <1>1, <2>3
    <3>2. QED
      BY <1>1, <2>3, <3>1
  <2>5. ASSUME NEW s \in SemId, k.sems[s].used PROVE k'.sems[s] = k.sems[s]
    <3>1. k'.sems = k.sems \/ CountedIn(k, k', par)
      BY <2>2 DEF Created
    <3>2. CASE CountedIn(k, k', par)
      <4> DEFINE t == k'.pcb[par].children_sem
                 e == [value |-> 0, used |-> TRUE, blocked |-> << >>]
      <4>1. \/ k'.sems = k.sems
            \/ t \in SemId /\ ~k.sems[t].used /\ k'.sems = [k.sems EXCEPT ![t] = e]
        BY <3>2 DEF CountedIn
      <4> HIDE DEF t, e
      <4>2. QED
        BY <1>1, <2>5, <4>1
    <3>3. QED
      BY <3>1, <3>2
  <2>6. QED
    BY <1>4, <2>4, <2>5
<1>10. CASE SysCreateNoStack
  BY <1>10 DEF SysCreateNoStack
<1>11. CASE SysExit
  BY <1>1, <1>6, <1>11 DEF SysExit
<1>12. ASSUME NEW p \in Pid, SysKill(p) PROVE SleepInv'
  BY <1>6, <1>12 DEF SysKill
<1>13. ASSUME NEW p \in Pid, SysBlock(p) \/ SysUnblock(p) PROVE SleepInv'
  <2>1. k' = BlockProcess(k, p) \/ k' = UnblockProcess(k, p)
    BY <1>13 DEF SysBlock, SysUnblock
  <2>2. k'.sems = k.sems /\ \A x \in Pid : InQueue(k', "blockedBySem", x) <=> InQueue(k, "blockedBySem", x)
    BY <1>1, <2>1, BlockEffect, BlockFact DEF Quiet
  <2>3. QED
    BY <1>4, <2>2
<1>14. ASSUME NEW p \in Pid, SysWaitpid(p) PROVE SleepInv'
  <2>1. MayWaitFor(k, p)
    BY <1>14 DEF SysWaitpid
  <2>3. k.pcb[p].state # "ZOMBIE"
    BY <1>1, <2>1, TargetFact DEF Waits, NoZombies
  <2>4. k' = WaitpidBlock(k, p)
    BY <1>14, <2>3 DEF SysWaitpid
  <2>5. k'.sems = k.sems /\ \A x \in Pid : InQueue(k', "blockedBySem", x) <=> InQueue(k, "blockedBySem", x)
    <3>1. k.current = k.current
      OBVIOUS
    <3>2. QED
      BY <1>1, <2>4, <3>1, WaitpidBlockEffect
  <2>6. QED
    BY <1>4, <2>5
<1>15. ASSUME NEW p \in Pid, NEW priority \in Prios, SysChangePrio(p, priority) PROVE SleepInv'
  <2>1. k' = ChangePrio(k, p, priority) /\ priority \in Nat
    BY <1>15, PriosAssumption DEF SysChangePrio
  <2>2. k'.sems = k.sems /\ k'.queue = k.queue
    BY <1>1, <2>1, ChangePrioEffect
  <2>3. \A x \in Pid : InQueue(k', "blockedBySem", x) <=> InQueue(k, "blockedBySem", x)
    BY <2>2 DEF InQueue
  <2>4. QED
    BY <1>4, <2>2, <2>3
<1>16. CASE WaitpidResume
  <2> DEFINE p == frame[k.cpu].pid
  <2>1. /\ frame[k.cpu].at = "waitpid" /\ k' = IF WaitpidResult(k, p) = p THEN WaitpidReap(k, p) ELSE k
    BY <1>16 DEF WaitpidResume
  <2>2. k.cpu \in Pid \ {IdlePid}
    BY <1>1, <2>1 DEF KidInv, WaitInv, Halted, Context
  <2>3. p \in Pid \ {IdlePid}
    BY <1>1, <2>1, <2>2 DEF Waits, Suspended
  <2> HIDE DEF p
  <2>4. ASSUME HasProcess(k, p) PROVE k.pcb[p].state # "ZOMBIE"
    BY <1>1, <2>3, <2>4, FoundFact DEF NoZombies
  <2>5. k' = k
    BY <2>1, <2>3, <2>4 DEF WaitpidResult, Pid
  <2>6. QED
    BY <1>5, <2>5
<1>17. ASSUME NEW s \in UserSems PROVE s \in SemId \ Low
  <2>1. s \in SemId /\ s >= MaxPid /\ MaxPid \in Nat
    BY UserSemsAssumption, MaxPidAssumption DEF SemsApart
  <2>2. QED
    BY <2>1 DEF Low, SemId
<1>18. ASSUME NEW s \in UserSems, NEW v \in InitValues, SysSemOpen(s, v) PROVE SleepInv'
  BY <1>1, <1>3, <1>17, <1>18, EntrySleepers, ValuesAssumption DEF SysSemOpen
<1>19. ASSUME NEW s \in UserSems, SysSemWait(s) \/ SysSemWaitNoNode(s) \/ SysSemPost(s) \/ SysSemClose(s)
       PROVE  SleepInv'
  <2>1. s \in SemId \ Low /\ s \in SemId /\ 0 \in Nat
    BY <1>17, <1>19
  <2>2. CASE SysSemWait(s)
    BY <1>1, <1>3, <2>1, <2>2, SemWaitSleepers DEF SysSemWait
  <2>3. CASE SysSemWaitNoNode(s)
    BY <2>3 DEF SysSemWaitNoNode
  <2>4. CASE SysSemPost(s)
    BY <1>1, <1>3, <2>1, <2>4, SemPostSleepers DEF SysSemPost
  <2>5. CASE SysSemClose(s)
    BY <1>1, <1>3, <2>1, <2>5, EntrySleepers DEF SysSemClose
  <2>6. QED
    BY <1>19, <2>2, <2>3, <2>4, <2>5
<1>20. CASE UNCHANGED vars
  BY <1>5, <1>20 DEF vars
<1>21. QED
  BY <1>7, <1>8, <1>9, <1>10, <1>11, <1>12, <1>13, <1>14, <1>15, <1>16, <1>18, <1>19, <1>20
     DEF Next, SysCreateNoNode

\* Everybody who sleeps on a semaphore is in the queue of one that is in use,
\* where a post finds it (EverySleeperCanWake), as long as nobody closes a
\* semaphore others sleep on and wait can allocate its queue node.
THEOREM SleepersCanWake ==
  ASSUME SemsApart, "closeBusy" \notin Env, "outOfMemory" \notin Env
  PROVE  Spec => []EverySleeperCanWake
<1>1. ASSUME Init PROVE SleepInv
  <2>1. KidInv
    BY <1>1, KidInit
  <2>2. \A q \in QueueName, p \in Pid : InQueue(k, q, p) <=> q = "ready" /\ p = ShellPid
    <3>1. k = BootKernel
      BY <1>1 DEF Init
    <3>2. k.queue = [q \in QueueName |-> IF q = "ready" THEN <<ShellPid>> ELSE << >>]
      BY <3>1 DEF BootKernel
    <3>3. QED
      BY <3>2 DEF InQueue
  <2>3. \A p \in Pid : ~InQueue(k, "blockedBySem", p)
    BY <2>2 DEF QueueName
  <2>4. QED
    BY <2>1, <2>3 DEF SleepInv, Asleep
<1>2. ASSUME SleepInv PROVE EverySleeperCanWake
  BY <1>2 DEF SleepInv, Asleep, EverySleeperCanWake, In
<1>3. QED
  BY <1>1, <1>2, SleepStep, PTL DEF Spec
=============================================================================
