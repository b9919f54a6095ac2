----------------------------- MODULE TestsProofs -----------------------------
(***************************************************************************)
(* Proofs that the kernel's own test programs find what they look for, for *)
(* any number of processes and iterations and whenever the timer ticks:    *)
(* the safety properties of TestSync, TestProcesses and TestPrio.          *)
(*                                                                         *)
(* A program's invariant says what the kernel does with its processes      *)
(* while the program is at each of its statements.  One lemma per kernel   *)
(* function, drawn from those of KernelProofs, says what a program sees of *)
(* it; one lemma per program takes its statements one by one.              *)
(***************************************************************************)
EXTENDS Tests, KernelProofs, FiniteSetTheorems

-----------------------------------------------------------------------------
(* What a program sees of the kernel's functions.                           *)

\* The kernel's own invariants.
Sane(k0) == WF(k0, {}) /\ CurOK(k0, {}) /\ Sleepers(k0, {}) /\ NoZombies(k0) /\ OwnStack(k0, {})

\* Nobody is born, nobody dies, and the semaphores stay as they are.
Same(k0, k1) ==
  /\ Sane(k1) /\ SameFields(k0, k1)
  /\ k1.sems = k0.sems /\ k1.nextPid = k0.nextPid

LEMMA SaneTypes ==
  ASSUME NEW k0, Sane(k0)
  PROVE  /\ WF(k0, {}) /\ CurOK(k0, {})
         /\ k0.pcb \in [Pid -> Pcb] /\ k0.sems \in [SemId -> Sem] /\ k0.nextPid \in Nat
         /\ k0.queue \in [QueueName -> Seq(Pid)] /\ k0.current \in Pid /\ k0.cpu \in Context
BY DEF Sane, WF, KernelState

\* A process that runs is the one the kernel believes is running, and is ready.
LEMMA Running ==
  ASSUME NEW k0, Sane(k0), NEW p \in Pid, p # IdlePid, k0.cpu = p
  PROVE  /\ p < k0.nextPid
         /\ Exists(k0, p) => /\ k0.current = p /\ InQueue(k0, "ready", p)
                             /\ CanBlock(k0, p) /\ Killable(k0, p)
<1>1. p < k0.nextPid /\ (Exists(k0, p) => k0.current = p)
  BY DEF Sane, OwnStack
<1>2. k0.current = p => InQueue(k0, "ready", p)
  BY DEF Sane, CurOK
<1>3. InQueue(k0, "ready", p) => CanBlock(k0, p) /\ Killable(k0, p)
  BY PidFact, NameFact DEF Sane, WF, Queues, CanBlock, Killable
<1>4. QED
  BY <1>1, <1>2, <1>3

\* A process in a queue exists, and is in no other.
LEMMA Placed ==
  ASSUME NEW k0, Sane(k0), NEW x \in Pid
  PROVE  /\ \A q \in QueueName : InQueue(k0, q, x) => Exists(k0, x) /\ x # IdlePid
         /\ \A q, r \in QueueName : InQueue(k0, q, x) /\ InQueue(k0, r, x) => q = r
         /\ InQueue(k0, "ready", x) => k0.pcb[x].state \in {"READY", "RUNNING"} /\ ~InQueue(k0, "blocked", x)
                                       /\ ~InQueue(k0, "blockedBySem", x)
         /\ InQueue(k0, "blocked", x) => k0.pcb[x].state = "BLOCKED" /\ ~InQueue(k0, "blockedBySem", x)
         /\ x # IdlePid /\ ~Exists(k0, x) => ~HasProcess(k0, x)
         /\ x >= k0.nextPid => ~Exists(k0, x)
<1>1. \A q \in QueueName : InQueue(k0, q, x) => Exists(k0, x) /\ x # IdlePid
  BY DEF Sane, WF, Queues, States, QueueName, Exists
<1>2. \A q, r \in QueueName : InQueue(k0, q, x) /\ InQueue(k0, r, x) => q = r
  BY DEF Sane, WF, Queues
<1>3. /\ InQueue(k0, "ready", x) => k0.pcb[x].state \in {"READY", "RUNNING"}
      /\ InQueue(k0, "blocked", x) => k0.pcb[x].state = "BLOCKED"
  BY DEF Sane, WF, States
<1>4. x # IdlePid /\ ~Exists(k0, x) => ~HasProcess(k0, x)
  BY <1>1, PidFact DEF HasProcess, Sane, CurOK
<1>5. x >= k0.nextPid => ~Exists(k0, x)
  BY DEF Sane, WF, Fresh, Exists
<1>6. QED
  BY <1>1, <1>2, <1>3, <1>4, <1>5, PidFact

LEMMA SoundSane ==
  ASSUME NEW k0, Sane(k0), NEW k1, Sound(k0, k1, {}), OwnStack(k1, {})
  PROVE  Sane(k1)
BY DEF Sane, Sound, NoZombies

LEMMA StepsSane ==
  ASSUME NEW k0, Sane(k0), NEW k1, Steps(k0, k1, {}), Dispatched(k0, k1)
  PROVE  Sane(k1) /\ SameFields(k0, k1) /\ k1.nextPid = k0.nextPid
<1>1. Sound(k0, k1, {})
  BY StepsSound DEF Sane
<1>2. WF(k1, {}) /\ k1.nextPid = k0.nextPid
  BY DEF Steps, Keeps
<1>3. OwnStack(k1, {})
  BY <1>2, DispatchOwn DEF Sane
<1>4. QED
  BY <1>1, <1>2, <1>3, SoundSane DEF Dispatched

\* The timer's interrupt and yield.
LEMMA SchedulePart ==
  ASSUME NEW k0, Sane(k0), NEW k1, k1 = Schedule(k0) \/ k1 = Yield(k0)
  PROVE  Same(k0, k1) /\ SamePrio(k0, k1) /\ SameQueues(k0, k1)
<1>1. WF(k0, {}) /\ CurOK(k0, {})
  BY DEF Sane
<1>2. Steps(k0, k1, {})
  BY <1>1, ScheduleFact, KeepsQuietSteps
<1>3. Dispatched(k0, k1) /\ SamePrio(k0, k1)
  BY <1>1, ScheduleEffect
<1>4. SameQueues(k0, k1) /\ k1.sems = k0.sems
  BY <1>1, ScheduleFact DEF SameQueues, Quiet
<1>5. QED
  BY <1>2, <1>3, <1>4, StepsSane DEF Same

LEMMA BlockPart ==
  ASSUME NEW k0, Sane(k0), NEW p \in Pid, NEW k1, k1 = BlockProcess(k0, p)
  PROVE  /\ Same(k0, k1) /\ SamePrio(k0, k1)
         /\ IF CanBlock(k0, p) THEN OneMoves(k0, k1, p, "blocked") ELSE k1 = k0
<1>1. WF(k0, {}) /\ CurOK(k0, {})
  BY DEF Sane
<1>2. Steps(k0, k1, {}) /\ k1.sems = k0.sems
  BY <1>1, BlockFact, KeepsQuietSteps DEF Quiet
<1>3. Dispatched(k0, k1)
  BY <1>1, BlockEffect
<1>4. QED
  BY <1>1, <1>2, <1>3, StepsSane, BlockQueues DEF Same

LEMMA UnblockPart ==
  ASSUME NEW k0, Sane(k0), NEW p \in Pid, NEW k1, k1 = UnblockProcess(k0, p)
  PROVE  /\ Same(k0, k1) /\ SamePrio(k0, k1)
         /\ IF InQueue(k0, "blocked", p) THEN OneMoves(k0, k1, p, "ready") ELSE k1 = k0
<1>1. WF(k0, {}) /\ CurOK(k0, {})
  BY DEF Sane
<1>2. Steps(k0, k1, {}) /\ k1.sems = k0.sems
  BY <1>1, BlockFact, KeepsQuietSteps DEF Quiet
<1>3. Dispatched(k0, k1)
  BY <1>1, BlockEffect DEF Dispatched
<1>4. QED
  BY <1>1, <1>2, <1>3, StepsSane, UnblockQueues DEF Same

\* A process that runs waits for p.
LEMMA WaitpidPart ==
  ASSUME NEW k0, Sane(k0), NEW c \in Pid, c # IdlePid, k0.current = c,
         NEW p \in Pid, NEW k1, k1 = WaitpidBlock(k0, p)
  PROVE  /\ Sane(k1) /\ k1.sems = k0.sems /\ k1.nextPid = k0.nextPid
         /\ SamePrio(k0, k1) /\ OneMoves(k0, k1, c, "blocked")
         /\ \A x \in Pid : /\ k1.pcb[x].parentPid = k0.pcb[x].parentPid
                           /\ k1.pcb[x].foreground = k0.pcb[x].foreground
                           /\ SameCounts(k0, k1, x)
                           /\ x # IdlePid => (Exists(k1, x) <=> Exists(k0, x))
                           /\ k1.pcb[x].waitingForPid = IF x = c THEN p ELSE k0.pcb[x].waitingForPid
<1>1. WF(k0, {}) /\ CurOK(k0, {}) /\ InQueue(k0, "ready", c)
  BY DEF Sane, CurOK
<1>2. CanBlock(k0, c)
  BY <1>1, PidFact DEF WF, Queues, CanBlock
<1>3. Sound(k0, k1, {})
  BY <1>1, WaitpidBlockFact
<1>4. /\ k1.sems = k0.sems /\ k1.nextPid = k0.nextPid /\ Switched(k0, k1)
      /\ \A x \in Pid : /\ k1.pcb[x].parentPid = k0.pcb[x].parentPid
                        /\ k1.pcb[x].foreground = k0.pcb[x].foreground
                        /\ SameCounts(k0, k1, x)
                        /\ x # IdlePid => (Exists(k1, x) <=> Exists(k0, x))
                        /\ k1.pcb[x].waitingForPid = IF x = c THEN p ELSE k0.pcb[x].waitingForPid
  BY <1>1, <1>2, WaitpidBlockEffect DEF Exists
<1>5. OwnStack(k1, {})
  BY <1>3, <1>4, StackOwn DEF Sane, Sound
<1>6. SamePrio(k0, k1) /\ OneMoves(k0, k1, c, "blocked")
  BY <1>1, <1>2, WaitpidQueues
<1>7. QED
  BY <1>3, <1>4, <1>5, <1>6, SoundSane

\* Process n is born in the background.
Birth(k0, k1, n, prio) ==
  /\ Sane(k1) /\ n \in Pid /\ n # IdlePid /\ k1.nextPid = n + 1 /\ k1.sems = k0.sems
  /\ OneMoves(k0, k1, n, "ready")
  /\ OnePrio(k0, k1, n, prio)
  /\ k1.pcb[n].parentPid = k0.current /\ ~k1.pcb[n].foreground /\ Exists(k1, n)
  /\ k1.pcb[n].children_sem = -1
  /\ \A x \in Pid \ {n} : SameKin(k0, k1, x) /\ SameCounts(k0, k1, x)

LEMMA CreatePart ==
  ASSUME NEW k0, Sane(k0), k0.nextPid <= MaxPid, NEW prio \in Nat, prio <= MAX_PRIORITY,
         NEW k1, k1 = CreateProcess(k0, prio, FALSE, FALSE)
  PROVE  Birth(k0, k1, k0.nextPid, prio)
<1> DEFINE n == k0.nextPid
<1>1. WF(k0, {}) /\ CurOK(k0, {}) /\ FALSE \in BOOLEAN
  BY DEF Sane
<1>2. Sound(k0, k1, {})
  BY <1>1, CreateFact
<1>3. Created(k0, k1, FALSE)
  BY <1>1, CreateEffect
<1>4. OwnStack(k1, {})
  BY <1>1, <1>2, <1>3, CreateOwn DEF Sane, Sound
<1>5. Sane(k1)
  BY <1>2, <1>4, SoundSane
<1>6. n \in Pid /\ n # IdlePid
  BY <1>1, FreshFact
<1>7. /\ OneMoves(k0, k1, n, "ready")
      /\ OnePrio(k0, k1, n, prio)
  BY <1>1, CreateQueues
<1>8. /\ k1.nextPid = n + 1 /\ k1.sems = k0.sems
      /\ k1.pcb[n].parentPid = k0.current /\ ~k1.pcb[n].foreground /\ Exists(k1, n)
      /\ k1.pcb[n].children_sem = -1
      /\ \A x \in Pid \ {n} : SameKin(k0, k1, x) /\ SameCounts(k0, k1, x)
  BY <1>3 DEF Created, Exists
<1>9. QED
  BY <1>5, <1>6, <1>7, <1>8 DEF Birth

\* A death.
LEMMA KillPart ==
  ASSUME NEW k0, Sane(k0), NEW p \in Pid, p > ShellPid, Killable(k0, p), NEW k1, k1 = Kill(k0, p)
  PROVE  /\ Sane(k1) /\ k1.nextPid = k0.nextPid /\ ~Exists(k1, p)
         /\ Killed(k0, k1, p)
         /\ \A x \in Pid : x # p /\ x # IdlePid => (Exists(k1, x) <=> Exists(k0, x))
<1>1. WF(k0, {}) /\ CurOK(k0, {})
  BY DEF Sane
<1>2. Killed(k0, k1, p) /\ KillCpu(k0, k1, p)
  BY <1>1, KillEffect
<1>3. Sound(k0, k1, {})
  BY <1>1, KillFact
<1>4. p # IdlePid
  BY DEF ShellPid, IdlePid
<1>5. OwnStack(k1, {})
  BY <1>1, <1>2, <1>3, <1>4, KillOwn DEF Sane, Sound
<1>6. QED
  BY <1>2, <1>3, <1>5, SoundSane DEF Killed, SameKin, Exists

\* The death of a process in the background: the semaphores stay, and only its
\* parent may move.
LEMMA KillBackground ==
  ASSUME NEW k0, Sane(k0), NEW p \in Pid, p > ShellPid, Killable(k0, p), ~k0.pcb[p].foreground,
         NEW k1, k1 = Kill(k0, p)
  PROVE  /\ k1.sems = k0.sems
         /\ \A x \in Pid \ {p} : SameKin(k0, k1, x) /\ SameCounts(k0, k1, x)
                                 /\ k1.pcb[x].priority = k0.pcb[x].priority
         /\ \A q \in QueueName \ {"zombie"}, x \in Pid :
              InQueue(k1, q, x) <=>
                /\ x # p
                /\ IF Wakes(k0, x, k0.pcb[p].parentPid, p) THEN q = "ready" ELSE InQueue(k0, q, x)
<1>1. WF(k0, {}) /\ CurOK(k0, {})
  BY DEF Sane
<1>2. Killed(k0, k1, p)
  BY KillPart
<1>3. ~Counted(k0, p)
  BY DEF Counted
<1>4. QED
  BY <1>1, <1>2, <1>3, KillQueues DEF Killed

-----------------------------------------------------------------------------
(* The kernel a program starts on.                                          *)

\* The shell has started the program, process 2, in the foreground and sleeps
\* until it ends; it counts its child with entry 0 of the table.
Ready(k0) ==
  /\ Sane(k0) /\ k0.nextPid = 3
  /\ \A q \in QueueName, x \in Pid :
       InQueue(k0, q, x) <=> (q = "ready" /\ x = Test) \/ (q = "blocked" /\ x = ShellPid)
  /\ \A s \in SemId \ {0} : k0.sems[s] = UnusedSem
  /\ Exists(k0, Test) /\ k0.pcb[Test].parentPid = ShellPid /\ k0.pcb[Test].waitingForPid = NoPid
  /\ \A x \in Pid : x > Test => ~k0.pcb[x].foreground /\ k0.pcb[x].parentPid = NoPid
  /\ \A x \in Pid : k0.pcb[x].children_sem \in {-1, 0}

LEMMA StartedReady ==
  ASSUME NEW k0, k0 = Started
  PROVE  Ready(k0)
<1> DEFINE kb == BootKernel
           k1 == SwitchContext(kb)
           k2 == CreateProcess(k1, MIN_PRIORITY, TRUE, FALSE)
<1>0. /\ Test \in Pid /\ Test # ShellPid /\ Test # IdlePid /\ ShellPid # IdlePid /\ 2 <= MaxPid
      /\ ShellPid + 1 = Test /\ Test = 2 /\ Test + 1 = 3 /\ ShellPid > 0 /\ ShellPid \in Pid
      /\ NoPid \notin Pid
  BY MaxPidAssumption, ProgramAssumption DEF Test, ShellPid, IdlePid, Pid, NoPid
<1>1. /\ WF(kb, {}) /\ CurOK(kb, {}) /\ NoZombies(kb) /\ Sleepers(kb, {}) /\ OwnStack(kb, {})
      /\ kb.current = ShellPid /\ kb.nextPid = Test /\ kb.first = TRUE
      /\ \A s \in SemId : kb.sems[s] = UnusedSem
      /\ \A q \in QueueName, p \in Pid : InQueue(kb, q, p) <=> q = "ready" /\ p = ShellPid
      /\ \A p \in Pid : /\ kb.pcb[p].children_sem = -1 /\ kb.pcb[p].waitingForPid = NoPid
                        /\ p >= Test => kb.pcb[p] = FreePcb
  <2>1. /\ WF(kb, {}) /\ CurOK(kb, {}) /\ NoZombies(kb) /\ Sleepers(kb, {}) /\ OwnStack(kb, {})
        /\ kb.current = ShellPid /\ kb.nextPid = ShellPid + 1 /\ kb.first = TRUE
    BY BootFact, BootOwn
  <2>2. /\ \A s \in SemId : kb.sems[s] = UnusedSem
        /\ \A q \in QueueName, p \in Pid : InQueue(kb, q, p) <=> q = "ready" /\ p = ShellPid
    BY BootFact
  <2>3. \A p \in Pid : /\ kb.pcb[p].children_sem = -1 /\ kb.pcb[p].waitingForPid = NoPid
                       /\ p >= kb.nextPid => kb.pcb[p] = FreePcb
    <3>1. kb = BootKernel
      OBVIOUS
    <3> HIDE DEF kb
    <3>2. ASSUME NEW p \in Pid
          PROVE  /\ kb.pcb[p].children_sem = -1 /\ kb.pcb[p].waitingForPid = NoPid
                 /\ p >= kb.nextPid => kb.pcb[p] = FreePcb
      <4>1. kb.pcb[p].children_sem = -1
        BY <3>1, BootFact, ZenonT(60)
      <4>2. kb.pcb[p].waitingForPid = NoPid
        BY <3>1, BootFact, ZenonT(60)
      <4>3. p >= kb.nextPid => kb.pcb[p] = FreePcb
        BY <3>1, BootFact, ZenonT(60)
      <4>4. QED
        BY <4>1, <4>2, <4>3
    <3>3. QED
      BY <3>2
  <2>4. kb.nextPid = Test
    BY <1>0, <2>1
  <2>5. \A p \in Pid : p >= Test => kb.pcb[p] = FreePcb
    BY <2>3, <2>4
  <2> HIDE DEF kb
  <2>6. QED
    BY <2>1, <2>2, <2>3, <2>4, <2>5
<1> HIDE DEF kb
<1>2. Sane(kb)
  BY <1>1 DEF Sane
<1>3. /\ Sane(k1) /\ k1.nextPid = Test /\ k1.sems = kb.sems
      /\ SameFields(kb, k1) /\ k1.current = ShellPid
      /\ \A q \in QueueName, p \in Pid : InQueue(k1, q, p) <=> q = "ready" /\ p = ShellPid
  <2>1. WF(k1, {}) /\ CurOK(k1, {}) /\ SameQueues(kb, k1) /\ Quiet(kb, k1, {})
    BY <1>1, SwitchContextFact DEF SameQueues
  <2>2. SameFields(kb, k1) /\ Switched(kb, k1)
    BY <1>1, SwitchEffect
  <2>3. InQueue(kb, "ready", ShellPid)
    BY <1>0, <1>1, PidFact
  <2>4. k1.current # IdlePid
    BY <1>0, <1>1, <2>3, SwitchNotIdle
  <2>5. \A q \in QueueName, p \in Pid : InQueue(k1, q, p) <=> q = "ready" /\ p = ShellPid
    BY <1>1, <2>1 DEF SameQueues
  <2>6. k1.current = ShellPid
    BY <2>1, <2>4, <2>5, PidFact DEF CurOK, WF, KernelState
  <2>7. k1.nextPid = Test /\ k1.sems = kb.sems /\ Sleepers(k1, {})
    BY <1>1, <2>1, QuietFact DEF Quiet
  <2>8. NoZombies(k1)
    BY <2>5, PidFact DEF NoZombies
  <2>9. OwnStack(k1, {})
    BY <1>1, <2>1, <2>2, <2>7, DispatchOwn DEF Dispatched
  <2>10. QED
    BY <2>1, <2>2, <2>5, <2>6, <2>7, <2>8, <2>9 DEF Sane
<1> HIDE DEF k1
<1>4. /\ Sane(k2) /\ k2.nextPid = 3 /\ k2.current = ShellPid
      /\ Created(k1, k2, TRUE) /\ InQueue(k2, "ready", Test)
  <2>1. WF(k1, {}) /\ CurOK(k1, {}) /\ k1.nextPid <= MaxPid /\ MIN_PRIORITY \in Nat /\ MIN_PRIORITY # IDLE_PRIORITY
    BY <1>0, <1>3, PriorityAssumption DEF Sane, MIN_PRIORITY, IDLE_PRIORITY
  <2>2. Sound(k1, k2, {})
    BY <2>1, CreateFact
  <2>3. Created(k1, k2, TRUE) /\ InQueue(k2, "ready", Test)
    BY <1>3, <2>1, CreateEffect
  <2> HIDE DEF k2
  <2>4. OwnStack(k2, {})
    BY <1>3, <2>1, <2>2, <2>3, CreateOwn DEF Sane, Sound
  <2>5. k2.nextPid = 3 /\ k2.current = ShellPid
    BY <1>0, <1>3, <2>3 DEF Created
  <2>6. QED
    BY <1>3, <2>2, <2>3, <2>4, <2>5, SoundSane
<1> HIDE DEF k2
<1>5. \A q \in QueueName, x \in Pid : InQueue(k2, q, x) <=> q = "ready" /\ x \in {ShellPid, Test}
  <2>1. \A x \in Pid \ {Test}, q \in QueueName : InQueue(k2, q, x) <=> InQueue(k1, q, x)
    BY <1>3, <1>4 DEF Created
  <2>2. \A q \in QueueName : InQueue(k2, q, Test) => q = "ready"
    BY <1>0, <1>4, Placed, PidFact
  <2>3. QED
    BY <1>0, <1>3, <1>4, <2>1, <2>2
<1>6. k0 = WaitpidBlock(k2, Test)
  BY DEF Started, k2, k1, kb
<1>7. /\ Sane(k0) /\ k0.sems = k2.sems /\ k0.nextPid = 3
      /\ OneMoves(k2, k0, ShellPid, "blocked")
      /\ \A x \in Pid : /\ k0.pcb[x].parentPid = k2.pcb[x].parentPid
                        /\ k0.pcb[x].foreground = k2.pcb[x].foreground
                        /\ SameCounts(k2, k0, x)
                        /\ x # IdlePid => (Exists(k0, x) <=> Exists(k2, x))
                        /\ k0.pcb[x].waitingForPid = IF x = ShellPid THEN Test ELSE k2.pcb[x].waitingForPid
  BY <1>0, <1>4, <1>6, WaitpidPart
<1>8. \A q \in QueueName, x \in Pid :
        InQueue(k0, q, x) <=> (q = "ready" /\ x = Test) \/ (q = "blocked" /\ x = ShellPid)
  BY <1>0, <1>5, <1>7 DEF OneMoves
<1>9. CountedIn(k1, k2, ShellPid) /\ \A x \in Pid \ {Test, ShellPid} : SameCounts(k1, k2, x)
  BY <1>0, <1>3, <1>4 DEF Created
<1>10. /\ \A s \in SemId \ {0} : k2.sems[s] = UnusedSem
       /\ k2.pcb[ShellPid].children_sem \in {-1, 0}
  <2>1. /\ k1.pcb[ShellPid].children_sem = -1 /\ \A s \in SemId : k1.sems[s] = UnusedSem
        /\ k1.sems \in [SemId -> Sem]
    BY <1>0, <1>1, <1>3, SaneTypes DEF SameFields, SameCounts
  <2>2. CASE \A t \in SemId : k1.sems[t].used
    <3>1. SemId = {}
      BY <2>1, <2>2 DEF UnusedSem
    <3>2. QED
      BY <3>1, ProgramAssumption
  <2>3. CASE ~\A t \in SemId : k1.sems[t].used
    <3> DEFINE s == k2.pcb[ShellPid].children_sem
    <3>1. /\ s \in SemId
          /\ \A t \in SemId : t < s => k1.sems[t].used
          /\ k2.sems = [k1.sems EXCEPT ![s] = [value |-> 0, used |-> TRUE, blocked |-> << >>]]
      <4>1. ~(k1.pcb[ShellPid].children_sem >= 0)
        BY <2>1
      <4>2. QED
        BY <1>9, <2>3, <4>1 DEF CountedIn
    <3> HIDE DEF s
    <3>2. s = 0
      <4>1. 0 \in SemId /\ s \in Nat
        BY <3>1, NumSemsAssumption DEF SemId
      <4>2. ~k1.sems[0].used
        BY <2>1, <4>1 DEF UnusedSem
      <4>3. ~(0 < s)
        BY <3>1, <4>1, <4>2
      <4>4. QED
        BY <4>1, <4>3
    <3>3. QED
      BY <2>1, <3>1, <3>2 DEF s
  <2>4. QED
    BY <2>2, <2>3
<1>11. /\ \A x \in Pid : k0.pcb[x].children_sem \in {-1, 0}
       /\ \A s \in SemId \ {0} : k0.sems[s] = UnusedSem
  <2>1. k2.pcb[Test].children_sem = -1
    BY <1>3, <1>4 DEF Created
  <2>2. \A x \in Pid \ {Test, ShellPid} : k2.pcb[x].children_sem = -1
    BY <1>1, <1>3, <1>9 DEF SameFields, SameCounts
  <2>3. QED
    BY <1>7, <1>10, <2>1, <2>2 DEF SameCounts
<1>12. Exists(k0, Test) /\ k0.pcb[Test].parentPid = ShellPid /\ k0.pcb[Test].waitingForPid = NoPid
  BY <1>0, <1>3, <1>4, <1>7 DEF Created, Exists
<1>13. ASSUME NEW x \in Pid, x > Test PROVE ~k0.pcb[x].foreground /\ k0.pcb[x].parentPid = NoPid
  <2>1. x # Test /\ x >= Test
    BY <1>13 DEF Test, Pid
  <2>2. ~kb.pcb[x].foreground /\ kb.pcb[x].parentPid = NoPid
    BY <1>1, <2>1 DEF FreePcb
  <2>3. SameKin(kb, k1, x) /\ SameKin(k1, k2, x)
    BY <1>3, <1>4, <2>1 DEF SameFields, Created
  <2>4. QED
    BY <1>7, <2>2, <2>3 DEF SameKin
<1>14. QED
  BY <1>7, <1>8, <1>11, <1>12, <1>13 DEF Ready

-----------------------------------------------------------------------------
(* test_processes: the book and the kernel agree.                           *)

\* Entry e of the book is true of the kernel.
Holds(k0, e) ==
  /\ e.pid # 0 => Test < e.pid /\ e.pid < k0.nextPid
  /\ e.state = "RUNNING" => InQueue(k0, "ready", e.pid)
  /\ e.state = "BLOCKED" => InQueue(k0, "blocked", e.pid)
  /\ e.state = "EXITED" /\ e.pid # 0 => ~Exists(k0, e.pid)

BookEntry == [pid : Pid, state : {"RUNNING", "BLOCKED", "EXITED"}]
Requests  == 1..max_processes

\* The book b is true of the kernel, and has no process twice.
Book(k0, b) ==
  /\ b \in [Requests -> BookEntry]
  /\ \A i \in Requests : Holds(k0, b[i])
  /\ \A i, j \in Requests : b[i].pid = b[j].pid /\ b[i].pid # 0 => i = j

\* The program runs or is ready, and the other processes that it made are its
\* own, in the background.
Parent(k0) ==
  /\ Sane(k0) /\ InQueue(k0, "ready", Test) /\ Test < k0.nextPid
  /\ \A x \in Pid : x > Test => ~k0.pcb[x].foreground /\ k0.pcb[x].parentPid \in {NoPid, Test}

Statements == Places \cup {"act"}

\* The inductive invariant.
ProcessesInv ==
  program = "test_processes" =>
    /\ Parent(k) /\ Book(k, d.p_rqs) /\ d.rq \in Requests
    /\ d = [rq |-> d.rq, p_rqs |-> d.p_rqs]
    /\ pc \in [Pid -> Statements] /\ pc[Test] \in {"create", "act", "unblock"}

LEMMA TestPid ==
  /\ Test \in Pid /\ Test # IdlePid /\ Test > ShellPid /\ Test # ShellPid /\ Test = 2
  /\ ShellPid \in Pid /\ IdlePid \in Pid /\ IdlePid = 0 /\ ShellPid = 1 /\ Pid \subseteq Int /\ NoPid \notin Pid
  /\ 1 \in Requests /\ MaxPid \in Int /\ max_processes \in Nat
  /\ \A x \in Pid : x >= 0 /\ x <= MaxPid
BY MaxPidAssumption, ProgramAssumption DEF Test, IdlePid, ShellPid, Pid, Requests, NoPid

\* Process p moves, is born or dies; the other processes stay.
OthersStay(k0, k1, p) ==
  /\ \A x \in Pid \ {p} : /\ \A q \in {"ready", "blocked"} : InQueue(k1, q, x) <=> InQueue(k0, q, x)
                          /\ x # IdlePid => (Exists(k1, x) <=> Exists(k0, x))
  /\ k1.nextPid >= k0.nextPid

\* An entry about another process stays true.
LEMMA HoldsStill ==
  ASSUME NEW k0, NEW k1, Sane(k0), Sane(k1), NEW p \in Pid, OthersStay(k0, k1, p),
         NEW e \in BookEntry, Holds(k0, e), e.pid # p \/ e.pid = 0
  PROVE  Holds(k1, e)
<1>1. e.pid \in Pid /\ e.state \in {"RUNNING", "BLOCKED", "EXITED"} /\ k0.nextPid \in Int /\ k1.nextPid \in Int
  BY SaneTypes DEF BookEntry
<1>2. CASE e.pid = 0
  <2>1. ~InQueue(k0, "ready", e.pid) /\ ~InQueue(k0, "blocked", e.pid)
    BY <1>1, <1>2, Placed, PidFact, TestPid
  <2>2. e.state = "EXITED"
    BY <1>1, <2>1 DEF Holds
  <2>3. QED
    BY <1>2, <2>2 DEF Holds
<1>3. CASE e.pid # 0
  <2>1. e.pid \in Pid \ {p} /\ e.pid # IdlePid
    BY <1>1, <1>3, TestPid
  <2>2. Test < e.pid /\ e.pid < k1.nextPid
    <3>1. e.pid \in Int /\ Test < e.pid /\ e.pid < k0.nextPid /\ k0.nextPid <= k1.nextPid
      BY <1>1, <1>3, TestPid DEF Holds, OthersStay
    <3>2. QED
      BY <1>1, <3>1
  <2>3. QED
    BY <2>1, <2>2, <1>3 DEF Holds, OthersStay
<1>4. QED
  BY <1>2, <1>3

\* Process p moves, and its entry in the book with it.
LEMMA BookPut ==
  ASSUME NEW k0, NEW k1, Sane(k0), Sane(k1), NEW p \in Pid, OthersStay(k0, k1, p),
         NEW b, Book(k0, b), NEW i \in Requests, NEW e \in BookEntry, Holds(k1, e),
         e.pid = p, p = b[i].pid \/ (p = k0.nextPid /\ p # 0)
  PROVE  Book(k1, [b EXCEPT ![i] = e])
<1> DEFINE b1 == [b EXCEPT ![i] = e]
<1>1. b \in [Requests -> BookEntry] /\ b1 \in [Requests -> BookEntry]
      /\ b1[i] = e /\ \A j \in Requests \ {i} : b1[j] = b[j]
  BY DEF Book
<1>2. \A j \in Requests \ {i} : b[j].pid # 0 => b[j].pid # p
  <2>1. CASE p = b[i].pid
    BY <2>1 DEF Book
  <2>2. CASE p = k0.nextPid /\ p # 0
    <3>1. ASSUME NEW j \in Requests, b[j].pid # 0 PROVE b[j].pid < k0.nextPid
      BY <3>1 DEF Book, Holds
    <3>2. \A j \in Requests : b[j].pid \in Int
      BY <1>1, TestPid DEF BookEntry
    <3>3. QED
      BY <2>2, <3>1, <3>2, TestPid
  <2>3. QED
    BY <2>1, <2>2
<1>3. \A j \in Requests \ {i} : Holds(k1, b[j])
  BY <1>1, <1>2, HoldsStill DEF Book
<1> HIDE DEF b1
<1>4. \A j \in Requests : Holds(k1, b1[j])
  BY <1>1, <1>3
<1>5. ASSUME NEW j \in Requests, NEW l \in Requests, b1[j].pid = b1[l].pid, b1[j].pid # 0
      PROVE  j = l
  <2>1. CASE j = i \/ l = i
    BY <1>1, <1>2, <1>5, <2>1
  <2>2. CASE j # i /\ l # i
    BY <1>1, <1>5, <2>2 DEF Book
  <2>3. QED
    BY <2>1, <2>2
<1>6. QED
  BY <1>1, <1>4, <1>5 DEF Book, b1

\* The timer between two calls, or an entry that is written as it was.
LEMMA BookStays ==
  ASSUME NEW k0, NEW k1, Sane(k0), Sane(k1), OthersStay(k0, k1, IdlePid),
         NEW b, Book(k0, b), NEW i \in Requests
  PROVE  Book(k1, b) /\ Book(k1, [b EXCEPT ![i] = b[i]])
<1>1. b \in [Requests -> BookEntry] /\ [b EXCEPT ![i] = b[i]] = b
  BY DEF Book
<1>2. \A j \in Requests : Holds(k1, b[j])
  BY <1>1, TestPid, HoldsStill DEF Book
<1>3. QED
  BY <1>1, <1>2 DEF Book

\* What holds of the program and the kernel follows its calls.
LEMMA ParentStep ==
  ASSUME NEW k0, Parent(k0), NEW k1, Sane(k1), k1.nextPid >= k0.nextPid,
         InQueue(k1, "ready", Test),
         \A x \in Pid : x > Test => \/ SameKin(k0, k1, x)
                                    \/ ~k1.pcb[x].foreground /\ k1.pcb[x].parentPid \in {NoPid, Test}
  PROVE  Parent(k1)
<1>1. k0.nextPid \in Int /\ k1.nextPid \in Int /\ Test < k1.nextPid
  BY SaneTypes, TestPid DEF Parent
<1>2. QED
  BY <1>1 DEF Parent, SameKin

\* The kernel functions that test_processes calls, for a process of its book.
LEMMA ParentSame ==
  ASSUME NEW k0, Parent(k0), NEW k1, Same(k0, k1), NEW p \in Pid, p # Test, NEW q \in {"ready", "blocked"},
         OneMoves(k0, k1, p, q)
  PROVE  Parent(k1) /\ OthersStay(k0, k1, p) /\ InQueue(k1, q, p)
<1>1. Sane(k0) /\ Sane(k1) /\ SameFields(k0, k1) /\ k1.nextPid = k0.nextPid /\ k0.nextPid \in Int
  BY SaneTypes DEF Parent, Same
<1>2. OthersStay(k0, k1, p)
  BY <1>1, PidFact DEF OthersStay, OneMoves, SameFields, SameKin, Exists
<1>3. InQueue(k1, "ready", Test) /\ InQueue(k1, q, p)
  BY TestPid, PidFact DEF Parent, OneMoves
<1>4. k1.nextPid >= k0.nextPid
  BY <1>1
<1>5. QED
  BY <1>1, <1>2, <1>3, <1>4, ParentStep DEF SameFields

LEMMA ParentTick ==
  ASSUME NEW k0, Parent(k0), NEW k1, Same(k0, k1), SameQueues(k0, k1)
  PROVE  Parent(k1) /\ OthersStay(k0, k1, IdlePid)
<1>1. Sane(k0) /\ Sane(k1) /\ SameFields(k0, k1) /\ k1.nextPid = k0.nextPid /\ k0.nextPid \in Int
  BY SaneTypes DEF Parent, Same
<1>2. OthersStay(k0, k1, IdlePid)
  BY <1>1, PidFact DEF OthersStay, SameQueues, SameFields, SameKin, Exists
<1>3. InQueue(k1, "ready", Test)
  BY TestPid, PidFact DEF Parent, SameQueues
<1>4. k1.nextPid >= k0.nextPid
  BY <1>1
<1>5. QED
  BY <1>1, <1>2, <1>3, <1>4, ParentStep DEF SameFields

LEMMA ParentCreate ==
  ASSUME NEW k0, Parent(k0), k0.current = Test, k0.nextPid <= MaxPid, NEW prio \in Nat, prio <= MAX_PRIORITY,
         NEW k1, k1 = CreateProcess(k0, prio, FALSE, FALSE), NEW p, p = k0.nextPid
  PROVE  /\ Parent(k1) /\ p \in Pid /\ OthersStay(k0, k1, p) /\ InQueue(k1, "ready", p)
         /\ p > Test /\ k1.nextPid = p + 1
<1>1. Sane(k0) /\ k0.nextPid \in Nat /\ p > Test /\ p \in Int
  BY SaneTypes, TestPid DEF Parent
<1>2. /\ Sane(k1) /\ p \in Pid /\ k1.nextPid = p + 1
      /\ OneMoves(k0, k1, p, "ready")
      /\ k1.pcb[p].parentPid = k0.current /\ ~k1.pcb[p].foreground
      /\ \A x \in Pid \ {p} : SameKin(k0, k1, x)
  BY <1>1, CreatePart DEF Birth
<1>3. k1.nextPid >= k0.nextPid /\ p # Test
  <2>1. k1.nextPid = p + 1 /\ p = k0.nextPid
    BY <1>2
  <2>2. k1.nextPid >= k0.nextPid
    <3>1. p + 1 >= p
      BY <1>1
    <3>2. QED
      BY <2>1, <3>1
  <2>3. p # Test
    BY <1>1, TestPid
  <2>4. QED
    BY <2>2, <2>3
<1>4. OthersStay(k0, k1, p)
  BY <1>2, <1>3, PidFact DEF OthersStay, OneMoves, SameKin, Exists
<1>5. InQueue(k1, "ready", Test) /\ InQueue(k1, "ready", p)
  BY <1>2, <1>3, TestPid, PidFact DEF Parent, OneMoves
<1>6. Parent(k1)
  BY <1>2, <1>3, <1>5, ParentStep
<1>7. QED
  BY <1>1, <1>2, <1>4, <1>5, <1>6

LEMMA ParentKill ==
  ASSUME NEW k0, Parent(k0), NEW p \in Pid, p > Test, Killable(k0, p), NEW k1, k1 = Kill(k0, p)
  PROVE  Parent(k1) /\ OthersStay(k0, k1, p) /\ ~Exists(k1, p) /\ k1.nextPid = k0.nextPid
<1>1. Sane(k0) /\ k0.nextPid \in Int /\ p > ShellPid /\ p # Test
  BY SaneTypes, TestPid DEF Parent
<1>2. /\ Sane(k1) /\ k1.nextPid = k0.nextPid /\ ~Exists(k1, p) /\ Killed(k0, k1, p)
      /\ \A x \in Pid : x # p /\ x # IdlePid => (Exists(k1, x) <=> Exists(k0, x))
  BY <1>1, KillPart
<1>3. ~k0.pcb[p].foreground /\ k0.pcb[p].parentPid \in {NoPid, Test}
  BY DEF Parent
<1>4. /\ \A x \in Pid \ {p} : SameKin(k0, k1, x)
      /\ \A q \in QueueName \ {"zombie"}, x \in Pid :
           InQueue(k1, q, x) <=>
             /\ x # p
             /\ IF Wakes(k0, x, k0.pcb[p].parentPid, p) THEN q = "ready" ELSE InQueue(k0, q, x)
  BY <1>1, <1>3, KillBackground
<1>5. \A x \in Pid : ~Wakes(k0, x, k0.pcb[p].parentPid, p)
  <2>1. ~InQueue(k0, "blocked", Test)
    BY <1>1, Placed, TestPid DEF Parent
  <2>2. QED
    BY <1>3, <2>1, TestPid DEF Wakes
<1>6. \A q \in QueueName \ {"zombie"}, x \in Pid \ {p} : InQueue(k1, q, x) <=> InQueue(k0, q, x)
  BY <1>4, <1>5
<1>7. OthersStay(k0, k1, p) /\ k1.nextPid >= k0.nextPid
  BY <1>1, <1>2, <1>6, NameFact DEF OthersStay
<1>8. InQueue(k1, "ready", Test)
  BY <1>1, <1>6, TestPid, NameFact DEF Parent
<1>9. ~k1.pcb[p].foreground /\ k1.pcb[p].parentPid = NoPid
  BY <1>2 DEF Killed
<1>10. Parent(k1)
  BY <1>2, <1>4, <1>7, <1>8, <1>9, ParentStep
<1>11. QED
  BY <1>2, <1>7, <1>10

\* The kernel a program starts on has no process that it made.
LEMMA ReadyParent ==
  ASSUME NEW k0, Ready(k0)
  PROVE  Parent(k0)
BY TestPid, PidFact DEF Ready, Parent

LEMMA ProcessesInitInv == Init => ProcessesInv
<1> SUFFICES ASSUME Init, program = "test_processes" PROVE ProcessesInv
  BY DEF ProcessesInv
<1>1. ProcessesInit
  BY DEF Init
<1>2. Ready(k) /\ Parent(k)
  BY <1>1, StartedReady, ReadyParent DEF ProcessesInit, Boot
<1>3. /\ d = [rq |-> d.rq, p_rqs |-> d.p_rqs] /\ d.rq \in Requests
      /\ d.p_rqs = [i \in Requests |-> [pid |-> 0, state |-> "EXITED"]]
  BY <1>1, TestPid DEF ProcessesInit, Requests
<1>4. Book(k, d.p_rqs)
  BY <1>3, TestPid DEF Book, BookEntry, Holds
<1>5. pc \in [Pid -> Statements] /\ pc[Test] \in {"create", "act", "unblock"}
  BY <1>1, TestPid DEF ProcessesInit, Boot, Statements, Places
<1>6. QED
  BY <1>2, <1>3, <1>4, <1>5 DEF ProcessesInv

\* An iteration of one of the loops: entry e goes into the book.
LEMMA NextRqStep ==
  ASSUME program = "test_processes", UNCHANGED program, ProcessesInv,
         NEW e, NEW place \in {"create", "act", "unblock"}, NEW after \in {"create", "act", "unblock"},
         NextRq(e, place, after), Parent(k'), Book(k', [d.p_rqs EXCEPT ![d.rq] = e])
  PROVE  ProcessesInv'
<1>1. d.rq \in Requests /\ d.p_rqs \in [Requests -> BookEntry] /\ pc \in [Pid -> Statements]
  BY DEF ProcessesInv, Book
<1>2. /\ d' = [rq |-> IF d.rq < max_processes THEN d.rq + 1 ELSE 1, p_rqs |-> [d.p_rqs EXCEPT ![d.rq] = e]]
      /\ pc' = [pc EXCEPT ![Test] = IF d.rq < max_processes THEN place ELSE after]
  BY DEF NextRq, Goto
<1>3. d'.rq \in Requests /\ d' = [rq |-> d'.rq, p_rqs |-> d'.p_rqs] /\ Book(k', d'.p_rqs)
  <2>1. (IF d.rq < max_processes THEN d.rq + 1 ELSE 1) \in Requests
    BY <1>1, TestPid DEF Requests
  <2>2. QED
    BY <1>2, <2>1
<1>4. pc' \in [Pid -> Statements] /\ pc'[Test] \in {"create", "act", "unblock"}
  <2> DEFINE next == IF d.rq < max_processes THEN place ELSE after
  <2>1. next \in {"create", "act", "unblock"} /\ pc' = [pc EXCEPT ![Test] = next]
    BY <1>2
  <2> HIDE DEF next
  <2>2. next \in Statements
    BY <2>1 DEF Statements, Places
  <2>3. QED
    BY <1>1, <2>1, <2>2, TestPid
<1>5. QED
  BY <1>3, <1>4 DEF ProcessesInv

\* The calls of test_processes and the timer keep the book right.
LEMMA ProcessesStepInv ==
  ASSUME program = "test_processes", UNCHANGED program, ProcessesInv, ProcessesNext
  PROVE  ProcessesInv'
<1> DEFINE p == Entry.pid
<1>1. /\ Parent(k) /\ Book(k, d.p_rqs) /\ d.rq \in Requests /\ d = [rq |-> d.rq, p_rqs |-> d.p_rqs]
      /\ pc \in [Pid -> Statements] /\ pc[Test] \in {"create", "act", "unblock"} /\ Sane(k)
      /\ d.p_rqs \in [Requests -> BookEntry]
  BY DEF ProcessesInv, Parent, Book
<1>2. Entry = d.p_rqs[d.rq] /\ Entry \in BookEntry /\ p \in Pid /\ Holds(k, Entry)
      /\ Entry.state \in {"RUNNING", "BLOCKED", "EXITED"}
  BY <1>1 DEF Entry, Book, BookEntry
<1>3. Exists(k, Test) /\ \A place : At(Test, place) => k.current = Test
  BY <1>1, Placed, Running, TestPid, PidFact DEF Parent, At
<1>4. Entry.state \in {"RUNNING", "BLOCKED"} =>
        p > Test /\ p # Test /\ Killable(k, p) /\ p = d.p_rqs[d.rq].pid
  <2>1. Entry.state = "RUNNING" => InQueue(k, "ready", p) /\ p # IdlePid
    BY <1>1, <1>2, Placed, PidFact DEF Holds
  <2>2. Entry.state = "BLOCKED" => InQueue(k, "blocked", p) /\ p # IdlePid
    BY <1>1, <1>2, Placed, PidFact DEF Holds
  <2>3. p # IdlePid => p > Test
    BY <1>2, TestPid DEF Holds
  <2>4. p > Test => p # Test
    BY <1>2, TestPid
  <2>5. QED
    BY <1>2, <2>1, <2>2, <2>3, <2>4, NameFact DEF Killable
<1> HIDE DEF p
<1>5. ASSUME NEW e \in BookEntry, e.pid = p, p > Test, Parent(k'), OthersStay(k, k', p), Holds(k', e)
      PROVE  Book(k', [d.p_rqs EXCEPT ![d.rq] = e])
  <2>1. p = d.p_rqs[d.rq].pid
    BY <1>2 DEF p
  <2>2. QED
    BY <1>1, <1>2, <1>5, <2>1, BookPut DEF Parent
<1>6. CASE CreateOne
  <2> DEFINE n == k.nextPid
             e == [pid |-> n, state |-> "RUNNING"]
  <2>1. /\ n <= MaxPid /\ k' = CreateProcess(k, MAX_PRIORITY, FALSE, FALSE)
        /\ NextRq(e, "create", "act") /\ k.current = Test
    BY <1>3, <1>6 DEF CreateOne
  <2>2. MAX_PRIORITY \in Nat /\ MAX_PRIORITY <= MAX_PRIORITY
    BY PriorityAssumption
  <2>3. /\ Parent(k') /\ n \in Pid /\ OthersStay(k, k', n) /\ InQueue(k', "ready", n)
        /\ n > Test /\ k'.nextPid = n + 1
    BY <1>1, <2>1, <2>2, ParentCreate
  <2>9. n # 0 /\ n \in Int /\ Test < n
    <3>1. n \in Pid /\ n > Test
      BY <2>3
    <3> HIDE DEF n
    <3>2. n \in Int
      BY <3>1, TestPid
    <3>3. QED
      BY <3>1, <3>2, TestPid
  <2>4. e \in BookEntry /\ e.pid = n /\ e.state = "RUNNING"
    BY <2>3 DEF BookEntry
  <2> HIDE DEF e, n
  <2>5. Holds(k', e)
    <3>1. n < k'.nextPid
      BY <2>3, <2>9
    <3>2. QED
      BY <2>3, <2>9, <2>4, <3>1 DEF Holds
  <2>6. Book(k', [d.p_rqs EXCEPT ![d.rq] = e])
    BY <1>1, <2>3, <2>9, <2>4, <2>5, BookPut DEF Parent, n
  <2>7. QED
    BY <2>1, <2>3, <2>6, NextRqStep
<1>7. CASE KillOne
  <2> DEFINE e == [Entry EXCEPT !.state = "EXITED"]
  <2>1. Killable(k, p) /\ p > Test
    BY <1>2, <1>4, <1>7 DEF KillOne
  <2>2. k' = Kill(k, p) /\ NextRq(e, "act", "unblock")
    BY <1>7, <2>1 DEF KillOne, p
  <2>3. Parent(k') /\ OthersStay(k, k', p) /\ ~Exists(k', p) /\ k'.nextPid = k.nextPid
    BY <1>1, <1>2, <2>1, <2>2, ParentKill
  <2>4. e \in BookEntry /\ e.pid = p /\ e.state = "EXITED"
    BY <1>2 DEF BookEntry, p
  <2>5. Holds(k', e)
    BY <1>2, <2>3, <2>4 DEF Holds, p
  <2> HIDE DEF e
  <2>6. QED
    BY <1>5, <2>1, <2>2, <2>3, <2>4, <2>5, NextRqStep
<1>8. CASE BlockOne
  <2> DEFINE e == [Entry EXCEPT !.state = "BLOCKED"]
  <2>1. InQueue(k, "ready", p) /\ p > Test /\ p # Test
    BY <1>2, <1>4, <1>8 DEF BlockOne, Holds, p
  <2>2. CanBlock(k, p)
    BY <1>1, <1>2, <2>1, Placed DEF CanBlock
  <2>3. k' = BlockProcess(k, p) /\ NextRq(e, "act", "unblock")
    BY <1>8, <2>2 DEF BlockOne, p
  <2>4. Same(k, k') /\ OneMoves(k, k', p, "blocked")
    BY <1>1, <1>2, <2>2, <2>3, BlockPart
  <2>5. Parent(k') /\ OthersStay(k, k', p) /\ InQueue(k', "blocked", p) /\ k'.nextPid = k.nextPid
    BY <1>1, <1>2, <2>1, <2>4, ParentSame DEF Same
  <2>6. e \in BookEntry /\ e.pid = p /\ e.state = "BLOCKED"
    BY <1>2 DEF BookEntry, p
  <2>7. Holds(k', e)
    BY <1>2, <2>5, <2>6 DEF Holds, p
  <2> HIDE DEF e
  <2>8. QED
    BY <1>5, <2>1, <2>3, <2>5, <2>6, <2>7, NextRqStep
<1>9. CASE UnblockOne
  <2> DEFINE e == [Entry EXCEPT !.state = "RUNNING"]
  <2>1. InQueue(k, "blocked", p) /\ p > Test /\ p # Test
    BY <1>2, <1>4, <1>9 DEF UnblockOne, Holds, p
  <2>2. k' = UnblockProcess(k, p) /\ NextRq(e, "unblock", AfterUnblock(e))
    BY <1>9, <2>1 DEF UnblockOne, p
  <2>3. Same(k, k') /\ OneMoves(k, k', p, "ready")
    BY <1>1, <1>2, <2>1, <2>2, UnblockPart
  <2>4. Parent(k') /\ OthersStay(k, k', p) /\ InQueue(k', "ready", p) /\ k'.nextPid = k.nextPid
    BY <1>1, <1>2, <2>1, <2>3, ParentSame DEF Same
  <2>5. e \in BookEntry /\ e.pid = p /\ e.state = "RUNNING"
    BY <1>2 DEF BookEntry, p
  <2>6. Holds(k', e)
    BY <1>2, <2>4, <2>5 DEF Holds, p
  <2>7. AfterUnblock(e) \in {"create", "act", "unblock"}
    BY DEF AfterUnblock
  <2> HIDE DEF e
  <2>8. QED
    BY <1>5, <2>1, <2>2, <2>4, <2>5, <2>6, <2>7, NextRqStep
<1>10. ASSUME UNCHANGED k PROVE Parent(k') /\ Book(k', [d.p_rqs EXCEPT ![d.rq] = Entry])
  <2>1. [d.p_rqs EXCEPT ![d.rq] = Entry] = d.p_rqs
    BY <1>1, <1>2
  <2>2. QED
    BY <1>1, <1>10, <2>1
<1>11. CASE Skip
  BY <1>10, <1>11, NextRqStep DEF Skip
<1>12. CASE KeepOne
  <2>1. AfterUnblock(Entry) \in {"create", "act", "unblock"}
    BY DEF AfterUnblock
  <2>2. QED
    BY <1>10, <1>12, <2>1, NextRqStep DEF KeepOne
<1>13. CASE Tick
  <2>1. k' = Schedule(k) /\ UNCHANGED <<pc, d>>
    BY <1>13 DEF Tick, Interrupt
  <2>2. Same(k, k') /\ SameQueues(k, k')
    BY <1>1, <2>1, SchedulePart
  <2>3. Parent(k') /\ OthersStay(k, k', IdlePid)
    BY <1>1, <2>2, ParentTick
  <2>4. Book(k', d.p_rqs)
    BY <1>1, <2>3, BookStays DEF Parent
  <2>5. QED
    BY <1>1, <2>1, <2>3, <2>4 DEF ProcessesInv
<1>14. QED
  BY <1>6, <1>7, <1>8, <1>9, <1>11, <1>12, <1>13 DEF ProcessesNext, ProcessesTest

\* The shell's own step leaves the program alone.
LEMMA ShellStep ==
  ASSUME ShellResume
  PROVE  /\ UNCHANGED <<program, k, d>>
         /\ pc \in [Pid -> Statements] =>
              pc' \in [Pid -> Statements] /\ \A x \in Pid \ {ShellPid} : pc'[x] = pc[x]
BY TestPid DEF ShellResume, Goto, Statements, Places

LEMMA ProcessesNextInv == ProcessesInv /\ [Next]_vars => ProcessesInv'
<1> SUFFICES ASSUME ProcessesInv, [Next]_vars PROVE ProcessesInv'
  OBVIOUS
<1>1. CASE ProcessesStep
  BY <1>1, ProcessesStepInv DEF ProcessesStep
<1>2. CASE ShellResume
  <2>1. UNCHANGED <<program, k, d>>
    BY <1>2, ShellStep
  <2>2. CASE program = "test_processes"
    <3>1. pc' \in [Pid -> Statements] /\ pc'[Test] = pc[Test]
      BY <1>2, <2>2, ShellStep, TestPid DEF ProcessesInv
    <3>2. QED
      BY <2>1, <2>2, <3>1 DEF ProcessesInv
  <2>3. CASE program # "test_processes"
    BY <2>1, <2>3 DEF ProcessesInv
  <2>4. QED
    BY <2>2, <2>3
<1>3. CASE UNCHANGED vars
  BY <1>3 DEF vars, ProcessesInv
<1>4. CASE SyncStep \/ PrioStep \/ SleepStep
  BY <1>4 DEF SyncStep, PrioStep, SleepStep, ProcessesInv
<1>5. QED
  BY <1>1, <1>2, <1>3, <1>4 DEF Next

\* What the invariant says of the book is what the property asks.
LEMMA BookIsRight == ProcessesInv => BookMatchesKernel
<1> SUFFICES ASSUME ProcessesInv, program = "test_processes" PROVE BookMatchesKernel
  BY DEF BookMatchesKernel
<1>1. Sane(k) /\ Book(k, d.p_rqs) /\ pc[Test] # "error"
  BY DEF ProcessesInv, Parent
<1>2. ASSUME NEW i \in 1..max_processes, NEW e, e = d.p_rqs[i]
      PROVE  /\ e.state = "RUNNING" => InQueue(k, "ready", e.pid) /\ k.pcb[e.pid].state \in {"READY", "RUNNING"}
             /\ e.state = "BLOCKED" => InQueue(k, "blocked", e.pid) /\ k.pcb[e.pid].state = "BLOCKED"
             /\ e.state = "EXITED" /\ e.pid # 0 => ~HasProcess(k, e.pid) /\ k.pcb[e.pid].state = "UNUSED"
  <2>1. Holds(k, e) /\ e.pid \in Pid
    BY <1>1, <1>2 DEF Book, Requests, BookEntry
  <2>2. QED
    BY <1>1, <2>1, Placed, TestPid DEF Holds, Exists
<1>3. QED
  BY <1>1, <1>2 DEF BookMatchesKernel

\* test_processes: no call of the test fails, and the kernel has every process
\* where the book of the test has it, whatever it creates, kills, blocks and
\* unblocks in whatever order and wherever the timer interrupts it
\* (Userland/SampleCodeModule/tests/test_processes.c).
THEOREM BookKept == Spec => []BookMatchesKernel
<1>1. Init => ProcessesInv
  BY ProcessesInitInv
<1>2. ProcessesInv /\ [Next]_vars => ProcessesInv'
  BY ProcessesNextInv
<1>3. ProcessesInv => BookMatchesKernel
  BY BookIsRight
<1>4. QED
  BY <1>1, <1>2, <1>3, PTL DEF Spec

-----------------------------------------------------------------------------
(* A program whose processes end, and that waits for each of them.          *)

\* The processes after the program are its own, in the background; one lives
\* from its birth to its last statement, and begins with the statement first.
Family(first) ==
  /\ Sane(k) /\ pc \in [Pid -> Statements]
  /\ \A x \in Pid : x > Test =>
       /\ ~k.pcb[x].foreground
       /\ Exists(k, x) => k.pcb[x].parentPid = Test
       /\ Exists(k, x) <=> x < k.nextPid /\ pc[x] # "halt"
       /\ x >= k.nextPid => pc[x] = first
  /\ \A x \in Pid : k.pcb[x].children_sem \in {-1, 0}
  /\ Test < k.nextPid

\* The program is ready, but while it waits for a child that lives.
Awaits(child) ==
  /\ pc[Test] = "halt" => ~Exists(k, Test)
  /\ pc[Test] \notin {"resume", "halt"} => InQueue(k, "ready", Test)
  /\ pc[Test] = "resume" => IF Exists(k, child)
                            THEN InQueue(k, "blocked", Test) /\ k.pcb[Test].waitingForPid = child
                            ELSE InQueue(k, "ready", Test)

\* Nobody is born and nobody dies.
Quietly(k0, k1) == Sane(k1) /\ SameFields(k0, k1) /\ k1.nextPid = k0.nextPid

\* A process at one of its statements is the one the kernel runs.
LEMMA Current ==
  ASSUME NEW first, Family(first), NEW x \in Pid, NEW place \in Statements \ {"halt"}, At(x, place),
         x > Test \/ (x = Test /\ Exists(k, Test))
  PROVE  /\ Exists(k, x) /\ x < k.nextPid /\ k.current = x /\ InQueue(k, "ready", x) /\ x # IdlePid
         /\ ~InQueue(k, "blocked", x) /\ ~InQueue(k, "blockedBySem", x)
         /\ CanBlock(k, x) /\ Killable(k, x)
<1>1. Sane(k) /\ k.cpu = x /\ pc[x] = place /\ x # IdlePid
  BY TestPid DEF Family, At
<1>2. x < k.nextPid
  BY <1>1, Running
<1>3. Exists(k, x)
  BY <1>1, <1>2 DEF Family
<1>4. k.current = x /\ InQueue(k, "ready", x) /\ CanBlock(k, x) /\ Killable(k, x)
  BY <1>1, <1>3, Running
<1>5. ~InQueue(k, "blocked", x) /\ ~InQueue(k, "blockedBySem", x)
  BY <1>1, <1>4, Placed
<1>6. QED
  BY <1>1, <1>2, <1>3, <1>4, <1>5

LEMMA ExistsSame ==
  ASSUME NEW k0, NEW k1, SameFields(k0, k1)
  PROVE  \A x \in Pid : x # IdlePid => (Exists(k1, x) <=> Exists(k0, x))
BY DEF SameFields, SameKin, Exists

\* A process goes from one statement to the next, whatever moves in the kernel
\* without a birth or a death.
LEMMA FamilyGoes ==
  ASSUME NEW first, Family(first), Quietly(k, k'),
         NEW p \in Pid, p < k.nextPid, p = Test \/ p = ShellPid \/ pc[p] # "halt",
         NEW place \in Statements \ {"halt"}, pc' = [pc EXCEPT ![p] = place] \/ UNCHANGED pc
  PROVE  Family(first)'
<1>1. Sane(k') /\ SameFields(k, k') /\ k'.nextPid = k.nextPid /\ k.nextPid \in Nat
  BY SaneTypes DEF Quietly, Family
<1>2. pc \in [Pid -> Statements] /\ pc' \in [Pid -> Statements]
  BY DEF Family
<1>3. \A x \in Pid : k'.pcb[x].children_sem \in {-1, 0}
  BY <1>1 DEF SameFields, SameCounts, Family
<1>4. ASSUME NEW x \in Pid, x > Test
      PROVE  /\ ~k'.pcb[x].foreground
             /\ Exists(k', x) => k'.pcb[x].parentPid = Test
             /\ Exists(k', x) <=> x < k'.nextPid /\ pc'[x] # "halt"
             /\ x >= k'.nextPid => pc'[x] = first
  <2>1. x # IdlePid /\ x # Test /\ x # ShellPid /\ SameKin(k, k', x)
    BY <1>1, <1>4, TestPid DEF SameFields
  <2>2. Exists(k', x) <=> Exists(k, x)
    BY <1>1, <2>1, ExistsSame
  <2>3. /\ ~k.pcb[x].foreground /\ (Exists(k, x) => k.pcb[x].parentPid = Test)
        /\ Exists(k, x) <=> x < k.nextPid /\ pc[x] # "halt"
        /\ x >= k.nextPid => pc[x] = first
    BY <1>4 DEF Family
  <2>4. ~k'.pcb[x].foreground /\ (Exists(k', x) => k'.pcb[x].parentPid = Test)
    BY <2>1, <2>2, <2>3 DEF SameKin
  <2>5. CASE x = p /\ pc' = [pc EXCEPT ![p] = place]
    <3>1. pc'[x] = place /\ pc[x] # "halt" /\ x < k.nextPid /\ x \in Int
      BY <1>2, <2>1, <2>5, TestPid
    <3>2. ~(x >= k.nextPid)
      BY <1>1, <3>1
    <3>3. QED
      BY <1>1, <2>2, <2>3, <2>4, <3>1, <3>2
  <2>6. CASE ~(x = p /\ pc' = [pc EXCEPT ![p] = place])
    <3>1. pc'[x] = pc[x]
      BY <1>2, <2>6
    <3>2. QED
      BY <1>1, <2>2, <2>3, <2>4, <3>1
  <2>7. QED
    BY <2>5, <2>6
<1>5. QED
  BY <1>1, <1>2, <1>3, <1>4 DEF Family

\* The program's next statement; and its child's next statement.
LEMMA AwaitsGoes ==
  ASSUME NEW first, Family(first), NEW child, Awaits(child), Quietly(k, k'),
         pc[Test] = "resume" => child \in Pid /\ child # IdlePid,
         InQueue(k', "ready", Test) <=> InQueue(k, "ready", Test),
         InQueue(k', "blocked", Test) <=> InQueue(k, "blocked", Test),
         pc'[Test] = pc[Test]
  PROVE  Awaits(child)'
<1>1. /\ SameKin(k, k', Test)
      /\ pc[Test] = "resume" => (Exists(k', child) <=> Exists(k, child))
      /\ Exists(k', Test) <=> Exists(k, Test)
  BY TestPid, ExistsSame DEF Quietly, SameFields
<1>2. QED
  BY <1>1 DEF Awaits, SameKin

LEMMA AwaitsNext ==
  ASSUME NEW child, pc'[Test] \notin {"resume", "halt"}, InQueue(k', "ready", Test)
  PROVE  Awaits(child)'
BY DEF Awaits

\* A child is born.
LEMMA FamilyBirth ==
  ASSUME NEW first, first # "halt", Family(first), k.current = Test, NEW prio,
         Birth(k, k', k.nextPid, prio), pc' \in [Pid -> Statements], \A x \in Pid : x > Test => pc'[x] = pc[x]
  PROVE  Family(first)'
<1> DEFINE n == k.nextPid
<1>1. /\ Sane(k') /\ n \in Pid /\ n \in Int /\ k'.nextPid = n + 1 /\ Test < n
      /\ k'.pcb[n].parentPid = Test /\ ~k'.pcb[n].foreground /\ Exists(k', n)
      /\ k'.pcb[n].children_sem = -1
      /\ \A x \in Pid \ {n} : SameKin(k, k', x) /\ SameCounts(k, k', x)
  BY TestPid DEF Birth, Family
<1>2. pc \in [Pid -> Statements] /\ Test < k'.nextPid
  BY <1>1, TestPid DEF Family
<1>3. \A x \in Pid : k'.pcb[x].children_sem \in {-1, 0}
  BY <1>1 DEF SameCounts, Family
<1>4. ASSUME NEW x \in Pid, x > Test
      PROVE  /\ ~k'.pcb[x].foreground
             /\ Exists(k', x) => k'.pcb[x].parentPid = Test
             /\ Exists(k', x) <=> x < k'.nextPid /\ pc[x] # "halt"
             /\ x >= k'.nextPid => pc[x] = first
  <2>1. /\ ~k.pcb[x].foreground /\ (Exists(k, x) => k.pcb[x].parentPid = Test)
        /\ Exists(k, x) <=> x < n /\ pc[x] # "halt"
        /\ x >= n => pc[x] = first
        /\ x \in Int /\ x # IdlePid
    BY <1>4, TestPid DEF Family
  <2> HIDE DEF n
  <2>2. CASE x = n
    <3>1. x < k'.nextPid /\ x >= n /\ ~(x >= k'.nextPid)
      BY <1>1, <2>2
    <3>2. QED
      BY <1>1, <2>1, <2>2, <3>1
  <2>3. CASE x # n
    <3>1. (x < k'.nextPid <=> x < n) /\ (x >= k'.nextPid => x >= n)
      BY <1>1, <2>1, <2>3
    <3>2. SameKin(k, k', x)
      BY <1>1, <2>3
    <3>3. Exists(k', x) <=> Exists(k, x)
      BY <2>1, <3>2 DEF SameKin, Exists
    <3>4. QED
      BY <2>1, <3>1, <3>2, <3>3 DEF SameKin
  <2>4. QED
    BY <2>2, <2>3
<1>5. QED
  BY <1>1, <1>2, <1>3, <1>4 DEF Family

\* A child ends: the semaphores stay, and only the program may notice.
LEMMA ChildExit ==
  ASSUME NEW first, Family(first), NEW p \in Pid, p > Test, Exit(p)
  PROVE  /\ Family(first)' /\ UNCHANGED d /\ pc' = [pc EXCEPT ![p] = "halt"] /\ pc[p] = "exit"
         /\ k'.sems = k.sems /\ k'.nextPid = k.nextPid /\ ~Exists(k', p) /\ p < k.nextPid
         /\ \A x \in Pid : x # p /\ x # IdlePid => (Exists(k', x) <=> Exists(k, x))
         /\ \A x \in Pid \ {p} : k'.pcb[x].priority = k.pcb[x].priority
                                 /\ k'.pcb[x].waitingForPid = k.pcb[x].waitingForPid
         /\ \A q \in QueueName \ {"zombie"}, x \in Pid :
              InQueue(k', q, x) <=> /\ x # p
                                    /\ IF Wakes(k, x, Test, p) THEN q = "ready" ELSE InQueue(k, q, x)
<1>1. At(p, "exit") /\ pc[p] = "exit" /\ pc' = [pc EXCEPT ![p] = "halt"] /\ UNCHANGED d /\ pc \in [Pid -> Statements]
  BY DEF Exit, At, Goto, Family
<1>2. "exit" \in Statements \ {"halt"} /\ "halt" \in Statements /\ p # Test /\ p > ShellPid /\ p # IdlePid
  BY TestPid DEF Statements, Places
<1>3. Exists(k, p) /\ p < k.nextPid /\ k.current = p /\ Killable(k, p)
  BY <1>1, <1>2, Current
<1>4. Sane(k) /\ k' = Kill(k, p) /\ ~k.pcb[p].foreground /\ k.pcb[p].parentPid = Test
  BY <1>3 DEF Exit, Family
<1>5. /\ Sane(k') /\ k'.nextPid = k.nextPid /\ ~Exists(k', p) /\ Killed(k, k', p)
      /\ \A x \in Pid : x # p /\ x # IdlePid => (Exists(k', x) <=> Exists(k, x))
  BY <1>2, <1>3, <1>4, KillPart
<1>6. /\ k'.sems = k.sems
      /\ \A x \in Pid \ {p} : SameKin(k, k', x) /\ SameCounts(k, k', x)
                              /\ k'.pcb[x].priority = k.pcb[x].priority
      /\ \A q \in QueueName \ {"zombie"}, x \in Pid :
           InQueue(k', q, x) <=> /\ x # p
                                 /\ IF Wakes(k, x, Test, p) THEN q = "ready" ELSE InQueue(k, q, x)
  BY <1>2, <1>3, <1>4, KillBackground
<1>7. k'.pcb[p].children_sem = -1 /\ ~k'.pcb[p].foreground
  BY <1>5 DEF Killed
<1>8. \A x \in Pid : k'.pcb[x].children_sem \in {-1, 0}
  BY <1>6, <1>7 DEF SameCounts, Family
<1>9. pc' \in [Pid -> Statements] /\ pc'[p] = "halt" /\ \A x \in Pid \ {p} : pc'[x] = pc[x]
  BY <1>1, <1>2
<1>10. ASSUME NEW x \in Pid, x > Test
      PROVE  /\ ~k'.pcb[x].foreground
             /\ Exists(k', x) => k'.pcb[x].parentPid = Test
             /\ Exists(k', x) <=> x < k'.nextPid /\ pc'[x] # "halt"
             /\ x >= k'.nextPid => pc'[x] = first
  <2>1. /\ ~k.pcb[x].foreground /\ (Exists(k, x) => k.pcb[x].parentPid = Test)
        /\ Exists(k, x) <=> x < k.nextPid /\ pc[x] # "halt"
        /\ x >= k.nextPid => pc[x] = first
        /\ x # IdlePid
    BY <1>10, TestPid DEF Family
  <2>2. CASE x = p
    <3>1. ~(x >= k'.nextPid)
      BY <1>3, <1>5, <2>2, SaneTypes, TestPid
    <3>2. QED
      BY <1>5, <1>7, <1>9, <2>2, <3>1
  <2>3. CASE x # p
    BY <1>5, <1>6, <1>9, <2>1, <2>3 DEF SameKin
  <2>4. QED
    BY <2>2, <2>3
<1>11. Family(first)'
  BY <1>5, <1>8, <1>9, <1>10 DEF Family
<1>12. \A x \in Pid \ {p} : k'.pcb[x].waitingForPid = k.pcb[x].waitingForPid
  BY <1>6 DEF SameKin
<1>13. QED
  BY <1>1, <1>3, <1>5, <1>6, <1>11, <1>12

\* The child's end is what the program waits for, or it is not.
LEMMA AwaitsExit ==
  ASSUME NEW first, Family(first), NEW p \in Pid, p > Test, Exit(p),
         NEW child, pc[Test] = "resume" => child \in Pid /\ child > Test, Awaits(child)
  PROVE  Awaits(child)'
<1>1. /\ pc' = [pc EXCEPT ![p] = "halt"] /\ ~Exists(k', p)
      /\ \A x \in Pid : x # p /\ x # IdlePid => (Exists(k', x) <=> Exists(k, x))
      /\ \A x \in Pid \ {p} : k'.pcb[x].waitingForPid = k.pcb[x].waitingForPid
      /\ \A q \in QueueName \ {"zombie"}, x \in Pid :
           InQueue(k', q, x) <=> /\ x # p
                                 /\ IF Wakes(k, x, Test, p) THEN q = "ready" ELSE InQueue(k, q, x)
      /\ pc[p] = "exit" /\ p < k.nextPid
  BY ChildExit
<1>2. p # Test /\ Test # IdlePid /\ (pc[Test] = "resume" => child # IdlePid) /\ Sane(k) /\ pc'[Test] = pc[Test]
  BY <1>1, TestPid DEF Family
<1>3. /\ InQueue(k', "ready", Test) <=> Wakes(k, Test, Test, p) \/ InQueue(k, "ready", Test)
      /\ InQueue(k', "blocked", Test) <=> ~Wakes(k, Test, Test, p) /\ InQueue(k, "blocked", Test)
      /\ Exists(k', Test) <=> Exists(k, Test)
      /\ k'.pcb[Test].waitingForPid = k.pcb[Test].waitingForPid
  BY <1>1, <1>2, TestPid, NameFact
<1>4. Wakes(k, Test, Test, p) <=> InQueue(k, "blocked", Test) /\ k.pcb[Test].waitingForPid = p
  BY DEF Wakes
<1>5. CASE pc[Test] = "resume"
  <2>1. CASE child = p
    <3>1. Exists(k, p)
      BY <1>1 DEF Family
    <3>2. QED
      BY <1>1, <1>2, <1>3, <1>4, <1>5, <2>1, <3>1 DEF Awaits
  <2>2. CASE child # p
    <3>1. Exists(k', child) <=> Exists(k, child)
      BY <1>1, <1>2, <1>5, <2>2
    <3>2. QED
      BY <1>2, <1>3, <1>4, <1>5, <2>2, <3>1 DEF Awaits
  <2>3. QED
    BY <2>1, <2>2
<1>6. CASE pc[Test] # "resume"
  BY <1>2, <1>3, <1>6 DEF Awaits
<1>7. QED
  BY <1>5, <1>6

\* The program ends: of the semaphores, only the shell's changes.
LEMMA ProgramExit ==
  ASSUME NEW first, Family(first), NEW child, Awaits(child), Exit(Test)
  PROVE  /\ Family(first)' /\ Awaits(child)' /\ UNCHANGED d /\ pc' = [pc EXCEPT ![Test] = "halt"]
         /\ pc[Test] = "exit" /\ k'.nextPid = k.nextPid
         /\ \A t \in SemId \ {0} : k'.sems[t] = k.sems[t]
         /\ \A x \in Pid : InQueue(k', "blockedBySem", x) => InQueue(k, "blockedBySem", x)
         /\ \A x \in Pid : x > Test => (Exists(k', x) <=> Exists(k, x))
<1>1. At(Test, "exit") /\ pc[Test] = "exit" /\ pc' = [pc EXCEPT ![Test] = "halt"] /\ UNCHANGED d
      /\ pc \in [Pid -> Statements] /\ Sane(k)
  BY DEF Exit, At, Goto, Family
<1>2. "exit" \in Statements \ {"halt"} /\ "halt" \in Statements
  BY DEF Statements, Places
<1>3. Exists(k, Test)
  BY <1>1, Placed, TestPid, PidFact DEF Awaits
<1>4. k.current = Test /\ Killable(k, Test)
  BY <1>1, <1>2, <1>3, Current, TestPid
<1>5. k' = Kill(k, Test)
  BY <1>4 DEF Exit
<1>6. /\ Sane(k') /\ k'.nextPid = k.nextPid /\ ~Exists(k', Test) /\ Killed(k, k', Test)
      /\ \A x \in Pid : x # Test /\ x # IdlePid => (Exists(k', x) <=> Exists(k, x))
  BY <1>1, <1>4, <1>5, KillPart, TestPid
<1>7. \A x \in Pid \ {Test} : SameKin(k, k', x)
  BY <1>6 DEF Killed
<1>8. /\ \A x \in Pid : k'.pcb[x].children_sem \in {-1, 0}
      /\ \A t \in SemId \ {0} : k'.sems[t] = k.sems[t]
  <2> DEFINE par == k.pcb[Test].parentPid
  <2>1. par \in Pid \cup {NoPid} /\ k'.pcb[Test].children_sem = -1
    BY <1>1, <1>6, SaneTypes, TestPid DEF Pcb, Killed
  <2>2. CASE Counted(k, Test)
    <3>1. /\ \A x \in Pid \ {Test, par} : SameCounts(k, k', x)
          /\ par # Test => Uncounted(k, k', par)
          /\ SemGone(k, k', par) /\ par > 0
      BY <1>6, <2>2 DEF Killed, Counted
    <3>2. par \in Pid
      BY <2>1, <3>1, TestPid DEF NoPid
    <3>3. k.pcb[par].children_sem \in {-1, 0}
      BY <3>2 DEF Family
    <3> HIDE DEF par
    <3>4. \A x \in Pid \ {Test, par} : k'.pcb[x].children_sem \in {-1, 0}
      BY <3>1 DEF SameCounts, Family
    <3>5. par # Test => k'.pcb[par].children_sem \in {-1, 0}
      BY <3>1, <3>3 DEF Uncounted
    <3>6. \A t \in SemId \ {0} : t # k.pcb[par].children_sem
      BY <3>3, NumSemsAssumption DEF SemId
    <3>7. \A t \in SemId \ {0} : k'.sems[t] = k.sems[t]
      BY <3>1, <3>6 DEF SemGone
    <3>8. QED
      BY <2>1, <3>4, <3>5, <3>7
  <2>3. CASE ~Counted(k, Test)
    BY <1>6, <2>1, <2>3 DEF Killed, SameCounts, Family
  <2>4. QED
    BY <2>2, <2>3
<1>9. pc' \in [Pid -> Statements] /\ pc'[Test] = "halt" /\ \A x \in Pid \ {Test} : pc'[x] = pc[x]
  BY <1>1, <1>2, TestPid
<1>10. ASSUME NEW x \in Pid, x > Test
      PROVE  /\ ~k'.pcb[x].foreground
             /\ Exists(k', x) => k'.pcb[x].parentPid = Test
             /\ Exists(k', x) <=> x < k'.nextPid /\ pc'[x] # "halt"
             /\ x >= k'.nextPid => pc'[x] = first
  <2>1. x # Test /\ x # IdlePid
    BY <1>10, TestPid
  <2>2. QED
    BY <1>6, <1>7, <1>9, <1>10, <2>1 DEF Family, SameKin
<1>11. Family(first)'
  BY <1>6, <1>8, <1>9, <1>10 DEF Family
<1>12. Awaits(child)'
  BY <1>6, <1>9 DEF Awaits
<1>13. \A x \in Pid : InQueue(k', "blockedBySem", x) => InQueue(k, "blockedBySem", x)
  BY <1>6 DEF Killed
<1>14. \A x \in Pid : x > Test => (Exists(k', x) <=> Exists(k, x))
  <2>1. \A x \in Pid : x > Test => x # Test /\ x # IdlePid
    BY TestPid
  <2>2. QED
    BY <1>6, <2>1
<1>15. QED
  BY <1>1, <1>6, <1>8, <1>11, <1>12, <1>13, <1>14

\* waitpid: the program sleeps until its child ends, or goes on at once when it
\* has ended already.
LEMMA AwaitStep ==
  ASSUME NEW first, Family(first), NEW child \in Pid, child > Test, Awaits(child),
         NEW here \in Statements \ {"halt", "resume"}, At(Test, here),
         NEW place \in Statements \ {"halt", "resume"}, AwaitChild(child, place),
         Exists(k, child) => Queued(k, child)
  PROVE  /\ Family(first)'
         /\ \/ /\ Exists(k, child) /\ pc' = [pc EXCEPT ![Test] = "resume"] /\ Awaits(child)'
               /\ k'.sems = k.sems /\ k'.nextPid = k.nextPid /\ SamePrio(k, k')
               /\ OneMoves(k, k', Test, "blocked")
               /\ \A x \in Pid : x > Test => (Exists(k', x) <=> Exists(k, x))
            \/ /\ ~Exists(k, child) /\ pc' = [pc EXCEPT ![Test] = place] /\ UNCHANGED k
               /\ InQueue(k, "ready", Test)
<1>1. pc[Test] = here /\ pc \in [Pid -> Statements] /\ Sane(k) /\ InQueue(k, "ready", Test)
      /\ "resume" \in Statements \ {"halt"} /\ child # IdlePid /\ child # Test
  BY TestPid DEF At, Awaits, Family, Statements, Places
<1>2. Exists(k, Test) /\ Test < k.nextPid
  BY <1>1, Placed, TestPid, PidFact DEF Family
<1>3. k.current = Test /\ CanBlock(k, Test)
  BY <1>2, Current, TestPid
<1>4. MayWaitFor(k, child) <=> Exists(k, child)
  <2>1. Exists(k, child) => HasProcess(k, child) /\ k.pcb[child].parentPid = k.current
    BY <1>3 DEF Family, HasProcess, Queued
  <2>2. ~Exists(k, child) => ~HasProcess(k, child)
    BY <1>1, Placed
  <2>3. QED
    BY <2>1, <2>2 DEF MayWaitFor
<1>5. CASE Exists(k, child)
  <2>1. k' = WaitpidBlock(k, child) /\ pc' = [pc EXCEPT ![Test] = "resume"]
    BY <1>3, <1>4, <1>5 DEF AwaitChild, Goto
  <2>2. /\ Sane(k') /\ k'.sems = k.sems /\ k'.nextPid = k.nextPid
        /\ SamePrio(k, k') /\ OneMoves(k, k', Test, "blocked")
        /\ \A x \in Pid : /\ k'.pcb[x].parentPid = k.pcb[x].parentPid
                          /\ k'.pcb[x].foreground = k.pcb[x].foreground
                          /\ SameCounts(k, k', x)
                          /\ x # IdlePid => (Exists(k', x) <=> Exists(k, x))
                          /\ k'.pcb[x].waitingForPid = IF x = Test THEN child ELSE k.pcb[x].waitingForPid
    BY <1>1, <1>3, <2>1, WaitpidPart, TestPid
  <2>3. \A x \in Pid : x > Test => x # IdlePid /\ x # Test
    BY TestPid
  <2>4. \A x \in Pid : x > Test => (Exists(k', x) <=> Exists(k, x))
    BY <2>2, <2>3
  <2>5. pc' \in [Pid -> Statements] /\ pc'[Test] = "resume" /\ \A x \in Pid \ {Test} : pc'[x] = pc[x]
    BY <1>1, <2>1, TestPid
  <2>6. InQueue(k', "blocked", Test) /\ k'.pcb[Test].waitingForPid = child /\ Exists(k', child)
    BY <1>1, <1>5, <2>2, TestPid, PidFact DEF OneMoves
  <2>7. Awaits(child)'
    BY <2>5, <2>6 DEF Awaits
  <2>8. Family(first)'
    BY <2>2, <2>3, <2>4, <2>5 DEF Family, SameCounts
  <2>9. QED
    BY <1>5, <2>1, <2>2, <2>4, <2>7, <2>8
<1>6. CASE ~Exists(k, child)
  <2>1. UNCHANGED k /\ pc' = [pc EXCEPT ![Test] = place]
    BY <1>4, <1>6 DEF AwaitChild, Goto
  <2>2. Quietly(k, k')
    BY <1>1, <2>1 DEF Quietly, SameFields, SameKin, SameCounts
  <2>3. Family(first)'
    BY <1>2, <2>1, <2>2, FamilyGoes, TestPid
  <2>4. QED
    BY <1>1, <1>6, <2>1, <2>3
<1>7. QED
  BY <1>5, <1>6

\* waitpid returns when the child has ended.
LEMMA ResumeStep ==
  ASSUME NEW first, Family(first), NEW child, Awaits(child), At(Test, "resume")
  PROVE  ~Exists(k, child) /\ InQueue(k, "ready", Test)
<1>1. Sane(k) /\ pc[Test] = "resume" /\ "resume" \in Statements \ {"halt"}
  BY DEF Family, At, Statements, Places
<1>2. InQueue(k, "blocked", Test) \/ InQueue(k, "ready", Test)
  BY <1>1 DEF Awaits
<1>3. Exists(k, Test)
  BY <1>1, <1>2, Placed, TestPid, PidFact
<1>4. ~InQueue(k, "blocked", Test)
  BY <1>1, <1>3, Current, TestPid
<1>5. QED
  BY <1>1, <1>4 DEF Awaits

-----------------------------------------------------------------------------
(* test_sync: the semaphore, the joins and the shared variable.             *)

Up   == {p \in Children : Inc(p) = 1}
Down == {p \in Children : Inc(p) = -1}

\* The additions a process has made.
Made(p) == d.count[p] + IF pc[p] = "leave" THEN 1 ELSE 0
MadeBy(S) == {x \in S \X (1..N) : x[2] <= Made(x[1])}

SyncTypes ==
  /\ d = [aux |-> d.aux, count |-> d.count, global |-> d.global, use_sem |-> d.use_sem]
  /\ d.aux \in [Children -> Int] /\ d.count \in [{Test} \cup Children -> Nat]
  /\ d.global \in Int /\ d.use_sem \in BOOLEAN
  /\ pc[Test] \in {"open", "spawn", "join", "resume", "close", "exit", "halt"}
  /\ \A p \in Children : pc[p] \in {"enter", "load", "store", "leave", "exit", "halt"}

\* The children are born one by one, and are waited for in the same order.
Joined ==
  /\ k.nextPid \in 3..(Last + 1)
  /\ pc[Test] = "open" => k.nextPid = 3
  /\ pc[Test] \in {"open", "spawn"} => Joining = 3
  /\ pc[Test] \notin {"open", "spawn"} => k.nextPid = Last + 1
  /\ \A p \in Children : p < Joining => ~Exists(k, p)
  /\ pc[Test] \in {"close", "exit", "halt"} => Joining > Last
  /\ pc[Test] = "resume" => Joining <= Last

\* Who sleeps on the test's semaphore: processes at the wait that let them in.
Asleep ==
  /\ \A x \in Pid : InQueue(k, "blockedBySem", x) <=> In(k.sems[SEM_ID].blocked, x)
  /\ \A x \in Pid : In(k.sems[SEM_ID].blocked, x) => x \in Children /\ pc[x] = "load"
  /\ NoDup(k.sems[SEM_ID].blocked)
  /\ \A p \in Children : Exists(k, p) => InQueue(k, "ready", p) \/ InQueue(k, "blockedBySem", p)

\* The semaphore's unit, and who holds it.
Unit ==
  /\ ~d.use_sem \/ pc[Test] \in {"open", "exit", "halt"} => k.sems[SEM_ID] = UnusedSem
  /\ d.use_sem /\ pc[Test] \notin {"open", "exit", "halt"} => k.sems[SEM_ID].used
  /\ d.use_sem => /\ k.sems[SEM_ID].value \in {0, 1}
                  /\ k.sems[SEM_ID].value = 1 => \A p \in Children : ~Inside(p)
                  /\ \A p, r \in Children : Inside(p) /\ Inside(r) => p = r

\* What the processes have done, and the shared variable.
Tally ==
  /\ \A p \in Children : d.count[p] <= N /\ (d.count[p] = N <=> pc[p] \in {"exit", "halt"})
  /\ d.use_sem => /\ \A p \in Children : pc[p] = "store" => d.aux[p] = d.global
                  /\ d.global = Cardinality(MadeBy(Up)) - Cardinality(MadeBy(Down))

SyncInv == program = "test_sync" =>
  Family("enter") /\ Awaits(Joining) /\ SyncTypes /\ Joined /\ Asleep /\ Unit /\ Tally

LEMMA SyncFacts ==
  /\ PAIRS \in Nat /\ N \in Nat /\ N > 0 /\ Last = 2 + 2 * PAIRS /\ Last \in Int /\ Last + 1 > Test
  /\ Children \subseteq Pid /\ Test \notin Children
  /\ \A p \in Children : p \in Int /\ p > Test /\ p # Test /\ p # IdlePid /\ p # ShellPid /\ p <= Last
  /\ \A p \in Pid : p > Test /\ p <= Last => p \in Children
  /\ SEM_ID \in SemId /\ SEM_ID \in SemId \ {0} /\ Last <= MaxPid
BY ProgramAssumption, MaxPidAssumption, TestPid DEF Last, Children, Pid, Test, IdlePid, ShellPid

\* The sleepers without the first.
LEMMA TailFact ==
  ASSUME NEW s \in Seq(Pid), NoDup(s), s # << >>
  PROVE  /\ Tail(s) \in Seq(Pid) /\ NoDup(Tail(s)) /\ Head(s) \in Pid /\ In(s, Head(s))
         /\ \A x : In(Tail(s), x) <=> In(s, x) /\ x # Head(s)
<1>1. /\ Len(s) \in Nat /\ Len(s) > 0 /\ Len(Tail(s)) = Len(s) - 1 /\ Tail(s) \in Seq(Pid)
      /\ Head(s) = s[1] /\ \A i \in 1..Len(Tail(s)) : Tail(s)[i] = s[i + 1]
  OBVIOUS
<1>2. \A i \in 1..Len(Tail(s)) : i + 1 \in 2..Len(s) /\ i + 1 \in 1..Len(s)
  BY <1>1
<1>3. NoDup(Tail(s))
  <2>1. ASSUME NEW i \in 1..Len(Tail(s)), NEW j \in 1..Len(Tail(s)), Tail(s)[i] = Tail(s)[j]
        PROVE  i = j
    <3>1. s[i + 1] = s[j + 1] /\ i + 1 \in 1..Len(s) /\ j + 1 \in 1..Len(s)
      BY <1>1, <1>2, <2>1
    <3>2. i + 1 = j + 1
      BY <3>1 DEF NoDup
    <3>3. QED
      BY <3>2
  <2>2. QED
    BY <2>1 DEF NoDup
<1>4. 1 \in 1..Len(s) /\ In(s, Head(s)) /\ Head(s) \in Pid
  BY <1>1 DEF In
<1>5. ASSUME NEW x, In(Tail(s), x) PROVE In(s, x) /\ x # Head(s)
  <2>1. PICK i \in 1..Len(Tail(s)) : Tail(s)[i] = x
    BY <1>5 DEF In
  <2>2. s[i + 1] = x /\ i + 1 \in 1..Len(s) /\ i + 1 # 1
    BY <1>1, <1>2, <2>1
  <2>3. QED
    BY <1>1, <1>4, <2>2 DEF In, NoDup
<1>6. ASSUME NEW x, In(s, x), x # Head(s) PROVE In(Tail(s), x)
  <2>1. PICK i \in 1..Len(s) : s[i] = x
    BY <1>6 DEF In
  <2>2. i # 1
    BY <1>1, <1>6, <2>1
  <2>3. i - 1 \in 1..Len(Tail(s)) /\ (i - 1) + 1 = i
    BY <1>1, <2>2
  <2>4. Tail(s)[i - 1] = x
    BY <1>1, <2>1, <2>3
  <2>5. QED
    BY <2>3, <2>4 DEF In
<1>7. QED
  BY <1>1, <1>3, <1>4, <1>5, <1>6

\* The parts of the invariant, for a proof.
LEMMA SyncParts ==
  ASSUME SyncInv, program = "test_sync"
  PROVE  /\ Family("enter") /\ Awaits(Joining) /\ SyncTypes /\ Joined /\ Asleep /\ Unit /\ Tally
         /\ Sane(k) /\ pc \in [Pid -> Statements] /\ k.nextPid \in Int /\ k.sems[SEM_ID] \in Sem
         /\ k.sems[SEM_ID].blocked \in Seq(Pid) /\ k.sems[SEM_ID].value \in Nat
         /\ Joining \in Int /\ (pc[Test] = "resume" => Joining \in Pid /\ Joining > Test)
         /\ (pc[Test] = "resume" => Joining # IdlePid)
<1>1. Family("enter") /\ Awaits(Joining) /\ SyncTypes /\ Joined /\ Asleep /\ Unit /\ Tally
  BY DEF SyncInv
<1>2. Sane(k) /\ pc \in [Pid -> Statements] /\ k.nextPid \in Int /\ k.sems \in [SemId -> Sem]
  BY <1>1, SaneTypes DEF Family
<1>3. k.sems[SEM_ID] \in Sem
  BY <1>2, SyncFacts
<1>4. k.sems[SEM_ID].blocked \in Seq(Pid) /\ k.sems[SEM_ID].value \in Nat
  BY <1>3 DEF Sem
<1>5. d.count[Test] \in Nat
  BY <1>1 DEF SyncTypes
<1>6. Joining \in Int /\ Joining > Test
  BY <1>5, TestPid DEF Joining
<1>7. pc[Test] = "resume" => Joining \in Pid
  BY <1>1, <1>6, SyncFacts, TestPid DEF Joined, Pid
<1>8. Joining # IdlePid
  BY <1>6, TestPid
<1>9. QED
  BY <1>1, <1>2, <1>3, <1>4, <1>6, <1>7, <1>8

LEMMA SyncInitInv == Init => SyncInv
<1> SUFFICES ASSUME Init, program = "test_sync" PROVE SyncInv
  BY DEF SyncInv
<1>1. SyncInit /\ Ready(k)
  BY StartedReady DEF Init, SyncInit, Boot
<1>2. /\ pc = [p \in Pid |-> IF p = Test THEN "open" ELSE IF p = ShellPid THEN "resume"
                             ELSE IF p = IdlePid THEN "halt" ELSE "enter"]
  BY <1>1 DEF SyncInit, Boot
<1>3. PICK u \in UseSem : d = [aux |-> [p \in Children |-> 0], count |-> [p \in {Test} \cup Children |-> 0],
                               global |-> 0, use_sem |-> u]
  BY <1>1 DEF SyncInit
<1>4. /\ pc \in [Pid -> Statements] /\ pc[Test] = "open" /\ \A p \in Children : pc[p] = "enter"
      /\ \A x \in Pid : x > Test => pc[x] = "enter"
  <2>1. \A x \in Pid : x > Test => x # Test /\ x # ShellPid /\ x # IdlePid
    BY TestPid
  <2>2. QED
    BY <1>2, <2>1, TestPid, SyncFacts DEF Statements, Places
<1>5. SyncTypes
  BY <1>3, <1>4, ProgramAssumption DEF SyncTypes
<1>6. Joining = 3 /\ \A p \in Children : d.count[p] = 0 /\ Made(p) = 0
  BY <1>3, <1>4, SyncFacts DEF Joining, Made
<1>7. Family("enter")
  <2>1. ASSUME NEW x \in Pid, x > Test PROVE x >= 3 /\ ~(x < 3)
    BY <2>1, TestPid
  <2>2. \A x \in Pid : x > Test => ~Exists(k, x)
    BY <1>1, <2>1, Placed DEF Ready
  <2>3. QED
    BY <1>1, <1>4, <2>1, <2>2, TestPid DEF Family, Ready
<1>8. Awaits(Joining)
  BY <1>1, <1>4, TestPid, PidFact DEF Awaits, Ready
<1>9. \A p \in Children : ~Exists(k, p)
  BY <1>1, Placed, SyncFacts, TestPid DEF Ready
<1>10. Joined
  BY <1>1, <1>4, <1>6, <1>9, SyncFacts, TestPid DEF Joined, Ready
<1>11. k.sems[SEM_ID] = UnusedSem /\ k.sems[SEM_ID].blocked = << >> /\ k.sems[SEM_ID].value = 0
  BY <1>1, SyncFacts DEF Ready, UnusedSem
<1>12. Asleep
  <2>1. \A x : ~In(k.sems[SEM_ID].blocked, x)
    BY <1>11 DEF In
  <2>2. NoDup(k.sems[SEM_ID].blocked)
    BY <1>11 DEF NoDup
  <2>3. \A x \in Pid : ~InQueue(k, "blockedBySem", x)
    BY <1>1, PidFact DEF Ready
  <2>4. QED
    BY <1>9, <2>1, <2>2, <2>3 DEF Asleep
<1>13. Unit
  BY <1>4, <1>11 DEF Unit, Inside
<1>14. Tally
  <2>1. \A S \in SUBSET Children : MadeBy(S) = {}
    BY <1>6 DEF MadeBy
  <2>2. Up \subseteq Children /\ Down \subseteq Children
    BY DEF Up, Down
  <2>3. Cardinality({}) = 0
    BY FS_EmptySet
  <2>4. d.global = Cardinality(MadeBy(Up)) - Cardinality(MadeBy(Down))
    BY <1>3, <2>1, <2>2, <2>3
  <2>5. QED
    BY <1>4, <1>6, <2>4, SyncFacts DEF Tally
<1>15. QED
  BY <1>5, <1>7, <1>8, <1>10, <1>12, <1>13, <1>14 DEF SyncInv

\* Nothing changes for the semaphore and those who sleep on it.
LEMMA Untouched ==
  ASSUME Asleep, Unit, d'.use_sem = d.use_sem, k'.sems[SEM_ID] = k.sems[SEM_ID],
         \A x \in Pid : InQueue(k', "blockedBySem", x) <=> InQueue(k, "blockedBySem", x),
         \A p \in Children : Exists(k', p) => InQueue(k', "ready", p) \/ InQueue(k', "blockedBySem", p),
         \A p \in Children : InQueue(k, "blockedBySem", p) => pc'[p] = pc[p],
         d.use_sem => \A p \in Children : Inside(p)' => Inside(p),
         pc'[Test] \in {"open", "exit", "halt"} <=> pc[Test] \in {"open", "exit", "halt"}
  PROVE  Asleep' /\ Unit'
<1>1. Asleep'
  <2>1. \A x \in Pid : InQueue(k', "blockedBySem", x) <=> In(k'.sems[SEM_ID].blocked, x)
    BY DEF Asleep
  <2>2. \A x \in Pid : In(k'.sems[SEM_ID].blocked, x) => x \in Children /\ pc'[x] = "load"
    BY DEF Asleep
  <2>3. NoDup(k'.sems[SEM_ID].blocked)
    BY DEF Asleep
  <2>4. QED
    BY <2>1, <2>2, <2>3 DEF Asleep
<1>2. Unit'
  <2>1. ~d'.use_sem \/ pc'[Test] \in {"open", "exit", "halt"} => k'.sems[SEM_ID] = UnusedSem
    BY DEF Unit
  <2>2. d'.use_sem /\ pc'[Test] \notin {"open", "exit", "halt"} => k'.sems[SEM_ID].used
    BY DEF Unit
  <2>3. d'.use_sem => /\ k'.sems[SEM_ID].value \in {0, 1}
                      /\ k'.sems[SEM_ID].value = 1 => \A p \in Children : ~Inside(p)'
                      /\ \A p, r \in Children : Inside(p)' /\ Inside(r)' => p = r
    BY DEF Unit
  <2>4. QED
    BY <2>1, <2>2, <2>3 DEF Unit
<1>3. QED
  BY <1>1, <1>2

LEMMA JoinedStays ==
  ASSUME Joined, k'.nextPid = k.nextPid, d'.count[Test] = d.count[Test], pc'[Test] = pc[Test],
         \A p \in Children : Exists(k', p) => Exists(k, p)
  PROVE  Joined'
BY DEF Joined, Joining

\* A process goes to its next statement, and nobody is born or dies.
LEMMA SyncGoes ==
  ASSUME SyncInv, program = "test_sync", NEW p \in Children, NEW here \in Statements \ {"halt"}, At(p, here),
         NEW place \in Statements \ {"halt"}, pc' = [pc EXCEPT ![p] = place], Quietly(k, k'),
         \A q \in {"ready", "blocked"} : InQueue(k', q, Test) <=> InQueue(k, q, Test),
         d'.count[Test] = d.count[Test]
  PROVE  /\ Family("enter")' /\ Awaits(Joining)' /\ Joined' /\ pc'[p] = place /\ pc[p] = here
         /\ \A x \in Pid \ {p} : pc'[x] = pc[x]
         /\ \A x \in Children : Exists(k', x) <=> Exists(k, x)
         /\ k.current = p /\ ~InQueue(k, "blockedBySem", p) /\ InQueue(k, "ready", p) /\ Exists(k, p)
<1>1. /\ Family("enter") /\ Awaits(Joining) /\ Joined /\ Sane(k) /\ pc \in [Pid -> Statements]
      /\ pc[Test] = "resume" => Joining \in Pid /\ Joining # IdlePid
  BY SyncParts
<1>2. p \in Pid /\ p > Test /\ p # Test /\ p # IdlePid
  BY SyncFacts
<1>3. Exists(k, p) /\ p < k.nextPid /\ k.current = p /\ ~InQueue(k, "blockedBySem", p) /\ InQueue(k, "ready", p)
  BY <1>1, <1>2, Current
<1>4. pc[p] = here /\ pc'[p] = place /\ \A x \in Pid \ {p} : pc'[x] = pc[x]
  BY <1>1, <1>2 DEF At
<1>5. Family("enter")'
  BY <1>1, <1>2, <1>3, <1>4, FamilyGoes
<1>6. PICK c : c = Joining
  OBVIOUS
<1>7. Awaits(c)
  BY <1>1, <1>6 DEF Awaits
<1>8. pc'[Test] = pc[Test]
  BY <1>2, <1>4, TestPid
<1>9. Awaits(c)'
  BY <1>1, <1>6, <1>7, <1>8, AwaitsGoes
<1>10. Joining' = c
  BY <1>6 DEF Joining
<1>11. Awaits(Joining)'
  BY <1>9, <1>10 DEF Awaits
<1>12. \A x \in Children : Exists(k', x) <=> Exists(k, x)
  BY ExistsSame, SyncFacts DEF Quietly
<1>13. Joined'
  BY <1>1, <1>8, <1>12, JoinedStays DEF Quietly
<1>14. QED
  BY <1>3, <1>4, <1>5, <1>11, <1>12, <1>13

\* The additions of a set of processes are finitely many.
LEMMA MadeFinite ==
  ASSUME NEW S \in SUBSET Children
  PROVE  IsFiniteSet(S) /\ IsFiniteSet(1..N) /\ IsFiniteSet(MadeBy(S)) /\ MadeBy(S) \subseteq S \X (1..N)
         /\ Cardinality(MadeBy(S)) \in Nat
<1>1. IsFiniteSet(Children)
  BY FS_Interval, SyncFacts DEF Children
<1>2. IsFiniteSet(S)
  BY <1>1, FS_Subset
<1>3. IsFiniteSet(1..N)
  BY FS_Interval, SyncFacts
<1>4. IsFiniteSet(S \X (1..N))
  BY <1>2, <1>3, FS_Product
<1>5. MadeBy(S) \subseteq S \X (1..N)
  BY DEF MadeBy
<1>6. IsFiniteSet(MadeBy(S))
  BY <1>4, <1>5, FS_Subset
<1>7. Cardinality(MadeBy(S)) \in Nat
  BY <1>6, FS_CardinalityType
<1>8. QED
  BY <1>2, <1>3, <1>4, <1>5, <1>6, <1>7

\* A process makes one more addition.
LEMMA MadeMore ==
  ASSUME SyncTypes, Tally, NEW p \in Children, pc[p] = "store",
         Made(p)' = Made(p) + 1, \A x \in Children \ {p} : Made(x)' = Made(x),
         NEW S \in SUBSET Children
  PROVE  Cardinality(MadeBy(S)') = Cardinality(MadeBy(S)) + IF p \in S THEN 1 ELSE 0
<1>1. /\ \A x \in Children : Made(x) \in Nat
      /\ Made(p) < N
  BY SyncFacts DEF SyncTypes, Tally, Made
<1>2. MadeBy(S)' = {x \in S \X (1..N) : x[2] <= Made(x[1])'}
  BY DEF MadeBy
<1>3. CASE p \notin S
  <2>1. MadeBy(S)' = MadeBy(S)
    BY <1>2, <1>3 DEF MadeBy
  <2>2. QED
    BY <1>3, <2>1, MadeFinite
<1>4. CASE p \in S
  <2> DEFINE e == <<p, Made(p) + 1>>
  <2>1. e \in S \X (1..N) /\ e \notin MadeBy(S)
    BY <1>1, <1>4, SyncFacts DEF MadeBy
  <2>2. MadeBy(S)' = MadeBy(S) \cup {e}
    <3>1. ASSUME NEW x \in S \X (1..N)
          PROVE  x[2] <= Made(x[1])' <=> x[2] <= Made(x[1]) \/ x = e
      <4>1. x = <<x[1], x[2]>> /\ x[1] \in Children /\ x[2] \in Int
        OBVIOUS
      <4>2. CASE x[1] = p
        <5>1. x[2] <= Made(p) + 1 <=> x[2] <= Made(p) \/ x[2] = Made(p) + 1
          BY <1>1, <4>1
        <5>2. QED
          BY <4>1, <4>2, <5>1
      <4>3. CASE x[1] # p
        BY <4>1, <4>3
      <4>4. QED
        BY <4>2, <4>3
    <3>2. QED
      BY <1>2, <2>1, <3>1 DEF MadeBy
  <2> HIDE DEF e
  <2>3. Cardinality(MadeBy(S)') = Cardinality(MadeBy(S)) + 1
    <3>1. IsFiniteSet(MadeBy(S))
      BY MadeFinite
    <3>2. Cardinality(MadeBy(S) \cup {e}) = Cardinality(MadeBy(S)) + 1
      BY <2>1, <3>1, FS_AddElement
    <3>3. QED
      BY <2>2, <3>2
  <2>4. QED
    BY <1>4, <2>3
<1>5. QED
  BY <1>3, <1>4

\* Nothing is added.
LEMMA TallyStays ==
  ASSUME Tally, d'.use_sem = d.use_sem, d'.global = d.global,
         \A p \in Children : /\ d'.count[p] <= N /\ (d'.count[p] = N <=> pc'[p] \in {"exit", "halt"})
                             /\ Made(p)' = Made(p)
                             /\ d.use_sem /\ pc'[p] = "store" => d'.aux[p] = d.global
  PROVE  Tally'
<1>1. \A S \in SUBSET Children : MadeBy(S)' = MadeBy(S)
  BY DEF MadeBy
<1>2. Up \in SUBSET Children /\ Down \in SUBSET Children /\ Up' = Up /\ Down' = Down
  BY DEF Up, Down
<1>3. MadeBy(Up)' = MadeBy(Up) /\ MadeBy(Down)' = MadeBy(Down)
  BY <1>1, <1>2 DEF MadeBy
<1>4. QED
  BY <1>3 DEF Tally

\* One at a time, the processes add what they read.
LEMMA TallyAdds ==
  ASSUME SyncTypes, Tally, Unit, Asleep, NEW p \in Children, Store(p), pc \in [Pid -> Statements],
         ~InQueue(k, "blockedBySem", p)
  PROVE  Tally'
<1>1. /\ pc[p] = "store" /\ pc' = [pc EXCEPT ![p] = "leave"]
      /\ d' = [d EXCEPT !.global = d.aux[p] + Inc(p), !.aux[p] = 0]
  BY DEF Store, At, Goto
<1>2. /\ pc'[p] = "leave" /\ \A x \in Children \ {p} : pc'[x] = pc[x]
  BY <1>1, SyncFacts
<1>3. /\ d'.count = d.count /\ d'.use_sem = d.use_sem /\ d'.global = d.aux[p] + Inc(p)
      /\ \A x \in Children \ {p} : d'.aux[x] = d.aux[x]
  BY <1>1 DEF SyncTypes
<1>4. \A x \in Children : d'.count[x] <= N /\ (d'.count[x] = N <=> pc'[x] \in {"exit", "halt"})
  BY <1>1, <1>2, <1>3 DEF Tally
<1>5. CASE ~d.use_sem
  BY <1>3, <1>4, <1>5 DEF Tally
<1>6. CASE d.use_sem
  <2>1. Inside(p)
    BY <1>1 DEF Inside
  <2>2. \A x \in Children : pc'[x] # "store"
    <3>1. ASSUME NEW x \in Children \ {p}, pc[x] = "store" PROVE FALSE
      <4>1. ~Inside(x)
        BY <1>6, <2>1 DEF Unit
      <4>2. InQueue(k, "blockedBySem", x)
        BY <3>1, <4>1 DEF Inside
      <4>3. QED
        BY <3>1, <4>2, SyncFacts DEF Asleep
    <3>2. QED
      BY <1>2, <3>1
  <2>3. Made(p)' = Made(p) + 1 /\ \A x \in Children \ {p} : Made(x)' = Made(x)
    <3>1. d.count[p] \in Nat
      BY DEF SyncTypes
    <3>2. QED
      BY <1>1, <1>2, <1>3, <3>1 DEF Made
  <2>4. Up \in SUBSET Children /\ Down \in SUBSET Children
    BY DEF Up, Down
  <2>5. /\ Cardinality(MadeBy(Up)') = Cardinality(MadeBy(Up)) + IF p \in Up THEN 1 ELSE 0
        /\ Cardinality(MadeBy(Down)') = Cardinality(MadeBy(Down)) + IF p \in Down THEN 1 ELSE 0
    BY <1>1, <2>3, <2>4, MadeMore
  <2>6. d'.global = d.global + Inc(p) /\ d.global = Cardinality(MadeBy(Up)) - Cardinality(MadeBy(Down))
    BY <1>1, <1>3, <1>6 DEF Tally
  <2>7. Cardinality(MadeBy(Up)) \in Nat /\ Cardinality(MadeBy(Down)) \in Nat
    BY <2>4, MadeFinite
  <2>8. d'.global = Cardinality(MadeBy(Up)') - Cardinality(MadeBy(Down)')
    <3>1. CASE Inc(p) = 1
      <4>1. p \in Up /\ p \notin Down
        BY <3>1 DEF Up, Down
      <4>2. QED
        BY <2>5, <2>6, <2>7, <3>1, <4>1
    <3>2. CASE Inc(p) = -1
      <4>1. p \notin Up /\ p \in Down
        BY <3>2 DEF Up, Down
      <4>2. QED
        BY <2>5, <2>6, <2>7, <3>2, <4>1
    <3>3. QED
      BY <3>1, <3>2 DEF Inc
  <2>9. Up' = Up /\ Down' = Down
    BY DEF Up, Down
  <2>10. QED
    BY <1>4, <2>2, <2>8, <2>9 DEF Tally, MadeBy
<1>7. QED
  BY <1>5, <1>6 DEF SyncTypes

LEMMA QuietSame ==
  ASSUME NEW k0, NEW k1, Same(k0, k1) \/ (Sane(k0) /\ k1 = k0)
  PROVE  /\ Same(k0, k1) /\ Quietly(k0, k1)
BY DEF Same, Quietly, SameFields, SameKin, SameCounts

\* A process goes on, and nothing changes in the kernel's queues and semaphores.
LEMMA SyncPasses ==
  ASSUME SyncInv, program = "test_sync", NEW p \in Children, NEW here \in Statements \ {"halt"}, At(p, here),
         NEW place \in Statements \ {"halt"}, pc' = [pc EXCEPT ![p] = place],
         Same(k, k'), SameQueues(k, k'),
         d'.count[Test] = d.count[Test], d'.use_sem = d.use_sem,
         d.use_sem /\ place \in {"load", "store", "leave"} => here \in {"load", "store", "leave"}
  PROVE  /\ Family("enter")' /\ Awaits(Joining)' /\ Joined' /\ Asleep' /\ Unit'
         /\ pc'[p] = place /\ pc[p] = here /\ \A x \in Pid \ {p} : pc'[x] = pc[x]
<1>1. Quietly(k, k') /\ \A q \in {"ready", "blocked"} : InQueue(k', q, Test) <=> InQueue(k, q, Test)
  BY QuietSame, TestPid, PidFact DEF SameQueues
<1>2. /\ Family("enter")' /\ Awaits(Joining)' /\ Joined' /\ pc'[p] = place /\ pc[p] = here
      /\ \A x \in Pid \ {p} : pc'[x] = pc[x]
      /\ \A x \in Children : Exists(k', x) <=> Exists(k, x)
      /\ ~InQueue(k, "blockedBySem", p)
  BY <1>1, SyncGoes
<1>3. Asleep /\ Unit
  BY SyncParts
<1>4. k'.sems[SEM_ID] = k.sems[SEM_ID]
  BY DEF Same
<1>5. \A x \in Pid : /\ InQueue(k', "blockedBySem", x) <=> InQueue(k, "blockedBySem", x)
                     /\ InQueue(k', "ready", x) <=> InQueue(k, "ready", x)
  BY PidFact DEF SameQueues
<1>6. \A x \in Children : Exists(k', x) => InQueue(k', "ready", x) \/ InQueue(k', "blockedBySem", x)
  BY <1>2, <1>3, <1>5, SyncFacts DEF Asleep
<1>7. \A x \in Children : InQueue(k, "blockedBySem", x) => pc'[x] = pc[x]
  BY <1>2, SyncFacts
<1>8. d.use_sem => \A x \in Children : Inside(x)' => Inside(x)
  BY <1>2, <1>5, SyncFacts DEF Inside
<1>9. pc'[Test] = pc[Test]
  BY <1>2, TestPid, SyncFacts
<1>10. Asleep' /\ Unit'
  BY <1>3, <1>4, <1>5, <1>6, <1>7, <1>8, <1>9, Untouched
<1>11. QED
  BY <1>2, <1>10

LEMMA StatementFact ==
  /\ \A s \in {"open", "spawn", "join", "resume", "close", "enter", "load", "store", "leave", "exit",
               "create", "block", "prio", "unblock", "wait", "count"} : s \in Statements \ {"halt"}
  /\ "halt" \in Statements
BY DEF Statements, Places

\* The statements between the semaphore's wait and post, and the loop without
\* the semaphore.
LEMMA SyncLoad ==
  ASSUME SyncInv, program = "test_sync", UNCHANGED program, NEW p \in Children, Load(p)
  PROVE  SyncInv'
<1>1. At(p, "load") /\ d' = [d EXCEPT !.aux[p] = d.global] /\ pc' = [pc EXCEPT ![p] = "store"] /\ UNCHANGED k
  BY DEF Load, Goto
<1>2. SyncTypes /\ Tally /\ Sane(k)
  BY SyncParts
<1>3. d' = [aux |-> [d.aux EXCEPT ![p] = d.global], count |-> d.count, global |-> d.global, use_sem |-> d.use_sem]
  BY <1>1, <1>2 DEF SyncTypes
<1>4. Same(k, k') /\ SameQueues(k, k') /\ p # Test
  BY <1>1, <1>2, QuietSame, SyncFacts DEF SameQueues
<1>5. /\ Family("enter")' /\ Awaits(Joining)' /\ Joined' /\ Asleep' /\ Unit'
      /\ pc'[p] = "store" /\ pc[p] = "load" /\ \A x \in Pid \ {p} : pc'[x] = pc[x]
  BY <1>1, <1>3, <1>4, StatementFact, SyncPasses
<1>6. SyncTypes'
  BY <1>2, <1>3, <1>4, <1>5, SyncFacts, TestPid DEF SyncTypes
<1>7. \A x \in Children : /\ d'.count[x] <= N /\ (d'.count[x] = N <=> pc'[x] \in {"exit", "halt"})
                          /\ Made(x)' = Made(x)
                          /\ d.use_sem /\ pc'[x] = "store" => d'.aux[x] = d.global
  <2>1. ASSUME NEW x \in Children
        PROVE  /\ d'.count[x] = d.count[x] /\ (pc'[x] \in {"exit", "halt"} <=> pc[x] \in {"exit", "halt"})
               /\ pc'[x] = "leave" <=> pc[x] = "leave"
               /\ pc'[x] = "store" => x = p \/ pc[x] = "store"
               /\ d'.aux[x] = IF x = p THEN d.global ELSE d.aux[x]
    BY <1>2, <1>3, <1>5, SyncFacts DEF SyncTypes
  <2>2. QED
    BY <1>2, <2>1 DEF Tally, Made
<1>8. Tally'
  BY <1>2, <1>3, <1>7, TallyStays
<1>9. QED
  BY <1>5, <1>6, <1>8 DEF SyncInv

LEMMA SyncStore ==
  ASSUME SyncInv, program = "test_sync", UNCHANGED program, NEW p \in Children, Store(p)
  PROVE  SyncInv'
<1>1. At(p, "store") /\ d' = [d EXCEPT !.global = d.aux[p] + Inc(p), !.aux[p] = 0]
      /\ pc' = [pc EXCEPT ![p] = "leave"] /\ UNCHANGED k
  BY DEF Store, Goto
<1>2. SyncTypes /\ Tally /\ Unit /\ Asleep /\ Sane(k) /\ Family("enter") /\ pc \in [Pid -> Statements]
  BY SyncParts
<1>3. d' = [aux |-> [d.aux EXCEPT ![p] = 0], count |-> d.count, global |-> d.aux[p] + Inc(p), use_sem |-> d.use_sem]
  BY <1>1, <1>2 DEF SyncTypes
<1>4. Same(k, k') /\ SameQueues(k, k') /\ p # Test
  BY <1>1, <1>2, QuietSame, SyncFacts DEF SameQueues
<1>5. /\ Family("enter")' /\ Awaits(Joining)' /\ Joined' /\ Asleep' /\ Unit'
      /\ pc'[p] = "leave" /\ pc[p] = "store" /\ \A x \in Pid \ {p} : pc'[x] = pc[x]
  BY <1>1, <1>3, <1>4, StatementFact, SyncPasses
<1>6. SyncTypes'
  <2>1. d.aux[p] + Inc(p) \in Int
    BY <1>2 DEF SyncTypes, Inc
  <2>2. QED
    BY <1>2, <1>3, <1>4, <1>5, <2>1, SyncFacts, TestPid DEF SyncTypes
<1>7. ~InQueue(k, "blockedBySem", p)
  BY <1>1, <1>2, StatementFact, SyncFacts, Current
<1>8. Tally'
  BY <1>2, <1>7, TallyAdds
<1>9. QED
  BY <1>5, <1>6, <1>8 DEF SyncInv

\* The timer's interrupt, and a process that yields.
LEMMA SyncInterrupted ==
  ASSUME SyncInv, program = "test_sync", UNCHANGED <<program, pc, d>>, NEW k1, k1 = Schedule(k) \/ k1 = Yield(k),
         k' = k1
  PROVE  SyncInv'
<1>1. /\ Family("enter") /\ Awaits(Joining) /\ SyncTypes /\ Joined /\ Asleep /\ Unit /\ Tally /\ Sane(k)
      /\ pc[Test] = "resume" => Joining \in Pid /\ Joining # IdlePid
  BY SyncParts
<1>2. Same(k, k') /\ SameQueues(k, k')
  BY <1>1, SchedulePart
<1>3. Quietly(k, k') /\ k'.sems[SEM_ID] = k.sems[SEM_ID]
  BY <1>2, QuietSame DEF Same
<1>4. \A x \in Pid : /\ InQueue(k', "blockedBySem", x) <=> InQueue(k, "blockedBySem", x)
                     /\ InQueue(k', "ready", x) <=> InQueue(k, "ready", x)
                     /\ InQueue(k', "blocked", x) <=> InQueue(k, "blocked", x)
  BY <1>2, PidFact DEF SameQueues
<1>5. Test < k.nextPid
  BY <1>1 DEF Family
<1>6. Family("enter")'
  BY <1>1, <1>3, <1>5, FamilyGoes, TestPid, StatementFact
<1>7. Awaits(Joining)'
  <2>1. PICK c : c = Joining
    OBVIOUS
  <2>2. Awaits(c)
    BY <1>1, <2>1 DEF Awaits
  <2>3. Awaits(c)'
    BY <1>1, <1>3, <1>4, <2>1, <2>2, AwaitsGoes, TestPid
  <2>4. QED
    BY <2>1, <2>3 DEF Awaits, Joining
<1>8. \A x \in Children : Exists(k', x) <=> Exists(k, x)
  BY <1>3, ExistsSame, SyncFacts DEF Quietly
<1>9. Joined'
  BY <1>1, <1>3, <1>8, JoinedStays DEF Quietly
<1>10. \A x \in Children : Exists(k', x) => InQueue(k', "ready", x) \/ InQueue(k', "blockedBySem", x)
  BY <1>1, <1>4, <1>8, SyncFacts DEF Asleep
<1>11. \A x \in Children : Inside(x)' => Inside(x)
  BY <1>4, SyncFacts DEF Inside
<1>12. Asleep' /\ Unit'
  BY <1>1, <1>3, <1>4, <1>10, <1>11, Untouched
<1>13. SyncTypes'
  BY <1>1 DEF SyncTypes
<1>14. Tally'
  BY <1>1 DEF Tally, MadeBy, Made, Up, Down
<1>15. QED
  BY <1>6, <1>7, <1>9, <1>12, <1>13, <1>14 DEF SyncInv

\* While a child lives, the program is between the opening and the closing of
\* the semaphore.
LEMMA ChildLives ==
  ASSUME SyncInv, program = "test_sync", NEW p \in Children, Exists(k, p)
  PROVE  pc[Test] \in {"spawn", "join", "resume"}
<1>1. Family("enter") /\ Joined /\ SyncTypes /\ Joining \in Int
  BY SyncParts
<1>2. p < k.nextPid
  BY <1>1, SyncFacts DEF Family
<1>3. pc[Test] # "open"
  BY <1>1, <1>2 DEF Joined, Children
<1>4. pc[Test] \notin {"close", "exit", "halt"}
  <2>1. ASSUME Joining > Last PROVE FALSE
    BY <1>1, <2>1, SyncFacts DEF Joined
  <2>2. QED
    BY <1>1, <2>1 DEF Joined
<1>5. QED
  BY <1>1, <1>3, <1>4 DEF SyncTypes

\* An entry of the semaphore table.
IsEntry(e, value, used, blocked) == e.value = value /\ (e.used <=> used) /\ e.blocked = blocked

\* wait and post on semaphore s, of a process that runs.
LEMMA WaitPart ==
  ASSUME NEW k0, Sane(k0), NEW c \in Pid, c # IdlePid, k0.current = c, NEW s \in SemId,
         NEW k1, k1 = SemWait(k0, s)
  PROVE  LET e0 == k0.sems[s]
         IN  /\ Sane(k1) /\ SameFields(k0, k1) /\ k1.nextPid = k0.nextPid
             /\ e0.value > 0 => SameQueues(k0, k1) /\ IsEntry(k1.sems[s], e0.value - 1, e0.used, e0.blocked)
             /\ e0.value = 0 => /\ OneMoves(k0, k1, c, "blockedBySem")
                                /\ IsEntry(k1.sems[s], e0.value, e0.used, Append(e0.blocked, c))
<1> DEFINE e0 == k0.sems[s]
<1>1. WF(k0, {}) /\ CurOK(k0, {}) /\ k0.sems \in [SemId -> Sem] /\ e0 \in Sem
  BY SaneTypes
<1>2. Steps(k0, k1, {}) /\ Dispatched(k0, k1)
  BY <1>1, SemWaitFact, SemWaitEffect
<1>3. Sane(k1) /\ SameFields(k0, k1) /\ k1.nextPid = k0.nextPid
  BY <1>2, StepsSane
<1>4. ASSUME e0.value > 0
      PROVE  SameQueues(k0, k1) /\ IsEntry(k1.sems[s], e0.value - 1, e0.used, e0.blocked)
  <2>1. k1.sems = [k0.sems EXCEPT ![s].value = @ - 1]
    BY <1>1, <1>4, SemTakeEffect
  <2>2. \A q \in QueueName, x \in Pid : InQueue(k1, q, x) <=> InQueue(k0, q, x)
    BY <1>1, <1>4, SemTakeEffect
  <2>3. IsEntry(k1.sems[s], e0.value - 1, e0.used, e0.blocked)
    BY <1>1, <2>1 DEF IsEntry, Sem
  <2>4. QED
    BY <2>2, <2>3 DEF SameQueues
<1>5. ASSUME e0.value = 0
      PROVE  /\ OneMoves(k0, k1, c, "blockedBySem")
             /\ IsEntry(k1.sems[s], e0.value, e0.used, Append(e0.blocked, c))
  <2>0. k0.current # IdlePid /\ k0.current \notin {}
    OBVIOUS
  <2>1. k0.sems[s].value = 0 /\ WF(k0, {}) /\ CurOK(k0, {})
    BY <1>1, <1>5
  <2>2. /\ k1.sems = [k0.sems EXCEPT ![s].blocked = Append(@, k0.current)]
        /\ \A q \in QueueName, x \in Pid :
             InQueue(k1, q, x) <=> IF x = k0.current THEN q = "blockedBySem" ELSE InQueue(k0, q, x)
    BY <2>0, <2>1, SemSleepEffect
  <2>3. OneMoves(k0, k1, c, "blockedBySem")
    BY <2>2 DEF OneMoves
  <2>4. IsEntry(k1.sems[s], e0.value, e0.used, Append(e0.blocked, c))
    BY <1>1, <2>2 DEF IsEntry, Sem
  <2>5. QED
    BY <2>3, <2>4
<1>6. QED
  BY <1>3, <1>4, <1>5

LEMMA PostPart ==
  ASSUME NEW k0, Sane(k0), NEW s \in SemId, NEW k1, k1 = SemPost(k0, s)
  PROVE  LET e0 == k0.sems[s]
         IN  /\ Sane(k1) /\ SameFields(k0, k1) /\ k1.nextPid = k0.nextPid
             /\ e0.blocked = << >> => SameQueues(k0, k1) /\ IsEntry(k1.sems[s], e0.value + 1, e0.used, e0.blocked)
             /\ e0.blocked # << >> /\ InQueue(k0, "blockedBySem", Head(e0.blocked)) =>
                  /\ OneMoves(k0, k1, Head(e0.blocked), "ready")
                  /\ IsEntry(k1.sems[s], e0.value, e0.used, Tail(e0.blocked))
<1> DEFINE e0 == k0.sems[s]
<1>1. WF(k0, {}) /\ CurOK(k0, {}) /\ k0.sems \in [SemId -> Sem] /\ e0 \in Sem
  BY SaneTypes
<1>2. Steps(k0, k1, {}) /\ Dispatched(k0, k1)
  BY <1>1, SemPostFact, SemPostEffect DEF Dispatched
<1>3. Sane(k1) /\ SameFields(k0, k1) /\ k1.nextPid = k0.nextPid
  BY <1>2, StepsSane
<1>4. ASSUME e0.blocked = << >>
      PROVE  SameQueues(k0, k1) /\ IsEntry(k1.sems[s], e0.value + 1, e0.used, e0.blocked)
  <2>1. k1 = [k0 EXCEPT !.sems[s].value = @ + 1] /\ k0 \in KernelState
    BY <1>1, <1>4 DEF SemPost, WF
  <2>2. k1.sems = [k0.sems EXCEPT ![s].value = @ + 1] /\ k1.queue = k0.queue
    BY <2>1 DEF KernelState
  <2>3. IsEntry(k1.sems[s], e0.value + 1, e0.used, e0.blocked)
    BY <1>1, <2>2 DEF IsEntry, Sem
  <2>4. QED
    BY <2>2, <2>3 DEF SameQueues, InQueue
<1>5. ASSUME e0.blocked # << >>, InQueue(k0, "blockedBySem", Head(e0.blocked))
      PROVE  /\ OneMoves(k0, k1, Head(e0.blocked), "ready")
             /\ IsEntry(k1.sems[s], e0.value, e0.used, Tail(e0.blocked))
  <2>1. k1.sems = [k0.sems EXCEPT ![s].blocked = Tail(@)]
    BY <1>1, <1>5, SemPostEffect
  <2>2. \A q \in QueueName, x \in Pid :
          InQueue(k1, q, x) <=> IF x = Head(k0.sems[s].blocked) /\ InQueue(k0, "blockedBySem", Head(k0.sems[s].blocked))
                                THEN q = "ready" ELSE InQueue(k0, q, x)
    BY <1>1, <1>5, SemPostEffect
  <2>3. OneMoves(k0, k1, Head(e0.blocked), "ready")
    <3> DEFINE h == Head(k0.sems[s].blocked)
    <3>1. InQueue(k0, "blockedBySem", h)
      BY <1>5
    <3> HIDE DEF h
    <3>2. \A q \in QueueName, x \in Pid : InQueue(k1, q, x) <=> IF x = h THEN q = "ready" ELSE InQueue(k0, q, x)
      BY <2>2, <3>1 DEF h
    <3>3. OneMoves(k0, k1, h, "ready")
      BY <3>2 DEF OneMoves
    <3>4. QED
      BY <3>3 DEF h
  <2>4. IsEntry(k1.sems[s], e0.value, e0.used, Tail(e0.blocked))
    BY <1>1, <2>1 DEF IsEntry, Sem
  <2>5. QED
    BY <2>3, <2>4
<1>6. QED
  BY <1>3, <1>4, <1>5

\* A process gets the unit, or sleeps until a post hands it over.
LEMMA SyncEnter ==
  ASSUME SyncInv, program = "test_sync", UNCHANGED program, NEW p \in Children, Enter(p)
  PROVE  SyncInv'
<1>1. At(p, "enter") /\ UNCHANGED d /\ pc' = [pc EXCEPT ![p] = "load"]
      /\ k' = IF d.use_sem THEN SemWait(k, SEM_ID) ELSE k
  BY DEF Enter, Goto
<1>2. /\ SyncTypes /\ Tally /\ Unit /\ Asleep /\ Sane(k) /\ Family("enter") /\ pc \in [Pid -> Statements]
      /\ k.sems[SEM_ID] \in Sem /\ k.sems[SEM_ID].blocked \in Seq(Pid)
  BY SyncParts
<1>3. p # Test /\ p \in Pid /\ p # IdlePid /\ p > Test
  BY SyncFacts
<1>4. /\ k.current = p /\ ~InQueue(k, "blockedBySem", p) /\ InQueue(k, "ready", p) /\ Exists(k, p) /\ pc[p] = "enter"
  BY <1>1, <1>2, <1>3, StatementFact, Current DEF At
<1>5. pc'[p] = "load" /\ \A x \in Pid \ {p} : pc'[x] = pc[x]
  BY <1>1, <1>2, <1>3
<1>6. SyncTypes'
  BY <1>1, <1>2, <1>3, <1>5, SyncFacts, TestPid DEF SyncTypes
<1>7. Tally'
  <2>1. \A x \in Children : /\ pc'[x] \in {"exit", "halt"} <=> pc[x] \in {"exit", "halt"}
                            /\ pc'[x] = "leave" <=> pc[x] = "leave"
                            /\ pc'[x] = "store" <=> pc[x] = "store"
    BY <1>4, <1>5, SyncFacts
  <2>2. \A x \in Children : Made(x)' = Made(x)
    BY <1>1, <2>1 DEF Made
  <2>3. QED
    BY <1>1, <1>2, <2>1, <2>2, TallyStays DEF Tally
<1>8. CASE ~d.use_sem
  <2>1. Same(k, k') /\ SameQueues(k, k')
    BY <1>1, <1>2, <1>8, QuietSame DEF SameQueues
  <2>2. Family("enter")' /\ Awaits(Joining)' /\ Joined' /\ Asleep' /\ Unit'
    BY <1>1, <1>8, <2>1, StatementFact, SyncPasses
  <2>3. QED
    BY <1>6, <1>7, <2>2 DEF SyncInv
<1>9. CASE d.use_sem
  <2> DEFINE s0 == k.sems[SEM_ID]
             s1 == k'.sems[SEM_ID]
  <2>1. SEM_ID \in SemId /\ k' = SemWait(k, SEM_ID)
    BY <1>1, <1>9, SyncFacts
  <2>2. /\ Sane(k') /\ SameFields(k, k') /\ k'.nextPid = k.nextPid
        /\ s0.value > 0 => SameQueues(k, k') /\ IsEntry(s1, s0.value - 1, s0.used, s0.blocked)
        /\ s0.value = 0 => OneMoves(k, k', p, "blockedBySem") /\ IsEntry(s1, s0.value, s0.used, Append(s0.blocked, p))
    BY <1>2, <1>3, <1>4, <2>1, WaitPart
  <2>3. Quietly(k, k')
    BY <2>2 DEF Quietly
  <2>4. s0.value = 1 \/ s0.value = 0
    BY <1>2, <1>9 DEF Unit
  <2>5. s0.value = 1 => /\ IsEntry(s1, s0.value - 1, s0.used, s0.blocked)
                        /\ \A q \in QueueName, x \in Pid : InQueue(k', q, x) <=> InQueue(k, q, x)
    BY <2>2 DEF SameQueues
  <2>6. s0.value = 0 => /\ IsEntry(s1, s0.value, s0.used, Append(s0.blocked, p))
                        /\ \A q \in QueueName, x \in Pid :
                             InQueue(k', q, x) <=> IF x = p THEN q = "blockedBySem" ELSE InQueue(k, q, x)
    BY <2>2 DEF OneMoves
  <2>7. \A q \in {"ready", "blocked"} : InQueue(k', q, Test) <=> InQueue(k, q, Test)
    BY <1>3, <2>4, <2>5, <2>6, TestPid, PidFact
  <2>8. /\ Family("enter")' /\ Awaits(Joining)' /\ Joined' /\ \A x \in Children : Exists(k', x) <=> Exists(k, x)
    BY <1>1, <2>3, <2>7, StatementFact, SyncGoes
  <2>9. pc'[Test] = pc[Test] /\ pc[Test] \in {"spawn", "join", "resume"} /\ s0.used
    BY <1>2, <1>3, <1>4, <1>5, <1>9, ChildLives, TestPid DEF Unit
  <2>10. CASE s0.value = 1
    <3>1. s0.blocked = << >>
      BY <1>2, <2>1, <2>10 DEF Sane, Sleepers
    <3>2. s1.value = 0 /\ s1.used /\ s1.blocked = << >>
      BY <1>2, <2>5, <2>9, <2>10, <3>1 DEF IsEntry
    <3>3. \A x \in Pid : /\ InQueue(k', "blockedBySem", x) <=> InQueue(k, "blockedBySem", x)
                         /\ InQueue(k', "ready", x) <=> InQueue(k, "ready", x)
      BY <2>5, <2>10, PidFact
    <3>4. \A x \in Pid : ~In(s1.blocked, x) /\ ~InQueue(k', "blockedBySem", x)
      BY <1>2, <3>1, <3>2, <3>3 DEF Asleep, In
    <3>5. NoDup(s1.blocked)
      BY <3>2 DEF NoDup
    <3>6. \A x \in Children : Exists(k', x) => InQueue(k', "ready", x)
      BY <1>2, <2>8, <3>3, <3>4, SyncFacts DEF Asleep
    <3>7. Asleep'
      BY <3>4, <3>5, <3>6 DEF Asleep
    <3>8. \A x \in Children \ {p} : ~Inside(x)'
      <4>1. \A x \in Children : ~Inside(x)
        BY <1>2, <1>9, <2>10 DEF Unit
      <4>2. QED
        BY <1>5, <3>3, <4>1, SyncFacts DEF Inside
    <3>9. Unit'
      BY <1>1, <1>9, <2>9, <3>2, <3>8 DEF Unit
    <3>10. QED
      BY <1>6, <1>7, <2>8, <3>7, <3>9 DEF SyncInv
  <2>11. CASE s0.value = 0
    <3>1. ~In(s0.blocked, p) /\ NoDup(s0.blocked)
      BY <1>2, <1>3, <1>4 DEF Asleep
    <3>2. s1.value = 0 /\ s1.used /\ s1.blocked = Append(s0.blocked, p)
      BY <1>2, <2>6, <2>9, <2>11 DEF IsEntry
    <3>3. NoDup(s1.blocked) /\ \A x : In(s1.blocked, x) <=> In(s0.blocked, x) \/ x = p
      BY <1>2, <1>3, <3>1, <3>2, AppendFact
    <3>4. \A x \in Pid : /\ InQueue(k', "blockedBySem", x) <=> x = p \/ InQueue(k, "blockedBySem", x)
                         /\ InQueue(k', "ready", x) <=> x # p /\ InQueue(k, "ready", x)
      BY <2>6, <2>11, PidFact
    <3>5. \A x \in Pid : InQueue(k', "blockedBySem", x) <=> In(s1.blocked, x)
      BY <1>2, <3>3, <3>4 DEF Asleep
    <3>6. \A x \in Pid : In(s1.blocked, x) => x \in Children /\ pc'[x] = "load"
      BY <1>2, <1>5, <3>3 DEF Asleep
    <3>7. \A x \in Children : Exists(k', x) => InQueue(k', "ready", x) \/ InQueue(k', "blockedBySem", x)
      BY <1>2, <2>8, <3>4, SyncFacts DEF Asleep
    <3>8. Asleep'
      BY <3>3, <3>5, <3>6, <3>7 DEF Asleep
    <3>9. \A x \in Children : Inside(x)' => Inside(x)
      BY <1>3, <1>5, <3>4, SyncFacts DEF Inside
    <3>10. Unit'
      BY <1>1, <1>2, <1>9, <2>9, <3>2, <3>9 DEF Unit
    <3>11. QED
      BY <1>6, <1>7, <2>8, <3>8, <3>10 DEF SyncInv
  <2>12. QED
    BY <2>4, <2>10, <2>11
<1>10. QED
  BY <1>2, <1>8, <1>9 DEF SyncTypes

\* The unit goes back, or to the first sleeper.
LEMMA SyncLeave ==
  ASSUME SyncInv, program = "test_sync", UNCHANGED program, NEW p \in Children, Leave(p)
  PROVE  SyncInv'
<1> DEFINE place == IF d.count[p] + 1 < N THEN "enter" ELSE "exit"
<1>1. At(p, "leave") /\ d' = [d EXCEPT !.count[p] = @ + 1] /\ pc' = [pc EXCEPT ![p] = place]
      /\ k' = IF d.use_sem THEN SemPost(k, SEM_ID) ELSE k
  BY DEF Leave, Goto
<1>2. /\ SyncTypes /\ Tally /\ Unit /\ Asleep /\ Sane(k) /\ Family("enter") /\ pc \in [Pid -> Statements]
      /\ k.sems[SEM_ID] \in Sem /\ k.sems[SEM_ID].blocked \in Seq(Pid)
  BY SyncParts
<1>3. p # Test /\ p \in Pid /\ p # IdlePid /\ p > Test
  BY SyncFacts
<1>4. /\ ~InQueue(k, "blockedBySem", p) /\ Exists(k, p) /\ pc[p] = "leave"
  BY <1>1, <1>2, <1>3, StatementFact, Current DEF At
<1>5. place \in {"enter", "exit"} /\ place \in Statements \ {"halt"}
  BY StatementFact
<1>6. pc'[p] = place /\ \A x \in Pid \ {p} : pc'[x] = pc[x]
  BY <1>1, <1>2, <1>3
<1>7. d' = [aux |-> d.aux, count |-> [d.count EXCEPT ![p] = @ + 1], global |-> d.global, use_sem |-> d.use_sem]
  BY <1>1, <1>2 DEF SyncTypes
<1>8. /\ d.count[p] \in Nat /\ d.count[p] < N /\ d'.count[p] = d.count[p] + 1
      /\ \A x \in Children \ {p} : d'.count[x] = d.count[x]
      /\ d'.count[Test] = d.count[Test] /\ d'.aux = d.aux /\ d'.global = d.global /\ d'.use_sem = d.use_sem
  <2>1. d.count[p] \in Nat /\ d.count[p] <= N /\ d.count[p] # N
    BY <1>2, <1>4 DEF SyncTypes, Tally
  <2>2. d.count[p] < N
    BY <2>1, SyncFacts
  <2>3. QED
    BY <1>2, <1>3, <1>7, <2>1, <2>2 DEF SyncTypes
<1>9. SyncTypes'
  <2>1. d'.count \in [{Test} \cup Children -> Nat]
    BY <1>2, <1>7 DEF SyncTypes
  <2>2. /\ pc'[Test] = pc[Test]
        /\ \A x \in Children : pc'[x] \in {"enter", "load", "store", "leave", "exit", "halt"}
    BY <1>2, <1>3, <1>5, <1>6, SyncFacts, TestPid DEF SyncTypes
  <2>3. QED
    BY <1>2, <1>7, <2>1, <2>2 DEF SyncTypes
<1>10. Tally'
  <2>1. d'.count[p] <= N /\ (d'.count[p] = N <=> pc'[p] \in {"exit", "halt"}) /\ pc'[p] \notin {"leave", "store"}
    BY <1>6, <1>8, SyncFacts
  <2>2. Made(p)' = Made(p)
    BY <1>4, <1>6, <1>8, <2>1 DEF Made
  <2>3. ASSUME NEW x \in Children \ {p}
        PROVE  /\ d'.count[x] <= N /\ (d'.count[x] = N <=> pc'[x] \in {"exit", "halt"})
               /\ Made(x)' = Made(x)
               /\ d.use_sem /\ pc'[x] = "store" => d'.aux[x] = d.global
    <3>1. pc'[x] = pc[x]
      BY <1>6, SyncFacts
    <3>2. QED
      BY <1>2, <1>8, <3>1 DEF Tally, Made
  <2>4. QED
    BY <1>2, <1>8, <2>1, <2>2, <2>3, TallyStays
<1> HIDE DEF place
<1>11. CASE ~d.use_sem
  <2>1. Same(k, k') /\ SameQueues(k, k')
    BY <1>1, <1>2, <1>11, QuietSame DEF SameQueues
  <2>2. Family("enter")' /\ Awaits(Joining)' /\ Joined' /\ Asleep' /\ Unit'
    BY <1>1, <1>5, <1>8, <1>11, <2>1, StatementFact, SyncPasses
  <2>3. QED
    BY <1>9, <1>10, <2>2 DEF SyncInv
<1>12. CASE d.use_sem
  <2> DEFINE s0 == k.sems[SEM_ID]
             s1 == k'.sems[SEM_ID]
             h  == Head(s0.blocked)
  <2>1. SEM_ID \in SemId /\ k' = SemPost(k, SEM_ID)
    BY <1>1, <1>12, SyncFacts
  <2>2. /\ Sane(k') /\ SameFields(k, k') /\ k'.nextPid = k.nextPid
        /\ s0.blocked = << >> => SameQueues(k, k') /\ IsEntry(s1, s0.value + 1, s0.used, s0.blocked)
        /\ s0.blocked # << >> /\ InQueue(k, "blockedBySem", h) =>
             OneMoves(k, k', h, "ready") /\ IsEntry(s1, s0.value, s0.used, Tail(s0.blocked))
    BY <1>2, <2>1, PostPart
  <2>3. Quietly(k, k')
    BY <2>2 DEF Quietly
  <2>4. Inside(p) /\ s0.value = 0 /\ \A x \in Children \ {p} : ~Inside(x)
    <3>1. Inside(p)
      BY <1>4 DEF Inside
    <3>2. QED
      BY <1>2, <1>12, <3>1 DEF Unit
  <2>5. s0.blocked = << >> => /\ IsEntry(s1, s0.value + 1, s0.used, s0.blocked)
                              /\ \A q \in QueueName, x \in Pid : InQueue(k', q, x) <=> InQueue(k, q, x)
    BY <2>2 DEF SameQueues
  <2>7. s0.blocked # << >> =>
          /\ NoDup(Tail(s0.blocked)) /\ \A x : In(Tail(s0.blocked), x) <=> In(s0.blocked, x) /\ x # h
          /\ h \in Children /\ pc[h] = "load" /\ InQueue(k, "blockedBySem", h) /\ h # p
    <3>1. ASSUME s0.blocked # << >>
          PROVE  /\ h \in Pid /\ In(s0.blocked, h) /\ NoDup(Tail(s0.blocked))
                 /\ \A x : In(Tail(s0.blocked), x) <=> In(s0.blocked, x) /\ x # h
      BY <1>2, <3>1, TailFact DEF Asleep
    <3>2. QED
      BY <1>2, <1>4, <3>1 DEF Asleep
  <2>6. s0.blocked # << >> => /\ IsEntry(s1, s0.value, s0.used, Tail(s0.blocked))
                              /\ \A q \in QueueName, x \in Pid :
                                   InQueue(k', q, x) <=> IF x = h THEN q = "ready" ELSE InQueue(k, q, x)
    BY <2>2, <2>7 DEF OneMoves
  <2> HIDE DEF h
  <2>8. \A q \in {"ready", "blocked"} : InQueue(k', q, Test) <=> InQueue(k, q, Test)
    BY <2>5, <2>6, <2>7, TestPid, PidFact, SyncFacts
  <2>9. /\ Family("enter")' /\ Awaits(Joining)' /\ Joined' /\ \A x \in Children : Exists(k', x) <=> Exists(k, x)
    BY <1>1, <1>5, <1>8, <2>3, <2>8, StatementFact, SyncGoes
  <2>10. pc'[Test] = pc[Test] /\ pc[Test] \in {"spawn", "join", "resume"} /\ s0.used
    BY <1>2, <1>3, <1>4, <1>6, <1>12, ChildLives, TestPid DEF Unit
  <2>11. CASE s0.blocked = << >>
    <3>1. s1.value = 1 /\ s1.used /\ s1.blocked = << >>
      BY <1>2, <2>4, <2>5, <2>10, <2>11 DEF IsEntry
    <3>2. \A x \in Pid : /\ InQueue(k', "blockedBySem", x) <=> InQueue(k, "blockedBySem", x)
                         /\ InQueue(k', "ready", x) <=> InQueue(k, "ready", x)
      BY <2>5, <2>11, PidFact
    <3>3. \A x \in Pid : ~In(s1.blocked, x) /\ ~InQueue(k', "blockedBySem", x)
      BY <1>2, <2>11, <3>1, <3>2 DEF Asleep, In
    <3>4. NoDup(s1.blocked)
      BY <3>1 DEF NoDup
    <3>5. \A x \in Children : Exists(k', x) => InQueue(k', "ready", x)
      BY <1>2, <2>9, <3>2, <3>3, SyncFacts DEF Asleep
    <3>6. Asleep'
      BY <3>3, <3>4, <3>5 DEF Asleep
    <3>7. \A x \in Children : ~Inside(x)'
      BY <1>5, <1>6, <2>4, <3>2, SyncFacts DEF Inside
    <3>8. Unit'
      BY <1>8, <1>12, <2>10, <3>1, <3>7 DEF Unit
    <3>9. QED
      BY <1>9, <1>10, <2>9, <3>6, <3>8 DEF SyncInv
  <2>12. CASE s0.blocked # << >>
    <3>1. s1.value = 0 /\ s1.used /\ s1.blocked = Tail(s0.blocked)
      BY <1>2, <2>4, <2>6, <2>10, <2>12 DEF IsEntry
    <3>2. NoDup(s1.blocked) /\ \A x : In(s1.blocked, x) <=> In(s0.blocked, x) /\ x # h
      BY <2>7, <2>12, <3>1
    <3>3. \A x \in Pid : /\ InQueue(k', "blockedBySem", x) <=> x # h /\ InQueue(k, "blockedBySem", x)
                         /\ InQueue(k', "ready", x) <=> x = h \/ InQueue(k, "ready", x)
      BY <2>6, <2>7, <2>12, PidFact
    <3>4. \A x \in Pid : InQueue(k', "blockedBySem", x) <=> In(s1.blocked, x)
      BY <1>2, <3>2, <3>3 DEF Asleep
    <3>5. \A x \in Pid : In(s1.blocked, x) => x \in Children /\ pc'[x] = "load"
      BY <1>2, <1>4, <1>6, <3>2 DEF Asleep
    <3>6. \A x \in Children : Exists(k', x) => InQueue(k', "ready", x) \/ InQueue(k', "blockedBySem", x)
      BY <1>2, <2>9, <3>3, SyncFacts DEF Asleep
    <3>7. Asleep'
      BY <3>2, <3>4, <3>5, <3>6 DEF Asleep
    <3>8. \A x \in Children : Inside(x)' => x = h
      BY <1>5, <1>6, <2>4, <3>3, SyncFacts DEF Inside
    <3>9. Unit'
      BY <1>8, <1>12, <2>10, <3>1, <3>8 DEF Unit
    <3>10. QED
      BY <1>9, <1>10, <2>9, <3>7, <3>9 DEF SyncInv
  <2>13. QED
    BY <2>11, <2>12
<1>13. QED
  BY <1>2, <1>11, <1>12 DEF SyncTypes

\* The test's own statements leave the processes' data alone.
LEMMA TestMoves ==
  ASSUME SyncInv, program = "test_sync",
         NEW place \in {"open", "spawn", "join", "resume", "close", "exit", "halt"},
         pc' = [pc EXCEPT ![Test] = place],
         UNCHANGED d \/ d' = [d EXCEPT !.count[Test] = @ + 1]
  PROVE  /\ SyncTypes' /\ Tally' /\ pc'[Test] = place /\ \A x \in Pid \ {Test} : pc'[x] = pc[x]
         /\ \A p \in Children : pc'[p] = pc[p]
         /\ d'.use_sem = d.use_sem
         /\ Joining' = IF d' = d THEN Joining ELSE Joining + 1
<1>1. SyncTypes /\ Tally /\ pc \in [Pid -> Statements] /\ Joining \in Int
  BY SyncParts
<1>2. pc'[Test] = place /\ (\A x \in Pid \ {Test} : pc'[x] = pc[x]) /\ \A p \in Children : pc'[p] = pc[p]
  BY <1>1, TestPid, SyncFacts
<1>3. /\ d' = [aux |-> d.aux, count |-> d'.count, global |-> d.global, use_sem |-> d.use_sem]
      /\ d' = d \/ d'.count = [d.count EXCEPT ![Test] = @ + 1]
      /\ d.count \in [{Test} \cup Children -> Nat]
  BY <1>1 DEF SyncTypes
<1>4. /\ d'.count \in [{Test} \cup Children -> Nat] /\ \A p \in Children : d'.count[p] = d.count[p]
      /\ d'.aux = d.aux /\ d'.global = d.global /\ d'.use_sem = d.use_sem
  BY <1>3, SyncFacts
<1>5. SyncTypes'
  BY <1>1, <1>2, <1>3, <1>4 DEF SyncTypes
<1>6. \A p \in Children : Made(p)' = Made(p)
  BY <1>2, <1>4 DEF Made
<1>7. Tally'
  BY <1>1, <1>2, <1>4, <1>6, TallyStays DEF Tally
<1>8. Joining' = IF d' = d THEN Joining ELSE Joining + 1
  <2>1. d' # d => d'.count[Test] = d.count[Test] + 1
    BY <1>3
  <2>2. d.count[Test] \in Nat
    BY <1>3
  <2>3. QED
    BY <2>1, <2>2 DEF Joining
<1>9. QED
  BY <1>2, <1>4, <1>5, <1>7, <1>8

\* The test at one of its statements runs, and is the current process.
LEMMA TestRuns ==
  ASSUME NEW first, Family(first), NEW child, Awaits(child), NEW here \in Statements \ {"halt", "resume"}, At(Test, here)
  PROVE  /\ pc[Test] = here /\ k.current = Test /\ InQueue(k, "ready", Test) /\ Exists(k, Test)
         /\ Test < k.nextPid /\ CanBlock(k, Test) /\ ~InQueue(k, "blockedBySem", Test)
<1>1. pc[Test] = here /\ InQueue(k, "ready", Test) /\ Sane(k) /\ Test < k.nextPid
  BY DEF At, Awaits, Family
<1>2. Exists(k, Test)
  BY <1>1, Placed, TestPid, PidFact
<1>3. QED
  BY <1>1, <1>2, Current, TestPid

\* When every process has been waited for, all have ended.
LEMMA AllGone ==
  ASSUME SyncInv, program = "test_sync", pc[Test] \in {"close", "exit", "halt"}
  PROVE  /\ \A p \in Children : ~Exists(k, p) /\ pc[p] = "halt" /\ d.count[p] = N
         /\ \A x \in Pid : ~InQueue(k, "blockedBySem", x)
         /\ k.sems[SEM_ID].blocked = << >>
<1>1. /\ Family("enter") /\ Joined /\ Asleep /\ Tally /\ Sane(k) /\ Joining \in Int
      /\ k.sems[SEM_ID].blocked \in Seq(Pid)
  BY SyncParts
<1>2. Joining > Last /\ k.nextPid = Last + 1
  BY <1>1 DEF Joined
<1>3. ASSUME NEW p \in Children PROVE ~Exists(k, p) /\ pc[p] = "halt" /\ d.count[p] = N
  <2>1. p \in Pid /\ p > Test /\ p \in Int /\ p <= Last /\ Last \in Int
    BY SyncFacts
  <2>2. p < Joining /\ p < k.nextPid
    BY <1>1, <1>2, <2>1
  <2>3. ~Exists(k, p)
    BY <1>1, <2>2 DEF Joined
  <2>4. pc[p] = "halt"
    BY <1>1, <2>1, <2>2, <2>3 DEF Family
  <2>5. QED
    BY <1>1, <2>3, <2>4 DEF Tally
<1>4. ASSUME NEW x \in Pid, InQueue(k, "blockedBySem", x) PROVE FALSE
  <2>1. x \in Children
    BY <1>1, <1>4 DEF Asleep
  <2>2. Exists(k, x)
    BY <1>1, <1>4, Placed, PidFact
  <2>3. QED
    BY <1>3, <2>1, <2>2
<1>5. ASSUME k.sems[SEM_ID].blocked # << >> PROVE FALSE
  <2>1. Head(k.sems[SEM_ID].blocked) \in Pid /\ In(k.sems[SEM_ID].blocked, Head(k.sems[SEM_ID].blocked))
    BY <1>1, <1>5, TailFact DEF Asleep
  <2>2. QED
    BY <1>1, <1>4, <2>1 DEF Asleep
<1>6. QED
  BY <1>3, <1>4, <1>5

\* The test opens its semaphore with one unit.
LEMMA SyncOpen ==
  ASSUME SyncInv, program = "test_sync", UNCHANGED program, Open
  PROVE  SyncInv'
<1>1. At(Test, "open") /\ UNCHANGED d /\ pc' = [pc EXCEPT ![Test] = "spawn"]
      /\ k' = IF d.use_sem THEN SemInit(k, SEM_ID, 1) ELSE k
  BY DEF Open, Goto
<1>2. /\ Family("enter") /\ Awaits(Joining) /\ SyncTypes /\ Joined /\ Asleep /\ Unit /\ Sane(k)
      /\ pc \in [Pid -> Statements]
  BY SyncParts
<1>3. PICK c : c = Joining
  OBVIOUS
<1>4. pc[Test] = "open" /\ InQueue(k, "ready", Test) /\ Test < k.nextPid
  <2>1. Awaits(c)
    BY <1>2, <1>3 DEF Awaits
  <2>2. QED
    BY <1>1, <1>2, <2>1, StatementFact, TestRuns
<1>5. /\ SyncTypes' /\ Tally' /\ pc'[Test] = "spawn" /\ (\A x \in Pid \ {Test} : pc'[x] = pc[x])
      /\ (\A p \in Children : pc'[p] = pc[p]) /\ Joining' = Joining
  BY <1>1, TestMoves
<1>6. k.sems[SEM_ID] = UnusedSem /\ ~k.sems[SEM_ID].used /\ k.sems[SEM_ID].blocked = << >> /\ k.sems[SEM_ID].value = 0
  BY <1>2, <1>4 DEF Unit, UnusedSem
<1>7. /\ Quietly(k, k') /\ SameQueues(k, k')
      /\ k'.sems[SEM_ID] = IF d.use_sem THEN NewSem(1) ELSE UnusedSem
  <2>1. CASE d.use_sem
    <3>1. k' = SemInit(k, SEM_ID, 1) /\ WF(k, {}) /\ 1 \in Nat /\ SEM_ID \in SemId
      BY <1>1, <1>2, <2>1, SaneTypes, SyncFacts
    <3>2. /\ Steps(k, k', {}) /\ SameFields(k, k') /\ SameCpu(k, k') /\ k'.sems[SEM_ID] = NewSem(1)
          /\ \A q \in QueueName, x \in Pid : InQueue(k', q, x) <=> InQueue(k, q, x)
      BY <1>6, <3>1, SemInitEffect
    <3>3. Sane(k') /\ k'.nextPid = k.nextPid
      BY <1>2, <3>2, StepsSane DEF Dispatched
    <3>4. QED
      BY <2>1, <3>2, <3>3 DEF Quietly, SameQueues
  <2>2. CASE ~d.use_sem
    BY <1>1, <1>2, <1>6, <2>2, QuietSame DEF SameQueues
  <2>3. QED
    BY <1>2, <2>1, <2>2 DEF SyncTypes
<1>8. Family("enter")'
  BY <1>1, <1>2, <1>4, <1>7, FamilyGoes, TestPid, StatementFact
<1>9. Awaits(Joining)'
  <2>1. InQueue(k', "ready", Test)
    BY <1>4, <1>7, TestPid, PidFact DEF SameQueues
  <2>2. QED
    BY <1>5, <2>1 DEF Awaits
<1>10. \A x \in Children : ~Exists(k, x) /\ ~Exists(k', x) /\ pc[x] = "enter"
  <2>1. \A x \in Children : x \in Pid /\ x > Test /\ x # IdlePid /\ x \in Int /\ x >= 3
    BY SyncFacts, TestPid DEF Children
  <2>2. \A x \in Children : x >= k.nextPid /\ ~(x < k.nextPid)
    BY <1>2, <1>4, <2>1 DEF Joined
  <2>3. \A x \in Children : ~Exists(k, x) /\ pc[x] = "enter"
    BY <1>2, <2>1, <2>2 DEF Family
  <2>4. QED
    BY <1>7, <2>1, <2>3, ExistsSame DEF Quietly
<1>11. Joined'
  BY <1>2, <1>4, <1>5, <1>7, <1>10, SyncFacts DEF Joined, Quietly
<1>12. k'.sems[SEM_ID].blocked = << >> /\ \A x \in Pid : ~InQueue(k', "blockedBySem", x)
  <2>1. \A x \in Pid : ~InQueue(k, "blockedBySem", x)
    BY <1>2, <1>6 DEF Asleep, In
  <2>2. QED
    BY <1>7, <2>1, PidFact DEF SameQueues, NewSem, UnusedSem
<1>13. Asleep'
  <2>1. NoDup(k'.sems[SEM_ID].blocked) /\ \A x \in Pid : ~In(k'.sems[SEM_ID].blocked, x)
    BY <1>12 DEF NoDup, In
  <2>2. QED
    BY <1>10, <1>12, <2>1 DEF Asleep
<1>14. \A p \in Children : ~Inside(p)'
  BY <1>5, <1>10 DEF Inside
<1>15. Unit'
  BY <1>1, <1>5, <1>7, <1>14 DEF Unit, NewSem, UnusedSem
<1>16. QED
  BY <1>5, <1>8, <1>9, <1>11, <1>13, <1>15 DEF SyncInv

\* The test starts its processes.
LEMMA SyncSpawn ==
  ASSUME SyncInv, program = "test_sync", UNCHANGED program, Spawn
  PROVE  SyncInv'
<1> DEFINE n == k.nextPid
<1>1. At(Test, "spawn") /\ UNCHANGED d
  BY DEF Spawn
<1>2. /\ Family("enter") /\ Awaits(Joining) /\ SyncTypes /\ Joined /\ Asleep /\ Unit /\ Tally /\ Sane(k)
      /\ pc \in [Pid -> Statements] /\ n \in Int
  BY SyncParts
<1>3. PICK c : c = Joining
  OBVIOUS
<1>4. pc[Test] = "spawn" /\ InQueue(k, "ready", Test) /\ Test < n /\ k.current = Test
  <2>1. Awaits(c)
    BY <1>2, <1>3 DEF Awaits
  <2>2. QED
    BY <1>1, <1>2, <2>1, StatementFact, TestRuns
<1>5. CASE n <= Last
  <2>1. k' = CreateProcess(k, 1, FALSE, FALSE) /\ UNCHANGED pc
    BY <1>5 DEF Spawn
  <2>2. n <= MaxPid /\ 1 \in Nat /\ 1 <= MAX_PRIORITY
    BY <1>2, <1>5, SyncFacts, TestPid, ProgramAssumption
  <2>3. Birth(k, k', n, 1)
    BY <1>2, <2>1, <2>2, CreatePart
  <2>4. Family("enter")'
    BY <1>2, <1>4, <2>1, <2>3, FamilyBirth
  <2>5. /\ Sane(k') /\ n \in Pid /\ k'.nextPid = n + 1 /\ k'.sems = k.sems
        /\ OneMoves(k, k', n, "ready") /\ \A x \in Pid \ {n} : SameKin(k, k', x)
    BY <2>3 DEF Birth
  <2>6. Joining' = Joining /\ pc'[Test] = "spawn"
    BY <1>1, <1>4, <2>1 DEF Joining
  <2>7. \A x \in Pid : /\ InQueue(k', "ready", x) <=> x = n \/ InQueue(k, "ready", x)
                       /\ InQueue(k', "blockedBySem", x) <=> x # n /\ InQueue(k, "blockedBySem", x)
    BY <2>5, PidFact DEF OneMoves
  <2>8. ~Exists(k, n) /\ ~InQueue(k, "blockedBySem", n)
    BY <1>2, <2>5, Placed, PidFact
  <2>9. Awaits(Joining)'
    BY <1>4, <2>6, <2>7, TestPid DEF Awaits
  <2>10. \A x \in Children : x # n => (Exists(k', x) <=> Exists(k, x))
    BY <2>5, SyncFacts DEF SameKin, Exists
  <2>11. Joined'
    <3>1. k'.nextPid \in 3..(Last + 1)
      BY <1>2, <1>4, <1>5, <2>5, SyncFacts, TestPid
    <3>2. \A p \in Children : ~(p < Joining)
      BY <1>2, <1>4, SyncFacts, TestPid DEF Joined
    <3>3. QED
      BY <1>2, <1>4, <2>6, <3>1, <3>2 DEF Joined
  <2>12. \A x \in Pid : InQueue(k', "blockedBySem", x) <=> InQueue(k, "blockedBySem", x)
    BY <2>7, <2>8
  <2>13. \A x \in Children : Exists(k', x) => InQueue(k', "ready", x) \/ InQueue(k', "blockedBySem", x)
    BY <1>2, <2>7, <2>10, <2>12, SyncFacts DEF Asleep
  <2>14. \A x \in Children : Inside(x)' => Inside(x)
    BY <2>1, <2>12, SyncFacts DEF Inside
  <2>15. Asleep' /\ Unit'
    BY <1>1, <1>2, <2>1, <2>5, <2>12, <2>13, <2>14, Untouched
  <2>16. SyncTypes'
    BY <1>1, <1>2, <2>1 DEF SyncTypes
  <2>17. Tally'
    BY <1>1, <1>2, <2>1 DEF Tally, MadeBy, Made, Up, Down
  <2>18. QED
    BY <2>4, <2>9, <2>11, <2>15, <2>16, <2>17 DEF SyncInv
<1>6. CASE ~(n <= Last)
  <2>1. UNCHANGED k /\ pc' = [pc EXCEPT ![Test] = "join"]
    BY <1>6 DEF Spawn, Goto
  <2>2. /\ SyncTypes' /\ Tally' /\ pc'[Test] = "join" /\ (\A x \in Pid \ {Test} : pc'[x] = pc[x])
        /\ (\A p \in Children : pc'[p] = pc[p]) /\ Joining' = Joining
    BY <1>1, <2>1, TestMoves
  <2>3. Quietly(k, k')
    BY <1>2, <2>1, QuietSame
  <2>4. Family("enter")'
    BY <1>2, <1>4, <2>1, <2>3, FamilyGoes, TestPid, StatementFact
  <2>5. Awaits(Joining)'
    BY <1>4, <2>1, <2>2 DEF Awaits
  <2>6. Joined'
    <3>1. n = Last + 1
      BY <1>2, <1>6, SyncFacts DEF Joined
    <3>2. QED
      BY <1>2, <1>4, <2>1, <2>2, <3>1 DEF Joined
  <2>7. \A x \in Children : Inside(x)' => Inside(x)
    BY <2>1, <2>2 DEF Inside
  <2>8. Asleep' /\ Unit'
    BY <1>1, <1>2, <1>4, <2>1, <2>2, <2>7, SyncFacts, Untouched DEF Asleep
  <2>9. QED
    BY <2>2, <2>4, <2>5, <2>6, <2>8 DEF SyncInv
<1>7. QED
  BY <1>5, <1>6

\* The semaphore and its sleepers do not see the test move.
LEMMA TestPasses ==
  ASSUME SyncInv, program = "test_sync", k'.sems = k.sems, d'.use_sem = d.use_sem,
         \A p \in Children : pc'[p] = pc[p],
         pc'[Test] \notin {"open", "exit", "halt"}, pc[Test] \notin {"open", "exit", "halt"},
         \A q \in QueueName, x \in Pid \ {Test} : InQueue(k', q, x) <=> InQueue(k, q, x),
         ~InQueue(k', "blockedBySem", Test), ~InQueue(k, "blockedBySem", Test),
         \A x \in Children : Exists(k', x) <=> Exists(k, x)
  PROVE  Asleep' /\ Unit'
<1>1. Asleep /\ Unit
  BY SyncParts
<1>2. \A x \in Pid : InQueue(k', "blockedBySem", x) <=> InQueue(k, "blockedBySem", x)
  BY PidFact
<1>3. \A x \in Children : InQueue(k', "ready", x) <=> InQueue(k, "ready", x)
  BY PidFact, SyncFacts
<1>4. \A x \in Children : Exists(k', x) => InQueue(k', "ready", x) \/ InQueue(k', "blockedBySem", x)
  BY <1>1, <1>2, <1>3, SyncFacts DEF Asleep
<1>5. \A x \in Children : Inside(x)' => Inside(x)
  BY <1>2, SyncFacts DEF Inside
<1>6. QED
  BY <1>1, <1>2, <1>4, <1>5, Untouched

\* The test waits for its processes, one after the other.
LEMMA SyncJoin ==
  ASSUME SyncInv, program = "test_sync", UNCHANGED program, Join
  PROVE  SyncInv'
<1>1. At(Test, "join")
  BY DEF Join
<1>2. /\ Family("enter") /\ Awaits(Joining) /\ SyncTypes /\ Joined /\ Asleep /\ Sane(k)
      /\ pc \in [Pid -> Statements] /\ Joining \in Int
  BY SyncParts
<1>3. PICK c : c = Joining
  OBVIOUS
<1>4. Awaits(c)
  BY <1>2, <1>3 DEF Awaits
<1>5. pc[Test] = "join" /\ InQueue(k, "ready", Test) /\ Test < k.nextPid /\ ~InQueue(k, "blockedBySem", Test)
  BY <1>1, <1>2, <1>4, StatementFact, TestRuns
<1>6. CASE AfterJoin = "close"
  <2>1. UNCHANGED <<k, d>> /\ pc' = [pc EXCEPT ![Test] = "close"]
    BY <1>6 DEF Join, Goto
  <2>2. Joining > Last
    BY <1>2, <1>6, SyncFacts DEF AfterJoin
  <2>3. /\ SyncTypes' /\ Tally' /\ pc'[Test] = "close" /\ (\A x \in Pid \ {Test} : pc'[x] = pc[x])
        /\ (\A p \in Children : pc'[p] = pc[p]) /\ Joining' = Joining
    BY <2>1, TestMoves
  <2>4. Quietly(k, k')
    BY <1>2, <2>1, QuietSame
  <2>5. Family("enter")'
    BY <1>2, <1>5, <2>1, <2>4, FamilyGoes, TestPid, StatementFact
  <2>6. Awaits(Joining)'
    BY <1>5, <2>1, <2>3 DEF Awaits
  <2>7. Joined'
    BY <1>2, <1>5, <2>1, <2>2, <2>3 DEF Joined
  <2>8. Asleep' /\ Unit'
    BY <1>5, <2>1, <2>3, TestPasses
  <2>9. QED
    BY <2>3, <2>5, <2>6, <2>7, <2>8 DEF SyncInv
<1>7. CASE AfterJoin # "close"
  <2>1. Joining <= Last /\ AwaitChild(Joining, "join")
        /\ d' = IF pc'[Test] = "resume" THEN d ELSE [d EXCEPT !.count[Test] = @ + 1]
    BY <1>7 DEF Join, AfterJoin
  <2>2. c \in Pid /\ c > Test /\ c \in Children
    <3>1. d.count[Test] \in Nat /\ Joining > Test
      BY <1>2, TestPid DEF SyncTypes, Joining
    <3>2. QED
      BY <1>2, <1>3, <2>1, <3>1, SyncFacts, TestPid DEF Pid, Children
  <2>3. AwaitChild(c, "join")
    BY <1>3, <2>1
  <2>4. Exists(k, c) => Queued(k, c)
    BY <1>2, <2>2, PidFact DEF Asleep, Queued
  <2>5. /\ Family("enter")'
        /\ \/ /\ Exists(k, c) /\ pc' = [pc EXCEPT ![Test] = "resume"] /\ Awaits(c)'
              /\ k'.sems = k.sems /\ k'.nextPid = k.nextPid /\ SamePrio(k, k')
              /\ OneMoves(k, k', Test, "blocked")
              /\ \A x \in Pid : x > Test => (Exists(k', x) <=> Exists(k, x))
           \/ /\ ~Exists(k, c) /\ pc' = [pc EXCEPT ![Test] = "join"] /\ UNCHANGED k
              /\ InQueue(k, "ready", Test)
    BY <1>1, <1>2, <1>4, <2>2, <2>3, <2>4, StatementFact, AwaitStep
  <2>6. CASE pc' = [pc EXCEPT ![Test] = "resume"]
    <3>1. pc'[Test] = "resume" /\ UNCHANGED d
      BY <1>2, <2>1, <2>6, TestPid
    <3>2. /\ SyncTypes' /\ Tally' /\ (\A x \in Pid \ {Test} : pc'[x] = pc[x])
          /\ (\A p \in Children : pc'[p] = pc[p]) /\ Joining' = Joining
      BY <2>6, <3>1, TestMoves
    <3>3. /\ Awaits(c)' /\ k'.sems = k.sems /\ k'.nextPid = k.nextPid /\ OneMoves(k, k', Test, "blocked")
          /\ \A x \in Pid : x > Test => (Exists(k', x) <=> Exists(k, x))
      <4>1. pc' # [pc EXCEPT ![Test] = "join"]
        BY <1>2, <3>1, TestPid
      <4>2. QED
        BY <2>5, <4>1
    <3>4. Awaits(Joining)'
      BY <1>3, <3>2, <3>3 DEF Awaits
    <3>5. \A x \in Children : Exists(k', x) <=> Exists(k, x)
      BY <3>3, SyncFacts
    <3>6. Joined'
      BY <1>2, <1>5, <2>1, <3>1, <3>2, <3>3, <3>5 DEF Joined
    <3>7. ~InQueue(k', "blockedBySem", Test)
          /\ \A q \in QueueName, x \in Pid \ {Test} : InQueue(k', q, x) <=> InQueue(k, q, x)
      BY <3>3, TestPid, PidFact DEF OneMoves
    <3>8. Asleep' /\ Unit'
      BY <1>5, <3>1, <3>2, <3>3, <3>5, <3>7, TestPasses
    <3>9. QED
      BY <2>5, <3>2, <3>4, <3>6, <3>8 DEF SyncInv
  <2>7. CASE pc' = [pc EXCEPT ![Test] = "join"]
    <3>1. pc'[Test] = "join" /\ d' = [d EXCEPT !.count[Test] = @ + 1] /\ d' # d
      <4>1. pc'[Test] = "join"
        BY <1>2, <2>7, TestPid
      <4>2. d' = [d EXCEPT !.count[Test] = @ + 1]
        BY <2>1, <4>1
      <4>3. d'.count[Test] = d.count[Test] + 1 /\ d.count[Test] \in Nat
        <5>1. /\ d = [aux |-> d.aux, count |-> d.count, global |-> d.global, use_sem |-> d.use_sem]
              /\ d.count \in [{Test} \cup Children -> Nat]
          BY <1>2 DEF SyncTypes
        <5>2. d'.count = [d.count EXCEPT ![Test] = @ + 1]
          BY <4>2, <5>1
        <5>3. QED
          BY <5>1, <5>2
      <4>4. d' # d
        BY <4>3
      <4>5. QED
        BY <4>1, <4>2, <4>4
    <3>2. /\ SyncTypes' /\ Tally' /\ (\A x \in Pid \ {Test} : pc'[x] = pc[x])
          /\ (\A p \in Children : pc'[p] = pc[p]) /\ Joining' = Joining + 1 /\ d'.use_sem = d.use_sem
      BY <2>7, <3>1, TestMoves
    <3>3. ~Exists(k, c) /\ UNCHANGED k
      <4>1. pc' # [pc EXCEPT ![Test] = "resume"]
        BY <1>2, <3>1, TestPid
      <4>2. QED
        BY <2>5, <4>1
    <3>4. Awaits(Joining)'
      BY <1>5, <3>1, <3>3 DEF Awaits
    <3>5. \A p \in Children : p < Joining + 1 => ~Exists(k, p)
      <4>1. \A p \in Children : p < Joining + 1 => p < Joining \/ p = c
        BY <1>2, <1>3, SyncFacts
      <4>2. QED
        BY <1>2, <3>3, <4>1 DEF Joined
    <3>6. Joined'
      BY <1>2, <1>5, <3>1, <3>2, <3>3, <3>5 DEF Joined
    <3>7. Asleep' /\ Unit'
      BY <1>5, <3>1, <3>2, <3>3, TestPasses
    <3>8. QED
      BY <2>5, <3>2, <3>4, <3>6, <3>7 DEF SyncInv
  <2>8. QED
    BY <2>5, <2>6, <2>7
<1>8. QED
  BY <1>6, <1>7

\* waitpid returns.
LEMMA SyncJoinResume ==
  ASSUME SyncInv, program = "test_sync", UNCHANGED program, JoinResume
  PROVE  SyncInv'
<1>1. At(Test, "resume") /\ UNCHANGED k /\ pc' = [pc EXCEPT ![Test] = "join"]
      /\ d' = [d EXCEPT !.count[Test] = @ + 1]
  BY DEF JoinResume, Goto
<1>2. /\ Family("enter") /\ Awaits(Joining) /\ SyncTypes /\ Joined /\ Asleep /\ Sane(k)
      /\ pc \in [Pid -> Statements] /\ Joining \in Int /\ pc[Test] = "resume"
  BY <1>1, SyncParts DEF At
<1>3. PICK c : c = Joining
  OBVIOUS
<1>4. ~Exists(k, c) /\ InQueue(k, "ready", Test) /\ Test < k.nextPid /\ ~InQueue(k, "blockedBySem", Test)
  <2>1. Awaits(c)
    BY <1>2, <1>3 DEF Awaits
  <2>2. ~Exists(k, c) /\ InQueue(k, "ready", Test)
    BY <1>1, <1>2, <2>1, ResumeStep
  <2>3. QED
    BY <1>2, <2>2, Placed, TestPid DEF Family
<1>5. d' # d
  <2>1. d.count \in [{Test} \cup Children -> Nat] /\ d'.count = [d.count EXCEPT ![Test] = @ + 1]
    BY <1>1, <1>2 DEF SyncTypes
  <2>2. d'.count[Test] = d.count[Test] + 1 /\ d.count[Test] \in Nat
    BY <2>1
  <2>3. QED
    BY <2>2
<1>6. /\ SyncTypes' /\ Tally' /\ pc'[Test] = "join" /\ (\A x \in Pid \ {Test} : pc'[x] = pc[x])
      /\ (\A p \in Children : pc'[p] = pc[p]) /\ Joining' = Joining + 1 /\ d'.use_sem = d.use_sem
  BY <1>1, <1>5, TestMoves
<1>7. Quietly(k, k')
  BY <1>1, <1>2, QuietSame
<1>8. Family("enter")'
  BY <1>1, <1>2, <1>4, <1>7, FamilyGoes, TestPid, StatementFact
<1>9. Awaits(Joining)'
  BY <1>1, <1>4, <1>6 DEF Awaits
<1>10. \A p \in Children : p < Joining + 1 => ~Exists(k, p)
  <2>1. \A p \in Children : p < Joining + 1 => p < Joining \/ p = c
    BY <1>2, <1>3, SyncFacts
  <2>2. QED
    BY <1>2, <1>4, <2>1 DEF Joined
<1>11. Joined'
  BY <1>1, <1>2, <1>6, <1>10 DEF Joined
<1>12. Asleep' /\ Unit'
  BY <1>1, <1>2, <1>4, <1>6, TestPasses
<1>13. QED
  BY <1>6, <1>8, <1>9, <1>11, <1>12 DEF SyncInv

\* The test closes its semaphore: nobody sleeps on it.
LEMMA SyncClose ==
  ASSUME SyncInv, program = "test_sync", UNCHANGED program, Close
  PROVE  SyncInv'
<1>1. At(Test, "close") /\ UNCHANGED d /\ pc' = [pc EXCEPT ![Test] = "exit"]
      /\ k' = IF d.use_sem THEN SemClose(k, SEM_ID) ELSE k
  BY DEF Close, Goto
<1>2. /\ Family("enter") /\ Awaits(Joining) /\ SyncTypes /\ Joined /\ Unit /\ Sane(k)
      /\ pc \in [Pid -> Statements]
  BY SyncParts
<1>3. PICK c : c = Joining
  OBVIOUS
<1>4. pc[Test] = "close" /\ InQueue(k, "ready", Test) /\ Test < k.nextPid
  <2>1. Awaits(c)
    BY <1>2, <1>3 DEF Awaits
  <2>2. QED
    BY <1>1, <1>2, <2>1, StatementFact, TestRuns
<1>5. /\ SyncTypes' /\ Tally' /\ pc'[Test] = "exit" /\ (\A x \in Pid \ {Test} : pc'[x] = pc[x])
      /\ (\A p \in Children : pc'[p] = pc[p]) /\ Joining' = Joining
  BY <1>1, TestMoves
<1>6. /\ \A p \in Children : ~Exists(k, p) /\ pc[p] = "halt"
      /\ \A x \in Pid : ~InQueue(k, "blockedBySem", x)
  BY <1>4, AllGone
<1>7. Quietly(k, k') /\ SameQueues(k, k') /\ k'.sems[SEM_ID] = UnusedSem
  <2>1. CASE d.use_sem
    <3>1. k' = SemClose(k, SEM_ID) /\ WF(k, {}) /\ 0 \in Nat /\ SEM_ID \in SemId /\ k.sems \in [SemId -> Sem]
          /\ k \in KernelState
      BY <1>1, <1>2, <2>1, SaneTypes, SyncFacts DEF WF
    <3>2. k.sems[SEM_ID].used
      BY <1>2, <1>4, <2>1 DEF Unit
    <3>3. k'.sems[SEM_ID] = UnusedSem
      BY <3>1, <3>2 DEF SemClose, KernelState
    <3>4. Steps(k, k', {})
      BY <3>1, SemEntryFact
    <3>5. SameFields(k, k') /\ SameCpu(k, k') /\ k'.queue = k.queue
      BY <3>1, EntryEffect
    <3>6. Sane(k') /\ k'.nextPid = k.nextPid
      BY <1>2, <3>4, <3>5, StepsSane DEF Dispatched
    <3>7. QED
      BY <3>3, <3>5, <3>6 DEF Quietly, SameQueues, InQueue
  <2>2. CASE ~d.use_sem
    BY <1>1, <1>2, <2>2, QuietSame DEF SameQueues, Unit
  <2>3. QED
    BY <1>2, <2>1, <2>2 DEF SyncTypes
<1>8. Family("enter")'
  BY <1>1, <1>2, <1>4, <1>7, FamilyGoes, TestPid, StatementFact
<1>9. Awaits(Joining)'
  <2>1. InQueue(k', "ready", Test)
    BY <1>4, <1>7, TestPid, PidFact DEF SameQueues
  <2>2. QED
    BY <1>5, <2>1 DEF Awaits
<1>10. \A x \in Children : ~Exists(k', x)
  BY <1>6, <1>7, ExistsSame, SyncFacts DEF Quietly
<1>11. Joined'
  BY <1>2, <1>4, <1>5, <1>7, <1>10 DEF Joined, Quietly
<1>12. k'.sems[SEM_ID].blocked = << >> /\ \A x \in Pid : ~InQueue(k', "blockedBySem", x)
  BY <1>6, <1>7, PidFact DEF SameQueues, UnusedSem
<1>13. Asleep'
  <2>1. NoDup(k'.sems[SEM_ID].blocked) /\ \A x \in Pid : ~In(k'.sems[SEM_ID].blocked, x)
    BY <1>12 DEF NoDup, In
  <2>2. QED
    BY <1>10, <1>12, <2>1 DEF Asleep
<1>14. \A p \in Children : ~Inside(p)'
  BY <1>5, <1>6 DEF Inside
<1>15. Unit'
  BY <1>1, <1>5, <1>7, <1>14 DEF Unit, UnusedSem
<1>16. QED
  BY <1>5, <1>8, <1>9, <1>11, <1>13, <1>15 DEF SyncInv

\* A process ends.
LEMMA SyncExit ==
  ASSUME SyncInv, program = "test_sync", UNCHANGED program, NEW p \in Children, Exit(p)
  PROVE  SyncInv'
<1>1. /\ Family("enter") /\ Awaits(Joining) /\ SyncTypes /\ Joined /\ Asleep /\ Unit /\ Tally /\ Sane(k)
      /\ pc \in [Pid -> Statements] /\ Joining \in Int
      /\ pc[Test] = "resume" => Joining \in Pid /\ Joining > Test
  BY SyncParts
<1>2. p \in Pid /\ p > Test /\ p # Test /\ p # IdlePid
  BY SyncFacts
<1>3. /\ Family("enter")' /\ UNCHANGED d /\ pc' = [pc EXCEPT ![p] = "halt"] /\ pc[p] = "exit"
      /\ k'.sems = k.sems /\ k'.nextPid = k.nextPid /\ ~Exists(k', p)
      /\ \A x \in Pid : x # p /\ x # IdlePid => (Exists(k', x) <=> Exists(k, x))
      /\ \A q \in QueueName \ {"zombie"}, x \in Pid :
           InQueue(k', q, x) <=> /\ x # p
                                 /\ IF Wakes(k, x, Test, p) THEN q = "ready" ELSE InQueue(k, q, x)
  BY <1>1, <1>2, ChildExit
<1>4. PICK c : c = Joining
  OBVIOUS
<1>5. Joining' = Joining
  BY <1>3 DEF Joining
<1>6. Awaits(Joining)'
  <2>1. Awaits(c)
    BY <1>1, <1>4 DEF Awaits
  <2>2. Awaits(c)'
    BY <1>1, <1>2, <1>4, <2>1, AwaitsExit
  <2>3. QED
    BY <1>4, <1>5, <2>2 DEF Awaits
<1>7. pc'[p] = "halt" /\ \A x \in Pid \ {p} : pc'[x] = pc[x]
  BY <1>1, <1>2, <1>3
<1>8. \A x \in Children : Exists(k', x) => x # p /\ Exists(k, x)
  BY <1>3, SyncFacts
<1>9. pc'[Test] = pc[Test]
  BY <1>2, <1>7, TestPid
<1>10. Joined'
  BY <1>1, <1>3, <1>8, <1>9, JoinedStays
<1>11. SyncTypes'
  BY <1>1, <1>3, <1>7, <1>9, SyncFacts DEF SyncTypes
<1>12. Tally'
  <2>1. \A x \in Children : /\ pc'[x] \in {"exit", "halt"} <=> pc[x] \in {"exit", "halt"}
                            /\ pc'[x] = "leave" <=> pc[x] = "leave"
                            /\ pc'[x] = "store" <=> pc[x] = "store"
    BY <1>3, <1>7, SyncFacts
  <2>2. \A x \in Children : Made(x)' = Made(x)
    BY <1>3, <2>1 DEF Made
  <2>3. QED
    BY <1>1, <1>3, <2>1, <2>2, TallyStays DEF Tally
<1>13. At(p, "exit") /\ ~InQueue(k, "blockedBySem", p)
  <2>1. At(p, "exit")
    BY DEF Exit
  <2>2. QED
    BY <1>1, <1>2, <2>1, StatementFact, Current
<1>14. \A x \in Pid : InQueue(k', "blockedBySem", x) <=> InQueue(k, "blockedBySem", x)
  <2>1. \A x \in Pid : Wakes(k, x, Test, p) => ~InQueue(k, "blockedBySem", x)
    BY <1>1, Placed DEF Wakes
  <2>2. "blockedBySem" \in QueueName \ {"zombie"}
    BY NameFact
  <2>3. QED
    BY <1>3, <1>13, <2>1, <2>2
<1>15. \A x \in Children : Exists(k', x) => InQueue(k', "ready", x) \/ InQueue(k', "blockedBySem", x)
  <2>1. ASSUME NEW x \in Children, Exists(k', x), InQueue(k, "ready", x) PROVE InQueue(k', "ready", x)
    BY <1>3, <1>8, <2>1, NameFact, SyncFacts
  <2>2. QED
    BY <1>1, <1>8, <1>14, <2>1, SyncFacts DEF Asleep
<1>16. \A x \in Children : Inside(x)' => Inside(x)
  BY <1>7, <1>14, SyncFacts DEF Inside
<1>17. \A x \in Children : InQueue(k, "blockedBySem", x) => pc'[x] = pc[x]
  BY <1>7, <1>13, SyncFacts
<1>18. Asleep' /\ Unit'
  BY <1>1, <1>3, <1>9, <1>14, <1>15, <1>16, <1>17, Untouched
<1>19. QED
  BY <1>3, <1>6, <1>10, <1>11, <1>12, <1>18 DEF SyncInv

\* The test ends.
LEMMA SyncEnd ==
  ASSUME SyncInv, program = "test_sync", UNCHANGED program, Exit(Test)
  PROVE  SyncInv'
<1>1. /\ Family("enter") /\ Awaits(Joining) /\ SyncTypes /\ Joined /\ Asleep /\ Unit /\ Tally /\ Sane(k)
      /\ pc \in [Pid -> Statements] /\ Joining \in Int
  BY SyncParts
<1>2. PICK c : c = Joining
  OBVIOUS
<1>3. Awaits(c)
  BY <1>1, <1>2 DEF Awaits
<1>4. /\ Family("enter")' /\ Awaits(c)' /\ UNCHANGED d /\ pc' = [pc EXCEPT ![Test] = "halt"]
      /\ pc[Test] = "exit" /\ k'.nextPid = k.nextPid
      /\ k'.sems[SEM_ID] = k.sems[SEM_ID]
      /\ \A x \in Pid : InQueue(k', "blockedBySem", x) => InQueue(k, "blockedBySem", x)
      /\ \A x \in Pid : x > Test => (Exists(k', x) <=> Exists(k, x))
  BY <1>1, <1>3, ProgramExit, SyncFacts
<1>5. /\ SyncTypes' /\ Tally' /\ pc'[Test] = "halt" /\ (\A x \in Pid \ {Test} : pc'[x] = pc[x])
      /\ (\A p \in Children : pc'[p] = pc[p]) /\ Joining' = Joining
  BY <1>4, TestMoves
<1>6. Awaits(Joining)'
  BY <1>2, <1>4, <1>5 DEF Awaits
<1>7. /\ \A p \in Children : ~Exists(k, p) /\ pc[p] = "halt"
      /\ \A x \in Pid : ~InQueue(k, "blockedBySem", x)
  BY <1>4, AllGone
<1>8. \A p \in Children : ~Exists(k', p)
  BY <1>4, <1>7, SyncFacts
<1>9. Joined'
  BY <1>1, <1>4, <1>5, <1>8 DEF Joined
<1>10. \A x \in Pid : InQueue(k', "blockedBySem", x) <=> InQueue(k, "blockedBySem", x)
  BY <1>4, <1>7
<1>11. \A p \in Children : ~Inside(p)'
  BY <1>5, <1>7 DEF Inside
<1>12. Asleep' /\ Unit'
  BY <1>1, <1>4, <1>5, <1>8, <1>10, <1>11, Untouched
<1>13. QED
  BY <1>4, <1>5, <1>6, <1>9, <1>12 DEF SyncInv

LEMMA SyncNextInv == SyncInv /\ [Next]_vars => SyncInv'
<1> SUFFICES ASSUME SyncInv, [Next]_vars PROVE SyncInv'
  OBVIOUS
<1>1. CASE SyncStep
  <2>1. program = "test_sync" /\ UNCHANGED program /\ SyncNext
    BY <1>1 DEF SyncStep
  <2>2. CASE \E p \in Children : SyncChild(p) \/ SlowYield(p)
    <3>1. PICK p \in Children : SyncChild(p) \/ SlowYield(p)
      BY <2>2
    <3>2. CASE Enter(p)
      BY <2>1, <3>2, SyncEnter
    <3>3. CASE Load(p)
      BY <2>1, <3>3, SyncLoad
    <3>4. CASE Store(p)
      BY <2>1, <3>4, SyncStore
    <3>5. CASE Leave(p)
      BY <2>1, <3>5, SyncLeave
    <3>6. CASE Exit(p)
      BY <2>1, <3>6, SyncExit
    <3>7. CASE SlowYield(p)
      <4>1. UNCHANGED <<program, pc, d>> /\ k' = Yield(k)
        BY <2>1, <3>7 DEF SlowYield
      <4>2. QED
        BY <2>1, <4>1, SyncInterrupted
    <3>8. QED
      BY <3>1, <3>2, <3>3, <3>4, <3>5, <3>6, <3>7 DEF SyncChild
  <2>3. CASE Open
    BY <2>1, <2>3, SyncOpen
  <2>4. CASE Spawn
    BY <2>1, <2>4, SyncSpawn
  <2>5. CASE Join
    BY <2>1, <2>5, SyncJoin
  <2>6. CASE JoinResume
    BY <2>1, <2>6, SyncJoinResume
  <2>7. CASE Close
    BY <2>1, <2>7, SyncClose
  <2>8. CASE Exit(Test)
    BY <2>1, <2>8, SyncEnd
  <2>9. CASE Tick
    <3>1. UNCHANGED <<program, pc, d>> /\ k' = Schedule(k)
      BY <2>1, <2>9 DEF Tick, Interrupt
    <3>2. QED
      BY <2>1, <3>1, SyncInterrupted
  <2>10. QED
    BY <2>1, <2>2, <2>3, <2>4, <2>5, <2>6, <2>7, <2>8, <2>9 DEF SyncNext, SyncTest
<1>2. CASE ShellResume
  <2>1. UNCHANGED <<program, k, d>>
    BY <1>2, ShellStep
  <2>2. CASE program = "test_sync"
    <3>1. Family("enter") /\ Awaits(Joining) /\ SyncTypes /\ Joined /\ Asleep /\ Unit /\ Tally
          /\ pc \in [Pid -> Statements]
      BY <2>2, SyncParts
    <3>2. pc' \in [Pid -> Statements] /\ (\A x \in Pid \ {ShellPid} : pc'[x] = pc[x])
      BY <1>2, <3>1, ShellStep
    <3>3. pc'[Test] = pc[Test] /\ (\A x \in Pid : x > Test => pc'[x] = pc[x]) /\ \A x \in Children : pc'[x] = pc[x]
      <4>1. \A x \in Pid : x > Test => x # ShellPid
        BY TestPid
      <4>2. QED
        BY <3>2, <4>1, TestPid, SyncFacts
    <3>4. Family("enter")'
      BY <2>1, <3>1, <3>2, <3>3 DEF Family
    <3>5. Awaits(Joining)' /\ Joined' /\ SyncTypes'
      BY <2>1, <3>1, <3>3 DEF Awaits, Joined, Joining, SyncTypes
    <3>6. Asleep'
      BY <2>1, <3>1, <3>3 DEF Asleep
    <3>7. \A x \in Children : Inside(x)' <=> Inside(x)
      BY <2>1, <3>3 DEF Inside
    <3>8. Unit'
      BY <2>1, <3>1, <3>3, <3>7 DEF Unit
    <3>9. \A x \in Children : Made(x)' = Made(x)
      BY <2>1, <3>3 DEF Made
    <3>10. Tally'
      BY <2>1, <3>1, <3>3, <3>9, TallyStays DEF Tally
    <3>11. QED
      BY <3>4, <3>5, <3>6, <3>8, <3>10 DEF SyncInv
  <2>3. CASE program # "test_sync"
    BY <2>1, <2>3 DEF SyncInv
  <2>4. QED
    BY <2>2, <2>3
<1>3. CASE UNCHANGED vars
  BY <1>3 DEF vars, SyncInv, Family, Awaits, SyncTypes, Joined, Joining, Asleep, Unit, Inside, Tally, MadeBy, Made, Up, Down
<1>4. CASE ProcessesStep \/ PrioStep \/ SleepStep
  BY <1>4 DEF ProcessesStep, PrioStep, SleepStep, SyncInv
<1>5. QED
  BY <1>1, <1>2, <1>3, <1>4 DEF Next

\* As many processes add as subtract, N times each.
LEMMA UpAndDown ==
  Cardinality(Up \X (1..N)) = Cardinality(Down \X (1..N))
<1>1. /\ PAIRS \in Nat /\ N \in Nat /\ Last = 2 + 2 * PAIRS /\ Children = 3..Last
      /\ Up \subseteq Children /\ Down \subseteq Children
  BY SyncFacts DEF Children, Up, Down
<1>2. Down = {p \in Children : p % 2 = 1} /\ Up = {p \in Children : p % 2 # 1}
  BY DEF Down, Up, Inc
<1>3. ASSUME NEW p \in Down PROVE p + 1 \in Up
  BY <1>1, <1>2, <1>3
<1>4. ASSUME NEW p \in Up PROVE p - 1 \in Down
  BY <1>1, <1>2, <1>4
<1> DEFINE f == [x \in Down \X (1..N) |-> <<x[1] + 1, x[2]>>]
<1>5. f \in [Down \X (1..N) -> Up \X (1..N)]
  BY <1>3
<1>6. Down \subseteq Int /\ Up \subseteq Int
  BY <1>1
<1>7. ASSUME NEW x \in Down \X (1..N), NEW y \in Down \X (1..N), f[x] = f[y] PROVE x = y
  <2>0. x[1] \in Down /\ y[1] \in Down /\ x = <<x[1], x[2]>> /\ y = <<y[1], y[2]>>
    OBVIOUS
  <2>1. x = <<x[1], x[2]>> /\ y = <<y[1], y[2]>> /\ x[1] \in Int /\ y[1] \in Int
    BY <1>6, <2>0
  <2>2. x[1] + 1 = y[1] + 1 /\ x[2] = y[2]
    BY <1>7
  <2>3. QED
    BY <2>1, <2>2
<1>8. ASSUME NEW y \in Up \X (1..N) PROVE \E x \in Down \X (1..N) : f[x] = y
  <2>0. y = <<y[1], y[2]>> /\ y[1] \in Up /\ y[2] \in 1..N
    OBVIOUS
  <2>1. y = <<y[1], y[2]>> /\ y[1] \in Int /\ y[1] \in Up /\ y[2] \in 1..N
    BY <1>6, <2>0
  <2>2. y[1] - 1 \in Down /\ (y[1] - 1) + 1 = y[1]
    BY <1>4, <2>1
  <2>3. <<y[1] - 1, y[2]>> \in Down \X (1..N) /\ f[<<y[1] - 1, y[2]>>] = y
    BY <2>1, <2>2
  <2>4. QED
    BY <2>3
<1> HIDE DEF f
<1>9. f \in Bijection(Down \X (1..N), Up \X (1..N))
  <2>1. f \in Injection(Down \X (1..N), Up \X (1..N))
    BY <1>5, <1>7, Zenon DEF Injection, IsInjective
  <2>2. f \in Surjection(Down \X (1..N), Up \X (1..N))
    BY <1>5, <1>8, Zenon DEF Surjection
  <2>3. QED
    BY <2>1, <2>2 DEF Bijection
<1>10. IsFiniteSet(Down \X (1..N))
  <2>1. IsFiniteSet(Children) /\ IsFiniteSet(1..N)
    <3>1. Last \in Int /\ N \in Int
      BY <1>1, SyncFacts
    <3>2. QED
      BY <1>1, <3>1, FS_Interval
  <2>2. IsFiniteSet(Down)
    BY <1>1, <2>1, FS_Subset
  <2>3. QED
    BY <2>1, <2>2, FS_Product
<1>11. ExistsBijection(Down \X (1..N), Up \X (1..N))
  BY <1>9 DEF ExistsBijection
<1>12. QED
  BY <1>10, <1>11, FS_Bijection

LEMMA SyncSafe == SyncInv => MutualExclusion /\ EndsWithZero
<1> SUFFICES ASSUME SyncInv, program = "test_sync" PROVE MutualExclusion /\ EndsWithZero
  BY DEF MutualExclusion, EndsWithZero
<1>1. Unit /\ Tally
  BY SyncParts
<1>2. MutualExclusion
  BY <1>1 DEF MutualExclusion, Unit
<1>3. ASSUME pc[Test] \in {"close", "exit", "halt"}
      PROVE  /\ \A p \in Children : k.pcb[p].state = "UNUSED" /\ d.count[p] = N
             /\ k.sems[SEM_ID].blocked = << >>
             /\ d.use_sem => d.global = 0
  <2>1. /\ \A p \in Children : ~Exists(k, p) /\ pc[p] = "halt" /\ d.count[p] = N
        /\ k.sems[SEM_ID].blocked = << >>
    BY <1>3, AllGone
  <2>2. Up \subseteq Children /\ Down \subseteq Children
    BY DEF Up, Down
  <2>3. \A p \in Children : Made(p) = N
    BY <2>1, SyncFacts DEF Made
  <2>4. MadeBy(Up) = Up \X (1..N) /\ MadeBy(Down) = Down \X (1..N)
    BY <2>2, <2>3, SyncFacts DEF MadeBy
  <2>5. d.use_sem => d.global = 0
    <3>1. Cardinality(MadeBy(Up)) = Cardinality(MadeBy(Down)) /\ Cardinality(MadeBy(Up)) \in Nat
      BY <2>2, <2>4, UpAndDown, MadeFinite
    <3>2. QED
      BY <1>1, <3>1 DEF Tally
  <2>6. QED
    BY <2>1, <2>5 DEF Exists
<1>4. QED
  BY <1>2, <1>3 DEF EndsWithZero

\* test_sync: with the semaphore, one process at a time is between reading and
\* writing the shared variable
\* (Userland/SampleCodeModule/tests/test_sync.c, Kernel/semaphores/semaphore.c).
THEOREM OneInside == Spec => []MutualExclusion
<1>1. Init => SyncInv
  BY SyncInitInv
<1>2. SyncInv /\ [Next]_vars => SyncInv'
  BY SyncNextInv
<1>3. SyncInv => MutualExclusion
  BY SyncSafe
<1>4. QED
  BY <1>1, <1>2, <1>3, PTL DEF Spec

\* test_sync: when it closes its semaphore every process has ended, having done
\* its N additions, and nobody sleeps; and with the semaphore it prints 0
\* (Userland/SampleCodeModule/tests/test_sync.c, Kernel/processes/scheduler.c).
THEOREM PrintsZero == Spec => []EndsWithZero
<1>1. Init => SyncInv
  BY SyncInitInv
<1>2. SyncInv /\ [Next]_vars => SyncInv'
  BY SyncNextInv
<1>3. SyncInv => EndsWithZero
  BY SyncSafe
<1>4. QED
  BY <1>1, <1>2, <1>3, PTL DEF Spec

-----------------------------------------------------------------------------
(* test_prio: rounds of processes, and the priority meant for each.         *)

\* The pid before the first one of round r, and the statements of the round.
Before(r) == CASE r = 1 -> 2 [] r = 2 -> 2 + TOTAL_PROCESSES [] OTHER -> 2 + 2 * TOTAL_PROCESSES

Part(r) ==
  CASE r = 1 -> {"create", "wait", "resume"}
    [] r = 2 -> {"create", "prio", "wait", "resume"}
    [] OTHER -> {"create", "block", "prio", "unblock", "wait", "resume", "exit", "halt"}

PrioTypes ==
  /\ d = [round |-> d.round, i |-> d.i, value |-> d.value]
  /\ d.round \in 1..3 /\ d.i \in 1..TOTAL_PROCESSES /\ pc[Test] \in Part(d.round)
  /\ \A x \in Pid : x > Test => pc[x] \in {"count", "exit", "halt"}

\* Child x of round r while the test is at its statement here for child i: it
\* has the priority meant for it, unless the test has still to give it, and is
\* ready, unless the test has blocked it.
ChildAt(k0, x, here, r, i) ==
  /\ x > Before(r)
  /\ here \in {"wait", "resume"} => x >= Before(r) + i
  /\ here \notin {"exit", "halt"}
  /\ r = 1 => k0.pcb[x].priority = MIN_PRIORITY
  /\ r # 1 /\ (here \notin {"create", "block", "prio"} \/ x < Before(r) + i) =>
       k0.pcb[x].priority = x - Before(r) - 1
  /\ InQueue(k0, "ready", x) \/ InQueue(k0, "blocked", x)
  /\ InQueue(k0, "blocked", x) => /\ r = 3 /\ here \in {"create", "block", "prio", "unblock"}
                                  /\ here = "unblock" => x >= Before(r) + i

\* The children of a round are born one by one, and none of an earlier round is
\* left.
Scene(k0, here, r, i) ==
  /\ k0.nextPid = Before(r) + CASE here = "create"            -> i
                                [] here \in {"block", "prio"} -> i + 1
                                [] OTHER                      -> TOTAL_PROCESSES + 1
  /\ \A x \in Pid : x > Test /\ Exists(k0, x) => ChildAt(k0, x, here, r, i)

PrioInv == program = "test_prio" =>
  Family("count") /\ Awaits(Before(d.round) + d.i) /\ PrioTypes /\ Scene(k, pc[Test], d.round, d.i)

LEMMA PrioFacts ==
  /\ TOTAL_PROCESSES \in Nat /\ TOTAL_PROCESSES >= 1 /\ TOTAL_PROCESSES <= MAX_PRIORITY + 1
  /\ MIN_PRIORITY \in Nat /\ MIN_PRIORITY <= MAX_PRIORITY /\ MIN_PRIORITY = 0 /\ MAX_PRIORITY \in Nat
  /\ \A r \in 1..3 : /\ Before(r) \in Int /\ Before(r) >= Test /\ Before(r) + TOTAL_PROCESSES <= MaxPid
                     /\ r < 3 => Before(r + 1) = Before(r) + TOTAL_PROCESSES
  /\ \A r \in 1..3, i \in 1..TOTAL_PROCESSES : Before(r) + i \in Pid /\ Before(r) + i > Test
                                               /\ Before(r) + i # Test /\ Before(r) + i # IdlePid
<1>1. /\ TOTAL_PROCESSES \in Nat /\ TOTAL_PROCESSES >= 1 /\ TOTAL_PROCESSES <= MAX_PRIORITY + 1
      /\ MIN_PRIORITY \in Nat /\ MIN_PRIORITY <= MAX_PRIORITY /\ MIN_PRIORITY = 0 /\ MAX_PRIORITY \in Nat
      /\ MaxPid \in Int /\ 2 + 3 * TOTAL_PROCESSES <= MaxPid
  BY ProgramAssumption, PriorityAssumption, TestPid DEF MIN_PRIORITY
<1>2. ASSUME NEW r \in 1..3
      PROVE  /\ Before(r) \in Int /\ Before(r) >= Test /\ Before(r) + TOTAL_PROCESSES <= MaxPid
             /\ r < 3 => Before(r + 1) = Before(r) + TOTAL_PROCESSES
  <2>1. CASE r = 1
    BY <1>1, <2>1, TestPid DEF Before
  <2>2. CASE r = 2
    BY <1>1, <2>2, TestPid DEF Before
  <2>3. CASE r = 3
    BY <1>1, <2>3, TestPid DEF Before
  <2>4. QED
    BY <2>1, <2>2, <2>3
<1>3. ASSUME NEW r \in 1..3, NEW i \in 1..TOTAL_PROCESSES
      PROVE  Before(r) + i \in Pid /\ Before(r) + i > Test /\ Before(r) + i # Test /\ Before(r) + i # IdlePid
  BY <1>1, <1>2, TestPid DEF Pid
<1>4. QED
  BY <1>1, <1>2, <1>3

\* The children's pids.
LEMMA PidIs ==
  ASSUME d.round \in 1..3
  PROVE  \A i \in 1..TOTAL_PROCESSES : PidOf(i) = Before(d.round) + i
<1>1. CASE d.round = 1
  BY <1>1, PrioFacts DEF PidOf, Before
<1>2. CASE d.round = 2
  BY <1>2, PrioFacts DEF PidOf, Before
<1>3. CASE d.round = 3
  BY <1>3, PrioFacts DEF PidOf, Before
<1>4. QED
  BY <1>1, <1>2, <1>3

\* changePrio gives an existing process its new priority, and does nothing else.
LEMMA ChangePrioPart ==
  ASSUME NEW k0, Sane(k0), NEW p \in Pid, p > ShellPid, NEW prio \in Nat, prio <= MAX_PRIORITY,
         NEW k1, k1 = ChangePrio(k0, p, prio)
  PROVE  /\ Same(k0, k1) /\ SameQueues(k0, k1)
         /\ IF HasProcess(k0, p) THEN OnePrio(k0, k1, p, prio) ELSE k1 = k0
<1>1. WF(k0, {}) /\ CurOK(k0, {}) /\ k0.pcb \in [Pid -> Pcb] /\ ~(p <= ShellPid)
  BY SaneTypes, TestPid
<1>2. /\ Sound(k0, k1, {}) /\ SameFields(k0, k1) /\ SameCpu(k0, k1)
      /\ k1.sems = k0.sems /\ k1.nextPid = k0.nextPid /\ k1.queue = k0.queue
  BY <1>1, ChangePrioFact, ChangePrioEffect
<1>3. OwnStack(k1, {})
  BY <1>2, DispatchOwn DEF Sane, Sound, Dispatched
<1>4. Same(k0, k1) /\ SameQueues(k0, k1)
  BY <1>2, <1>3, SoundSane DEF Same, SameQueues, InQueue
<1>5. ASSUME HasProcess(k0, p) PROVE OnePrio(k0, k1, p, prio)
  <2>1. ~(prio < MIN_PRIORITY) /\ ~(prio > MAX_PRIORITY)
    BY PrioFacts
  <2>2. k1 = [k0 EXCEPT !.pcb[p].priority = prio]
    BY <1>1, <1>5, <2>1 DEF ChangePrio
  <2>3. k0 \in KernelState
    BY <1>1 DEF WF
  <2>4. k1.pcb = [k0.pcb EXCEPT ![p].priority = prio]
    BY <2>2, <2>3 DEF KernelState
  <2>5. k1.pcb[p].priority = prio /\ \A x \in Pid \ {p} : k1.pcb[x] = k0.pcb[x]
    BY <1>1, <2>4 DEF Pcb
  <2>6. QED
    BY <2>5 DEF OnePrio
<1>6. ~HasProcess(k0, p) => k1 = k0
  BY DEF ChangePrio
<1>7. QED
  BY <1>4, <1>5, <1>6

\* A round goes on while the test stays where it is.
LEMMA SceneStays ==
  ASSUME NEW k0, NEW k1, NEW here, NEW r, NEW i, Scene(k0, here, r, i), k1.nextPid = k0.nextPid,
         \A x \in Pid : x > Test /\ Exists(k1, x) =>
           /\ Exists(k0, x) /\ k1.pcb[x].priority = k0.pcb[x].priority
           /\ InQueue(k1, "ready", x) <=> InQueue(k0, "ready", x)
           /\ InQueue(k1, "blocked", x) <=> InQueue(k0, "blocked", x)
  PROVE  Scene(k1, here, r, i)
BY DEF Scene, ChildAt

\* create_process: the child is ready, with the lowest priority.
LEMMA SceneCreate ==
  ASSUME NEW k0, Sane(k0), NEW r \in 1..3, NEW i \in 1..TOTAL_PROCESSES, Scene(k0, "create", r, i),
         NEW k1, Birth(k0, k1, k0.nextPid, MIN_PRIORITY)
  PROVE  /\ r = 1 => IF i < TOTAL_PROCESSES THEN Scene(k1, "create", r, i + 1) ELSE Scene(k1, "wait", r, 1)
         /\ r = 2 => Scene(k1, "prio", r, i)
         /\ r = 3 => Scene(k1, "block", r, i)
<1> DEFINE b == Before(r)
           n == b + i
<1>1. /\ b \in Int /\ n \in Int /\ n \in Pid /\ TOTAL_PROCESSES \in Int /\ n = b + i
      /\ \A x \in Pid : x \in Int
  BY PrioFacts, TestPid
<1>2. k0.nextPid = n /\ \A x \in Pid : x > Test /\ Exists(k0, x) => ChildAt(k0, x, "create", r, i) /\ x < n
  <2>1. k0.nextPid = n
    BY DEF Scene
  <2>2. \A x \in Pid : Exists(k0, x) => x < n
    BY <1>1, <2>1, Placed
  <2>3. QED
    BY <2>1, <2>2 DEF Scene
<1>3. /\ k1.nextPid = n + 1 /\ k1.pcb[n].priority = MIN_PRIORITY
      /\ \A x \in Pid \ {n} : /\ k1.pcb[x].priority = k0.pcb[x].priority
                              /\ x # IdlePid => (Exists(k1, x) <=> Exists(k0, x))
      /\ \A q \in {"ready", "blocked"}, x \in Pid : InQueue(k1, q, x) <=> IF x = n THEN q = "ready" ELSE InQueue(k0, q, x)
  <2>1. Birth(k0, k1, n, MIN_PRIORITY)
    BY <1>2
  <2>2. QED
    BY <2>1, NameFact DEF Birth, OnePrio, OneMoves, SameKin, Exists
<1> HIDE DEF b, n
<1>4. ASSUME NEW x \in Pid, x > Test, Exists(k1, x)
      PROVE  /\ x > b /\ x < n + 1
             /\ r = 1 => k1.pcb[x].priority = MIN_PRIORITY
             /\ r # 1 /\ x < n => k1.pcb[x].priority = x - b - 1
             /\ InQueue(k1, "ready", x) \/ InQueue(k1, "blocked", x)
             /\ InQueue(k1, "blocked", x) => r = 3
  <2>1. CASE x = n
    BY <1>1, <1>3, <2>1
  <2>2. CASE x # n
    <3>1. ChildAt(k0, x, "create", r, i) /\ x < n
      BY <1>2, <1>3, <1>4, <2>2, TestPid
    <3>2. /\ x > b /\ x < n
          /\ r = 1 => k0.pcb[x].priority = MIN_PRIORITY
          /\ r # 1 /\ x < n => k0.pcb[x].priority = x - b - 1
          /\ InQueue(k0, "ready", x) \/ InQueue(k0, "blocked", x)
          /\ InQueue(k0, "blocked", x) => r = 3
      BY <3>1 DEF ChildAt, b, n
    <3>3. /\ k1.pcb[x].priority = k0.pcb[x].priority
          /\ InQueue(k1, "ready", x) <=> InQueue(k0, "ready", x)
          /\ InQueue(k1, "blocked", x) <=> InQueue(k0, "blocked", x)
      BY <1>3, <2>2
    <3>4. QED
      BY <1>1, <3>2, <3>3
  <2>3. QED
    BY <2>1, <2>2
<1>5. CASE r = 1
  <2>1. CASE i < TOTAL_PROCESSES
    <3>1. k1.nextPid = Before(r) + (i + 1)
      BY <1>1, <1>3 DEF b
    <3>2. ASSUME NEW x \in Pid, x > Test, Exists(k1, x) PROVE ChildAt(k1, x, "create", r, i + 1)
      BY <1>4, <1>5, <3>2 DEF ChildAt, b
    <3>3. QED
      BY <1>5, <2>1, <3>1, <3>2 DEF Scene
  <2>2. CASE ~(i < TOTAL_PROCESSES)
    <3>1. k1.nextPid = Before(r) + (TOTAL_PROCESSES + 1)
      BY <1>1, <1>3, <2>2 DEF b
    <3>2. ASSUME NEW x \in Pid, x > Test, Exists(k1, x) PROVE ChildAt(k1, x, "wait", r, 1)
      <4>1. x >= Before(r) + 1
        BY <1>1, <1>4, <3>2 DEF b
      <4>2. QED
        BY <1>4, <1>5, <3>2, <4>1 DEF ChildAt, b
    <3>3. QED
      BY <1>5, <2>2, <3>1, <3>2 DEF Scene
  <2>3. QED
    BY <1>5, <2>1, <2>2
<1>6. ASSUME NEW here \in {"prio", "block"}, r # 1, here = "prio" => r = 2
      PROVE  Scene(k1, here, r, i)
  <2>1. k1.nextPid = Before(r) + (i + 1)
    BY <1>1, <1>3 DEF b
  <2>2. ASSUME NEW x \in Pid, x > Test, Exists(k1, x) PROVE ChildAt(k1, x, here, r, i)
    BY <1>1, <1>4, <1>6, <2>2 DEF ChildAt, b
  <2>3. QED
    BY <1>6, <2>1, <2>2 DEF Scene
<1>7. QED
  BY <1>5, <1>6

\* block: the child is blocked, or ready still.
LEMMA SceneBlock ==
  ASSUME NEW k0, Sane(k0), NEW i \in 1..TOTAL_PROCESSES, Scene(k0, "block", 3, i),
         NEW k1, k1 = BlockProcess(k0, Before(3) + i)
  PROVE  Scene(k1, "prio", 3, i)
<1>1. Before(3) + i \in Pid /\ Before(3) + i # IdlePid
  BY PrioFacts
<1>2. PICK p \in Pid : p = Before(3) + i
  BY <1>1
<1>3. Same(k0, k1) /\ SamePrio(k0, k1) /\ (OneMoves(k0, k1, p, "blocked") \/ k1 = k0)
  BY <1>2, BlockPart
<1>4. k1.nextPid = k0.nextPid /\ \A x \in Pid : x # IdlePid => (Exists(k1, x) <=> Exists(k0, x))
  BY <1>3, ExistsSame DEF Same
<1>5. ASSUME NEW x \in Pid, InQueue(k0, "ready", x) \/ InQueue(k0, "blocked", x)
      PROVE  InQueue(k1, "ready", x) \/ InQueue(k1, "blocked", x)
  BY <1>3, <1>5, NameFact DEF OneMoves
<1>6. ASSUME NEW x \in Pid, x > Test, Exists(k1, x) PROVE ChildAt(k1, x, "prio", 3, i)
  <2>1. ChildAt(k0, x, "block", 3, i)
    BY <1>4, <1>6, TestPid DEF Scene
  <2>2. QED
    BY <1>3, <1>5, <2>1 DEF ChildAt, SamePrio
<1>7. QED
  BY <1>4, <1>6 DEF Scene

\* changePrio: the child has the priority meant for it.
LEMMA ScenePrio ==
  ASSUME NEW k0, Sane(k0), NEW r \in 2..3, NEW i \in 1..TOTAL_PROCESSES, Scene(k0, "prio", r, i),
         NEW k1, k1 = ChangePrio(k0, Before(r) + i, Prio(i))
  PROVE  IF i < TOTAL_PROCESSES THEN Scene(k1, "create", r, i + 1)
         ELSE Scene(k1, IF r = 3 THEN "unblock" ELSE "wait", r, 1)
<1> DEFINE b == Before(r)
<1>1. /\ b \in Int /\ b + i \in Pid /\ b + i # IdlePid /\ TOTAL_PROCESSES \in Int /\ b + i > ShellPid
      /\ \A x \in Pid : x \in Int
      /\ Prio(i) \in Nat /\ Prio(i) <= MAX_PRIORITY /\ Prio(i) = (b + i) - b - 1
  BY PrioFacts, TestPid DEF Prio
<1>2. PICK p \in Pid : p = b + i
  BY <1>1
<1>3. Same(k0, k1) /\ SameQueues(k0, k1) /\ (IF HasProcess(k0, p) THEN OnePrio(k0, k1, p, Prio(i)) ELSE k1 = k0)
  BY <1>1, <1>2, ChangePrioPart
<1>4. k1.nextPid = k0.nextPid /\ \A x \in Pid : x # IdlePid => (Exists(k1, x) <=> Exists(k0, x))
  BY <1>3, ExistsSame DEF Same
<1>5. k0.nextPid = b + (i + 1)
  BY DEF Scene
<1>6. \A x \in Pid : Exists(k0, x) => x < b + (i + 1)
  BY <1>1, <1>5, Placed
<1> HIDE DEF b
<1>7. ASSUME NEW x \in Pid, x > Test, Exists(k1, x)
      PROVE  /\ x > b /\ x < b + (i + 1)
             /\ k1.pcb[x].priority = x - b - 1
             /\ InQueue(k1, "ready", x) \/ InQueue(k1, "blocked", x)
             /\ InQueue(k1, "blocked", x) => r = 3
  <2>1. Exists(k0, x) /\ ChildAt(k0, x, "prio", r, i)
    BY <1>4, <1>7, TestPid DEF Scene
  <2>2. /\ x > b
        /\ x < b + i => k0.pcb[x].priority = x - b - 1
        /\ InQueue(k0, "ready", x) \/ InQueue(k0, "blocked", x)
        /\ InQueue(k0, "blocked", x) => r = 3
    BY <2>1 DEF ChildAt, b
  <2>3. k1.pcb[x].priority = x - b - 1
    <3>1. CASE x = p
      <4>1. HasProcess(k0, p)
        BY <2>2, <3>1, NameFact DEF HasProcess
      <4>2. QED
        BY <1>1, <1>2, <1>3, <3>1, <4>1 DEF OnePrio
    <3>2. CASE x # p
      <4>1. x < b + i
        BY <1>1, <1>2, <1>6, <2>1, <3>2
      <4>2. QED
        BY <1>3, <2>2, <3>2, <4>1 DEF OnePrio
    <3>3. QED
      BY <3>1, <3>2
  <2>4. /\ InQueue(k1, "ready", x) <=> InQueue(k0, "ready", x)
        /\ InQueue(k1, "blocked", x) <=> InQueue(k0, "blocked", x)
    BY <1>3, NameFact DEF SameQueues
  <2>5. QED
    BY <1>6, <2>1, <2>2, <2>3, <2>4
<1>8. CASE i < TOTAL_PROCESSES
  <2>1. ASSUME NEW x \in Pid, x > Test, Exists(k1, x) PROVE ChildAt(k1, x, "create", r, i + 1)
    BY <1>7, <2>1 DEF ChildAt, b
  <2>2. QED
    BY <1>4, <1>5, <1>8, <2>1 DEF Scene, b
<1>9. CASE ~(i < TOTAL_PROCESSES)
  <2> DEFINE here == IF r = 3 THEN "unblock" ELSE "wait"
  <2>1. i = TOTAL_PROCESSES
    BY <1>1, <1>9
  <2>2. ASSUME NEW x \in Pid, x > Test, Exists(k1, x) PROVE ChildAt(k1, x, here, r, 1)
    <3>1. x >= b + 1
      BY <1>1, <1>7, <2>2
    <3>2. QED
      BY <1>7, <2>2, <3>1 DEF ChildAt, b
  <2>3. k1.nextPid = Before(r) + (TOTAL_PROCESSES + 1)
    BY <1>4, <1>5, <2>1 DEF b
  <2>4. Scene(k1, here, r, 1)
    BY <2>2, <2>3 DEF Scene
  <2>5. QED
    BY <1>9, <2>4
<1>10. QED
  BY <1>8, <1>9

\* unblock: the child is ready.
LEMMA SceneUnblock ==
  ASSUME NEW k0, Sane(k0), NEW i \in 1..TOTAL_PROCESSES, Scene(k0, "unblock", 3, i),
         NEW k1, k1 = UnblockProcess(k0, Before(3) + i)
  PROVE  IF i < TOTAL_PROCESSES THEN Scene(k1, "unblock", 3, i + 1) ELSE Scene(k1, "wait", 3, 1)
<1> DEFINE b == Before(3)
<1>1. /\ b \in Int /\ b + i \in Pid /\ b + i # IdlePid /\ TOTAL_PROCESSES \in Int
      /\ \A x \in Pid : x \in Int
  BY PrioFacts, TestPid
<1>2. PICK p \in Pid : p = b + i
  BY <1>1
<1>3. /\ Same(k0, k1) /\ SamePrio(k0, k1)
      /\ IF InQueue(k0, "blocked", p) THEN OneMoves(k0, k1, p, "ready") ELSE k1 = k0
  BY <1>2, UnblockPart
<1>4. k1.nextPid = k0.nextPid /\ \A x \in Pid : x # IdlePid => (Exists(k1, x) <=> Exists(k0, x))
  BY <1>3, ExistsSame DEF Same
<1>5. k0.nextPid = b + (TOTAL_PROCESSES + 1)
  BY DEF Scene
<1>6. \A x \in Pid : Exists(k0, x) => x < b + (TOTAL_PROCESSES + 1)
  BY <1>1, <1>5, Placed
<1>7. ASSUME NEW x \in Pid, InQueue(k0, "ready", x) \/ InQueue(k0, "blocked", x)
      PROVE  /\ InQueue(k1, "ready", x) \/ InQueue(k1, "blocked", x)
             /\ InQueue(k1, "blocked", x) => x # p /\ InQueue(k0, "blocked", x)
  BY <1>3, <1>7, NameFact DEF OneMoves
<1> HIDE DEF b
<1>8. ASSUME NEW x \in Pid, x > Test, Exists(k1, x)
      PROVE  /\ x > b /\ x < b + (TOTAL_PROCESSES + 1)
             /\ k1.pcb[x].priority = x - b - 1
             /\ InQueue(k1, "ready", x) \/ InQueue(k1, "blocked", x)
             /\ InQueue(k1, "blocked", x) => x >= b + (i + 1)
  <2>1. Exists(k0, x) /\ ChildAt(k0, x, "unblock", 3, i)
    BY <1>4, <1>8, TestPid DEF Scene
  <2>2. /\ x > b /\ k0.pcb[x].priority = x - b - 1
        /\ InQueue(k0, "ready", x) \/ InQueue(k0, "blocked", x)
        /\ InQueue(k0, "blocked", x) => x >= b + i
    BY <2>1 DEF ChildAt, b
  <2>3. InQueue(k1, "blocked", x) => x >= b + (i + 1)
    BY <1>1, <1>2, <1>7, <2>2
  <2>4. QED
    BY <1>3, <1>6, <1>7, <2>1, <2>2, <2>3 DEF SamePrio
<1>9. CASE i < TOTAL_PROCESSES
  <2>1. ASSUME NEW x \in Pid, x > Test, Exists(k1, x) PROVE ChildAt(k1, x, "unblock", 3, i + 1)
    BY <1>8, <2>1 DEF ChildAt, b
  <2>2. QED
    BY <1>4, <1>5, <1>9, <2>1 DEF Scene, b
<1>10. CASE ~(i < TOTAL_PROCESSES)
  <2>1. i = TOTAL_PROCESSES
    BY <1>1, <1>10
  <2>2. ASSUME NEW x \in Pid, x > Test, Exists(k1, x) PROVE ChildAt(k1, x, "wait", 3, 1)
    <3>1. x >= b + 1 /\ ~InQueue(k1, "blocked", x)
      BY <1>1, <1>8, <2>1, <2>2
    <3>2. QED
      BY <1>8, <2>2, <3>1 DEF ChildAt, b
  <2>3. Scene(k1, "wait", 3, 1)
    BY <1>4, <1>5, <2>2 DEF Scene, b
  <2>4. QED
    BY <1>10, <2>3
<1>11. QED
  BY <1>9, <1>10

\* The statement, round and child after waitpid of child i of round r.
After(r, i) ==
  IF i < TOTAL_PROCESSES THEN <<"wait", r, i + 1>>
  ELSE IF r < 3 THEN <<"create", r + 1, 1>> ELSE <<"exit", r, 1>>

\* The child waited for is gone: so is the round, if it was the last one.
SceneAfter(k0, r, i) == Scene(k0, After(r, i)[1], After(r, i)[2], After(r, i)[3])

LEMMA SceneAwaited ==
  ASSUME NEW k0, Sane(k0), NEW r \in 1..3, NEW i \in 1..TOTAL_PROCESSES, NEW here \in {"wait", "resume"},
         Scene(k0, here, r, i), ~Exists(k0, Before(r) + i)
  PROVE  SceneAfter(k0, r, i)
<1> DEFINE b == Before(r)
<1>1. /\ b \in Int /\ TOTAL_PROCESSES \in Int /\ (\A x \in Pid : x \in Int) /\ i \in Int
      /\ r < 3 => Before(r + 1) = b + TOTAL_PROCESSES
  BY PrioFacts, TestPid
<1>2. k0.nextPid = b + (TOTAL_PROCESSES + 1)
  BY DEF Scene
<1>3. ASSUME NEW x \in Pid, x > Test, Exists(k0, x)
      PROVE  ChildAt(k0, x, here, r, i) /\ x >= b + (i + 1) /\ x < b + (TOTAL_PROCESSES + 1)
  <2>1. ChildAt(k0, x, here, r, i) /\ x >= b + i
    BY <1>3 DEF Scene, ChildAt
  <2>2. x # b + i /\ x < b + (TOTAL_PROCESSES + 1)
    BY <1>2, <1>3, Placed, <1>1
  <2> HIDE DEF b
  <2>3. x >= b + (i + 1)
    BY <1>1, <2>1, <2>2
  <2>4. QED
    BY <2>1, <2>2, <2>3
<1>4. CASE i < TOTAL_PROCESSES
  <2>1. ASSUME NEW x \in Pid, x > Test, Exists(k0, x) PROVE ChildAt(k0, x, "wait", r, i + 1)
    BY <1>3, <2>1 DEF ChildAt
  <2>2. Scene(k0, "wait", r, i + 1)
    BY <1>2, <2>1 DEF Scene
  <2>3. QED
    BY <1>4, <2>2 DEF After, SceneAfter
<1>5. CASE ~(i < TOTAL_PROCESSES)
  <2>1. i = TOTAL_PROCESSES
    BY <1>1, <1>5
  <2> HIDE DEF b
  <2>2. \A x \in Pid : x > Test => ~Exists(k0, x)
    BY <1>1, <1>3, <2>1
  <2>3. r < 3 => Scene(k0, "create", r + 1, 1)
    BY <1>1, <1>2, <2>2 DEF Scene
  <2>4. Scene(k0, "exit", r, 1)
    BY <1>2, <2>2 DEF Scene, b
  <2>5. QED
    BY <1>5, <2>3, <2>4 DEF After, SceneAfter
<1>6. QED
  BY <1>4, <1>5

LEMMA PrioParts ==
  ASSUME PrioInv, program = "test_prio"
  PROVE  LET c == Before(d.round) + d.i
         IN  /\ Family("count") /\ PrioTypes /\ Sane(k) /\ pc \in [Pid -> Statements]
             /\ d.round \in 1..3 /\ d.i \in 1..TOTAL_PROCESSES /\ pc[Test] \in Part(d.round)
             /\ Scene(k, pc[Test], d.round, d.i)
             /\ Awaits(c) /\ c \in Pid /\ c > Test /\ c # IdlePid /\ PidOf(d.i) = c
             /\ k.nextPid \in Int
<1>1. Family("count") /\ PrioTypes /\ Scene(k, pc[Test], d.round, d.i) /\ Awaits(Before(d.round) + d.i)
  BY DEF PrioInv
<1>2. Sane(k) /\ pc \in [Pid -> Statements] /\ k.nextPid \in Int
  BY <1>1, SaneTypes DEF Family
<1>3. d.round \in 1..3 /\ d.i \in 1..TOTAL_PROCESSES /\ pc[Test] \in Part(d.round)
  BY <1>1 DEF PrioTypes
<1>4. PidOf(d.i) = Before(d.round) + d.i
  BY <1>3, PidIs
<1>5. QED
  BY <1>1, <1>2, <1>3, <1>4, PrioFacts

\* The test goes on with its statement place, for child i of round r.
LEMMA PrioMoves ==
  ASSUME PrioTypes, pc \in [Pid -> Statements], NEW r \in 1..3, NEW i \in 1..TOTAL_PROCESSES,
         NEW place \in Part(r), pc' = [pc EXCEPT ![Test] = place],
         d' = [round |-> r, i |-> i, value |-> d'.value]
  PROVE  /\ PrioTypes' /\ d'.round = r /\ d'.i = i /\ pc'[Test] = place
         /\ \A x \in Pid \ {Test} : pc'[x] = pc[x]
<1>1. d'.round = r /\ d'.i = i /\ pc'[Test] = place
  BY TestPid
<1>2. \A x \in Pid \ {Test} : pc'[x] = pc[x]
  OBVIOUS
<1>3. \A x \in Pid : x > Test => x # Test
  BY TestPid
<1>4. d' = [round |-> d'.round, i |-> d'.i, value |-> d'.value]
  BY <1>1
<1>5. PrioTypes'
  BY <1>1, <1>2, <1>3, <1>4 DEF PrioTypes
<1>6. QED
  BY <1>1, <1>2, <1>5

LEMMA PrioBuild ==
  ASSUME UNCHANGED program, Family("count")', PrioTypes', NEW r, NEW i, NEW place,
         d'.round = r, d'.i = i, pc'[Test] = place, Scene(k', place, r, i),
         NEW c, c = Before(r) + i, Awaits(c)'
  PROVE  PrioInv'
<1>1. Scene(k, pc[Test], d.round, d.i)'
  OBVIOUS
<1>2. Awaits(Before(d.round) + d.i)'
  BY DEF Awaits
<1>3. QED
  BY <1>1, <1>2 DEF PrioInv

\* A statement of the test that neither makes nor ends a process nor waits.
LEMMA PrioTestGoes ==
  ASSUME PrioInv, program = "test_prio", UNCHANGED program,
         Quietly(k, k'), InQueue(k', "ready", Test), pc[Test] # "halt",
         NEW r \in 1..3, NEW i \in 1..TOTAL_PROCESSES,
         NEW place \in Part(r) \ {"resume", "halt"}, pc' = [pc EXCEPT ![Test] = place],
         d' = [round |-> r, i |-> i, value |-> d'.value], Scene(k', place, r, i)
  PROVE  PrioInv'
<1>1. Family("count") /\ PrioTypes /\ Sane(k) /\ pc \in [Pid -> Statements]
  BY PrioParts
<1>2. place \in Statements \ {"halt"}
  BY DEF Part, Statements, Places
<1>3. Test < k.nextPid
  BY <1>1 DEF Family
<1>4. Family("count")'
  BY <1>1, <1>2, <1>3, FamilyGoes, TestPid
<1>5. PrioTypes' /\ d'.round = r /\ d'.i = i /\ pc'[Test] = place
  BY <1>1, PrioMoves
<1>6. PICK c : c = Before(r) + i
  OBVIOUS
<1>7. Awaits(c)'
  BY <1>5, AwaitsNext
<1>8. QED
  BY <1>4, <1>5, <1>6, <1>7, PrioBuild

LEMMA PrioInitInv == Init => PrioInv
<1> SUFFICES ASSUME Init, program = "test_prio" PROVE PrioInv
  BY DEF PrioInv
<1>1. PrioInit /\ Ready(k)
  BY StartedReady DEF Init, PrioInit, Boot
<1>2. /\ pc = [p \in Pid |-> IF p = Test THEN "create" ELSE IF p = ShellPid THEN "resume"
                             ELSE IF p = IdlePid THEN "halt" ELSE "count"]
      /\ d = [round |-> 1, i |-> 1, value |-> [i \in 1..TOTAL_PROCESSES |-> 0]]
  BY <1>1 DEF PrioInit, Boot
<1>3. pc \in [Pid -> Statements] /\ pc[Test] = "create" /\ \A x \in Pid : x > Test => pc[x] = "count"
  <2>1. \A x \in Pid : x > Test => x # Test /\ x # ShellPid /\ x # IdlePid
    BY TestPid
  <2>2. QED
    BY <1>2, <2>1, TestPid DEF Statements, Places
<1>4. d.round = 1 /\ d.i = 1 /\ d = [round |-> d.round, i |-> d.i, value |-> d.value]
  BY <1>2
<1>5. PrioTypes
  <2>1. d.round \in 1..3 /\ d.i \in 1..TOTAL_PROCESSES /\ pc[Test] \in Part(d.round)
    BY <1>3, <1>4, PrioFacts DEF Part
  <2>2. QED
    BY <1>3, <1>4, <2>1 DEF PrioTypes
<1>6. \A x \in Pid : x > Test => ~Exists(k, x) /\ x >= 3 /\ ~(x < 3)
  <2>1. \A x \in Pid : x > Test => x >= 3 /\ ~(x < 3)
    BY TestPid
  <2>2. QED
    BY <1>1, <2>1, Placed DEF Ready
<1>7. Family("count")
  BY <1>1, <1>3, <1>6, TestPid DEF Family, Ready
<1>8. Awaits(Before(d.round) + d.i)
  BY <1>1, <1>3, TestPid, PidFact DEF Awaits, Ready
<1>9. Scene(k, "create", 1, 1)
  BY <1>1, <1>6 DEF Scene, Ready, Before
<1>10. QED
  BY <1>3, <1>4, <1>5, <1>7, <1>8, <1>9 DEF PrioInv

\* The loops' step to the next child.
LEMMA NextIFact ==
  ASSUME PrioTypes, NEW place, NEW after, NextI(place, after), NEW i, i = d.i
  PROVE  IF i < TOTAL_PROCESSES
         THEN /\ d' = [round |-> d.round, i |-> i + 1, value |-> d'.value] /\ pc' = [pc EXCEPT ![Test] = place]
              /\ i + 1 \in 1..TOTAL_PROCESSES
         ELSE d' = [round |-> d.round, i |-> 1, value |-> d'.value] /\ pc' = [pc EXCEPT ![Test] = after]
<1>1. d = [round |-> d.round, i |-> d.i, value |-> d.value] /\ d.i \in 1..TOTAL_PROCESSES
  BY DEF PrioTypes
<1>2. CASE i < TOTAL_PROCESSES
  BY <1>1, <1>2, PrioFacts DEF NextI, Goto
<1>3. CASE ~(i < TOTAL_PROCESSES)
  BY <1>1, <1>3 DEF NextI, Goto
<1>4. QED
  BY <1>2, <1>3

LEMMA PrioCreate ==
  ASSUME PrioInv, program = "test_prio", UNCHANGED program, CreateNext
  PROVE  PrioInv'
<1> DEFINE n == k.nextPid
<1>1. At(Test, "create") /\ k' = CreateProcess(k, MIN_PRIORITY, FALSE, FALSE)
  BY DEF CreateNext
<1>2. /\ Family("count") /\ PrioTypes /\ Sane(k) /\ pc \in [Pid -> Statements]
      /\ d.round \in 1..3 /\ d.i \in 1..TOTAL_PROCESSES /\ Scene(k, pc[Test], d.round, d.i)
      /\ d = [round |-> d.round, i |-> d.i, value |-> d.value]
  BY PrioParts DEF PrioTypes
<1>3. PICK c : c = Before(d.round) + d.i /\ Awaits(c)
  BY PrioParts DEF Awaits
<1>4. pc[Test] = "create" /\ InQueue(k, "ready", Test) /\ Test < n /\ k.current = Test
  BY <1>1, <1>2, <1>3, StatementFact, TestRuns
<1>5. PICK r \in 1..3, i \in 1..TOTAL_PROCESSES : r = d.round /\ i = d.i
  BY <1>2
<1>6. Scene(k, "create", r, i) /\ n = Before(r) + i
  BY <1>2, <1>4, <1>5 DEF Scene
<1>7. Birth(k, k', n, MIN_PRIORITY)
  <2>1. n <= MaxPid
    BY <1>6, PrioFacts, TestPid
  <2>2. QED
    BY <1>1, <1>2, <2>1, CreatePart, PrioFacts
<1>8. /\ r = 1 => IF i < TOTAL_PROCESSES THEN Scene(k', "create", r, i + 1) ELSE Scene(k', "wait", r, 1)
      /\ r = 2 => Scene(k', "prio", r, i)
      /\ r = 3 => Scene(k', "block", r, i)
  BY <1>2, <1>6, <1>7, SceneCreate
<1>9. InQueue(k', "ready", Test)
  BY <1>4, <1>7, NameFact, TestPid DEF Birth, OneMoves
<1>10. ASSUME NEW j \in 1..TOTAL_PROCESSES, NEW place \in Part(r) \ {"resume", "halt"},
              pc' = [pc EXCEPT ![Test] = place],
              d' = [round |-> r, i |-> j, value |-> d'.value], Scene(k', place, r, j)
       PROVE  PrioInv'
  <2>1. PrioTypes' /\ d'.round = r /\ d'.i = j /\ pc'[Test] = place /\ \A x \in Pid \ {Test} : pc'[x] = pc[x]
    BY <1>2, <1>10, PrioMoves
  <2>2. place \in Statements
    BY DEF Part, Statements, Places
  <2>3. pc' \in [Pid -> Statements] /\ \A x \in Pid : x > Test => pc'[x] = pc[x]
    BY <1>2, <1>10, <2>1, <2>2, TestPid
  <2>4. Family("count")'
    BY <1>2, <1>4, <1>7, <2>3, FamilyBirth
  <2>5. PICK e : e = Before(r) + j
    OBVIOUS
  <2>6. Awaits(e)'
    BY <1>9, <2>1, AwaitsNext
  <2>7. QED
    BY <1>10, <2>1, <2>4, <2>5, <2>6, PrioBuild
<1>11. CASE r = 1
  <2>1. NextI("create", "wait")
    BY <1>5, <1>11 DEF CreateNext
  <2>2. {"create", "wait"} \subseteq Part(r) \ {"resume", "halt"}
    BY <1>11 DEF Part
  <2>3. CASE i < TOTAL_PROCESSES
    BY <1>2, <1>5, <1>8, <1>10, <1>11, <2>1, <2>2, <2>3, NextIFact
  <2>4. CASE ~(i < TOTAL_PROCESSES)
    BY <1>2, <1>5, <1>8, <1>10, <1>11, <2>1, <2>2, <2>4, NextIFact, PrioFacts
  <2>5. QED
    BY <2>3, <2>4
<1>12. CASE r = 2
  <2>1. pc' = [pc EXCEPT ![Test] = "prio"] /\ UNCHANGED d
    BY <1>5, <1>12 DEF CreateNext, Goto
  <2>2. "prio" \in Part(r) \ {"resume", "halt"}
    BY <1>12 DEF Part
  <2>3. QED
    BY <1>2, <1>5, <1>8, <1>10, <1>12, <2>1, <2>2
<1>13. CASE r = 3
  <2>1. pc' = [pc EXCEPT ![Test] = "block"] /\ UNCHANGED d
    BY <1>5, <1>13 DEF CreateNext, Goto
  <2>2. "block" \in Part(r) \ {"resume", "halt"}
    BY <1>13 DEF Part
  <2>3. QED
    BY <1>2, <1>5, <1>8, <1>10, <1>13, <2>1, <2>2
<1>14. QED
  BY <1>11, <1>12, <1>13

\* What the test's statements that change a child of theirs have in common.
LEMMA PrioHere ==
  ASSUME PrioInv, program = "test_prio", NEW here \in Statements \ {"halt", "resume"}, At(Test, here)
  PROVE  \E r \in 1..3, i \in 1..TOTAL_PROCESSES :
           /\ r = d.round /\ i = d.i /\ here \in Part(r) /\ pc[Test] = here
           /\ Scene(k, here, r, i) /\ Before(r) + i \in Pid /\ Before(r) + i # Test /\ Before(r) + i # IdlePid
           /\ PidOf(d.i) = Before(r) + i
           /\ InQueue(k, "ready", Test) /\ Sane(k) /\ PrioTypes
<1>1. /\ Family("count") /\ PrioTypes /\ Sane(k) /\ d.round \in 1..3 /\ d.i \in 1..TOTAL_PROCESSES
      /\ Scene(k, pc[Test], d.round, d.i) /\ pc[Test] \in Part(d.round)
      /\ PidOf(d.i) = Before(d.round) + d.i
  BY PrioParts
<1>2. PICK c : c = Before(d.round) + d.i /\ Awaits(c)
  BY PrioParts DEF Awaits
<1>3. pc[Test] = here /\ InQueue(k, "ready", Test)
  BY <1>1, <1>2, TestRuns
<1>4. PICK r \in 1..3, i \in 1..TOTAL_PROCESSES : r = d.round /\ i = d.i
  BY <1>1
<1>5. Before(r) + i \in Pid /\ Before(r) + i # Test /\ Before(r) + i # IdlePid
  BY PrioFacts
<1>6. QED
  BY <1>1, <1>3, <1>4, <1>5

LEMMA PrioBlock ==
  ASSUME PrioInv, program = "test_prio", UNCHANGED program, BlockNew
  PROVE  PrioInv'
<1>1. At(Test, "block") /\ k' = BlockProcess(k, PidOf(d.i)) /\ pc' = [pc EXCEPT ![Test] = "prio"] /\ UNCHANGED d
  BY DEF BlockNew, Goto
<1>2. PICK r \in 1..3, i \in 1..TOTAL_PROCESSES :
        /\ r = d.round /\ i = d.i /\ "block" \in Part(r) /\ pc[Test] = "block"
        /\ Scene(k, "block", r, i) /\ Before(r) + i \in Pid /\ Before(r) + i # Test
        /\ PidOf(d.i) = Before(r) + i
        /\ InQueue(k, "ready", Test) /\ Sane(k) /\ PrioTypes
  BY <1>1, PrioHere, StatementFact
<1>3. r = 3
  BY <1>2 DEF Part
<1>4. PICK p \in Pid : p = Before(r) + i
  BY <1>2
<1>5. Same(k, k') /\ (OneMoves(k, k', p, "blocked") \/ k' = k)
  BY <1>1, <1>2, <1>4, BlockPart
<1>6. Quietly(k, k') /\ InQueue(k', "ready", Test)
  BY <1>2, <1>4, <1>5, QuietSame, NameFact, TestPid DEF OneMoves
<1>7. Scene(k', "prio", r, i)
  BY <1>1, <1>2, <1>3, SceneBlock
<1>8. "prio" \in Part(r) \ {"resume", "halt"}
  BY <1>3 DEF Part
<1>9. d' = [round |-> r, i |-> i, value |-> d'.value]
  BY <1>1, <1>2 DEF PrioTypes
<1>10. QED
  BY <1>1, <1>2, <1>6, <1>7, <1>8, <1>9, PrioTestGoes

LEMMA PrioSet ==
  ASSUME PrioInv, program = "test_prio", UNCHANGED program, SetPrio
  PROVE  PrioInv'
<1> DEFINE after == IF d.round = 3 THEN "unblock" ELSE "wait"
<1>1. At(Test, "prio") /\ k' = ChangePrio(k, PidOf(d.i), Prio(d.i)) /\ NextI("create", after)
  BY DEF SetPrio
<1>2. PICK r \in 1..3, i \in 1..TOTAL_PROCESSES :
        /\ r = d.round /\ i = d.i /\ "prio" \in Part(r) /\ pc[Test] = "prio"
        /\ Scene(k, "prio", r, i) /\ Before(r) + i \in Pid /\ Before(r) + i # Test
        /\ PidOf(d.i) = Before(r) + i
        /\ InQueue(k, "ready", Test) /\ Sane(k) /\ PrioTypes
  BY <1>1, PrioHere, StatementFact
<1>3. r \in 2..3
  BY <1>2 DEF Part
<1>4. Prio(i) \in Nat /\ Prio(i) <= MAX_PRIORITY /\ Before(r) + i > ShellPid
  BY PrioFacts, TestPid DEF Prio
<1>5. Same(k, k') /\ SameQueues(k, k')
  BY <1>1, <1>2, <1>4, ChangePrioPart
<1>6. Quietly(k, k') /\ InQueue(k', "ready", Test)
  BY <1>2, <1>5, QuietSame, NameFact, TestPid DEF SameQueues
<1>7. IF i < TOTAL_PROCESSES THEN Scene(k', "create", r, i + 1) ELSE Scene(k', after, r, 1)
  BY <1>1, <1>2, <1>3, ScenePrio
<1>8. {"create", after} \subseteq Part(r) \ {"resume", "halt"}
  BY <1>2, <1>3 DEF Part
<1> HIDE DEF after
<1>9. CASE i < TOTAL_PROCESSES
  <2>1. /\ d' = [round |-> r, i |-> i + 1, value |-> d'.value] /\ pc' = [pc EXCEPT ![Test] = "create"]
        /\ i + 1 \in 1..TOTAL_PROCESSES
    BY <1>1, <1>2, <1>9, NextIFact
  <2>2. QED
    BY <1>2, <1>6, <1>7, <1>8, <1>9, <2>1, PrioTestGoes
<1>10. CASE ~(i < TOTAL_PROCESSES)
  <2>1. /\ d' = [round |-> r, i |-> 1, value |-> d'.value] /\ pc' = [pc EXCEPT ![Test] = after]
        /\ 1 \in 1..TOTAL_PROCESSES
    BY <1>1, <1>2, <1>10, NextIFact, PrioFacts
  <2>2. QED
    BY <1>2, <1>6, <1>7, <1>8, <1>10, <2>1, PrioTestGoes
<1>11. QED
  BY <1>9, <1>10

LEMMA PrioUnblock ==
  ASSUME PrioInv, program = "test_prio", UNCHANGED program, UnblockNext
  PROVE  PrioInv'
<1>1. At(Test, "unblock") /\ k' = UnblockProcess(k, PidOf(d.i)) /\ NextI("unblock", "wait")
  BY DEF UnblockNext
<1>2. PICK r \in 1..3, i \in 1..TOTAL_PROCESSES :
        /\ r = d.round /\ i = d.i /\ "unblock" \in Part(r) /\ pc[Test] = "unblock"
        /\ Scene(k, "unblock", r, i) /\ Before(r) + i \in Pid /\ Before(r) + i # Test
        /\ PidOf(d.i) = Before(r) + i
        /\ InQueue(k, "ready", Test) /\ Sane(k) /\ PrioTypes
  BY <1>1, PrioHere, StatementFact
<1>3. r = 3
  BY <1>2 DEF Part
<1>4. PICK p \in Pid : p = Before(r) + i
  BY <1>2
<1>5. Same(k, k') /\ (OneMoves(k, k', p, "ready") \/ k' = k)
  BY <1>1, <1>2, <1>4, UnblockPart
<1>6. Quietly(k, k') /\ InQueue(k', "ready", Test)
  BY <1>2, <1>4, <1>5, QuietSame, NameFact, TestPid DEF OneMoves
<1>7. IF i < TOTAL_PROCESSES THEN Scene(k', "unblock", r, i + 1) ELSE Scene(k', "wait", r, 1)
  BY <1>1, <1>2, <1>3, SceneUnblock
<1>8. {"unblock", "wait"} \subseteq Part(r) \ {"resume", "halt"}
  BY <1>3 DEF Part
<1>9. CASE i < TOTAL_PROCESSES
  <2>1. /\ d' = [round |-> r, i |-> i + 1, value |-> d'.value] /\ pc' = [pc EXCEPT ![Test] = "unblock"]
        /\ i + 1 \in 1..TOTAL_PROCESSES
    BY <1>1, <1>2, <1>9, NextIFact
  <2>2. QED
    BY <1>2, <1>6, <1>7, <1>8, <1>9, <2>1, PrioTestGoes
<1>10. CASE ~(i < TOTAL_PROCESSES)
  <2>1. /\ d' = [round |-> r, i |-> 1, value |-> d'.value] /\ pc' = [pc EXCEPT ![Test] = "wait"]
        /\ 1 \in 1..TOTAL_PROCESSES
    BY <1>1, <1>2, <1>10, NextIFact, PrioFacts
  <2>2. QED
    BY <1>2, <1>6, <1>7, <1>8, <1>10, <2>1, PrioTestGoes
<1>11. QED
  BY <1>9, <1>10

\* What the test goes on with after waitpid.
LEMMA AwaitedFact ==
  ASSUME PrioTypes, NEW r, r = d.round, NEW i, i = d.i
  PROVE  /\ Awaited.at = After(r, i)[1] /\ After(r, i)[1] \in Part(After(r, i)[2]) \ {"resume", "halt"}
         /\ After(r, i)[1] \in {"wait", "create", "exit"}
         /\ After(r, i)[2] \in 1..3 /\ After(r, i)[3] \in 1..TOTAL_PROCESSES
         /\ Awaited.d = [round |-> After(r, i)[2], i |-> After(r, i)[3], value |-> Awaited.d.value]
<1>1. d = [round |-> d.round, i |-> d.i, value |-> d.value] /\ d.round \in 1..3 /\ d.i \in 1..TOTAL_PROCESSES
  BY DEF PrioTypes
<1>2. 1 \in 1..TOTAL_PROCESSES
  BY PrioFacts
<1>3. CASE i < TOTAL_PROCESSES
  <2>1. After(r, i)[1] = "wait" /\ After(r, i)[2] = r /\ After(r, i)[3] = i + 1
    BY <1>3 DEF After
  <2>2. Awaited.at = "wait" /\ Awaited.d = [d EXCEPT !.i = @ + 1]
    BY <1>3 DEF Awaited
  <2>3. i + 1 \in 1..TOTAL_PROCESSES /\ "wait" \in Part(r) \ {"resume", "halt"}
    BY <1>1, <1>3, PrioFacts DEF Part
  <2>4. Awaited.d = [round |-> r, i |-> i + 1, value |-> Awaited.d.value]
    BY <1>1, <2>2
  <2>5. QED
    BY <1>1, <2>1, <2>2, <2>3, <2>4
<1>4. CASE ~(i < TOTAL_PROCESSES) /\ r < 3
  <2>1. After(r, i)[1] = "create" /\ After(r, i)[2] = r + 1 /\ After(r, i)[3] = 1
    BY <1>4 DEF After
  <2>2. Awaited.at = "create"
        /\ Awaited.d = [round |-> r + 1, i |-> 1, value |-> [j \in 1..TOTAL_PROCESSES |-> 0]]
    BY <1>4 DEF Awaited
  <2>3. "create" \in Part(r + 1) \ {"resume", "halt"} /\ r + 1 \in 1..3
    BY <1>1, <1>4 DEF Part
  <2>4. QED
    BY <1>2, <2>1, <2>2, <2>3
<1>5. CASE ~(i < TOTAL_PROCESSES) /\ ~(r < 3)
  <2>1. After(r, i)[1] = "exit" /\ After(r, i)[2] = r /\ After(r, i)[3] = 1
    BY <1>5 DEF After
  <2>2. Awaited.at = "exit" /\ Awaited.d = [d EXCEPT !.i = 1]
    BY <1>5 DEF Awaited
  <2>3. "exit" \in Part(r) \ {"resume", "halt"}
    BY <1>1, <1>5 DEF Part
  <2>4. Awaited.d = [round |-> r, i |-> 1, value |-> Awaited.d.value]
    BY <1>1, <2>2
  <2>5. QED
    BY <1>1, <1>2, <2>1, <2>2, <2>3, <2>4
<1>6. QED
  BY <1>3, <1>4, <1>5

\* The child waited for is gone, and the test goes on.
LEMMA PrioAfter ==
  ASSUME PrioInv, program = "test_prio", UNCHANGED program, UNCHANGED k,
         pc[Test] \in {"wait", "resume"}, InQueue(k, "ready", Test),
         ~Exists(k, Before(d.round) + d.i), pc' = [pc EXCEPT ![Test] = Awaited.at], d' = Awaited.d
  PROVE  PrioInv'
<1>1. PrioTypes /\ Sane(k) /\ d.round \in 1..3 /\ d.i \in 1..TOTAL_PROCESSES /\ Scene(k, pc[Test], d.round, d.i)
  BY PrioParts
<1>2. PICK r \in 1..3, i \in 1..TOTAL_PROCESSES : r = d.round /\ i = d.i
  BY <1>1
<1>3. SceneAfter(k, r, i)
  BY <1>1, <1>2, SceneAwaited
<1>4. PICK place, s, j : place = After(r, i)[1] /\ s = After(r, i)[2] /\ j = After(r, i)[3]
  OBVIOUS
<1>5. /\ Awaited.at = place /\ place \in Part(s) \ {"resume", "halt"} /\ s \in 1..3 /\ j \in 1..TOTAL_PROCESSES
      /\ Awaited.d = [round |-> s, i |-> j, value |-> Awaited.d.value]
  BY <1>1, <1>2, <1>4, AwaitedFact
<1>6. Scene(k', place, s, j)
  BY <1>3, <1>4 DEF SceneAfter
<1>7. Quietly(k, k') /\ InQueue(k', "ready", Test)
  BY <1>1, QuietSame
<1>8. pc' = [pc EXCEPT ![Test] = place] /\ d' = [round |-> s, i |-> j, value |-> d'.value]
  BY <1>5
<1>9. QED
  BY <1>5, <1>6, <1>7, <1>8, PrioTestGoes

LEMMA PrioWait ==
  ASSUME PrioInv, program = "test_prio", UNCHANGED program, WaitNext
  PROVE  PrioInv'
<1>1. At(Test, "wait") /\ AwaitChild(PidOf(d.i), Awaited.at)
      /\ d' = IF pc'[Test] = "resume" THEN d ELSE Awaited.d
  BY DEF WaitNext
<1>2. PICK r \in 1..3, i \in 1..TOTAL_PROCESSES :
        /\ r = d.round /\ i = d.i /\ pc[Test] = "wait"
        /\ Scene(k, "wait", r, i) /\ Before(r) + i \in Pid
        /\ PidOf(d.i) = Before(r) + i
        /\ InQueue(k, "ready", Test) /\ Sane(k) /\ PrioTypes
  BY <1>1, PrioHere, StatementFact
<1>3. PICK c \in Pid : c = Before(r) + i
  BY <1>2
<1>4. Family("count") /\ Awaits(c) /\ c > Test /\ pc \in [Pid -> Statements]
  BY <1>2, <1>3, PrioParts DEF Awaits
<1>5. PICK place : place = Awaited.at
  OBVIOUS
<1>6. place \in Statements \ {"halt", "resume"}
  <2>1. place \in {"wait", "create", "exit"}
    BY <1>2, <1>5, AwaitedFact
  <2>2. QED
    BY <2>1, StatementFact
<1>7. Exists(k, c) => Queued(k, c)
  <2>1. Exists(k, c) => ChildAt(k, c, "wait", r, i)
    BY <1>2, <1>4 DEF Scene
  <2>2. QED
    BY <2>1, NameFact DEF ChildAt, Queued
<1>8. /\ Family("count")'
      /\ \/ /\ Exists(k, c) /\ pc' = [pc EXCEPT ![Test] = "resume"] /\ Awaits(c)'
            /\ k'.nextPid = k.nextPid /\ SamePrio(k, k')
            /\ OneMoves(k, k', Test, "blocked")
            /\ \A x \in Pid : x > Test => (Exists(k', x) <=> Exists(k, x))
         \/ /\ ~Exists(k, c) /\ pc' = [pc EXCEPT ![Test] = place] /\ UNCHANGED k
  BY <1>1, <1>2, <1>3, <1>4, <1>5, <1>6, <1>7, StatementFact, AwaitStep
<1>9. CASE pc' = [pc EXCEPT ![Test] = "resume"]
  <2>1. pc'[Test] = "resume" /\ UNCHANGED d
    BY <1>1, <1>4, <1>9, TestPid
  <2>2. /\ Awaits(c)' /\ k'.nextPid = k.nextPid /\ SamePrio(k, k') /\ OneMoves(k, k', Test, "blocked")
        /\ \A x \in Pid : x > Test => (Exists(k', x) <=> Exists(k, x))
    <3>1. pc' # [pc EXCEPT ![Test] = place]
      BY <1>4, <1>6, <2>1, TestPid
    <3>2. QED
      BY <1>8, <3>1
  <2>3. \A x \in Pid : x > Test => /\ InQueue(k', "ready", x) <=> InQueue(k, "ready", x)
                                   /\ InQueue(k', "blocked", x) <=> InQueue(k, "blocked", x)
    BY <2>2, NameFact, TestPid DEF OneMoves
  <2>4. Scene(k', "wait", r, i)
    BY <1>2, <2>2, <2>3, SceneStays DEF SamePrio
  <2>5. Scene(k', "resume", r, i)
    BY <2>4 DEF Scene, ChildAt
  <2>6. "resume" \in Part(r) /\ d' = [round |-> r, i |-> i, value |-> d'.value]
    BY <1>2, <2>1 DEF Part, PrioTypes
  <2>7. PrioTypes' /\ d'.round = r /\ d'.i = i /\ pc'[Test] = "resume"
    BY <1>2, <1>4, <1>9, <2>6, PrioMoves
  <2>8. QED
    BY <1>3, <1>8, <2>2, <2>5, <2>7, PrioBuild
<1>10. CASE pc' = [pc EXCEPT ![Test] = place]
  <2>1. pc'[Test] = place /\ d' = Awaited.d
    BY <1>1, <1>4, <1>6, <1>10, TestPid
  <2>2. ~Exists(k, c) /\ UNCHANGED k
    <3>1. pc' # [pc EXCEPT ![Test] = "resume"]
      BY <1>4, <1>6, <2>1, TestPid
    <3>2. QED
      BY <1>8, <3>1
  <2>3. QED
    BY <1>2, <1>3, <1>5, <1>10, <2>1, <2>2, PrioAfter
<1>11. QED
  BY <1>8, <1>9, <1>10

LEMMA PrioResume ==
  ASSUME PrioInv, program = "test_prio", UNCHANGED program, WaitResume
  PROVE  PrioInv'
<1>1. At(Test, "resume") /\ pc' = [pc EXCEPT ![Test] = Awaited.at] /\ d' = Awaited.d /\ UNCHANGED k
  BY DEF WaitResume, Goto
<1>2. PICK c : c = Before(d.round) + d.i /\ Awaits(c)
  BY PrioParts DEF Awaits
<1>3. Family("count")
  BY PrioParts
<1>4. ~Exists(k, c) /\ InQueue(k, "ready", Test)
  BY <1>1, <1>2, <1>3, ResumeStep
<1>5. QED
  BY <1>1, <1>2, <1>4, PrioAfter DEF At

LEMMA PrioEnd ==
  ASSUME PrioInv, program = "test_prio", UNCHANGED program, Exit(Test)
  PROVE  PrioInv'
<1>1. /\ Family("count") /\ PrioTypes /\ Sane(k) /\ pc \in [Pid -> Statements]
      /\ d.round \in 1..3 /\ d.i \in 1..TOTAL_PROCESSES /\ Scene(k, pc[Test], d.round, d.i) /\ pc[Test] \in Part(d.round)
  BY PrioParts
<1>2. PICK r \in 1..3, i \in 1..TOTAL_PROCESSES : r = d.round /\ i = d.i
  BY <1>1
<1>3. PICK c : c = Before(r) + i
  OBVIOUS
<1>4. Awaits(c)
  BY <1>2, <1>3, PrioParts DEF Awaits
<1>5. /\ Family("count")' /\ Awaits(c)' /\ UNCHANGED d /\ pc' = [pc EXCEPT ![Test] = "halt"]
      /\ pc[Test] = "exit" /\ k'.nextPid = k.nextPid
      /\ \A x \in Pid : x > Test => (Exists(k', x) <=> Exists(k, x))
  BY <1>1, <1>4, ProgramExit
<1>6. r = 3 /\ "halt" \in Part(r)
  BY <1>1, <1>2, <1>5 DEF Part
<1>7. PrioTypes' /\ d'.round = r /\ d'.i = i /\ pc'[Test] = "halt"
  <2>1. d' = [round |-> r, i |-> i, value |-> d'.value]
    BY <1>1, <1>2, <1>5 DEF PrioTypes
  <2>2. PICK place \in Part(r) : place = "halt"
    BY <1>6
  <2>3. pc' = [pc EXCEPT ![Test] = place]
    BY <1>5, <2>2
  <2>4. PrioTypes' /\ d'.round = r /\ d'.i = i /\ pc'[Test] = place
    BY <1>1, <2>1, <2>3, PrioMoves
  <2>5. QED
    BY <2>2, <2>4
<1>8. Scene(k', "halt", r, i)
  <2>1. Scene(k, "exit", r, i)
    BY <1>1, <1>2, <1>5
  <2>2. \A x \in Pid : x > Test => ~Exists(k', x)
    BY <1>5, <2>1 DEF Scene, ChildAt
  <2>3. QED
    BY <1>5, <2>1, <2>2 DEF Scene
<1>9. QED
  BY <1>3, <1>5, <1>7, <1>8, PrioBuild

\* What the children and the timer do leaves the test where it is.
LEMMA PrioElsewhere ==
  ASSUME PrioInv, program = "test_prio", UNCHANGED program, pc'[Test] = pc[Test],
         d' = [d EXCEPT !.value = d'.value], \A x \in Pid : x > Test => pc'[x] \in {"count", "exit", "halt"},
         Family("count")', NEW c, c = Before(d.round) + d.i, Awaits(c)', k'.nextPid = k.nextPid,
         \A x \in Pid : x > Test /\ Exists(k', x) =>
           /\ Exists(k, x) /\ k'.pcb[x].priority = k.pcb[x].priority
           /\ InQueue(k', "ready", x) <=> InQueue(k, "ready", x)
           /\ InQueue(k', "blocked", x) <=> InQueue(k, "blocked", x)
  PROVE  PrioInv'
<1>1. PrioTypes /\ Scene(k, pc[Test], d.round, d.i)
  BY PrioParts
<1>2. d'.round = d.round /\ d'.i = d.i /\ d' = [round |-> d'.round, i |-> d'.i, value |-> d'.value]
  BY <1>1 DEF PrioTypes
<1>3. PrioTypes'
  BY <1>1, <1>2 DEF PrioTypes
<1>4. PICK r, i, here : r = d.round /\ i = d.i /\ here = pc[Test]
  OBVIOUS
<1>5. Scene(k', here, r, i)
  BY <1>1, <1>4, SceneStays
<1>6. QED
  BY <1>2, <1>3, <1>4, <1>5, PrioBuild

LEMMA PrioCount ==
  ASSUME PrioInv, program = "test_prio", UNCHANGED program, NEW j \in 1..TOTAL_PROCESSES, Count(j)
  PROVE  PrioInv'
<1>1. /\ Family("count") /\ PrioTypes /\ Sane(k) /\ pc \in [Pid -> Statements] /\ d.round \in 1..3
  BY PrioParts
<1>2. PICK c \in Pid : c = Before(d.round) + d.i /\ Awaits(c) /\ c # IdlePid
  BY PrioParts DEF Awaits
<1>3. PICK p \in Pid : p = PidOf(j) /\ p > Test /\ p # Test
  <2>1. PidOf(j) = Before(d.round) + j
    BY <1>1, PidIs
  <2>2. QED
    BY <1>1, <2>1, PrioFacts
<1>4. PICK place \in {"count", "exit"} : pc' = [pc EXCEPT ![p] = place]
  BY <1>3 DEF Count, Goto
<1>5. At(p, "count") /\ UNCHANGED k /\ d' = [d EXCEPT !.value[j] = @ + 1]
  BY <1>3 DEF Count
<1>6. d' = [d EXCEPT !.value = d'.value]
  BY <1>1, <1>5 DEF PrioTypes
<1>7. p < k.nextPid /\ pc[p] # "halt" /\ place \in Statements \ {"halt"}
  BY <1>1, <1>3, <1>5, Current, StatementFact DEF At
<1>8. Quietly(k, k')
  BY <1>1, <1>5, QuietSame
<1>9. Family("count")'
  BY <1>1, <1>3, <1>4, <1>7, <1>8, FamilyGoes
<1>10. pc'[Test] = pc[Test] /\ \A x \in Pid : x > Test => pc'[x] \in {"count", "exit", "halt"}
  BY <1>1, <1>3, <1>4, TestPid DEF PrioTypes
<1>11. Awaits(c)'
  BY <1>1, <1>2, <1>5, <1>8, <1>10, AwaitsGoes
<1>12. QED
  BY <1>2, <1>5, <1>6, <1>9, <1>10, <1>11, PrioElsewhere

LEMMA PrioChildExit ==
  ASSUME PrioInv, program = "test_prio", UNCHANGED program, NEW j \in 1..TOTAL_PROCESSES, Exit(PidOf(j))
  PROVE  PrioInv'
<1>1. /\ Family("count") /\ PrioTypes /\ Sane(k) /\ pc \in [Pid -> Statements] /\ d.round \in 1..3
  BY PrioParts
<1>2. PICK c \in Pid : c = Before(d.round) + d.i /\ Awaits(c) /\ c > Test
  BY PrioParts DEF Awaits
<1>3. PICK p \in Pid : p = PidOf(j) /\ p > Test /\ p # Test /\ p # IdlePid
  <2>1. PidOf(j) = Before(d.round) + j
    BY <1>1, PidIs
  <2>2. QED
    BY <1>1, <2>1, PrioFacts
<1>4. Exit(p)
  BY <1>3
<1>5. /\ Family("count")' /\ UNCHANGED d /\ pc' = [pc EXCEPT ![p] = "halt"]
      /\ k'.nextPid = k.nextPid /\ ~Exists(k', p)
      /\ \A x \in Pid : x # p /\ x # IdlePid => (Exists(k', x) <=> Exists(k, x))
      /\ \A x \in Pid \ {p} : k'.pcb[x].priority = k.pcb[x].priority
      /\ \A q \in QueueName \ {"zombie"}, x \in Pid :
           InQueue(k', q, x) <=> /\ x # p
                                 /\ IF Wakes(k, x, Test, p) THEN q = "ready" ELSE InQueue(k, q, x)
  BY <1>1, <1>3, <1>4, ChildExit
<1>6. Awaits(c)'
  BY <1>1, <1>2, <1>3, <1>4, AwaitsExit
<1>7. pc'[Test] = pc[Test] /\ \A x \in Pid : x > Test => pc'[x] \in {"count", "exit", "halt"}
  BY <1>1, <1>3, <1>5, TestPid DEF PrioTypes
<1>8. ASSUME NEW x \in Pid, x > Test, Exists(k', x)
      PROVE  /\ Exists(k, x) /\ k'.pcb[x].priority = k.pcb[x].priority
             /\ InQueue(k', "ready", x) <=> InQueue(k, "ready", x)
             /\ InQueue(k', "blocked", x) <=> InQueue(k, "blocked", x)
  <2>1. x # p /\ x # IdlePid /\ ~Wakes(k, x, Test, p)
    BY <1>5, <1>8, TestPid DEF Wakes
  <2>2. QED
    BY <1>5, <1>8, <2>1, NameFact
<1>9. d' = [d EXCEPT !.value = d'.value]
  BY <1>1, <1>5 DEF PrioTypes
<1>10. QED
  BY <1>2, <1>5, <1>6, <1>7, <1>8, <1>9, PrioElsewhere

LEMMA PrioTick ==
  ASSUME PrioInv, program = "test_prio", UNCHANGED program, Tick
  PROVE  PrioInv'
<1>1. /\ Family("count") /\ PrioTypes /\ Sane(k) /\ pc \in [Pid -> Statements]
  BY PrioParts
<1>2. PICK c \in Pid : c = Before(d.round) + d.i /\ Awaits(c) /\ c # IdlePid
  BY PrioParts DEF Awaits
<1>3. k' = Schedule(k) /\ UNCHANGED <<pc, d>>
  BY DEF Tick, Interrupt
<1>4. Same(k, k') /\ SamePrio(k, k') /\ SameQueues(k, k')
  BY <1>1, <1>3, SchedulePart
<1>5. Quietly(k, k') /\ k'.nextPid = k.nextPid
  BY <1>4, QuietSame DEF Same
<1>6. \A x \in Pid : /\ InQueue(k', "ready", x) <=> InQueue(k, "ready", x)
                     /\ InQueue(k', "blocked", x) <=> InQueue(k, "blocked", x)
  BY <1>4, NameFact DEF SameQueues
<1>7. Test < k.nextPid
  BY <1>1 DEF Family
<1>8. Family("count")'
  BY <1>1, <1>3, <1>5, <1>7, FamilyGoes, TestPid, StatementFact
<1>9. Awaits(c)'
  BY <1>1, <1>2, <1>3, <1>5, <1>6, AwaitsGoes, TestPid
<1>10. \A x \in Pid : x > Test /\ Exists(k', x) => Exists(k, x)
  <2>1. \A x \in Pid : x > Test => x # IdlePid
    BY TestPid
  <2>2. QED
    BY <1>4, <2>1, ExistsSame DEF Same
<1>11. pc'[Test] = pc[Test] /\ (\A x \in Pid : x > Test => pc'[x] \in {"count", "exit", "halt"})
       /\ d' = [d EXCEPT !.value = d'.value]
  BY <1>1, <1>3 DEF PrioTypes
<1>12. QED
  BY <1>2, <1>4, <1>5, <1>6, <1>8, <1>9, <1>10, <1>11, PrioElsewhere DEF SamePrio

LEMMA PrioNextInv == PrioInv /\ [Next]_vars => PrioInv'
<1> SUFFICES ASSUME PrioInv, [Next]_vars PROVE PrioInv'
  OBVIOUS
<1>1. CASE PrioStep
  <2> USE <1>1 DEF PrioStep
  <2>1. CASE PrioTest
    BY <2>1, PrioCreate, PrioBlock, PrioSet, PrioUnblock, PrioWait, PrioResume, PrioEnd DEF PrioTest
  <2>2. ASSUME NEW j \in 1..TOTAL_PROCESSES, PrioChild(j) PROVE PrioInv'
    BY <2>2, PrioCount, PrioChildExit DEF PrioChild
  <2>3. CASE Tick
    BY <2>3, PrioTick
  <2>4. QED
    BY <2>1, <2>2, <2>3 DEF PrioNext
<1>2. CASE ShellResume
  <2>1. /\ UNCHANGED <<program, k, d>>
        /\ pc \in [Pid -> Statements] =>
             pc' \in [Pid -> Statements] /\ \A x \in Pid \ {ShellPid} : pc'[x] = pc[x]
    BY <1>2, ShellStep
  <2>2. CASE program = "test_prio"
    <3>1. /\ Family("count") /\ PrioTypes /\ Sane(k) /\ pc \in [Pid -> Statements]
      BY <2>2, PrioParts
    <3>2. PICK c \in Pid : c = Before(d.round) + d.i /\ Awaits(c) /\ c # IdlePid
      BY <2>2, PrioParts DEF Awaits
    <3>3. \A x \in Pid : x = Test \/ x > Test => pc'[x] = pc[x] /\ x # ShellPid
      BY <2>1, <3>1, TestPid
    <3>4. Family("count")'
      BY <2>1, <3>1, <3>3 DEF Family
    <3>5. Awaits(c)'
      BY <2>1, <3>2, <3>3, TestPid DEF Awaits
    <3>6. d' = [d EXCEPT !.value = d'.value]
      BY <2>1, <3>1 DEF PrioTypes
    <3>7. pc'[Test] = pc[Test] /\ \A x \in Pid : x > Test => pc'[x] \in {"count", "exit", "halt"}
      BY <3>1, <3>3, TestPid DEF PrioTypes
    <3>8. QED
      BY <2>1, <2>2, <3>2, <3>4, <3>5, <3>6, <3>7, PrioElsewhere
  <2>3. CASE program # "test_prio"
    BY <2>1, <2>3 DEF PrioInv
  <2>4. QED
    BY <2>2, <2>3
<1>3. CASE UNCHANGED vars
  BY <1>3 DEF vars, PrioInv, Family, Awaits, PrioTypes, Scene, ChildAt
<1>4. CASE ProcessesStep \/ SyncStep \/ SleepStep
  BY <1>4 DEF ProcessesStep, SyncStep, SleepStep, PrioInv
<1>5. QED
  BY <1>1, <1>2, <1>3, <1>4 DEF Next

LEMMA PrioSafe == PrioInv => RoundIsReady
<1> SUFFICES ASSUME PrioInv, program = "test_prio" PROVE RoundIsReady
  BY DEF RoundIsReady
<1>1. /\ Sane(k) /\ d.round \in 1..3 /\ Scene(k, pc[Test], d.round, d.i)
  BY PrioParts
<1>2. ASSUME pc[Test] \in {"wait", "resume"}, NEW i \in 1..TOTAL_PROCESSES, k.pcb[PidOf(i)].state # "UNUSED"
      PROVE  /\ k.pcb[PidOf(i)].priority = IF d.round = 1 THEN MIN_PRIORITY ELSE Prio(i)
             /\ k.pcb[PidOf(i)].state # "BLOCKED"
  <2>1. PICK p \in Pid : p = PidOf(i) /\ p > Test /\ p = Before(d.round) + i /\ Before(d.round) \in Int
    BY <1>1, PidIs, PrioFacts
  <2>2. Exists(k, p)
    BY <1>2, <2>1 DEF Exists
  <2>3. ChildAt(k, p, pc[Test], d.round, d.i)
    BY <1>1, <2>1, <2>2 DEF Scene
  <2>4. /\ k.pcb[p].priority = IF d.round = 1 THEN MIN_PRIORITY ELSE p - Before(d.round) - 1
        /\ InQueue(k, "ready", p)
    BY <1>2, <2>3 DEF ChildAt
  <2>5. p - Before(d.round) - 1 = Prio(i)
    BY <2>1 DEF Prio
  <2>6. k.pcb[p].state # "BLOCKED"
    BY <1>1, <2>4, Placed
  <2>7. QED
    BY <2>1, <2>4, <2>5, <2>6
<1>3. ASSUME NEW p \in 3..(PidOf(1) - 1) PROVE k.pcb[p].state = "UNUSED"
  <2>1. PidOf(1) = Before(d.round) + 1 /\ Before(d.round) \in Int /\ Before(d.round) <= MaxPid
    <3>1. 1 \in 1..TOTAL_PROCESSES /\ TOTAL_PROCESSES \in Int /\ MaxPid \in Int
      BY PrioFacts, TestPid
    <3>2. PidOf(1) = Before(d.round) + 1
      BY <1>1, <3>1, PidIs
    <3>3. PICK b : b = Before(d.round)
      OBVIOUS
    <3>4. b \in Int /\ b + TOTAL_PROCESSES <= MaxPid /\ TOTAL_PROCESSES >= 1
      BY <1>1, <3>3, PrioFacts
    <3>5. QED
      BY <3>1, <3>2, <3>3, <3>4
  <2>2. p \in Pid /\ p > Test /\ ~(p > Before(d.round))
    BY <2>1, TestPid, PrioFacts DEF Pid
  <2>3. ~Exists(k, p)
    BY <1>1, <2>2 DEF Scene, ChildAt
  <2>4. QED
    BY <2>3 DEF Exists
<1>4. QED
  BY <1>2, <1>3 DEF RoundIsReady

\* test_prio: while it waits for a round its processes have the priorities it
\* gave them and none of them is left blocked, and the rounds before have ended
\* (Userland/SampleCodeModule/tests/test_prio.c, Kernel/processes/scheduler.c).
THEOREM RoundsReady == Spec => []RoundIsReady
<1>1. Init => PrioInv
  BY PrioInitInv
<1>2. PrioInv /\ [Next]_vars => PrioInv'
  BY PrioNextInv
<1>3. PrioInv => RoundIsReady
  BY PrioSafe
<1>4. QED
  BY <1>1, <1>2, <1>3, PTL DEF Spec
==============================================================================
