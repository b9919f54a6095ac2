---------------------------- MODULE KernelProofs ----------------------------
(***************************************************************************)
(* What the kernel functions of ProcessManager, Dispatcher, Semaphores and *)
(* Lifecycle preserve, for any number of processes and semaphores, any     *)
(* quantum and priorities.                                                 *)
(*                                                                         *)
(* Each kernel function is an operator on kernel states, so each gets a    *)
(* lemma that says it preserves the parts of a well-formed kernel that it  *)
(* works on.  The lemmas hold for every module that runs the kernel: the   *)
(* scheduler's (SchedulerProofs), the pipe's (PipeProofs) and those of the *)
(* test programs (TestsProofs).                                            *)
(***************************************************************************)
EXTENDS Lifecycle, WellFoundedInduction, TLAPS

-----------------------------------------------------------------------------
(* Sequences of pids.                                                       *)

NoDup(s) == \A i, j \in 1..Len(s) : s[i] = s[j] => i = j

In(s, p) == \E i \in 1..Len(s) : s[i] = p

\* A sequence that contains p has a first position of p when it has no
\* duplicates (the loop of remove() in queue.c stops there).
LEMMA FirstIndexFact ==
  ASSUME NEW s \in Seq(Pid), NEW p \in Pid, NoDup(s), In(s, p)
  PROVE  FirstIndex(s, p) \in 1..Len(s) /\ s[FirstIndex(s, p)] = p
<1>1. PICK i \in 1..Len(s) : s[i] = p
  BY DEF In
<1>2. \A j \in 1..(i - 1) : s[j] # p
  BY <1>1 DEF NoDup
<1>3. QED
  BY <1>1, <1>2 DEF FirstIndex

\* remove() of queue.c takes p out and nothing else, and keeps the order.
LEMMA RemovePidFact ==
  ASSUME NEW s \in Seq(Pid), NEW p \in Pid, NoDup(s)
  PROVE  /\ RemovePid(s, p) \in Seq(Pid)
         /\ NoDup(RemovePid(s, p))
         /\ \A x : In(RemovePid(s, p), x) <=> In(s, x) /\ x # p
<1>1. CASE ~In(s, p)
  BY <1>1 DEF RemovePid, In
<1>2. CASE In(s, p)
  <2> DEFINE n == FirstIndex(s, p)
             t == [j \in 1..(Len(s) - 1) |-> IF j < n THEN s[j] ELSE s[j + 1]]
  <2>1. n \in 1..Len(s) /\ s[n] = p
    BY <1>2, FirstIndexFact
  <2>2. RemovePid(s, p) = t
    BY <1>2 DEF RemovePid, In
  <2> HIDE DEF n
  <2>3. t \in Seq(Pid) /\ Len(t) = Len(s) - 1
    BY <2>1
  <2>4. NoDup(t)
    BY <2>1, <2>3 DEF NoDup
  <2>5. ASSUME NEW x, In(t, x)
        PROVE  In(s, x) /\ x # p
    BY <2>1, <2>3, <2>5 DEF NoDup, In
  <2>6. ASSUME NEW x, In(s, x), x # p
        PROVE  In(t, x)
    <3>1. PICK i \in 1..Len(s) : s[i] = x
      BY <2>6 DEF In
    <3>2. CASE i < n
      <4>1. i \in 1..(Len(s) - 1) /\ t[i] = x
        BY <3>1, <3>2, <2>1
      <4>2. QED
        BY <4>1, <2>3 DEF In
    <3>3. CASE i > n
      <4>1. i - 1 \in 1..(Len(s) - 1) /\ t[i - 1] = x
        BY <3>1, <3>3, <2>1
      <4>2. QED
        BY <4>1, <2>3 DEF In
    <3>4. QED
      BY <3>1, <3>2, <3>3, <2>1, <2>6
  <2>7. QED
    BY <2>2, <2>3, <2>4, <2>5, <2>6
<1>3. QED
  BY <1>1, <1>2

\* enqueue() of queue.c adds p at the end and nothing else.
LEMMA AppendFact ==
  ASSUME NEW s \in Seq(Pid), NEW p \in Pid, NoDup(s), ~In(s, p)
  PROVE  /\ Append(s, p) \in Seq(Pid)
         /\ NoDup(Append(s, p))
         /\ \A x : In(Append(s, p), x) <=> In(s, x) \/ x = p
<1>1. /\ Append(s, p) \in Seq(Pid)
      /\ Len(Append(s, p)) = Len(s) + 1
      /\ \A i \in 1..Len(s) : Append(s, p)[i] = s[i]
      /\ Append(s, p)[Len(s) + 1] = p
  OBVIOUS
<1>2. NoDup(Append(s, p))
  BY <1>1 DEF NoDup, In
<1>3. ASSUME NEW x PROVE In(Append(s, p), x) <=> In(s, x) \/ x = p
  BY <1>1 DEF In
<1>4. QED
  BY <1>1, <1>2, <1>3

\* getNextProcess's dequeue and enqueue: the same pids, in another order.
LEMMA RotateFact ==
  ASSUME NEW s \in Seq(Pid), NoDup(s), s # << >>
  PROVE  /\ Head(s) \in Pid /\ In(s, Head(s))
         /\ Append(Tail(s), Head(s)) \in Seq(Pid)
         /\ NoDup(Append(Tail(s), Head(s)))
         /\ \A x : In(Append(Tail(s), Head(s)), x) <=> In(s, x)
<1>1. /\ Head(s) \in Pid /\ Head(s) = s[1] /\ Len(s) >= 1
      /\ Tail(s) \in Seq(Pid) /\ Len(Tail(s)) = Len(s) - 1
      /\ \A i \in 1..(Len(s) - 1) : Tail(s)[i] = s[i + 1]
  OBVIOUS
<1>2. NoDup(Tail(s)) /\ ~In(Tail(s), Head(s))
  BY <1>1 DEF NoDup, In
<1>3. \A x : In(s, x) <=> In(Tail(s), x) \/ x = Head(s)
  <2>1. ASSUME NEW x, In(Tail(s), x) PROVE In(s, x)
    BY <1>1, <2>1 DEF In
  <2>2. In(s, Head(s))
    BY <1>1 DEF In
  <2>3. ASSUME NEW x, In(s, x), x # Head(s) PROVE In(Tail(s), x)
    <3>1. PICK i \in 1..Len(s) : s[i] = x
      BY <2>3 DEF In
    <3>2. i - 1 \in 1..Len(Tail(s)) /\ Tail(s)[i - 1] = x
      BY <3>1, <2>3, <1>1
    <3>3. QED
      BY <3>2 DEF In
  <2>4. QED
    BY <2>1, <2>2, <2>3
<1>4. QED
  BY <1>1, <1>2, <1>3, AppendFact

-----------------------------------------------------------------------------
(* Well-formed kernel states: QueueInv, the foreground half of              *)
(* NoDanglingPointer and the facts about fresh pids that make them          *)
(* inductive, except that the zombie queue may be in use (as it is in the   *)
(* middle of kill) and that the current process may have left ready.  The   *)
(* set lost names the processes that no queue holds: creation adds to it    *)
(* when it finds no memory for the queue node, nothing else changes it.     *)

Queued(k0, p) == \E q \in QueueName : InQueue(k0, q, p)

Queues(k0) ==
  /\ \A q \in QueueName : NoDup(k0.queue[q])
  /\ \A p \in Pid, q, r \in QueueName : InQueue(k0, q, p) /\ InQueue(k0, r, p) => q = r
  /\ \A q \in QueueName : ~InQueue(k0, q, IdlePid)

States(k0) ==
  \A p \in Pid :
    /\ InQueue(k0, "ready", p) => k0.pcb[p].state \in {"READY", "RUNNING"}
    /\ InQueue(k0, "blocked", p) => k0.pcb[p].state = "BLOCKED"
    /\ InQueue(k0, "blockedBySem", p) => k0.pcb[p].state = "BLOCKED"
    /\ InQueue(k0, "zombie", p) => k0.pcb[p].state = "ZOMBIE"

\* The processes of lost, and no others, exist in no queue.  (A process with
\* idle's priority is not meant to be in one.)
Strays(k0, lost) ==
  /\ lost \subseteq Pid \ {IdlePid}
  /\ \A p \in Pid \ {IdlePid} :
       p \in lost <=> /\ k0.pcb[p].state # "UNUSED" /\ k0.pcb[p].priority # IDLE_PRIORITY
                     /\ ~Queued(k0, p)

Fresh(k0) ==
  /\ k0.nextPid > ShellPid
  /\ \A p \in Pid : p >= k0.nextPid => k0.pcb[p].state = "UNUSED"

Foreground(k0) ==
  k0.foreground # NoPid => Queued(k0, k0.foreground) /\ ~InQueue(k0, "zombie", k0.foreground)

WF(k0, lost) ==
  /\ k0 \in KernelState
  /\ Queues(k0)
  /\ States(k0)
  /\ Strays(k0, lost)
  /\ Fresh(k0)
  /\ Foreground(k0)

\* Who is in a queue is not lost.
LEMMA QueuedNotLost ==
  ASSUME NEW lost, NEW k0, WF(k0, lost), NEW p \in Pid, NEW q \in QueueName, InQueue(k0, q, p)
  PROVE  p \notin lost /\ Queued(k0, p)
BY DEF WF, Strays, Queued

\* Who is lost exists, and is in no queue.
LEMMA LostFact ==
  ASSUME NEW lost, NEW k0, WF(k0, lost), NEW p \in lost
  PROVE  /\ p \in Pid /\ p # IdlePid /\ k0.pcb[p].state # "UNUSED"
         /\ k0.pcb[p].priority # IDLE_PRIORITY
         /\ ~Queued(k0, p) /\ \A q \in QueueName : ~InQueue(k0, q, p)
BY DEF WF, Strays, Queued

\* The queues are all that InQueue looks at.
LEMMA InQueueIsIn ==
  ASSUME NEW k0, NEW q, NEW p
  PROVE  InQueue(k0, q, p) <=> In(k0.queue[q], p)
BY DEF InQueue, In

\* switchProcessFromQueues moves p and touches nothing else.
LEMMA SwitchFact ==
  ASSUME NEW k0 \in KernelState, Queues(k0), NEW p \in Pid,
         NEW from \in QueueName, NEW to \in QueueName, from # to, InQueue(k0, from, p)
  PROVE  LET k1 == SwitchProcessFromQueues(k0, from, to, p)
         IN  /\ k1 = [k0 EXCEPT !.queue = k1.queue]
             /\ k1.queue \in [QueueName -> Seq(Pid)]
             /\ \A q \in QueueName : NoDup(k1.queue[q])
             /\ \A q \in QueueName, x \in Pid :
                  InQueue(k1, q, x) <=> IF x = p THEN q = to ELSE InQueue(k0, q, x)
<1> DEFINE k1 == SwitchProcessFromQueues(k0, from, to, p)
           s == RemovePid(k0.queue[from], p)
           t == Append(k0.queue[to], p)
<1>1. k0.queue \in [QueueName -> Seq(Pid)]
  BY DEF KernelState
<1>2. /\ k1 = [k0 EXCEPT !.queue = [k0.queue EXCEPT ![from] = s, ![to] = t]]
      /\ k1.queue = [k0.queue EXCEPT ![from] = s, ![to] = t]
  BY <1>1 DEF SwitchProcessFromQueues, Enqueue, KernelState
<1>3. s \in Seq(Pid) /\ NoDup(s) /\ \A x : In(s, x) <=> In(k0.queue[from], x) /\ x # p
  BY <1>1, RemovePidFact DEF Queues
<1>4. t \in Seq(Pid) /\ NoDup(t) /\ \A x : In(t, x) <=> In(k0.queue[to], x) \/ x = p
  <2>1. ~In(k0.queue[to], p)
    BY InQueueIsIn DEF Queues
  <2>2. QED
    BY <1>1, <2>1, AppendFact DEF Queues
<1> HIDE DEF k1, s, t
<1>5. /\ k1.queue \in [QueueName -> Seq(Pid)]
      /\ k1.queue[from] = s /\ k1.queue[to] = t
      /\ \A q \in QueueName \ {from, to} : k1.queue[q] = k0.queue[q]
  BY <1>1, <1>2, <1>3, <1>4
<1>6. \A q \in QueueName : NoDup(k1.queue[q])
  BY <1>3, <1>4, <1>5 DEF Queues
<1>7. ASSUME NEW q \in QueueName, NEW x \in Pid
      PROVE  InQueue(k1, q, x) <=> IF x = p THEN q = to ELSE InQueue(k0, q, x)
  <2>1. InQueue(k0, q, p) => q = from
    BY DEF Queues
  <2>2. QED
    BY <2>1, <1>3, <1>4, <1>5, InQueueIsIn
<1>8. QED
  BY <1>2, <1>5, <1>6, <1>7 DEF k1

\* The fields no queue operation writes.
SameRest(k0, k1) ==
  /\ k1.current = k0.current /\ k1.currentPid = k0.currentPid
  /\ k1.nextPid = k0.nextPid /\ k1.cpu = k0.cpu /\ k1.sems = k0.sems
  /\ k1.first = k0.first /\ k1.foreground = k0.foreground

\* The queues that functions move a process between, and the states they set.
LEMMA NameFact ==
  /\ \A q \in {"ready", "blocked", "blockedBySem"} : q \in QueueName \ {"zombie"}
  /\ "READY" \in State /\ "BLOCKED" \in State
BY DEF QueueName, State

\* The pids and queue names that the code writes as constants.
LEMMA PidFact ==
  /\ IdlePid \in Pid /\ ShellPid \in Pid /\ NoPid \notin Pid
  /\ \A q \in {"ready", "blocked", "blockedBySem", "zombie"} : q \in QueueName
BY MaxPidAssumption DEF Pid, IdlePid, ShellPid, NoPid, QueueName

\* Writing the state field of one PCB.
LEMMA SetStateFact ==
  ASSUME NEW k0 \in KernelState, NEW p \in Pid, NEW st \in State
  PROVE  LET k1 == SetState(k0, p, st)
         IN  /\ k1 \in KernelState
             /\ SameRest(k0, k1)
             /\ k1.queue = k0.queue /\ k1.quantum = k0.quantum
             /\ k1.pcb = [k0.pcb EXCEPT ![p].state = st]
<1>1. k0.pcb \in [Pid -> Pcb]
  BY DEF KernelState
<1>2. [k0.pcb EXCEPT ![p].state = st] \in [Pid -> Pcb]
  BY <1>1 DEF Pcb
<1>3. QED
  BY <1>2 DEF SetState, SameRest, KernelState

\* Moving a process between ready, blocked and blockedBySem, with the state
\* that goes with its new queue, keeps a kernel state well-formed.
LEMMA MoveFact ==
  ASSUME NEW lost, NEW k0, WF(k0, lost), NEW p \in Pid,
         NEW from \in QueueName \ {"zombie"}, NEW to \in QueueName \ {"zombie"},
         from # to, InQueue(k0, from, p),
         NEW st \in State, st = IF to = "ready" THEN "READY" ELSE "BLOCKED",
         NEW k2, k2 = SetState(SwitchProcessFromQueues(k0, from, to, p), p, st)
  PROVE  /\ WF(k2, lost)
         /\ SameRest(k0, k2)
         /\ k2.pcb = [k0.pcb EXCEPT ![p].state = st]
         /\ \A q \in QueueName, x \in Pid :
              InQueue(k2, q, x) <=> IF x = p THEN q = to ELSE InQueue(k0, q, x)
<1> DEFINE k1 == SwitchProcessFromQueues(k0, from, to, p)
<1>0. k2 = SetState(k1, p, st)
  OBVIOUS
<1>1. k0 \in KernelState /\ Queues(k0) /\ States(k0) /\ Strays(k0, lost) /\ Fresh(k0) /\ Foreground(k0)
  BY DEF WF
<1>2. /\ k1 = [k0 EXCEPT !.queue = k1.queue]
      /\ k1.queue \in [QueueName -> Seq(Pid)]
      /\ \A q \in QueueName : NoDup(k1.queue[q])
      /\ \A q \in QueueName, x \in Pid :
           InQueue(k1, q, x) <=> IF x = p THEN q = to ELSE InQueue(k0, q, x)
  BY <1>1, SwitchFact
<1> HIDE DEF k1
<1>3. /\ k2 \in KernelState
      /\ k2.queue = k1.queue
      /\ SameRest(k0, k2)
      /\ k2.pcb = [k0.pcb EXCEPT ![p].state = st]
  <2>1. /\ k1 \in KernelState
        /\ SameRest(k0, k1)
        /\ k1.pcb = k0.pcb
    BY <1>1, <1>2 DEF KernelState, SameRest
  <2>2. QED
    BY <1>0, <2>1, SetStateFact DEF SameRest
<1>4. \A q \in QueueName, x \in Pid :
        InQueue(k2, q, x) <=> IF x = p THEN q = to ELSE InQueue(k0, q, x)
  BY <1>2, <1>3, InQueueIsIn
<1>5. k0.pcb \in [Pid -> Pcb] /\ k2.pcb \in [Pid -> Pcb]
  BY <1>1, <1>3 DEF KernelState
<1>6. /\ k2.pcb[p].state = st
      /\ \A x \in Pid \ {p} : k2.pcb[x] = k0.pcb[x]
      /\ \A x \in Pid : k2.pcb[x].priority = k0.pcb[x].priority
  BY <1>3, <1>5 DEF Pcb
<1>7. p # IdlePid /\ k0.pcb[p].state # "UNUSED"
  BY <1>1 DEF Queues, States, QueueName
<1>8. Queues(k2)
  <2>1. \A q \in QueueName : NoDup(k2.queue[q])
    BY <1>2, <1>3
  <2>2. \A x \in Pid, q, r \in QueueName : InQueue(k2, q, x) /\ InQueue(k2, r, x) => q = r
    BY <1>1, <1>4 DEF Queues
  <2>3. \A q \in QueueName : ~InQueue(k2, q, IdlePid)
    BY <1>1, <1>4, <1>7, PidFact DEF Queues
  <2>4. QED
    BY <2>1, <2>2, <2>3 DEF Queues
<1>9. States(k2)
  BY <1>1, <1>4, <1>6 DEF States, QueueName
<1>10. Strays(k2, lost)
  BY <1>1, <1>4, <1>6 DEF Strays, Queued
<1>11. Fresh(k2)
  BY <1>1, <1>3, <1>6, <1>7 DEF Fresh, SameRest
<1>12. Foreground(k2)
  BY <1>1, <1>3, <1>4, PidFact DEF Foreground, SameRest, Queued, KernelState
<1>13. QED
  BY <1>3, <1>4, <1>8, <1>9, <1>10, <1>11, <1>12 DEF WF

-----------------------------------------------------------------------------
(* Dispatching and blocking.                                                *)

\* The current process is idle, or is in the ready queue, or was made by
\* createProcess while idle was current and found no memory for a queue node.
CurOK(k0, lost) ==
  \/ k0.current = IdlePid
  \/ InQueue(k0, "ready", k0.current)
  \/ k0.current \in lost /\ k0.pcb[k0.current].state \in {"READY", "RUNNING"}

\* k1 is well-formed, and has the zombies of k0.
Keeps(k0, k1, lost) ==
  /\ WF(k1, lost)
  /\ CurOK(k0, lost) => CurOK(k1, lost)
  /\ \A x \in Pid : InQueue(k1, "zombie", x) <=> InQueue(k0, "zombie", x)

Alive(k0, p, lost) == k0.pcb[p].state \notin {"UNUSED", "ZOMBIE"} /\ p \notin lost

\* k1 has the semaphores of k0, nobody new, and everybody who sleeps on a
\* semaphore in k0 and is alive in k1 still does.
Quiet(k0, k1, lost) ==
  /\ k1.sems = k0.sems
  /\ k1.nextPid = k0.nextPid
  /\ \A x \in Pid \ {IdlePid} :
       Alive(k1, x, lost) => /\ Alive(k0, x, lost)
                             /\ InQueue(k0, "blockedBySem", x) => InQueue(k1, "blockedBySem", x)

\* A write to the PCB of one process that the queues do not notice.
LEMMA PcbWriteFact ==
  ASSUME NEW lost, NEW k0, WF(k0, lost), NEW k1 \in KernelState, NEW p \in Pid,
         k1.queue = k0.queue, k1.nextPid = k0.nextPid, k1.foreground = k0.foreground,
         \A x \in Pid \ {p} : k1.pcb[x] = k0.pcb[x],
         p # IdlePid => /\ k1.pcb[p].priority = IDLE_PRIORITY => k0.pcb[p].priority = IDLE_PRIORITY
                        /\ k0.pcb[p].priority = IDLE_PRIORITY => k1.pcb[p].priority = IDLE_PRIORITY,
         \/ k1.pcb[p].state = k0.pcb[p].state
         \/ k0.pcb[p].state \in {"READY", "RUNNING"} /\ k1.pcb[p].state \in {"READY", "RUNNING"}
         \/ p = IdlePid
  PROVE  /\ WF(k1, lost)
         /\ \A q \in QueueName, x \in Pid : InQueue(k1, q, x) <=> InQueue(k0, q, x)
<1>1. k0 \in KernelState /\ Queues(k0) /\ States(k0) /\ Strays(k0, lost) /\ Fresh(k0) /\ Foreground(k0)
  BY DEF WF
<1>2. \A q \in QueueName, x \in Pid : InQueue(k1, q, x) <=> InQueue(k0, q, x)
  BY InQueueIsIn
<1>3. Queues(k1)
  BY <1>1, <1>2, PidFact DEF Queues
<1>4. States(k1)
  BY <1>1, <1>2, PidFact DEF States, Queues
<1>5. Strays(k1, lost)
  BY <1>1, <1>2, PidFact DEF Strays, Queued
<1>6. Fresh(k1)
  <2>1. k0.nextPid \in Nat /\ k0.nextPid > 1 /\ k1.nextPid = k0.nextPid
    BY <1>1 DEF Fresh, ShellPid, KernelState
  <2>2. ASSUME NEW x \in Pid, x >= k1.nextPid PROVE k1.pcb[x].state = "UNUSED"
    <3>1. k0.pcb[x].state = "UNUSED" /\ x # IdlePid
      BY <1>1, <2>1, <2>2 DEF Fresh, IdlePid
    <3>2. QED
      BY <3>1
  <2>3. QED
    BY <2>1, <2>2 DEF Fresh, ShellPid
<1>7. Foreground(k1)
  BY <1>1, <1>2, PidFact DEF Foreground, Queued, KernelState
<1>8. QED
  BY <1>2, <1>3, <1>4, <1>5, <1>6, <1>7 DEF WF

\* calculateQuantum never returns a negative number of ticks.
LEMMA QuantumFact ==
  ASSUME NEW n \in 0..IDLE_PRIORITY
  PROVE  CalculateQuantum(n) \in Nat
<1>1. QUANTUM \in Nat /\ MAX_PRIORITY \in Nat /\ n \in Nat
  BY QuantumAssumption, PriorityAssumption DEF IDLE_PRIORITY
<1>2. CASE n = IDLE_PRIORITY
  BY <1>1, <1>2 DEF CalculateQuantum
<1>3. CASE n # IDLE_PRIORITY
  <2>1. MAX_PRIORITY - n + 1 \in Nat
    BY <1>1, <1>3 DEF IDLE_PRIORITY
  <2>2. \A a, b \in Nat : a * b \in Nat
    OBVIOUS
  <2>3. QED
    BY <1>1, <1>3, <2>1, <2>2 DEF CalculateQuantum
<1>4. QED
  BY <1>2, <1>3

\* getNextProcess leaves a current process that is idle or ready.
LEMMA GetNextFact ==
  ASSUME NEW lost, NEW k0, WF(k0, lost)
  PROVE  LET k1 == GetNextProcess(k0)
         IN  /\ WF(k1, lost) /\ CurOK(k1, lost)
             /\ k1.current = IdlePid \/ InQueue(k1, "ready", k1.current)
             /\ k1.pcb = k0.pcb /\ k1.cpu = k0.cpu /\ k1.sems = k0.sems
             /\ k1.nextPid = k0.nextPid /\ k1.currentPid = k0.currentPid
             /\ \A q \in QueueName, x \in Pid : InQueue(k1, q, x) <=> InQueue(k0, q, x)
<1> DEFINE k1 == GetNextProcess(k0)
           s == k0.queue["ready"]
           r == Append(Tail(s), Head(s))
           f == IF k0.pcb[Head(s)].foreground THEN Head(s) ELSE k0.foreground
<1>1. k0 \in KernelState /\ Queues(k0) /\ States(k0) /\ Strays(k0, lost) /\ Fresh(k0) /\ Foreground(k0)
  BY DEF WF
<1>2. CASE s = << >>
  <2>1. /\ k1 \in KernelState /\ k1.current = IdlePid
        /\ k1.queue = k0.queue /\ k1.pcb = k0.pcb /\ k1.nextPid = k0.nextPid
        /\ k1.foreground = k0.foreground /\ k1.cpu = k0.cpu /\ k1.sems = k0.sems
        /\ k1.currentPid = k0.currentPid
    BY <1>1, <1>2, PidFact DEF GetNextProcess, KernelState
  <2> HIDE DEF k1
  <2>2. QED
    BY <2>1, PcbWriteFact, PidFact DEF CurOK, k1
<1>3. CASE s # << >>
  <2>1. s \in Seq(Pid) /\ NoDup(s)
    BY <1>1, PidFact DEF KernelState, Queues
  <2>2. /\ Head(s) \in Pid /\ In(s, Head(s)) /\ r \in Seq(Pid) /\ NoDup(r)
        /\ \A x : In(r, x) <=> In(s, x)
    BY <1>3, <2>1, RotateFact
  <2> HIDE DEF r
  <2>3. /\ k1 = [k0 EXCEPT !.queue = [k0.queue EXCEPT !["ready"] = r],
                           !.current = Head(s),
                           !.foreground = f]
    BY <1>1, <1>3 DEF GetNextProcess, KernelState, r
  <2>3a. f \in Pid \cup {NoPid} /\ (f = Head(s) \/ f = k0.foreground)
    BY <1>1, <2>2 DEF KernelState
  <2>3b. [k0.queue EXCEPT !["ready"] = r] \in [QueueName -> Seq(Pid)]
    BY <1>1, <2>2 DEF KernelState
  <2> HIDE DEF f, k1, s
  <2>4. /\ k1 \in KernelState
        /\ k1.queue = [k0.queue EXCEPT !["ready"] = r]
        /\ k1.current = Head(s)
        /\ k1.foreground = Head(s) \/ k1.foreground = k0.foreground
        /\ k1.pcb = k0.pcb /\ k1.nextPid = k0.nextPid /\ k1.cpu = k0.cpu /\ k1.sems = k0.sems
        /\ k1.currentPid = k0.currentPid
    BY <1>1, <2>2, <2>3, <2>3a, <2>3b DEF KernelState
  <2>5. /\ k1.queue["ready"] = r
        /\ \A q \in QueueName \ {"ready"} : k1.queue[q] = k0.queue[q]
    BY <1>1, <2>4, PidFact DEF KernelState
  <2>6. \A q \in QueueName, x \in Pid : InQueue(k1, q, x) <=> InQueue(k0, q, x)
    BY <2>2, <2>5, InQueueIsIn DEF s
  <2>7. InQueue(k1, "ready", k1.current)
    BY <2>2, <2>4, <2>6, InQueueIsIn, PidFact DEF s
  <2>8. Queues(k1)
    BY <1>1, <2>2, <2>5, <2>6, PidFact DEF Queues
  <2>9. States(k1) /\ Strays(k1, lost) /\ Fresh(k1)
    BY <1>1, <2>4, <2>6, PidFact DEF States, Strays, Fresh, Queued
  <2>10. Foreground(k1)
    <3>1. CASE k1.foreground = Head(s)
      BY <3>1, <2>2, <2>4, <2>7, <2>8, PidFact DEF Foreground, Queued, Queues
    <3>2. CASE k1.foreground = k0.foreground
      BY <1>1, <3>2, <2>6, PidFact DEF Foreground, Queued, KernelState
    <3>3. QED
      BY <2>4, <3>1, <3>2
  <2>11. QED
    BY <2>4, <2>6, <2>7, <2>8, <2>9, <2>10 DEF WF, CurOK, k1
<1>4. QED
  BY <1>2, <1>3

\* The context switch of schedule(): whatever the current process was doing,
\* afterwards the current one is idle or ready.
LEMMA SwitchContextFact ==
  ASSUME NEW lost, NEW k0, WF(k0, lost)
  PROVE  /\ WF(SwitchContext(k0), lost) /\ CurOK(SwitchContext(k0), lost)
         /\ \A q \in QueueName, x \in Pid : InQueue(SwitchContext(k0), q, x) <=> InQueue(k0, q, x)
         /\ Quiet(k0, SwitchContext(k0), lost)
<1> DEFINE c == k0.current
           st == IF k0.pcb[c].state = "RUNNING" THEN "READY" ELSE k0.pcb[c].state
           r == IF k0.first THEN k0.pcb[c].rsp ELSE k0.cpu
           pcb1 == [k0.pcb EXCEPT ![c].rsp = r, ![c].state = st]
           k1 == [k0 EXCEPT !.pcb = pcb1]
           k2 == GetNextProcess(k1)
           n == k2.current
           pcb3 == [k2.pcb EXCEPT ![n].state = "RUNNING"]
           k3 == [k2 EXCEPT !.pcb        = pcb3,
                            !.first      = FALSE,
                            !.currentPid = n,
                            !.quantum    = CalculateQuantum(k2.pcb[n].priority),
                            !.cpu        = k2.pcb[n].rsp]
<1>1. /\ k0 \in KernelState /\ c \in Pid /\ k0.pcb \in [Pid -> Pcb] /\ k0.cpu \in Context
      /\ States(k0) /\ Queues(k0)
  BY DEF WF, KernelState
<1>2. /\ k0.pcb[c] \in Pcb
      /\ r \in Context /\ st \in State
      /\ pcb1 \in [Pid -> Pcb]
      /\ \A x \in Pid \ {c} : pcb1[x] = k0.pcb[x]
      /\ pcb1[c].state = st /\ pcb1[c].priority = k0.pcb[c].priority
  BY <1>1 DEF Pcb, State
<1>3. /\ k1 \in KernelState /\ k1.pcb = pcb1
      /\ k1.queue = k0.queue /\ k1.nextPid = k0.nextPid /\ k1.foreground = k0.foreground
      /\ k1.sems = k0.sems
  <2> HIDE DEF pcb1
  <2>1. QED
    BY <1>1, <1>2 DEF KernelState
<1>4. \/ st = k0.pcb[c].state
      \/ k0.pcb[c].state \in {"READY", "RUNNING"} /\ st \in {"READY", "RUNNING"}
  OBVIOUS
<1>5. SwitchContext(k0) = k3
  <2>1. k1 = [k0 EXCEPT !.pcb[k0.current].rsp = IF k0.first THEN @ ELSE k0.cpu,
                        !.pcb[k0.current].state = IF @ = "RUNNING" THEN "READY" ELSE @]
    BY <1>1 DEF KernelState, Pcb
  <2> HIDE DEF k1
  <2>2. QED
    BY <2>1 DEF SwitchContext
<1> HIDE DEF k1, pcb1, st, r
<1>6. /\ WF(k1, lost)
      /\ \A q \in QueueName, x \in Pid : InQueue(k1, q, x) <=> InQueue(k0, q, x)
      /\ \A x \in Pid : Alive(k1, x, lost) <=> Alive(k0, x, lost)
  BY <1>1, <1>2, <1>3, <1>4, PcbWriteFact DEF Alive
<1>7. /\ WF(k2, lost) /\ CurOK(k2, lost) /\ k2.pcb = k1.pcb /\ k2.sems = k1.sems /\ k2.nextPid = k1.nextPid
      /\ \A q \in QueueName, x \in Pid : InQueue(k2, q, x) <=> InQueue(k1, q, x)
  BY <1>6, GetNextFact
<1> HIDE DEF k2
<1>8. /\ k2 \in KernelState /\ n \in Pid /\ k2.pcb \in [Pid -> Pcb] /\ k2.pcb[n] \in Pcb
      /\ n # IdlePid => k2.pcb[n].state \in {"READY", "RUNNING"}
  BY <1>7 DEF WF, KernelState, CurOK, States
<1>9. /\ CalculateQuantum(k2.pcb[n].priority) \in Nat
      /\ k2.pcb[n].rsp \in Context
  BY <1>8, QuantumFact DEF Pcb
<1>10. /\ pcb3 \in [Pid -> Pcb]
       /\ \A x \in Pid \ {n} : pcb3[x] = k2.pcb[x]
       /\ pcb3[n].state = "RUNNING" /\ pcb3[n].priority = k2.pcb[n].priority
  BY <1>8 DEF Pcb, State
<1>11. /\ k3 \in KernelState /\ k3.pcb = pcb3 /\ k3.current = n
       /\ k3.queue = k2.queue /\ k3.nextPid = k2.nextPid /\ k3.foreground = k2.foreground
       /\ k3.sems = k2.sems
  <2> HIDE DEF pcb3
  <2>1. QED
    BY <1>8, <1>9, <1>10 DEF KernelState
<1> HIDE DEF k3, pcb3
<1>12. /\ WF(k3, lost)
       /\ \A q \in QueueName, x \in Pid : InQueue(k3, q, x) <=> InQueue(k2, q, x)
  BY <1>7, <1>8, <1>10, <1>11, PcbWriteFact
<1>13. CurOK(k3, lost)
  BY <1>7, <1>8, <1>10, <1>11, <1>12, PidFact DEF CurOK
<1>14. \A x \in Pid \ {IdlePid} : Alive(k3, x, lost) => Alive(k0, x, lost)
  BY <1>6, <1>7, <1>8, <1>10, <1>11 DEF Alive
<1>15. QED
  BY <1>3, <1>5, <1>6, <1>7, <1>11, <1>12, <1>13, <1>14, PidFact DEF Quiet

\* schedule() and yield().
LEMMA ScheduleFact ==
  ASSUME NEW lost, NEW k0, WF(k0, lost)
  PROVE  /\ Keeps(k0, Schedule(k0), lost)
         /\ Keeps(k0, Yield(k0), lost) /\ CurOK(Yield(k0), lost)
         /\ \A q \in QueueName, x \in Pid : InQueue(Schedule(k0), q, x) <=> InQueue(k0, q, x)
         /\ \A q \in QueueName, x \in Pid : InQueue(Yield(k0), q, x) <=> InQueue(k0, q, x)
         /\ Quiet(k0, Schedule(k0), lost) /\ Quiet(k0, Yield(k0), lost)
<1>1. ASSUME NEW n \in Nat
      PROVE  LET k1 == [k0 EXCEPT !.quantum = n]
             IN  /\ WF(k1, lost) /\ Quiet(k0, k1, lost) /\ k1.current = k0.current /\ k1.quantum = n
                 /\ k1.pcb = k0.pcb
                 /\ \A q \in QueueName, x \in Pid : InQueue(k1, q, x) <=> InQueue(k0, q, x)
  <2> DEFINE k1 == [k0 EXCEPT !.quantum = n]
  <2>1. /\ k1 \in KernelState /\ k1.queue = k0.queue /\ k1.pcb = k0.pcb /\ k1.sems = k0.sems
        /\ k1.nextPid = k0.nextPid /\ k1.foreground = k0.foreground /\ k1.current = k0.current
        /\ k1.quantum = n
    BY DEF WF, KernelState
  <2> HIDE DEF k1
  <2>2. WF(k1, lost) /\ \A q \in QueueName, x \in Pid : InQueue(k1, q, x) <=> InQueue(k0, q, x)
    BY <2>1, PcbWriteFact, PidFact
  <2>3. QED
    BY <2>1, <2>2, PidFact DEF k1, Quiet, Alive
<1>2. k0.quantum \in Nat /\ k0.current \in Pid
  BY DEF WF, KernelState
<1>3. /\ Keeps(k0, Schedule(k0), lost) /\ Quiet(k0, Schedule(k0), lost)
      /\ \A q \in QueueName, x \in Pid : InQueue(Schedule(k0), q, x) <=> InQueue(k0, q, x)
  <2>1. CASE k0.quantum > 0 /\ k0.pcb[k0.current].state = "RUNNING"
    <3>1. k0.quantum - 1 \in Nat /\ Schedule(k0) = [k0 EXCEPT !.quantum = k0.quantum - 1]
      BY <1>2, <2>1 DEF Schedule, WF, KernelState
    <3>2. QED
      BY <1>1, <1>2, <3>1, PidFact DEF Keeps, CurOK
  <2>2. CASE ~(k0.quantum > 0 /\ k0.pcb[k0.current].state = "RUNNING")
    BY <2>2, SwitchContextFact, PidFact DEF Schedule, Keeps
  <2>3. QED
    BY <2>1, <2>2
<1>4. /\ Keeps(k0, Yield(k0), lost) /\ CurOK(Yield(k0), lost) /\ Quiet(k0, Yield(k0), lost)
      /\ \A q \in QueueName, x \in Pid : InQueue(Yield(k0), q, x) <=> InQueue(k0, q, x)
  <2> DEFINE k1 == [k0 EXCEPT !.quantum = 0]
  <2>1. /\ WF(k1, lost) /\ Quiet(k0, k1, lost) /\ k1.quantum = 0
        /\ \A q \in QueueName, x \in Pid : InQueue(k1, q, x) <=> InQueue(k0, q, x)
    BY <1>1
  <2> HIDE DEF k1
  <2>2. Yield(k0) = SwitchContext(k1)
    BY <2>1 DEF Yield, Schedule, k1
  <2> DEFINE k2 == SwitchContext(k1)
  <2>3. /\ WF(k2, lost) /\ CurOK(k2, lost) /\ Quiet(k1, k2, lost)
        /\ \A q \in QueueName, x \in Pid : InQueue(k2, q, x) <=> InQueue(k1, q, x)
    BY <2>1, SwitchContextFact
  <2> HIDE DEF k2
  <2>4. Quiet(k0, k2, lost)
    BY <2>1, <2>3 DEF Quiet
  <2>5. Keeps(k0, k2, lost)
    BY <2>1, <2>3, PidFact DEF Keeps
  <2>6. QED
    BY <2>1, <2>2, <2>3, <2>4, <2>5 DEF k2
<1>5. QED
  BY <1>3, <1>4

\* blockProcess and unblockProcess, of any process by anybody.
LEMMA BlockFact ==
  ASSUME NEW lost, NEW k0, WF(k0, lost), NEW p \in Pid
  PROVE  /\ Keeps(k0, BlockProcess(k0, p), lost) /\ Quiet(k0, BlockProcess(k0, p), lost)
         /\ Keeps(k0, UnblockProcess(k0, p), lost) /\ Quiet(k0, UnblockProcess(k0, p), lost)
<1>1. /\ Keeps(k0, BlockProcess(k0, p), lost) /\ Quiet(k0, BlockProcess(k0, p), lost)
  <2> DEFINE k1 == BlockProcessQueue(k0, p)
  <2>1. CASE ~CanBlock(k0, p)
    BY <2>1 DEF BlockProcess, BlockProcessQueue, Keeps, Quiet
  <2>2. CASE CanBlock(k0, p)
    <3>1. InQueue(k0, "ready", p) /\ k1 = SetState(SwitchProcessFromQueues(k0, "ready", "blocked", p), p, "BLOCKED")
      BY <2>2 DEF CanBlock, BlockProcessQueue
    <3>2. /\ WF(k1, lost) /\ SameRest(k0, k1)
          /\ k1.pcb = [k0.pcb EXCEPT ![p].state = "BLOCKED"]
          /\ \A q \in QueueName, x \in Pid :
               InQueue(k1, q, x) <=> IF x = p THEN q = "blocked" ELSE InQueue(k0, q, x)
      <4> HIDE DEF k1
      <4>1. QED
        BY <3>1, MoveFact, NameFact
    <3> HIDE DEF k1
    <3>3. /\ k0.current \in Pid /\ k0.pcb \in [Pid -> Pcb]
          /\ k0.pcb[p].state \in {"READY", "RUNNING"}
          /\ ~InQueue(k0, "blockedBySem", p) /\ ~InQueue(k0, "zombie", p)
      BY <3>1, PidFact DEF WF, KernelState, States, Queues
    <3>4. \A x \in Pid : Alive(k1, x, lost) => Alive(k0, x, lost)
      BY <3>2, <3>3 DEF Alive, Pcb
    <3>5. Quiet(k0, k1, lost)
      BY <3>2, <3>3, <3>4, PidFact DEF Quiet, SameRest
    <3>6. \A x \in Pid : InQueue(k1, "zombie", x) <=> InQueue(k0, "zombie", x)
      BY <3>2, <3>3, PidFact
    <3>7. CASE p = k1.current
      <4>1. BlockProcess(k0, p) = Yield(k1)
        BY <2>2, <3>7 DEF BlockProcess, k1
      <4>2. QED
        BY <4>1, <3>2, <3>5, <3>6, ScheduleFact DEF Keeps, Quiet
    <3>8. CASE p # k1.current
      <4>1. BlockProcess(k0, p) = k1
        BY <2>2, <3>8 DEF BlockProcess, k1
      <4>2. CurOK(k0, lost) => CurOK(k1, lost)
        BY <3>2, <3>3, <3>8, PidFact DEF CurOK, SameRest
      <4>3. QED
        BY <4>1, <4>2, <3>2, <3>5, <3>6 DEF Keeps
    <3>9. QED
      BY <3>7, <3>8
  <2>3. QED
    BY <2>1, <2>2
<1>2. /\ Keeps(k0, UnblockProcess(k0, p), lost) /\ Quiet(k0, UnblockProcess(k0, p), lost)
  <2> DEFINE k1 == UnblockProcess(k0, p)
  <2>1. CASE ~InQueue(k0, "blocked", p)
    BY <2>1 DEF UnblockProcess, UnblockProcessQueue, Keeps, Quiet
  <2>2. CASE InQueue(k0, "blocked", p)
    <3>1. k1 = SetState(SwitchProcessFromQueues(k0, "blocked", "ready", p), p, "READY")
      BY <2>2 DEF UnblockProcess, UnblockProcessQueue
    <3>2. /\ WF(k1, lost) /\ SameRest(k0, k1)
          /\ k1.pcb = [k0.pcb EXCEPT ![p].state = "READY"]
          /\ \A q \in QueueName, x \in Pid :
               InQueue(k1, q, x) <=> IF x = p THEN q = "ready" ELSE InQueue(k0, q, x)
      <4> HIDE DEF k1
      <4>1. QED
        BY <2>2, <3>1, MoveFact, NameFact
    <3> HIDE DEF k1
    <3>3. /\ k0.current \in Pid /\ k0.pcb \in [Pid -> Pcb]
          /\ k0.pcb[p].state = "BLOCKED"
          /\ ~InQueue(k0, "blockedBySem", p) /\ ~InQueue(k0, "zombie", p)
      BY <2>2, PidFact DEF WF, KernelState, States, Queues
    <3>4. \A x \in Pid : Alive(k1, x, lost) => Alive(k0, x, lost)
      BY <3>2, <3>3 DEF Alive, Pcb
    <3>5. CurOK(k0, lost) => CurOK(k1, lost)
      BY <3>2, <3>3, PidFact DEF CurOK, SameRest
    <3>6. Quiet(k0, k1, lost)
      BY <3>2, <3>3, <3>4, PidFact DEF Quiet, SameRest
    <3>7. Keeps(k0, k1, lost)
      BY <3>2, <3>3, <3>5, PidFact DEF Keeps
    <3>8. QED
      BY <3>6, <3>7 DEF k1
  <2>3. QED
    BY <2>1, <2>2
<1>3. QED
  BY <1>1, <1>2

-----------------------------------------------------------------------------
(* Semaphores.                                                              *)

\* NoUnitWhileAsleep and SleepersAreBlocked for a kernel state in which kill
\* may be at work, with the fact that only pids already handed out sleep.
Sleepers(k0, lost) ==
  /\ \A s \in SemId : k0.sems[s].value > 0 => k0.sems[s].blocked = << >>
  /\ \A s \in SemId : \A i \in 1..Len(k0.sems[s].blocked) :
       LET p == k0.sems[s].blocked[i]
       IN  /\ p < k0.nextPid
           /\ p # IdlePid /\ Alive(k0, p, lost) => InQueue(k0, "blockedBySem", p)
  /\ \A s, t \in SemId :
       \A i \in 1..Len(k0.sems[s].blocked), j \in 1..Len(k0.sems[t].blocked) :
         LET p == k0.sems[s].blocked[i]
         IN  p = k0.sems[t].blocked[j] /\ p # IdlePid /\ Alive(k0, p, lost) => s = t /\ i = j

\* k1 is well-formed and has the zombies of k0, its sleepers are in order, and
\* no pid was handed out.
Steps(k0, k1, lost) ==
  /\ Keeps(k0, k1, lost)
  /\ k1.nextPid = k0.nextPid
  /\ CurOK(k0, lost) /\ Sleepers(k0, lost) => Sleepers(k1, lost)

\* The types of the fields of a semaphore.
LEMMA SemTypeFact ==
  ASSUME NEW lost, NEW k0, WF(k0, lost), NEW s \in SemId
  PROVE  /\ k0.sems \in [SemId -> Sem] /\ k0.sems[s] \in Sem
         /\ k0.sems[s].value \in Nat /\ k0.sems[s].blocked \in Seq(Pid)
BY DEF WF, KernelState, Sem

\* What a semaphore's queue holds are pids.
LEMMA SleeperPid ==
  ASSUME NEW lost, NEW k0, WF(k0, lost), NEW s \in SemId, NEW i \in 1..Len(k0.sems[s].blocked)
  PROVE  k0.sems[s].blocked[i] \in Pid
<1>1. k0.sems[s].blocked \in Seq(Pid)
  BY SemTypeFact
<1>2. QED
  BY <1>1

\* A live process sleeps in one place of one semaphore's queue.
LEMMA SleeperUnique ==
  ASSUME NEW lost, NEW k0, Sleepers(k0, lost), NEW t \in SemId, NEW u \in SemId,
         NEW i \in 1..Len(k0.sems[t].blocked), NEW j \in 1..Len(k0.sems[u].blocked),
         k0.sems[t].blocked[i] = k0.sems[u].blocked[j],
         k0.sems[t].blocked[i] # IdlePid, Alive(k0, k0.sems[t].blocked[i], lost)
  PROVE  t = u /\ i = j
BY DEF Sleepers

\* Sleepers carries over to a state whose queues are those of k0 or empty.
LEMMA TransferFact ==
  ASSUME NEW lost, NEW k0, WF(k0, lost), Sleepers(k0, lost), NEW k1, k1.nextPid = k0.nextPid,
         \A t \in SemId : k1.sems[t].value > 0 => k1.sems[t].blocked = << >>,
         \A t \in SemId : k1.sems[t].blocked = k0.sems[t].blocked \/ Len(k1.sems[t].blocked) = 0,
         \A x \in Pid \ {IdlePid} :
           Alive(k1, x, lost) => /\ Alive(k0, x, lost)
                                 /\ InQueue(k0, "blockedBySem", x) => InQueue(k1, "blockedBySem", x)
  PROVE  Sleepers(k1, lost)
<1>1. \A t \in SemId : \A i \in 1..Len(k1.sems[t].blocked) :
        k1.sems[t].blocked = k0.sems[t].blocked /\ k1.sems[t].blocked[i] \in Pid
  BY SleeperPid
<1>2. ASSUME NEW t \in SemId, NEW i \in 1..Len(k1.sems[t].blocked)
      PROVE  /\ k1.sems[t].blocked[i] < k1.nextPid
             /\ k1.sems[t].blocked[i] # IdlePid /\ Alive(k1, k1.sems[t].blocked[i], lost)
                  => InQueue(k1, "blockedBySem", k1.sems[t].blocked[i])
  BY <1>1, <1>2 DEF Sleepers
<1>3. ASSUME NEW t \in SemId, NEW u \in SemId,
             NEW i \in 1..Len(k1.sems[t].blocked), NEW j \in 1..Len(k1.sems[u].blocked),
             k1.sems[t].blocked[i] = k1.sems[u].blocked[j],
             k1.sems[t].blocked[i] # IdlePid, Alive(k1, k1.sems[t].blocked[i], lost)
      PROVE  t = u /\ i = j
  <2>1. /\ k1.sems[t].blocked = k0.sems[t].blocked /\ k1.sems[u].blocked = k0.sems[u].blocked
        /\ Alive(k0, k0.sems[t].blocked[i], lost)
    BY <1>1, <1>3
  <2>2. QED
    BY <2>1, <1>3 DEF Sleepers
<1>4. QED
  BY <1>2, <1>3 DEF Sleepers

\* A function that wakes nobody and leaves the queues of the semaphores alone
\* keeps the sleepers where they are.
LEMMA QuietFact ==
  ASSUME NEW lost, NEW k0, WF(k0, lost), NEW k1, Quiet(k0, k1, lost), Sleepers(k0, lost)
  PROVE  Sleepers(k1, lost)
<1>1. \A t \in SemId : k1.sems[t].value > 0 => k1.sems[t].blocked = << >>
  BY DEF Quiet, Sleepers
<1>2. QED
  BY <1>1, TransferFact DEF Quiet

SetSem(k0, s, e) == [k0 EXCEPT !.sems[s] = e]

\* A write to the semaphore table alone.
LEMMA SemsWriteFact ==
  ASSUME NEW lost, NEW k0, WF(k0, lost), NEW s \in SemId, NEW e \in Sem,
         NEW k1, k1 = SetSem(k0, s, e)
  PROVE  /\ WF(k1, lost) /\ Keeps(k0, k1, lost)
         /\ k1.sems[s] = e /\ \A t \in SemId \ {s} : k1.sems[t] = k0.sems[t]
         /\ k1.pcb = k0.pcb /\ k1.nextPid = k0.nextPid /\ k1.current = k0.current
         /\ k1.currentPid = k0.currentPid
         /\ \A q \in QueueName, x \in Pid : InQueue(k1, q, x) <=> InQueue(k0, q, x)
<1>1. k0 \in KernelState /\ k0.sems \in [SemId -> Sem] /\ k0.current \in Pid
  BY DEF WF, KernelState
<1>2. [k0.sems EXCEPT ![s] = e] \in [SemId -> Sem]
  BY <1>1
<1>3. /\ k1 \in KernelState /\ k1.sems = [k0.sems EXCEPT ![s] = e]
      /\ k1.queue = k0.queue /\ k1.pcb = k0.pcb /\ k1.nextPid = k0.nextPid
      /\ k1.foreground = k0.foreground /\ k1.current = k0.current
      /\ k1.currentPid = k0.currentPid
  BY <1>1, <1>2 DEF KernelState, SetSem
<1>4. /\ WF(k1, lost)
      /\ \A q \in QueueName, x \in Pid : InQueue(k1, q, x) <=> InQueue(k0, q, x)
  BY <1>3, PcbWriteFact, PidFact
<1>5. QED
  BY <1>1, <1>3, <1>4, PidFact DEF Keeps, CurOK

\* semInit, semClose: an entry with no units and nobody asleep.
LEMMA SemEntryFact ==
  ASSUME NEW lost, NEW k0, WF(k0, lost), NEW s \in SemId, NEW v \in Nat
  PROVE  Steps(k0, SemInit(k0, s, v), lost) /\ Steps(k0, SemClose(k0, s), lost)
<1>1. ASSUME NEW e \in Sem, e.blocked = << >>
      PROVE  Steps(k0, SetSem(k0, s, e), lost)
  <2> DEFINE k1 == SetSem(k0, s, e)
  <2>0. k1 = SetSem(k0, s, e)
    OBVIOUS
  <2> HIDE DEF k1
  <2>1. /\ Keeps(k0, k1, lost)
        /\ k1.sems[s] = e /\ \A t \in SemId \ {s} : k1.sems[t] = k0.sems[t]
        /\ k1.pcb = k0.pcb /\ k1.nextPid = k0.nextPid
        /\ \A q \in QueueName, x \in Pid : InQueue(k1, q, x) <=> InQueue(k0, q, x)
    BY <2>0, <1>1, SemsWriteFact
  <2>2. Len(k1.sems[s].blocked) = 0
    BY <1>1, <2>1
  <2>3. \A t \in SemId : k1.sems[t].blocked = k0.sems[t].blocked \/ Len(k1.sems[t].blocked) = 0
    BY <2>1, <2>2
  <2>4. Sleepers(k0, lost) => Sleepers(k1, lost)
    <3> SUFFICES ASSUME Sleepers(k0, lost) PROVE Sleepers(k1, lost)
      OBVIOUS
    <3>1. \A t \in SemId : k1.sems[t].value > 0 => k1.sems[t].blocked = << >>
      BY <1>1, <2>1 DEF Sleepers
    <3>2. \A x \in Pid : /\ Alive(k1, x, lost) <=> Alive(k0, x, lost)
                         /\ InQueue(k1, "blockedBySem", x) <=> InQueue(k0, "blockedBySem", x)
      BY <2>1, PidFact DEF Alive
    <3>3. QED
      BY <3>1, <3>2, <2>1, <2>3, TransferFact
  <2>5. QED
    BY <2>1, <2>4 DEF Steps, k1
<1>2. Steps(k0, k0, lost)
  BY DEF Steps, Keeps
<1>3. /\ [value |-> v, used |-> TRUE, blocked |-> << >>] \in Sem
      /\ UnusedSem \in Sem /\ UnusedSem.blocked = << >>
  BY DEF Sem, UnusedSem
<1>4. QED
  BY <1>1, <1>2, <1>3 DEF SemInit, SemClose, SetSem

\* blockProcessBySem of the current process: idle is left alone.
LEMMA BlockBySemFact ==
  ASSUME NEW lost, NEW k0, WF(k0, lost), CurOK(k0, lost), NEW k1, k1 = BlockProcessBySem(k0, k0.current)
  PROVE  /\ Keeps(k0, k1, lost) /\ Quiet(k0, k1, lost)
         /\ k0.current # IdlePid /\ k0.current \notin lost => InQueue(k1, "blockedBySem", k0.current)
<1> DEFINE p == k0.current
           k2 == BlockProcessQueueBySem(k0, p)
<1>1. p \in Pid /\ k0.pcb \in [Pid -> Pcb]
  BY DEF WF, KernelState
<1>2. CASE ~InQueue(k0, "ready", p)
  <2>1. k1 = k0 /\ (p = IdlePid \/ p \in lost)
    BY <1>2 DEF BlockProcessBySem, BlockProcessQueueBySem, CurOK
  <2>2. QED
    BY <2>1 DEF Keeps, Quiet
<1>3. CASE InQueue(k0, "ready", p)
  <2>1. k2 = SetState(SwitchProcessFromQueues(k0, "ready", "blockedBySem", p), p, "BLOCKED")
    BY <1>3 DEF BlockProcessQueueBySem
  <2> HIDE DEF k2
  <2>2. /\ WF(k2, lost) /\ SameRest(k0, k2)
        /\ k2.pcb = [k0.pcb EXCEPT ![p].state = "BLOCKED"]
        /\ \A q \in QueueName, x \in Pid :
             InQueue(k2, q, x) <=> IF x = p THEN q = "blockedBySem" ELSE InQueue(k0, q, x)
    BY <1>1, <1>3, <2>1, MoveFact, NameFact
  <2>3. /\ k0.pcb[p].state \in {"READY", "RUNNING"} /\ ~InQueue(k0, "zombie", p)
    BY <1>1, <1>3, PidFact DEF WF, States, Queues
  <2>4. \A x \in Pid : Alive(k2, x, lost) => Alive(k0, x, lost)
    BY <1>1, <2>2, <2>3 DEF Alive, Pcb
  <2>5. Quiet(k0, k2, lost) /\ \A x \in Pid : InQueue(k2, "zombie", x) <=> InQueue(k0, "zombie", x)
    BY <1>1, <2>2, <2>3, <2>4, PidFact DEF Quiet, SameRest
  <2>6. k1 = Yield(k2)
    BY <1>3, <2>2 DEF BlockProcessBySem, k2, SameRest
  <2>7. QED
    BY <1>1, <2>2, <2>5, <2>6, ScheduleFact, PidFact DEF Keeps, Quiet
<1>4. QED
  BY <1>2, <1>3

\* wait.
LEMMA SemWaitFact ==
  ASSUME NEW lost, NEW k0, WF(k0, lost), CurOK(k0, lost), NEW s \in SemId
  PROVE  Steps(k0, SemWait(k0, s), lost) /\ Steps(k0, SemWaitNoNode(k0, s), lost)
<1> DEFINE v == k0.sems[s].value
           b == k0.sems[s].blocked
           c == k0.current
<1>1. /\ v \in Nat /\ b \in Seq(Pid) /\ c \in Pid
      /\ k0 \in KernelState /\ k0.sems \in [SemId -> Sem]
  BY SemTypeFact DEF WF, KernelState, Sem
<1>2. Steps(k0, SemWaitNoNode(k0, s), lost)
  BY BlockBySemFact, QuietFact DEF SemWaitNoNode, Steps, Quiet
<1>3. CASE v > 0
  <2> DEFINE e == [k0.sems[s] EXCEPT !.value = @ - 1]
             k1 == SetSem(k0, s, e)
  <2>1. e \in Sem /\ e.blocked = b /\ SemWait(k0, s) = k1
    <3>1. e \in Sem /\ e.blocked = b
      BY <1>1, <1>3, SMTT(30) DEF Sem
    <3>2. SemWait(k0, s) = k1
      BY <1>3 DEF SemWait, SetSem
    <3>3. QED
      BY <3>1, <3>2
  <2> HIDE DEF e
  <2>2. k1 = SetSem(k0, s, e)
    OBVIOUS
  <2> HIDE DEF k1
  <2>3. /\ Keeps(k0, k1, lost)
        /\ k1.sems[s] = e /\ \A t \in SemId \ {s} : k1.sems[t] = k0.sems[t]
        /\ k1.pcb = k0.pcb /\ k1.nextPid = k0.nextPid
        /\ \A q \in QueueName, x \in Pid : InQueue(k1, q, x) <=> InQueue(k0, q, x)
    BY <2>1, <2>2, SemsWriteFact
  <2>4. \A t \in SemId : k1.sems[t].blocked = k0.sems[t].blocked
    BY <2>1, <2>3
  <2>5. \A x \in Pid : /\ Alive(k1, x, lost) <=> Alive(k0, x, lost)
                       /\ InQueue(k1, "blockedBySem", x) <=> InQueue(k0, "blockedBySem", x)
    BY <2>3, PidFact DEF Alive
  <2>6. Sleepers(k0, lost) => Sleepers(k1, lost)
    <3> SUFFICES ASSUME Sleepers(k0, lost) PROVE Sleepers(k1, lost)
      OBVIOUS
    <3>1. \A t \in SemId : k1.sems[t].value > 0 => k1.sems[t].blocked = << >>
      BY <1>3, <2>1, <2>3 DEF Sleepers
    <3>2. QED
      BY <3>1, <2>3, <2>4, <2>5, TransferFact
  <2>7. QED
    BY <1>2, <2>1, <2>3, <2>6 DEF Steps
<1>4. CASE ~(v > 0)
  <2> DEFINE e == [k0.sems[s] EXCEPT !.blocked = Append(@, c)]
             k1 == SetSem(k0, s, e)
             k2 == BlockProcessBySem(k1, c)
  <2>1. e \in Sem /\ e.blocked = Append(b, c) /\ e.value = v /\ SemWait(k0, s) = k2
    <3>1. e \in Sem /\ e.blocked = Append(b, c) /\ e.value = v
      <4>1. Append(b, c) \in Seq(Pid) /\ k0.sems[s] \in Sem
        BY <1>1
      <4> DEFINE ab == Append(b, c)
      <4>2. e = [k0.sems[s] EXCEPT !.blocked = ab]
        OBVIOUS
      <4> HIDE DEF ab, e, b
      <4>3. QED
        BY <4>1, <4>2 DEF Sem, ab
    <3>2. SemWait(k0, s) = k2
      BY <1>4 DEF SemWait, SetSem
    <3>3. QED
      BY <3>1, <3>2
  <2> HIDE DEF e
  <2>2. k1 = SetSem(k0, s, e)
    OBVIOUS
  <2> HIDE DEF k1
  <2>3. /\ WF(k1, lost) /\ Keeps(k0, k1, lost)
        /\ k1.sems[s] = e /\ \A t \in SemId \ {s} : k1.sems[t] = k0.sems[t]
        /\ k1.pcb = k0.pcb /\ k1.nextPid = k0.nextPid /\ k1.current = c
        /\ \A q \in QueueName, x \in Pid : InQueue(k1, q, x) <=> InQueue(k0, q, x)
    BY <2>1, <2>2, SemsWriteFact
  <2>4. k2 = BlockProcessBySem(k1, k1.current) /\ CurOK(k1, lost)
    BY <2>3 DEF Keeps
  <2> HIDE DEF k2
  <2>5. /\ Keeps(k1, k2, lost) /\ Quiet(k1, k2, lost)
        /\ c # IdlePid /\ c \notin lost => InQueue(k2, "blockedBySem", c)
    BY <2>3, <2>4, BlockBySemFact
  <2>6. Keeps(k0, k2, lost)
    BY <2>3, <2>5 DEF Keeps
  <2>7. ASSUME Sleepers(k0, lost) PROVE Sleepers(k2, lost)
    <3>1. /\ \A t \in SemId \ {s} : k2.sems[t] = k0.sems[t]
          /\ k2.sems[s].value = v /\ k2.sems[s].blocked = Append(b, c)
          /\ k2.nextPid = k0.nextPid
      BY <2>1, <2>3, <2>5 DEF Quiet
    <3>2. \A x \in Pid \ {IdlePid} :
            Alive(k2, x, lost) => /\ Alive(k0, x, lost)
                                  /\ InQueue(k0, "blockedBySem", x) => InQueue(k2, "blockedBySem", x)
      BY <2>3, <2>5, PidFact DEF Quiet, Alive
    <3>3. c < k0.nextPid /\ (c # IdlePid => ~InQueue(k0, "blockedBySem", c))
      <4>1. CASE c = IdlePid
        BY <4>1, <1>1 DEF WF, Fresh, IdlePid, ShellPid, KernelState
      <4>2. CASE InQueue(k0, "ready", c)
        <5>1. k0.pcb[c].state # "UNUSED" /\ ~InQueue(k0, "blockedBySem", c)
          BY <4>2, <1>1, PidFact DEF WF, States, Queues
        <5>2. c \in Int /\ k0.nextPid \in Int /\ ~(c >= k0.nextPid)
          BY <5>1, <1>1 DEF WF, Fresh, KernelState, Pid
        <5>3. QED
          BY <5>1, <5>2
      <4>3. CASE c \in lost
        <5>1. k0.pcb[c].state # "UNUSED" /\ ~InQueue(k0, "blockedBySem", c)
          BY <4>3, LostFact, PidFact
        <5>2. c \in Int /\ k0.nextPid \in Int /\ ~(c >= k0.nextPid)
          BY <5>1, <1>1 DEF WF, Fresh, KernelState, Pid
        <5>3. QED
          BY <5>1, <5>2
      <4>4. QED
        BY <4>1, <4>2, <4>3 DEF CurOK
    <3>4. /\ Len(Append(b, c)) = Len(b) + 1 /\ Append(b, c)[Len(b) + 1] = c
          /\ \A i \in 1..Len(b) : Append(b, c)[i] = b[i]
          /\ Len(b) \in Nat
      BY <1>1
    <3>5. \A t \in SemId : \A i \in 1..Len(k0.sems[t].blocked) : k0.sems[t].blocked[i] \in Pid
      BY SleeperPid
    <3>6. \A t \in SemId : k2.sems[t].value > 0 => k2.sems[t].blocked = << >>
      BY <1>4, <2>7, <3>1 DEF Sleepers
    \* a position of k2 is a position of k0, or the new one, which holds c
    <3>7. ASSUME NEW t \in SemId, NEW i \in 1..Len(k2.sems[t].blocked)
          PROVE  \/ i \in 1..Len(k0.sems[t].blocked) /\ k2.sems[t].blocked[i] = k0.sems[t].blocked[i]
                 \/ t = s /\ i = Len(b) + 1 /\ k2.sems[t].blocked[i] = c
      <4>1. CASE t = s
        BY <4>1, <3>1, <3>4, <3>7
      <4>2. CASE t # s
        BY <4>2, <3>1, <3>7
      <4>3. QED
        BY <4>1, <4>2
    \* c is in no queue of k0 if it is alive
    <3>8. ASSUME NEW t \in SemId, NEW i \in 1..Len(k0.sems[t].blocked),
                 k0.sems[t].blocked[i] = c, c # IdlePid, Alive(k0, c, lost)
          PROVE  FALSE
      BY <2>7, <3>3, <3>8 DEF Sleepers
    <3>9. ASSUME NEW t \in SemId, NEW i \in 1..Len(k2.sems[t].blocked)
          PROVE  /\ k2.sems[t].blocked[i] \in Pid
                 /\ k2.sems[t].blocked[i] < k2.nextPid
                 /\ k2.sems[t].blocked[i] # IdlePid /\ Alive(k2, k2.sems[t].blocked[i], lost)
                      => InQueue(k2, "blockedBySem", k2.sems[t].blocked[i])
      <4>1. CASE i \in 1..Len(k0.sems[t].blocked) /\ k2.sems[t].blocked[i] = k0.sems[t].blocked[i]
        BY <2>7, <3>1, <3>2, <3>5, <3>9, <4>1 DEF Sleepers
      <4>2. CASE k2.sems[t].blocked[i] = c
        BY <1>1, <2>5, <3>1, <3>3, <4>2 DEF Alive
      <4>3. QED
        BY <3>7, <4>1, <4>2
    <3>10. ASSUME NEW t \in SemId, NEW u \in SemId,
                  NEW i \in 1..Len(k2.sems[t].blocked), NEW j \in 1..Len(k2.sems[u].blocked),
                  k2.sems[t].blocked[i] = k2.sems[u].blocked[j],
                  k2.sems[t].blocked[i] # IdlePid, Alive(k2, k2.sems[t].blocked[i], lost)
           PROVE  t = u /\ i = j
      <4>1. Alive(k0, k2.sems[t].blocked[i], lost)
        BY <3>2, <3>9, <3>10
      <4>2. CASE i \in 1..Len(k0.sems[t].blocked) /\ k2.sems[t].blocked[i] = k0.sems[t].blocked[i]
        <5>1. CASE j \in 1..Len(k0.sems[u].blocked) /\ k2.sems[u].blocked[j] = k0.sems[u].blocked[j]
          <6>1. /\ k0.sems[t].blocked[i] = k0.sems[u].blocked[j]
                /\ k0.sems[t].blocked[i] # IdlePid /\ Alive(k0, k0.sems[t].blocked[i], lost)
            BY <5>1, <4>1, <4>2, <3>10
          <6>2. QED
            BY <6>1, <5>1, <4>2, <2>7, SleeperUnique
        <5>2. CASE k2.sems[u].blocked[j] = c
          BY <5>2, <4>1, <4>2, <3>10, <3>8
        <5>3. QED
          BY <5>1, <5>2, <3>7, <3>10
      <4>3. CASE t = s /\ i = Len(b) + 1 /\ k2.sems[t].blocked[i] = c
        <5>1. CASE j \in 1..Len(k0.sems[u].blocked) /\ k2.sems[u].blocked[j] = k0.sems[u].blocked[j]
          BY <5>1, <4>1, <4>3, <3>10, <3>8
        <5>2. CASE u = s /\ j = Len(b) + 1
          BY <5>2, <4>3
        <5>3. QED
          BY <5>1, <5>2, <3>7, <3>10
      <4>4. QED
        BY <4>2, <4>3, <3>7, <3>10
    <3>11. QED
      BY <3>6, <3>9, <3>10 DEF Sleepers
  <2>8. QED
    BY <1>2, <2>1, <2>3, <2>5, <2>6, <2>7 DEF Steps, Quiet
<1>5. QED
  BY <1>3, <1>4

\* post: the process it takes out of the queue, if alive, becomes ready.
LEMMA SemPostFact ==
  ASSUME NEW lost, NEW k0, WF(k0, lost), NEW s \in SemId
  PROVE  Steps(k0, SemPost(k0, s), lost)
<1> DEFINE v == k0.sems[s].value
           b == k0.sems[s].blocked
<1>1. v \in Nat /\ b \in Seq(Pid) /\ k0.sems[s] \in Sem /\ k0.current \in Pid
  BY SemTypeFact DEF WF, KernelState
<1>2. CASE b = << >>
  <2> DEFINE e == [k0.sems[s] EXCEPT !.value = @ + 1]
             k1 == SetSem(k0, s, e)
  <2>1. e \in Sem /\ e.blocked = b
    BY <1>1 DEF Sem
  <2>2. SemPost(k0, s) = k1 /\ k1 = SetSem(k0, s, e)
    BY <1>2 DEF SemPost, SetSem
  <2> HIDE DEF e, k1
  <2>3. /\ Keeps(k0, k1, lost)
        /\ k1.sems[s] = e /\ \A t \in SemId \ {s} : k1.sems[t] = k0.sems[t]
        /\ k1.pcb = k0.pcb /\ k1.nextPid = k0.nextPid
        /\ \A q \in QueueName, x \in Pid : InQueue(k1, q, x) <=> InQueue(k0, q, x)
    BY <2>1, <2>2, SemsWriteFact
  <2>4. \A t \in SemId : k1.sems[t].blocked = k0.sems[t].blocked
    BY <2>1, <2>3
  <2>5. \A x \in Pid : /\ Alive(k1, x, lost) <=> Alive(k0, x, lost)
                       /\ InQueue(k1, "blockedBySem", x) <=> InQueue(k0, "blockedBySem", x)
    BY <2>3, PidFact DEF Alive
  <2>6. ASSUME Sleepers(k0, lost) PROVE Sleepers(k1, lost)
    <3>1. \A t \in SemId : k1.sems[t].value > 0 => k1.sems[t].blocked = << >>
      BY <1>2, <2>1, <2>3, <2>6 DEF Sleepers
    <3>2. QED
      BY <3>1, <2>3, <2>4, <2>5, <2>6, TransferFact
  <2>7. QED
    BY <2>2, <2>3, <2>6 DEF Steps
<1>3. CASE b # << >>
  <2> DEFINE h == Head(b)
             e == [k0.sems[s] EXCEPT !.blocked = Tail(@)]
             k1 == SetSem(k0, s, e)
             k2 == UnblockProcessBySem(k1, h)
  <2>1. /\ h \in Pid /\ h = b[1] /\ Len(b) >= 1 /\ Tail(b) \in Seq(Pid)
        /\ Len(Tail(b)) = Len(b) - 1 /\ \A i \in 1..(Len(b) - 1) : Tail(b)[i] = b[i + 1]
    BY <1>1, <1>3
  <2>2. e \in Sem /\ e.blocked = Tail(b) /\ e.value = v
    <3> DEFINE tb == Tail(b)
    <3>1. e = [k0.sems[s] EXCEPT !.blocked = tb] /\ tb \in Seq(Pid)
      BY <2>1
    <3> HIDE DEF tb, e, b
    <3>2. QED
      BY <3>1, <1>1 DEF Sem, tb
  <2>3. SemPost(k0, s) = k2 /\ k1 = SetSem(k0, s, e)
    BY <1>3 DEF SemPost, SetSem
  <2> HIDE DEF e, k1
  <2>4. /\ WF(k1, lost) /\ Keeps(k0, k1, lost)
        /\ k1.sems[s] = e /\ \A t \in SemId \ {s} : k1.sems[t] = k0.sems[t]
        /\ k1.pcb = k0.pcb /\ k1.nextPid = k0.nextPid /\ k1.current = k0.current
        /\ \A q \in QueueName, x \in Pid : InQueue(k1, q, x) <=> InQueue(k0, q, x)
    BY <2>2, <2>3, SemsWriteFact
  <2>5. /\ WF(k2, lost) /\ k2.sems = k1.sems /\ k2.nextPid = k1.nextPid /\ k2.current = k1.current
        /\ \A x \in Pid : InQueue(k1, "ready", x) => InQueue(k2, "ready", x)
        /\ \A x \in Pid : InQueue(k2, "zombie", x) <=> InQueue(k1, "zombie", x)
        /\ \A x \in Pid \ {h} : InQueue(k2, "blockedBySem", x) <=> InQueue(k1, "blockedBySem", x)
        /\ \A x \in Pid : Alive(k2, x, lost) => Alive(k1, x, lost)
        /\ Alive(k2, h, lost) /\ InQueue(k2, "blockedBySem", h) => ~InQueue(k1, "blockedBySem", h)
        /\ \A x \in lost : k2.pcb[x] = k1.pcb[x]
    <3>1. CASE ~InQueue(k1, "blockedBySem", h)
      BY <3>1, <2>4 DEF UnblockProcessBySem, UnblockProcessQueueBySem
    <3>2. CASE InQueue(k1, "blockedBySem", h)
      <4>1. k2 = SetState(SwitchProcessFromQueues(k1, "blockedBySem", "ready", h), h, "READY")
        BY <3>2 DEF UnblockProcessBySem, UnblockProcessQueueBySem
      <4> HIDE DEF k2
      <4>2. /\ WF(k2, lost) /\ SameRest(k1, k2)
            /\ k2.pcb = [k1.pcb EXCEPT ![h].state = "READY"]
            /\ \A q \in QueueName, x \in Pid :
                 InQueue(k2, q, x) <=> IF x = h THEN q = "ready" ELSE InQueue(k1, q, x)
        <5>1. WF(k1, lost) /\ h \in Pid
          BY <2>1, <2>4
        <5> HIDE DEF h
        <5>2. QED
          BY <5>1, <3>2, <4>1, MoveFact, NameFact
      <4>3. /\ k1.pcb \in [Pid -> Pcb] /\ k1.pcb[h].state = "BLOCKED" /\ ~InQueue(k1, "zombie", h)
        BY <2>1, <2>4, <3>2, PidFact DEF WF, KernelState, States, Queues
      <4>4. \A x \in Pid : Alive(k2, x, lost) => Alive(k1, x, lost)
        BY <2>1, <4>2, <4>3 DEF Alive, Pcb
      <4>5. \A x \in lost : k2.pcb[x] = k1.pcb[x]
        <5>1. h \notin lost /\ lost \subseteq Pid
          BY <2>1, <2>4, <3>2, QueuedNotLost, LostFact, PidFact
        <5>2. QED
          BY <4>2, <4>3, <5>1
      <4>6. QED
        BY <2>1, <4>2, <4>3, <4>4, <4>5, PidFact DEF SameRest
    <3>3. QED
      BY <3>1, <3>2
  <2> HIDE DEF k2
  <2>6. Keeps(k0, k2, lost)
    BY <1>1, <2>4, <2>5, PidFact DEF Keeps, CurOK
  <2>7. ASSUME Sleepers(k0, lost) PROVE Sleepers(k2, lost)
    <3>1. /\ \A t \in SemId \ {s} : k2.sems[t] = k0.sems[t]
          /\ k2.sems[s].value = v /\ k2.sems[s].blocked = Tail(b)
          /\ k2.nextPid = k0.nextPid
      BY <2>2, <2>4, <2>5
    <3>2. \A t \in SemId : k2.sems[t].value > 0 => k2.sems[t].blocked = << >>
      BY <1>3, <2>7, <3>1 DEF Sleepers
    <3>3. \A x \in Pid : Alive(k2, x, lost) => Alive(k0, x, lost)
      BY <2>4, <2>5 DEF Alive
    \* a position of k2 is a position of k0, one further in s
    <3>4. ASSUME NEW t \in SemId, NEW i \in 1..Len(k2.sems[t].blocked)
          PROVE  /\ t # s => /\ i \in 1..Len(k0.sems[t].blocked)
                             /\ k2.sems[t].blocked[i] = k0.sems[t].blocked[i]
                 /\ t = s => /\ i + 1 \in 1..Len(k0.sems[t].blocked) /\ i \in Nat
                             /\ k2.sems[t].blocked[i] = k0.sems[t].blocked[i + 1]
      <4>1. CASE t = s
        BY <4>1, <3>1, <2>1, <3>4
      <4>2. CASE t # s
        BY <4>2, <3>1, <3>4
      <4>3. QED
        BY <4>1, <4>2
    <3>5. 1 \in 1..Len(k0.sems[s].blocked) /\ k0.sems[s].blocked[1] = h
      BY <2>1, <1>1
    <3>6. ASSUME NEW t \in SemId, NEW i \in 1..Len(k2.sems[t].blocked),
                 k2.sems[t].blocked[i] # IdlePid, Alive(k0, k2.sems[t].blocked[i], lost)
          PROVE  k2.sems[t].blocked[i] # h
      <4>1. CASE t = s
        BY <4>1, <3>4, <3>5, <3>6, <2>7, SleeperUnique
      <4>2. CASE t # s
        <5>1. /\ i \in 1..Len(k0.sems[t].blocked)
              /\ k0.sems[t].blocked[i] = k2.sems[t].blocked[i]
          BY <4>2, <3>4, <3>6
        <5>2. QED
          BY <4>2, <5>1, <3>5, <3>6, <2>7, SleeperUnique
      <4>3. QED
        BY <4>1, <4>2
    <3>7. ASSUME NEW t \in SemId, NEW i \in 1..Len(k2.sems[t].blocked)
          PROVE  /\ k2.sems[t].blocked[i] \in Pid
                 /\ k2.sems[t].blocked[i] < k2.nextPid
                 /\ k2.sems[t].blocked[i] # IdlePid /\ Alive(k2, k2.sems[t].blocked[i], lost)
                      => InQueue(k2, "blockedBySem", k2.sems[t].blocked[i])
      <4>1. PICK n \in 1..Len(k0.sems[t].blocked) : k2.sems[t].blocked[i] = k0.sems[t].blocked[n]
        BY <3>4, <3>7
      <4>2. /\ k0.sems[t].blocked[n] \in Pid /\ k0.sems[t].blocked[n] < k0.nextPid
            /\ k0.sems[t].blocked[n] # IdlePid /\ Alive(k0, k0.sems[t].blocked[n], lost)
                 => InQueue(k0, "blockedBySem", k0.sems[t].blocked[n])
        BY <2>7, SleeperPid DEF Sleepers
      <4>3. QED
        BY <4>1, <4>2, <3>1, <3>3, <3>6, <3>7, <2>4, <2>5, PidFact
    <3>8. ASSUME NEW t \in SemId, NEW u \in SemId,
                 NEW i \in 1..Len(k2.sems[t].blocked), NEW j \in 1..Len(k2.sems[u].blocked),
                 k2.sems[t].blocked[i] = k2.sems[u].blocked[j],
                 k2.sems[t].blocked[i] # IdlePid, Alive(k2, k2.sems[t].blocked[i], lost)
          PROVE  t = u /\ i = j
      <4>1. Alive(k0, k2.sems[t].blocked[i], lost)
        BY <3>3, <3>7, <3>8
      <4>2. PICK n \in 1..Len(k0.sems[t].blocked) :
              k2.sems[t].blocked[i] = k0.sems[t].blocked[n] /\ n = IF t = s THEN i + 1 ELSE i
        BY <3>4, <3>8
      <4>3. PICK m \in 1..Len(k0.sems[u].blocked) :
              k2.sems[u].blocked[j] = k0.sems[u].blocked[m] /\ m = IF u = s THEN j + 1 ELSE j
        BY <3>4, <3>8
      <4>4. t = u /\ n = m
        <5>1. /\ k0.sems[t].blocked[n] = k0.sems[u].blocked[m]
              /\ k0.sems[t].blocked[n] # IdlePid /\ Alive(k0, k0.sems[t].blocked[n], lost)
          BY <4>1, <4>2, <4>3, <3>8
        <5>2. QED
          BY <5>1, <2>7, SleeperUnique
      <4>5. i \in Int /\ j \in Int
        BY <3>8
      <4>6. QED
        BY <4>2, <4>3, <4>4, <4>5
    <3>9. QED
      BY <3>2, <3>7, <3>8 DEF Sleepers
  <2>8. QED
    BY <2>3, <2>4, <2>5, <2>6, <2>7 DEF Steps
<1>4. QED
  BY <1>2, <1>3

-----------------------------------------------------------------------------
(* Birth and death.                                                         *)

\* A non-empty set of numbers has a least one (getFreeSemId's loop stops).
LEMMA LeastNatural ==
  ASSUME NEW T, T \subseteq Nat, T # {}
  PROVE  \E x \in T : \A y \in T : x <= y
<1> DEFINE R == {ss \in Nat \X Nat : ss[1] < ss[2]}
<1>1. IsWellFoundedOn(R, Nat)
  BY NatLessThanWellFounded DEF OpToRel
<1>2. \A x, y \in Nat : y < x => <<y, x>> \in R
  OBVIOUS
<1> HIDE DEF R
<1>3. PICK x \in T : \A y \in T : ~ (<<y, x>> \in R)
  BY <1>1, WFMin
<1>4. \A y \in T : x \in Nat /\ y \in Nat /\ ~(y < x)
  BY <1>2, <1>3
<1>5. \A y \in T : x <= y
  BY <1>4
<1>6. QED
  BY <1>5

\* getFreeSemId returns an entry of the table that is free, or -1.
LEMMA FreeSemFact ==
  ASSUME NEW k0
  PROVE  /\ GetFreeSemId(k0) = -1 \/ GetFreeSemId(k0) \in SemId
         /\ GetFreeSemId(k0) \in SemId => /\ ~k0.sems[GetFreeSemId(k0)].used
                                          /\ \A t \in SemId : t < GetFreeSemId(k0) => k0.sems[t].used
         /\ GetFreeSemId(k0) = -1 <=> \A t \in SemId : k0.sems[t].used
<1>1. CASE \A t \in SemId : k0.sems[t].used
  BY <1>1 DEF GetFreeSemId, SemId
<1>2. CASE ~(\A t \in SemId : k0.sems[t].used)
  <2> DEFINE T == {t \in SemId : ~k0.sems[t].used}
  <2>1. T # {} /\ T \subseteq Nat
    BY <1>2 DEF SemId
  <2>2. PICK x \in T : \A y \in T : x <= y
    BY <2>1, LeastNatural
  <2>3. x \in SemId /\ ~k0.sems[x].used /\ \A t \in 0..(x - 1) : k0.sems[t].used
    <3>1. x \in SemId /\ ~k0.sems[x].used
      BY <2>2
    <3>2. ASSUME NEW t \in 0..(x - 1) PROVE k0.sems[t].used
      <4>1. t \in SemId /\ t < x
        BY <3>1, <3>2, NumSemsAssumption DEF SemId
      <4>2. x \in Int /\ t \in Int
        BY <3>1, <4>1 DEF SemId
      <4>3. QED
        BY <4>1, <4>2, <2>2
    <3>3. QED
      BY <3>1, <3>2
  <2>4. /\ GetFreeSemId(k0) \in SemId /\ ~k0.sems[GetFreeSemId(k0)].used
        /\ \A t \in 0..(GetFreeSemId(k0) - 1) : k0.sems[t].used
    BY <1>2, <2>3 DEF GetFreeSemId
  <2>5. \A t \in SemId : t < GetFreeSemId(k0) => t \in 0..(GetFreeSemId(k0) - 1)
    BY <2>4, NumSemsAssumption DEF SemId
  <2>6. GetFreeSemId(k0) # -1
    BY <2>4 DEF SemId
  <2>7. QED
    BY <1>2, <2>4, <2>5, <2>6
<1>3. QED
  BY <1>1, <1>2

\* Two functions that keep the invariant, one after the other, keep it.
LEMMA StepsTrans ==
  ASSUME NEW lost, NEW k0, NEW k1, NEW k2, Steps(k0, k1, lost), Steps(k1, k2, lost)
  PROVE  Steps(k0, k2, lost)
BY DEF Steps, Keeps

\* A function that returns early keeps the invariant.
LEMMA StepsRefl ==
  ASSUME NEW lost, NEW k0, WF(k0, lost)
  PROVE  Steps(k0, k0, lost)
BY DEF Steps, Keeps

\* A write to a PCB of a process that keeps its state and priority.
LEMMA PcbFieldFact ==
  ASSUME NEW lost, NEW k0, WF(k0, lost), NEW k1 \in KernelState, NEW p \in Pid,
         k1.queue = k0.queue, k1.nextPid = k0.nextPid, k1.foreground = k0.foreground,
         k1.sems = k0.sems, k1.current = k0.current,
         \A x \in Pid \ {p} : k1.pcb[x] = k0.pcb[x],
         k1.pcb[p].state = k0.pcb[p].state,
         k1.pcb[p].priority = k0.pcb[p].priority
  PROVE  Steps(k0, k1, lost)
<1>1. /\ WF(k1, lost)
      /\ \A q \in QueueName, x \in Pid : InQueue(k1, q, x) <=> InQueue(k0, q, x)
  BY PcbWriteFact
<1>2. k0.current \in Pid
  BY DEF WF, KernelState
<1>3. Keeps(k0, k1, lost)
  BY <1>1, <1>2, PidFact DEF Keeps, CurOK
<1>4. \A x \in Pid : Alive(k1, x, lost) <=> Alive(k0, x, lost)
  BY DEF Alive
<1>5. Quiet(k0, k1, lost)
  BY <1>1, <1>4, PidFact DEF Quiet
<1>6. QED
  BY <1>3, <1>5, QuietFact DEF Steps

\* The parent's semaphore and count, when a foreground child is born.
LEMMA CountChildFact ==
  ASSUME NEW lost, NEW k0, WF(k0, lost), NEW p \in Pid
  PROVE  Steps(k0, CountForegroundChild(k0, p), lost)
<1> DEFINE s == GetFreeSemId(k0)
           k1 == SemInit(k0, s, 0)
           k2 == [k1 EXCEPT !.pcb[p].children_sem = s]
           k3 == IF k0.pcb[p].children_sem = -1 /\ s >= 0 THEN k2 ELSE k0
           k4 == [k3 EXCEPT !.pcb[p].children_count = @ + 1]
<1>1. s = -1 \/ s \in SemId
  BY FreeSemFact
<1>2. CountForegroundChild(k0, p) = IF k3.pcb[p].children_sem >= 0 THEN k4 ELSE k3
  BY DEF CountForegroundChild
<1>3. Steps(k0, k3, lost)
  <2>1. CASE k0.pcb[p].children_sem = -1 /\ s >= 0
    <3>1. s \in SemId
      BY <1>1, <2>1
    <3> HIDE DEF s
    <3>2. Steps(k0, k1, lost)
      BY <3>1, SemEntryFact
    <3> HIDE DEF k1
    <3>3. WF(k1, lost) /\ k1 \in KernelState /\ k1.pcb \in [Pid -> Pcb]
      BY <3>2 DEF Steps, Keeps, WF, KernelState
    <3>4. [k1.pcb EXCEPT ![p].children_sem = s] \in [Pid -> Pcb]
      BY <3>1, <3>3 DEF Pcb
    <3>5. /\ k2 \in KernelState /\ k2.pcb = [k1.pcb EXCEPT ![p].children_sem = s]
          /\ k2.queue = k1.queue /\ k2.nextPid = k1.nextPid /\ k2.foreground = k1.foreground
          /\ k2.sems = k1.sems /\ k2.current = k1.current
      BY <3>3, <3>4 DEF KernelState
    <3> HIDE DEF k2
    <3>6. /\ \A x \in Pid \ {p} : k2.pcb[x] = k1.pcb[x]
          /\ k2.pcb[p].state = k1.pcb[p].state /\ k2.pcb[p].priority = k1.pcb[p].priority
      BY <3>3, <3>5 DEF Pcb
    <3>7. Steps(k1, k2, lost)
      BY <3>3, <3>5, <3>6, PcbFieldFact
    <3>8. QED
      BY <2>1, <3>2, <3>7, StepsTrans
  <2>2. CASE ~(k0.pcb[p].children_sem = -1 /\ s >= 0)
    BY <2>2, StepsRefl
  <2>3. QED
    BY <2>1, <2>2
<1> HIDE DEF k3
<1>4. Steps(k3, k4, lost)
  <2>1. WF(k3, lost) /\ k3 \in KernelState /\ k3.pcb \in [Pid -> Pcb]
    BY <1>3 DEF Steps, Keeps, WF, KernelState
  <2>2. [k3.pcb EXCEPT ![p].children_count = @ + 1] \in [Pid -> Pcb]
    BY <2>1 DEF Pcb
  <2>3. /\ k4 \in KernelState /\ k4.pcb = [k3.pcb EXCEPT ![p].children_count = @ + 1]
        /\ k4.queue = k3.queue /\ k4.nextPid = k3.nextPid /\ k4.foreground = k3.foreground
        /\ k4.sems = k3.sems /\ k4.current = k3.current
    BY <2>1, <2>2 DEF KernelState
  <2> HIDE DEF k4
  <2>4. /\ \A x \in Pid \ {p} : k4.pcb[x] = k3.pcb[x]
        /\ k4.pcb[p].state = k3.pcb[p].state /\ k4.pcb[p].priority = k3.pcb[p].priority
    BY <2>1, <2>3 DEF Pcb
  <2>5. QED
    BY <2>1, <2>3, <2>4, PcbFieldFact
<1> HIDE DEF k4
<1>5. QED
  BY <1>2, <1>3, <1>4, StepsTrans

\* k1 is well-formed, has no zombie that k0 did not have, its current process
\* is idle, ready or lost, and its sleepers are in order.
Sound(k0, k1, lost) ==
  /\ WF(k1, lost) /\ CurOK(k1, lost)
  /\ \A x \in Pid : InQueue(k1, "zombie", x) => InQueue(k0, "zombie", x)
  /\ Sleepers(k0, lost) => Sleepers(k1, lost)

\* A function that neither makes nor ends a process is sound.
LEMMA StepsSound ==
  ASSUME NEW lost, NEW k0, NEW k1, CurOK(k0, lost), Steps(k0, k1, lost)
  PROVE  Sound(k0, k1, lost)
BY DEF Steps, Keeps, Sound

\* Two sound functions, one after the other, are sound.
LEMMA SoundTrans ==
  ASSUME NEW lost, NEW k0, NEW k1, NEW k2, Sound(k0, k1, lost), Sound(k1, k2, lost)
  PROVE  Sound(k0, k2, lost)
BY DEF Sound

\* A pid that was not handed out yet is not queued.
LEMMA FreshFact ==
  ASSUME NEW lost, NEW k0, WF(k0, lost), k0.nextPid <= MaxPid
  PROVE  /\ k0.nextPid \in Pid /\ k0.nextPid # IdlePid /\ k0.nextPid \in Nat
         /\ k0.pcb[k0.nextPid].state = "UNUSED"
         /\ \A q \in QueueName : ~InQueue(k0, q, k0.nextPid)
<1>1. k0.nextPid \in Nat /\ k0.nextPid > 1
  BY DEF WF, KernelState, Fresh, ShellPid
<1>2. k0.nextPid \in Pid /\ k0.nextPid # IdlePid
  BY <1>1, MaxPidAssumption DEF Pid, IdlePid
<1>3. k0.pcb[k0.nextPid].state = "UNUSED"
  BY <1>1, <1>2 DEF WF, Fresh
<1>4. \A q \in QueueName : ~InQueue(k0, q, k0.nextPid)
  BY <1>2, <1>3 DEF WF, States, QueueName
<1>5. QED
  BY <1>1, <1>2, <1>3, <1>4

\* The sleepers do not notice a birth.
LEMMA BirthSleepers ==
  ASSUME NEW lost, NEW k0, WF(k0, lost), Sleepers(k0, lost), NEW k1,
         k1.sems = k0.sems, k1.nextPid = k0.nextPid + 1,
         \A x \in Pid \ {k0.nextPid} : k1.pcb[x] = k0.pcb[x],
         \A x \in Pid \ {k0.nextPid} :
           InQueue(k0, "blockedBySem", x) => InQueue(k1, "blockedBySem", x)
  PROVE  Sleepers(k1, lost)
<1>1. k0.nextPid \in Nat
  BY DEF WF, KernelState
<1>2. \A t \in SemId : \A i \in 1..Len(k0.sems[t].blocked) :
        /\ k0.sems[t].blocked[i] \in Pid /\ k0.sems[t].blocked[i] < k0.nextPid
        /\ k0.sems[t].blocked[i] \in Int
  <2>1. \A x \in Pid : x \in Int
    BY DEF Pid
  <2>2. QED
    BY <2>1, SleeperPid DEF Sleepers
<1>3. \A t \in SemId : \A i \in 1..Len(k0.sems[t].blocked) :
        /\ k0.sems[t].blocked[i] < k1.nextPid
        /\ k0.sems[t].blocked[i] \in Pid \ {k0.nextPid}
  BY <1>1, <1>2
<1>4. \A x \in Pid \ {k0.nextPid} : Alive(k1, x, lost) <=> Alive(k0, x, lost)
  BY DEF Alive
<1>5. QED
  BY <1>3, <1>4 DEF Sleepers

\* k1 is k0 with a new process n, in the ready or in the blocked queue, or in
\* none when it has idle's priority.
Born(k0, k1, n, q) ==
  /\ k1.nextPid = k0.nextPid + 1 /\ k1.foreground = k0.foreground /\ k1.sems = k0.sems
  /\ k1.pcb = [k0.pcb EXCEPT ![k0.nextPid] = n]
  /\ n.state = IF q = "ready" THEN "READY" ELSE "BLOCKED"
  /\ \/ k1.queue = k0.queue /\ n.priority = IDLE_PRIORITY
     \/ k1.queue = [k0.queue EXCEPT ![q] = Append(k0.queue[q], k0.nextPid)]
  /\ \/ k1.current = k0.current
     \/ /\ k0.current = IdlePid /\ k1.current = k0.nextPid
        /\ InQueue(k1, "ready", k0.nextPid) /\ n.priority # IDLE_PRIORITY

\* createProcessOnPCB: a new PCB with a fresh pid in one of the two queues.
LEMMA BirthFact ==
  ASSUME NEW lost, NEW k0, WF(k0, lost), CurOK(k0, lost), k0.nextPid <= MaxPid,
         NEW n \in Pcb, NEW q \in {"ready", "blocked"},
         NEW k1 \in KernelState, Born(k0, k1, n, q)
  PROVE  /\ Sound(k0, k1, lost)
         /\ \A r \in QueueName, x \in Pid \ {k0.nextPid} : InQueue(k1, r, x) <=> InQueue(k0, r, x)
         /\ \A r \in QueueName : InQueue(k1, r, k0.nextPid) => r = q
         /\ InQueue(k1, q, k0.nextPid) \/ n.priority = IDLE_PRIORITY
<1> USE DEF Born
<1> DEFINE p == k0.nextPid
           s == Append(k0.queue[q], p)
<1>1. /\ p \in Pid /\ p # IdlePid /\ p \in Nat /\ k0.pcb[p].state = "UNUSED"
      /\ \A r \in QueueName : ~InQueue(k0, r, p)
  BY FreshFact
<1>2. /\ k0 \in KernelState /\ Queues(k0) /\ States(k0) /\ Strays(k0, lost) /\ Fresh(k0) /\ Foreground(k0)
      /\ k0.pcb \in [Pid -> Pcb] /\ k0.queue \in [QueueName -> Seq(Pid)] /\ k0.current \in Pid
      /\ k0.foreground \in Pid \cup {NoPid}
  BY DEF WF, KernelState
<1>3. q \in QueueName /\ q # "zombie" /\ q # "blockedBySem"
  BY DEF QueueName
<1>4. s \in Seq(Pid) /\ NoDup(s) /\ \A x : In(s, x) <=> In(k0.queue[q], x) \/ x = p
  <2>1. k0.queue[q] \in Seq(Pid) /\ NoDup(k0.queue[q]) /\ ~In(k0.queue[q], p)
    BY <1>1, <1>2, <1>3, InQueueIsIn DEF Queues
  <2>2. QED
    BY <1>1, <2>1, AppendFact
<1> HIDE DEF s, p
<1>5. /\ \A r \in QueueName : NoDup(k1.queue[r])
      /\ \A r \in QueueName, x \in Pid \ {p} : InQueue(k1, r, x) <=> InQueue(k0, r, x)
      /\ \A r \in QueueName : InQueue(k1, r, p) => r = q
      /\ InQueue(k1, q, p) \/ n.priority = IDLE_PRIORITY
  <2>1. CASE k1.queue = k0.queue /\ n.priority = IDLE_PRIORITY
    BY <1>1, <1>2, <2>1, InQueueIsIn DEF Queues
  <2>2. CASE k1.queue = [k0.queue EXCEPT ![q] = s]
    <3>1. k1.queue[q] = s /\ \A r \in QueueName \ {q} : k1.queue[r] = k0.queue[r]
      BY <1>2, <1>3, <2>2
    <3>2. QED
      BY <1>1, <1>2, <1>3, <1>4, <3>1, InQueueIsIn DEF Queues
  <2>3. QED
    BY <2>1, <2>2 DEF s, p
<1>6. k1.pcb[p] = n /\ \A x \in Pid \ {p} : k1.pcb[x] = k0.pcb[x]
  BY <1>1, <1>2 DEF p
<1>7. Queues(k1)
  <2>1. \A x \in Pid, r, t \in QueueName : InQueue(k1, r, x) /\ InQueue(k1, t, x) => r = t
    BY <1>2, <1>5 DEF Queues
  <2>2. \A r \in QueueName : ~InQueue(k1, r, IdlePid)
    BY <1>1, <1>2, <1>5, PidFact DEF Queues
  <2>3. QED
    BY <1>5, <2>1, <2>2 DEF Queues
<1>8. States(k1)
  BY <1>2, <1>3, <1>5, <1>6, PidFact DEF States
<1>9. Strays(k1, lost)
  <2>1. p \notin lost /\ lost \subseteq Pid \ {IdlePid}
    BY <1>1, <1>2 DEF Strays
  <2>2. n.priority = IDLE_PRIORITY \/ Queued(k1, p)
    BY <1>3, <1>5 DEF Queued
  <2>3. \A x \in Pid \ {p} : Queued(k1, x) <=> Queued(k0, x)
    BY <1>5 DEF Queued
  <2>4. QED
    BY <1>1, <1>2, <1>6, <2>1, <2>2, <2>3 DEF Strays
<1>10. Fresh(k1)
  <2>1. k1.nextPid = p + 1 /\ p \in Nat /\ p > ShellPid /\ ShellPid \in Nat
    BY <1>1, <1>2 DEF Fresh, p, ShellPid
  <2>2. ASSUME NEW x \in Pid, x >= k1.nextPid PROVE k1.pcb[x].state = "UNUSED"
    <3>1. x \in Int /\ x >= p /\ x # p
      BY <2>1, <2>2 DEF Pid
    <3>2. QED
      BY <3>1, <1>2, <1>6 DEF Fresh, p
  <2>3. QED
    BY <2>1, <2>2 DEF Fresh
<1>11. Foreground(k1)
  <2>1. k0.foreground # NoPid => k0.foreground \in Pid \ {p}
    BY <1>1, <1>2 DEF Foreground, Queued
  <2>2. QED
    BY <1>2, <1>5, <2>1, PidFact DEF Foreground, Queued
<1>12. WF(k1, lost)
  BY <1>7, <1>8, <1>9, <1>10, <1>11 DEF WF
<1>13. CurOK(k1, lost)
  <2>1. CASE k1.current = k0.current
    <3>1. k0.current \in lost => k0.current \in Pid \ {p}
      BY <1>1, <1>2 DEF Strays
    <3>2. QED
      BY <2>1, <3>1, <1>1, <1>2, <1>5, <1>6, PidFact DEF CurOK
  <2>2. CASE k1.current = k0.nextPid /\ InQueue(k1, "ready", k0.nextPid)
    BY <2>2 DEF CurOK
  <2>3. QED
    BY <2>1, <2>2
<1>14. \A x \in Pid : InQueue(k1, "zombie", x) => InQueue(k0, "zombie", x)
  BY <1>3, <1>5, PidFact
<1>15. Sleepers(k0, lost) => Sleepers(k1, lost)
  BY <1>5, <1>6, BirthSleepers, PidFact DEF p
<1>16. QED
  BY <1>5, <1>12, <1>13, <1>14, <1>15 DEF Sound, p

\* The fields of a new PCB.
NewFields(n, p, parent, fg) ==
  /\ n.parentPid = parent /\ n.waitingForPid = NoPid /\ n.foreground = fg
  /\ n.children_sem = -1 /\ n.children_count = 0 /\ n.rsp = p

\* createProcessOnPCB: the count of the parent, then a birth.
LEMMA CreateBorn ==
  ASSUME NEW lost, NEW k0, WF(k0, lost), CurOK(k0, lost), k0.nextPid <= MaxPid,
         NEW prio \in Nat, NEW fg \in BOOLEAN, NEW tty \in BOOLEAN,
         NEW k1, k1 = IF fg /\ k0.current > 0 THEN CountForegroundChild(k0, k0.current) ELSE k0,
         NEW k9, k9 = CreateProcess(k0, prio, fg, tty)
  PROVE  /\ Steps(k0, k1, lost)
         /\ k9 \in KernelState /\ k9.cpu = k1.cpu /\ k9.first = k1.first
         /\ \E q \in {"ready", "blocked"}, n \in Pcb :
              /\ NewFields(n, k0.nextPid, k0.current, fg) /\ Born(k1, k9, n, q)
              /\ n.priority = IDLE_PRIORITY => prio = IDLE_PRIORITY
              /\ q = "blocked" => ~fg
<1> DEFINE p  == k0.nextPid
           c  == k0.current
           n  == NewPcb(p, c, prio, fg)
           b  == [n EXCEPT !.state = "BLOCKED"]
           k2 == [k1 EXCEPT !.nextPid = @ + 1, !.pcb[p] = n]
           kb == AddToBlocked(SetState(k2, p, "BLOCKED"), p)
           kr == AddProcess(k2, p)
           Goal == \E q \in {"ready", "blocked"}, m \in Pcb :
                     /\ NewFields(m, p, c, fg) /\ Born(k1, k9, m, q)
                     /\ m.priority = IDLE_PRIORITY => prio = IDLE_PRIORITY
                     /\ q = "blocked" => ~fg
<1>1. /\ p \in Pid /\ p \in Nat /\ c \in Pid
  BY FreshFact DEF WF, KernelState
<1>2. /\ n \in Pcb /\ b \in Pcb /\ n.state = "READY" /\ b.state = "BLOCKED"
      /\ NewFields(n, p, c, fg) /\ NewFields(b, p, c, fg)
      /\ n.priority = IDLE_PRIORITY => prio = IDLE_PRIORITY
      /\ b.priority = IDLE_PRIORITY => prio = IDLE_PRIORITY
  <2>1. MAX_PRIORITY \in Nat
    BY PriorityAssumption
  <2>2. n.priority \in 0..IDLE_PRIORITY
    BY <2>1 DEF NewPcb, IDLE_PRIORITY
  <2>3. n.priority = IDLE_PRIORITY => prio = IDLE_PRIORITY
    BY <2>1 DEF NewPcb, IDLE_PRIORITY
  <2>4. b.priority = n.priority
    BY DEF NewPcb
  <2>5. QED
    BY <1>1, <2>2, <2>3, <2>4 DEF NewPcb, Pcb, State, Context, NewFields
<1>3. Steps(k0, k1, lost)
  BY <1>1, CountChildFact, StepsRefl
<1>4. k9 = IF ~fg /\ tty THEN kb ELSE IF n.priority # IDLE_PRIORITY THEN kr ELSE k2
  BY DEF CreateProcess
<1> HIDE DEF n, b
<1>5. /\ WF(k1, lost) /\ k1.nextPid = p
      /\ k1 \in KernelState /\ k1.pcb \in [Pid -> Pcb] /\ k1.queue \in [QueueName -> Seq(Pid)]
      /\ k1.current \in Pid
  BY <1>3 DEF Steps, Keeps, WF, KernelState
<1>6. /\ k2 \in KernelState /\ k2.nextPid = p + 1 /\ k2.pcb = [k1.pcb EXCEPT ![p] = n]
      /\ k2.queue = k1.queue /\ k2.foreground = k1.foreground /\ k2.sems = k1.sems
      /\ k2.current = k1.current /\ k2.cpu = k1.cpu /\ k2.first = k1.first
  <2>1. [k1.pcb EXCEPT ![p] = n] \in [Pid -> Pcb] /\ p + 1 \in Nat
    BY <1>1, <1>2, <1>5
  <2>2. QED
    BY <2>1, <1>5 DEF KernelState
<1> HIDE DEF k2, p
<1>7. CASE ~fg /\ tty
  <2> DEFINE k3 == SetState(k2, p, "BLOCKED")
  <2>0. "BLOCKED" \in State /\ k2 \in KernelState /\ p \in Pid
    BY <1>1, <1>6, NameFact
  <2>1. /\ k3 \in KernelState /\ SameRest(k2, k3) /\ k3.queue = k2.queue /\ k3.quantum = k2.quantum
        /\ k3.pcb = [k2.pcb EXCEPT ![p].state = "BLOCKED"]
    BY <2>0, SetStateFact
  <2> HIDE DEF k3
  <2>2. k3.pcb = [k1.pcb EXCEPT ![p] = b]
    <3>1. k2.pcb \in [Pid -> Pcb] /\ k2.pcb[p] = n
      BY <1>1, <1>2, <1>5, <1>6
    <3>2. k3.pcb = [k2.pcb EXCEPT ![p] = b]
      BY <2>1, <3>1 DEF b
    <3>3. [k2.pcb EXCEPT ![p] = b] = [k1.pcb EXCEPT ![p] = b]
      BY <1>1, <1>5, <1>6
    <3>4. QED
      BY <3>2, <3>3
  <2>3. [k3.queue EXCEPT !["blocked"] = Append(@, p)] \in [QueueName -> Seq(Pid)]
    <3>1. Append(k3.queue["blocked"], p) \in Seq(Pid)
      BY <1>1, <1>5, <1>6, <2>1, PidFact
    <3>2. QED
      BY <3>1, <1>5, <1>6, <2>1
  <2>4. /\ kb \in KernelState /\ kb.queue = [k3.queue EXCEPT !["blocked"] = Append(@, p)]
        /\ kb.pcb = k3.pcb /\ kb.nextPid = k3.nextPid /\ kb.foreground = k3.foreground
        /\ kb.sems = k3.sems /\ kb.current = k3.current
        /\ kb.cpu = k3.cpu /\ kb.first = k3.first
    BY <2>1, <2>3 DEF AddToBlocked, Enqueue, KernelState, k3
  <2> HIDE DEF kb
  <2>5. /\ kb.nextPid = k1.nextPid + 1 /\ kb.foreground = k1.foreground /\ kb.sems = k1.sems
        /\ kb.pcb = [k1.pcb EXCEPT ![k1.nextPid] = b] /\ kb.current = k1.current
        /\ kb.queue = [k1.queue EXCEPT !["blocked"] = Append(@, k1.nextPid)]
        /\ kb.cpu = k1.cpu /\ kb.first = k1.first
    <3>1. /\ k3.nextPid = p + 1 /\ k3.foreground = k1.foreground /\ k3.sems = k1.sems
          /\ k3.current = k1.current /\ k3.cpu = k1.cpu /\ k3.first = k1.first
          /\ k3.queue = k1.queue
      BY <1>6, <2>1 DEF SameRest
    <3>2. QED
      BY <1>5, <2>2, <2>4, <3>1
  <2>6. Born(k1, kb, b, "blocked")
    BY <1>2, <2>5 DEF Born
  <2>7. Goal
    BY <1>2, <1>4, <1>7, <2>6
  <2>8. QED
    BY <1>3, <1>4, <1>7, <2>4, <2>5, <2>7 DEF p
<1>8. CASE ~(~fg /\ tty) /\ n.priority # IDLE_PRIORITY
  <2> DEFINE cur == IF k2.current = IdlePid THEN p ELSE k2.current
  <2>1. [k2.queue EXCEPT !["ready"] = Append(@, p)] \in [QueueName -> Seq(Pid)]
    <3>1. Append(k2.queue["ready"], p) \in Seq(Pid)
      BY <1>1, <1>5, <1>6, PidFact
    <3>2. QED
      BY <3>1, <1>5, <1>6
  <2>2. cur \in Pid
    BY <1>1, <1>5, <1>6
  <2>3. kr = [k2 EXCEPT !.queue = [k2.queue EXCEPT !["ready"] = Append(@, p)], !.current = cur]
    BY <1>6 DEF AddProcess, Enqueue, KernelState
  <2> HIDE DEF cur
  <2>4. /\ kr \in KernelState /\ kr.queue = [k2.queue EXCEPT !["ready"] = Append(@, p)]
        /\ kr.pcb = k2.pcb /\ kr.nextPid = k2.nextPid /\ kr.foreground = k2.foreground
        /\ kr.sems = k2.sems /\ kr.current = cur /\ kr.cpu = k2.cpu /\ kr.first = k2.first
    BY <1>6, <2>1, <2>2, <2>3 DEF KernelState
  <2> HIDE DEF kr
  <2>5. /\ kr.nextPid = k1.nextPid + 1 /\ kr.foreground = k1.foreground /\ kr.sems = k1.sems
        /\ kr.pcb = [k1.pcb EXCEPT ![k1.nextPid] = n]
        /\ kr.queue = [k1.queue EXCEPT !["ready"] = Append(@, k1.nextPid)]
        /\ kr.cpu = k1.cpu /\ kr.first = k1.first
    BY <1>5, <1>6, <2>4
  <2>6. InQueue(kr, "ready", k1.nextPid)
    <3> DEFINE s == k1.queue["ready"]
    <3>1. s \in Seq(Pid) /\ kr.queue["ready"] = Append(s, p)
      BY <1>1, <1>5, <2>5, PidFact
    <3> HIDE DEF s
    <3>2. /\ Append(s, p)[Len(s) + 1] = p /\ Len(s) + 1 \in 1..Len(Append(s, p))
      BY <1>1, <3>1
    <3>3. QED
      BY <1>5, <3>1, <3>2 DEF InQueue
  <2>7. kr.current = k1.current \/ (k1.current = IdlePid /\ kr.current = k1.nextPid)
    BY <1>5, <1>6, <2>4 DEF cur
  <2>8. Born(k1, kr, n, "ready")
    BY <1>2, <1>8, <2>5, <2>6, <2>7 DEF Born
  <2>9. Goal
    BY <1>2, <1>4, <1>8, <2>8
  <2>10. QED
    BY <1>3, <1>4, <1>8, <2>4, <2>5, <2>9 DEF p
<1>9. CASE ~(~fg /\ tty) /\ n.priority = IDLE_PRIORITY
  <2>1. Born(k1, k2, n, "ready")
    BY <1>2, <1>5, <1>6, <1>9 DEF Born
  <2>2. Goal
    BY <1>2, <1>4, <1>9, <2>1
  <2>3. QED
    BY <1>3, <1>4, <1>6, <1>9, <2>2 DEF p
<1>10. QED
  BY <1>7, <1>8, <1>9

\* createProcessOnPCB keeps the kernel sound.
LEMMA CreateFact ==
  ASSUME NEW lost, NEW k0, WF(k0, lost), CurOK(k0, lost), k0.nextPid <= MaxPid,
         NEW prio \in Nat, NEW fg \in BOOLEAN, NEW tty \in BOOLEAN
  PROVE  Sound(k0, CreateProcess(k0, prio, fg, tty), lost)
<1> DEFINE k1 == IF fg /\ k0.current > 0 THEN CountForegroundChild(k0, k0.current) ELSE k0
           k9 == CreateProcess(k0, prio, fg, tty)
<1>1. /\ Steps(k0, k1, lost)
      /\ k9 \in KernelState /\ k9.cpu = k1.cpu /\ k9.first = k1.first
      /\ \E q \in {"ready", "blocked"}, n \in Pcb :
           /\ NewFields(n, k0.nextPid, k0.current, fg) /\ Born(k1, k9, n, q)
           /\ n.priority = IDLE_PRIORITY => prio = IDLE_PRIORITY
           /\ q = "blocked" => ~fg
  BY CreateBorn
<1> HIDE DEF k1, k9
<1>2. PICK q \in {"ready", "blocked"}, n \in Pcb : Born(k1, k9, n, q)
  BY <1>1
<1>3. WF(k1, lost) /\ CurOK(k1, lost) /\ k1.nextPid <= MaxPid /\ Sound(k0, k1, lost)
  BY <1>1, StepsSound DEF Steps, Keeps
<1>4. Sound(k1, k9, lost)
  BY <1>1, <1>2, <1>3, BirthFact
<1>5. QED
  BY <1>3, <1>4, SoundTrans DEF k9

\* k1 is k0 with a new process n that no queue holds.
BornLost(k0, k1, n) ==
  /\ k1.queue = k0.queue /\ k1.nextPid = k0.nextPid + 1 /\ k1.foreground = k0.foreground
  /\ k1.sems = k0.sems /\ k1.pcb = [k0.pcb EXCEPT ![k0.nextPid] = n]
  /\ n.state \in {"READY", "BLOCKED"}
  /\ \/ k1.current = k0.current
     \/ /\ k0.current = IdlePid /\ k1.current = k0.nextPid
        /\ n.state = "READY" /\ n.priority # IDLE_PRIORITY

\* The processes that exist in no queue after the birth of one that none holds.
WithLost(lost, p, n) == IF n.priority = IDLE_PRIORITY THEN lost ELSE lost \cup {p}

\* A birth outside the queues loses the new process, and nobody else.
LEMMA BirthLostFact ==
  ASSUME NEW lost, NEW k0, WF(k0, lost), CurOK(k0, lost), k0.nextPid <= MaxPid,
         NEW n \in Pcb, NEW k1 \in KernelState, BornLost(k0, k1, n),
         NEW left, left = WithLost(lost, k0.nextPid, n)
  PROVE  /\ WF(k1, left) /\ CurOK(k1, left)
         /\ \A q, x : InQueue(k1, q, x) <=> InQueue(k0, q, x)
         /\ Sleepers(k0, lost) => Sleepers(k1, left)
<1> USE DEF BornLost
<1> DEFINE p == k0.nextPid
<1>1. /\ p \in Pid /\ p # IdlePid /\ p \in Nat /\ k0.pcb[p].state = "UNUSED"
      /\ \A r \in QueueName : ~InQueue(k0, r, p)
  BY FreshFact
<1>2. /\ k0 \in KernelState /\ Queues(k0) /\ States(k0) /\ Strays(k0, lost) /\ Fresh(k0) /\ Foreground(k0)
      /\ k0.pcb \in [Pid -> Pcb] /\ k0.current \in Pid /\ k0.foreground \in Pid \cup {NoPid}
  BY DEF WF, KernelState
<1> HIDE DEF p
<1>3. \A q, x : InQueue(k1, q, x) <=> InQueue(k0, q, x)
  BY InQueueIsIn
<1>4. k1.pcb[p] = n /\ \A x \in Pid \ {p} : k1.pcb[x] = k0.pcb[x]
  BY <1>1, <1>2 DEF p
<1>5. /\ lost \subseteq Pid \ {IdlePid} /\ p \notin lost /\ lost \subseteq left
      /\ p \in left <=> n.priority # IDLE_PRIORITY
      /\ \A x \in Pid \ {p} : x \in left <=> x \in lost
      /\ left \subseteq Pid \ {IdlePid}
  BY <1>1, <1>2 DEF Strays, WithLost, p
<1>6. Queues(k1)
  BY <1>2, <1>3 DEF Queues
<1>7. States(k1)
  BY <1>1, <1>2, <1>3, <1>4, PidFact DEF States
<1>8. Strays(k1, left)
  <2>1. \A x \in Pid : Queued(k1, x) <=> Queued(k0, x)
    BY <1>3 DEF Queued
  <2>2. ~Queued(k0, p)
    BY <1>1 DEF Queued
  <2>3. \A x \in Pid \ {IdlePid, p} :
          x \in left <=> /\ k1.pcb[x].state # "UNUSED" /\ k1.pcb[x].priority # IDLE_PRIORITY
                         /\ ~Queued(k1, x)
    BY <1>2, <1>4, <1>5, <2>1 DEF Strays
  <2>4. QED
    BY <1>1, <1>4, <1>5, <2>1, <2>2, <2>3 DEF Strays
<1>9. Fresh(k1)
  <2>1. k1.nextPid = p + 1 /\ p \in Nat /\ p > ShellPid /\ ShellPid \in Nat
    BY <1>1, <1>2 DEF Fresh, p, ShellPid
  <2>2. ASSUME NEW x \in Pid, x >= k1.nextPid PROVE k1.pcb[x].state = "UNUSED"
    <3>1. x \in Int /\ x >= p /\ x # p
      BY <2>1, <2>2 DEF Pid
    <3>2. QED
      BY <3>1, <1>2, <1>4 DEF Fresh, p
  <2>3. QED
    BY <2>1, <2>2 DEF Fresh
<1>10. Foreground(k1)
  BY <1>2, <1>3 DEF Foreground, Queued
<1>11. CurOK(k1, left)
  <2>1. CASE k1.current = k0.current
    <3>1. k0.current \in lost => k0.current \in left /\ k0.current # p
      BY <1>5
    <3>2. QED
      BY <1>2, <1>3, <1>4, <2>1, <3>1 DEF CurOK
  <2>2. CASE k1.current = p /\ n.state = "READY" /\ n.priority # IDLE_PRIORITY
    BY <1>4, <1>5, <2>2 DEF CurOK
  <2>3. QED
    BY <2>1, <2>2 DEF p
<1>12. Sleepers(k0, lost) => Sleepers(k1, left)
  <2> SUFFICES ASSUME Sleepers(k0, lost) PROVE Sleepers(k1, left)
    OBVIOUS
  <2>1. Sleepers(k1, lost)
    BY <1>3, <1>4, BirthSleepers DEF p
  <2>2. \A x : Alive(k1, x, left) => Alive(k1, x, lost)
    BY <1>5 DEF Alive
  <2>3. QED
    BY <2>1, <2>2 DEF Sleepers
<1>13. QED
  BY <1>3, <1>6, <1>7, <1>8, <1>9, <1>10, <1>11, <1>12 DEF WF

\* Counting a child leaves the queues alone.
LEMMA CountQueue ==
  ASSUME NEW k0 \in KernelState, NEW p
  PROVE  CountForegroundChild(k0, p).queue = k0.queue
BY DEF CountForegroundChild, SemInit, KernelState

\* createProcessOnPCB without memory for the queue node.
LEMMA NoNodeFact ==
  ASSUME NEW lost, NEW k0, WF(k0, lost), CurOK(k0, lost), k0.nextPid <= MaxPid,
         NEW prio \in Nat, NEW fg \in BOOLEAN, NEW tty \in BOOLEAN,
         NEW k9, k9 = CreateProcessNoNode(k0, prio, fg, tty)
  PROVE  \E left : /\ left \subseteq lost \cup {k0.nextPid}
                   /\ WF(k9, left) /\ CurOK(k9, left)
                   /\ k9.queue = k0.queue
                   /\ Sleepers(k0, lost) => Sleepers(k9, left)
<1> DEFINE k1 == IF fg /\ k0.current > 0 THEN CountForegroundChild(k0, k0.current) ELSE k0
           kc == CreateProcess(k0, prio, fg, tty)
<1>1. /\ Steps(k0, k1, lost)
      /\ kc \in KernelState /\ kc.cpu = k1.cpu /\ kc.first = k1.first
      /\ \E q \in {"ready", "blocked"}, n \in Pcb :
           /\ NewFields(n, k0.nextPid, k0.current, fg) /\ Born(k1, kc, n, q)
           /\ n.priority = IDLE_PRIORITY => prio = IDLE_PRIORITY
           /\ q = "blocked" => ~fg
  BY CreateBorn
<1>2. k1.queue = k0.queue
  <2>1. CASE fg /\ k0.current > 0
    BY <2>1, CountQueue DEF WF
  <2>2. CASE ~(fg /\ k0.current > 0)
    BY <2>2
  <2>3. QED
    BY <2>1, <2>2
<1>3. k9 = [kc EXCEPT !.queue = k0.queue]
  BY DEF CreateProcessNoNode
<1> HIDE DEF k1, kc
<1>4. PICK q \in {"ready", "blocked"}, n \in Pcb : Born(k1, kc, n, q)
  BY <1>1
<1>5. /\ WF(k1, lost) /\ CurOK(k1, lost) /\ k1.nextPid = k0.nextPid /\ k1.nextPid <= MaxPid
      /\ Sleepers(k0, lost) => Sleepers(k1, lost)
  BY <1>1 DEF Steps, Keeps
<1>6. /\ k9 \in KernelState /\ k9.queue = k0.queue /\ k9.nextPid = kc.nextPid
      /\ k9.foreground = kc.foreground /\ k9.sems = kc.sems /\ k9.pcb = kc.pcb
      /\ k9.current = kc.current
  <2>1. k0.queue \in [QueueName -> Seq(Pid)]
    BY DEF WF, KernelState
  <2>2. QED
    BY <1>1, <1>3, <2>1 DEF KernelState
<1>7. BornLost(k1, k9, n)
  <2>1. \/ kc.current = k1.current
        \/ /\ k1.current = IdlePid /\ kc.current = k1.nextPid
           /\ n.state = "READY" /\ n.priority # IDLE_PRIORITY
    <3>1. InQueue(kc, "ready", k1.nextPid) => q = "ready"
      BY <1>1, <1>4, <1>5, BirthFact, PidFact
    <3>2. QED
      BY <1>4, <3>1 DEF Born
  <2>2. QED
    BY <1>2, <1>4, <1>6, <2>1 DEF Born, BornLost
<1> DEFINE left == WithLost(lost, k1.nextPid, n)
<1>8. WF(k9, left) /\ CurOK(k9, left) /\ (Sleepers(k1, lost) => Sleepers(k9, left))
  <2>1. left = WithLost(lost, k1.nextPid, n)
    OBVIOUS
  <2> HIDE DEF left
  <2>2. QED
    BY <1>5, <1>6, <1>7, <2>1, BirthLostFact
<1>9. left \subseteq lost \cup {k0.nextPid}
  BY <1>5 DEF WithLost
<1> HIDE DEF left
<1>10. QED
  BY <1>5, <1>6, <1>8, <1>9

\* createProcessOnPCB without memory for the stack: the pid is spent.
LEMMA NoStackFact ==
  ASSUME NEW lost, NEW k0, WF(k0, lost), CurOK(k0, lost), k0.nextPid <= MaxPid,
         NEW k1, k1 = [k0 EXCEPT !.nextPid = @ + 1]
  PROVE  Sound(k0, k1, lost)
<1>1. k0 \in KernelState /\ Queues(k0) /\ States(k0) /\ Strays(k0, lost) /\ Fresh(k0) /\ Foreground(k0)
  BY DEF WF
<1>2. /\ k1 \in KernelState /\ k1.nextPid = k0.nextPid + 1 /\ k1.queue = k0.queue
      /\ k1.pcb = k0.pcb /\ k1.sems = k0.sems /\ k1.foreground = k0.foreground
      /\ k1.current = k0.current /\ k0.nextPid \in Nat
      /\ k0.current \in Pid /\ k0.foreground \in Pid \cup {NoPid}
  <2>1. k0.nextPid + 1 \in Nat /\ k1 = [k0 EXCEPT !.nextPid = k0.nextPid + 1]
    BY <1>1 DEF KernelState
  <2>2. QED
    BY <1>1, <2>1 DEF KernelState
<1>3. \A q, x : InQueue(k1, q, x) <=> InQueue(k0, q, x)
  BY <1>2, InQueueIsIn
<1>4. Queues(k1) /\ States(k1) /\ Strays(k1, lost) /\ Foreground(k1) /\ CurOK(k1, lost)
  BY <1>1, <1>2, <1>3 DEF Queues, States, Strays, Foreground, Queued, CurOK
<1>5. Fresh(k1)
  <2>1. \A x \in Pid : x >= k1.nextPid => x >= k0.nextPid
    BY <1>2 DEF Pid
  <2>2. k1.nextPid > ShellPid
    BY <1>1, <1>2 DEF Fresh, ShellPid
  <2>3. QED
    BY <1>1, <1>2, <2>1, <2>2 DEF Fresh
<1>6. Sleepers(k0, lost) => Sleepers(k1, lost)
  BY <1>2, <1>3, BirthSleepers
<1>7. QED
  BY <1>2, <1>3, <1>4, <1>5, <1>6 DEF Sound, WF

\* killProcess: the victim becomes a zombie, and is neither current nor
\* foreground any more.
LEMMA KillProcessFact ==
  ASSUME NEW lost, NEW k0, WF(k0, lost), CurOK(k0, lost), NEW p \in Pid, Killable(k0, p),
         NEW k1, k1 = KillProcess(k0, p)
  PROVE  /\ WF(k1, lost) /\ CurOK(k1, lost)
         /\ \A x \in Pid : InQueue(k1, "zombie", x) <=> InQueue(k0, "zombie", x) \/ x = p
         /\ Sleepers(k0, lost) => Sleepers(k1, lost)
         /\ p # IdlePid /\ ~InQueue(k0, "zombie", p)
<1> DEFINE cur == IF k0.current = p THEN IdlePid ELSE k0.current
           fg == IF k0.foreground = p THEN NoPid ELSE k0.foreground
           kc == [k0 EXCEPT !.current = cur]
           from == QueueToKillFrom(kc, p)
           ks == SwitchProcessFromQueues(kc, from, "zombie", p)
           kf == [ks EXCEPT !.foreground = fg]
<1>1. /\ k0 \in KernelState /\ Queues(k0) /\ States(k0) /\ Strays(k0, lost) /\ Fresh(k0) /\ Foreground(k0)
      /\ k0.pcb \in [Pid -> Pcb] /\ k0.current \in Pid /\ k0.foreground \in Pid \cup {NoPid}
      /\ k0.queue \in [QueueName -> Seq(Pid)]
  BY DEF WF, KernelState
<1>2. cur \in Pid /\ fg \in Pid \cup {NoPid}
  BY <1>1, PidFact
<1>3. /\ kc \in KernelState /\ kc.queue = k0.queue /\ kc.pcb = k0.pcb /\ kc.sems = k0.sems
      /\ kc.nextPid = k0.nextPid /\ kc.foreground = k0.foreground /\ kc.current = cur
  <2> HIDE DEF cur
  <2>1. QED
    BY <1>1, <1>2 DEF KernelState
<1>4. k1 = SetState(kf, p, "ZOMBIE")
  <2>1. kc = [k0 EXCEPT !.current = IF @ = p THEN IdlePid ELSE @]
    BY <1>1 DEF KernelState
  <2>2. Killable(kc, p)
    BY <1>3 DEF Killable, InQueue
  <2> HIDE DEF kc
  <2>3. ks.foreground = k0.foreground
    BY <1>3 DEF SwitchProcessFromQueues, Enqueue, KernelState
  <2>4. kf = [ks EXCEPT !.foreground = IF @ = p THEN NoPid ELSE @]
    BY <2>3
  <2>5. QED
    BY <2>1, <2>2, <2>4 DEF KillProcess
<1> HIDE DEF kc, cur, fg
<1>5. \A q, x : InQueue(kc, q, x) <=> InQueue(k0, q, x)
  BY <1>3, InQueueIsIn
<1>6. /\ from \in QueueName \ {"zombie"} /\ InQueue(kc, from, p) /\ Queues(kc)
      /\ p # IdlePid /\ ~InQueue(k0, "zombie", p)
  <2>1. from \in QueueName \ {"zombie"} /\ InQueue(kc, from, p)
    BY <1>5 DEF QueueToKillFrom, Killable, QueueName
  <2>2. Queues(kc)
    BY <1>1, <1>3, <1>5 DEF Queues
  <2>3. QED
    BY <2>1, <2>2, <1>5, PidFact DEF Queues
<1> HIDE DEF from
<1>7. /\ ks = [kc EXCEPT !.queue = ks.queue]
      /\ ks.queue \in [QueueName -> Seq(Pid)]
      /\ \A q \in QueueName : NoDup(ks.queue[q])
      /\ \A q \in QueueName, x \in Pid :
           InQueue(ks, q, x) <=> IF x = p THEN q = "zombie" ELSE InQueue(kc, q, x)
  BY <1>3, <1>6, SwitchFact, PidFact
<1> HIDE DEF ks
<1>8. /\ ks \in KernelState /\ ks.pcb = k0.pcb /\ ks.sems = k0.sems /\ ks.nextPid = k0.nextPid
      /\ ks.current = cur
  BY <1>3, <1>7 DEF KernelState
<1>9. /\ kf \in KernelState /\ kf.pcb = k0.pcb /\ kf.sems = k0.sems /\ kf.nextPid = k0.nextPid
      /\ kf.current = cur /\ kf.foreground = fg /\ kf.queue = ks.queue
  BY <1>2, <1>8 DEF KernelState
<1> HIDE DEF kf
<1>10. /\ k1 \in KernelState /\ k1.sems = k0.sems /\ k1.nextPid = k0.nextPid
       /\ k1.current = cur /\ k1.foreground = fg /\ k1.queue = ks.queue
       /\ k1.pcb = [k0.pcb EXCEPT ![p].state = "ZOMBIE"]
  <2>1. "ZOMBIE" \in State
    BY DEF State
  <2>2. QED
    BY <1>4, <1>9, <2>1, SetStateFact DEF SameRest
<1>11. /\ \A q \in QueueName : NoDup(k1.queue[q])
       /\ \A q \in QueueName, x \in Pid :
            InQueue(k1, q, x) <=> IF x = p THEN q = "zombie" ELSE InQueue(k0, q, x)
  BY <1>5, <1>7, <1>10, InQueueIsIn
<1>12. /\ k1.pcb[p].state = "ZOMBIE"
       /\ \A x \in Pid \ {p} : k1.pcb[x] = k0.pcb[x]
       /\ k0.pcb[p].state # "UNUSED"
  <2>1. k0.pcb[p].state # "UNUSED"
    BY <1>1, <1>5, <1>6 DEF States, QueueName
  <2>2. QED
    BY <1>1, <1>10, <2>1 DEF Pcb
<1>13. Queues(k1)
  <2>1. \A x \in Pid, r, t \in QueueName : InQueue(k1, r, x) /\ InQueue(k1, t, x) => r = t
    BY <1>1, <1>11 DEF Queues
  <2>2. \A r \in QueueName : ~InQueue(k1, r, IdlePid)
    BY <1>1, <1>6, <1>11, PidFact DEF Queues
  <2>3. QED
    BY <1>11, <2>1, <2>2 DEF Queues
<1>14. States(k1)
  BY <1>1, <1>11, <1>12, PidFact DEF States
<1>15. Strays(k1, lost)
  <2>1. p \notin lost /\ Queued(k1, p)
    <3>1. InQueue(k0, from, p)
      BY <1>5, <1>6
    <3>2. p \notin lost
      BY <1>6, <3>1, QueuedNotLost
    <3>3. InQueue(k1, "zombie", p)
      BY <1>11, PidFact
    <3>4. QED
      BY <3>2, <3>3, PidFact DEF Queued
  <2>2. \A x \in Pid \ {p} : Queued(k1, x) <=> Queued(k0, x)
    BY <1>11 DEF Queued
  <2>3. QED
    BY <1>1, <1>12, <2>1, <2>2 DEF Strays
<1>16. Fresh(k1)
  BY <1>1, <1>10, <1>12 DEF Fresh
<1>17. Foreground(k1)
  <2>1. fg # NoPid => fg = k0.foreground /\ fg # p /\ fg \in Pid
    BY <1>1 DEF fg
  <2>2. QED
    BY <1>1, <1>10, <1>11, <2>1, PidFact DEF Foreground, Queued
<1>18. CurOK(k1, lost)
  BY <1>1, <1>10, <1>11, PidFact DEF CurOK, cur
<1>19. Quiet(k0, k1, lost)
  BY <1>10, <1>11, <1>12, PidFact DEF Quiet, Alive
<1>20. \A x \in Pid : InQueue(k1, "zombie", x) <=> InQueue(k0, "zombie", x) \/ x = p
  BY <1>11, PidFact
<1>21. QED
  BY <1>6, <1>10, <1>13, <1>14, <1>15, <1>16, <1>17, <1>18, <1>19, <1>20, QuietFact DEF WF

\* What a PCB that is not in use is in the model.
LEMMA FreePcbFact == FreePcb \in Pcb /\ FreePcb.state = "UNUSED"
<1>1. 0 \in 0..IDLE_PRIORITY
  BY PriorityAssumption DEF IDLE_PRIORITY
<1>2. QED
  BY <1>1 DEF FreePcb, Pcb, State, Context

\* reapCild: the zombie's PCB goes, and nothing pointed to it.
LEMMA ReapFact ==
  ASSUME NEW lost, NEW k0, WF(k0, lost), CurOK(k0, lost), NEW p \in Pid, InQueue(k0, "zombie", p),
         NEW k1, k1 = ReapChild(k0, p)
  PROVE  /\ WF(k1, lost) /\ CurOK(k1, lost)
         /\ \A x \in Pid : InQueue(k1, "zombie", x) <=> InQueue(k0, "zombie", x) /\ x # p
         /\ Sleepers(k0, lost) => Sleepers(k1, lost)
<1> DEFINE s == RemovePid(k0.queue["zombie"], p)
           Q == [k0.queue EXCEPT !["zombie"] = s]
           P == [k0.pcb EXCEPT ![p] = FreePcb]
<1>1. /\ k0 \in KernelState /\ Queues(k0) /\ States(k0) /\ Strays(k0, lost) /\ Fresh(k0) /\ Foreground(k0)
      /\ k0.pcb \in [Pid -> Pcb] /\ k0.current \in Pid /\ k0.foreground \in Pid \cup {NoPid}
      /\ k0.queue \in [QueueName -> Seq(Pid)]
  BY DEF WF, KernelState
<1>2. /\ s \in Seq(Pid) /\ NoDup(s)
      /\ \A x : In(s, x) <=> In(k0.queue["zombie"], x) /\ x # p
  BY <1>1, RemovePidFact, PidFact DEF Queues
<1>3. k1 = [k0 EXCEPT !.queue = Q, !.pcb = P]
  BY <1>1 DEF ReapChild, RemoveFromZombie, KernelState
<1> HIDE DEF s
<1>4. Q \in [QueueName -> Seq(Pid)] /\ P \in [Pid -> Pcb]
  BY <1>1, <1>2, FreePcbFact
<1>5. /\ Q["zombie"] = s /\ \A q \in QueueName \ {"zombie"} : Q[q] = k0.queue[q]
      /\ P[p] = FreePcb /\ \A x \in Pid \ {p} : P[x] = k0.pcb[x]
  BY <1>1, PidFact
<1> HIDE DEF Q, P
<1>6. /\ k1 \in KernelState /\ k1.queue = Q /\ k1.pcb = P /\ k1.sems = k0.sems
      /\ k1.nextPid = k0.nextPid /\ k1.foreground = k0.foreground /\ k1.current = k0.current
  BY <1>1, <1>3, <1>4 DEF KernelState
<1>7. \A q \in QueueName, x \in Pid :
        InQueue(k1, q, x) <=> InQueue(k0, q, x) /\ x # p
  <2>1. \A q \in QueueName \ {"zombie"} : ~InQueue(k0, q, p)
    BY <1>1, PidFact DEF Queues
  <2>2. QED
    BY <1>2, <1>5, <1>6, <2>1, InQueueIsIn
<1>8. k1.pcb[p].state = "UNUSED" /\ \A x \in Pid \ {p} : k1.pcb[x] = k0.pcb[x]
  BY <1>5, <1>6, FreePcbFact
<1>9. Queues(k1)
  <2>1. \A q \in QueueName : NoDup(k1.queue[q])
    BY <1>1, <1>2, <1>5, <1>6 DEF Queues
  <2>2. QED
    BY <1>1, <1>7, <2>1, PidFact DEF Queues
<1>10. States(k1) /\ Strays(k1, lost)
  BY <1>1, <1>7, <1>8, PidFact DEF States, Strays, Queued
<1>11. Fresh(k1)
  BY <1>1, <1>6, <1>8 DEF Fresh
<1>12. Foreground(k1) /\ CurOK(k1, lost)
  <2>1. k0.current # p
    BY <1>1, PidFact, LostFact DEF CurOK, Queues
  <2>2. Foreground(k1)
    BY <1>1, <1>6, <1>7, PidFact DEF Foreground, Queued
  <2>3. QED
    BY <1>1, <1>6, <1>7, <1>8, <2>1, <2>2, PidFact DEF CurOK
<1>13. Quiet(k0, k1, lost)
  BY <1>6, <1>7, <1>8, PidFact DEF Quiet, Alive
<1>14. QED
  BY <1>6, <1>7, <1>9, <1>10, <1>11, <1>12, <1>13, QuietFact, PidFact DEF WF

\* The parent's semaphore and count, when a foreground child dies.
LEMMA UncountChildFact ==
  ASSUME NEW lost, NEW k0, WF(k0, lost), NEW p \in Pid, k0.pcb[p].children_sem >= 0
  PROVE  Steps(k0, UncountForegroundChild(k0, p), lost)
<1> DEFINE s  == k0.pcb[p].children_sem
           k1 == [k0 EXCEPT !.pcb[p].children_count = @ - 1]
           k2 == SemPost(k1, s)
           k3 == SemClose(k2, s)
           k4 == [k3 EXCEPT !.pcb[p].children_sem = -1]
<1>1. k0 \in KernelState /\ k0.pcb \in [Pid -> Pcb] /\ s \in SemId
  BY DEF WF, KernelState, Pcb
<1>2. UncountForegroundChild(k0, p) = IF k1.pcb[p].children_count = 0 THEN k4 ELSE k1
  BY DEF UncountForegroundChild
<1> HIDE DEF s
<1>3. Steps(k0, k1, lost)
  <2>1. [k0.pcb EXCEPT ![p].children_count = @ - 1] \in [Pid -> Pcb]
    BY <1>1 DEF Pcb
  <2>2. /\ k1 \in KernelState /\ k1.pcb = [k0.pcb EXCEPT ![p].children_count = @ - 1]
        /\ k1.queue = k0.queue /\ k1.nextPid = k0.nextPid /\ k1.foreground = k0.foreground
        /\ k1.sems = k0.sems /\ k1.current = k0.current
    BY <1>1, <2>1 DEF KernelState
  <2> HIDE DEF k1
  <2>3. /\ \A x \in Pid \ {p} : k1.pcb[x] = k0.pcb[x]
        /\ k1.pcb[p].state = k0.pcb[p].state /\ k1.pcb[p].priority = k0.pcb[p].priority
    BY <1>1, <2>2 DEF Pcb
  <2>4. QED
    BY <2>2, <2>3, PcbFieldFact, ZenonT(60)
<1> HIDE DEF k1
<1>4. Steps(k1, k2, lost)
  BY <1>1, <1>3, SemPostFact DEF Steps, Keeps
<1> HIDE DEF k2
<1>5. Steps(k2, k3, lost)
  BY <1>1, <1>4, SemEntryFact DEF Steps, Keeps
<1> HIDE DEF k3
<1>6. Steps(k3, k4, lost)
  <2>1. WF(k3, lost) /\ k3 \in KernelState /\ k3.pcb \in [Pid -> Pcb]
    BY <1>5 DEF Steps, Keeps, WF, KernelState
  <2>2. [k3.pcb EXCEPT ![p].children_sem = -1] \in [Pid -> Pcb]
    BY <2>1 DEF Pcb
  <2>3. /\ k4 \in KernelState /\ k4.pcb = [k3.pcb EXCEPT ![p].children_sem = -1]
        /\ k4.queue = k3.queue /\ k4.nextPid = k3.nextPid /\ k4.foreground = k3.foreground
        /\ k4.sems = k3.sems /\ k4.current = k3.current
    BY <2>1, <2>2 DEF KernelState
  <2> HIDE DEF k4
  <2>4. /\ \A x \in Pid \ {p} : k4.pcb[x] = k3.pcb[x]
        /\ k4.pcb[p].state = k3.pcb[p].state /\ k4.pcb[p].priority = k3.pcb[p].priority
    BY <2>1, <2>3 DEF Pcb
  <2>5. QED
    BY <2>1, <2>3, <2>4, PcbFieldFact
<1> HIDE DEF k4
<1>7. Steps(k0, k4, lost)
  BY <1>3, <1>4, <1>5, <1>6, StepsTrans
<1>8. QED
  BY <1>2, <1>3, <1>7

\* A function that keeps the queues and wakes no sleeper keeps the invariant.
LEMMA KeepsQuietSteps ==
  ASSUME NEW lost, NEW k0, NEW k1, WF(k0, lost), Keeps(k0, k1, lost), Quiet(k0, k1, lost)
  PROVE  Steps(k0, k1, lost)
BY QuietFact DEF Steps, Quiet

\* wakeUpWaitingParent.  The parent's pid of a process may be NoPid (idle has
\* no parent) or the pid of a process that died: then nobody is found.
LEMMA WakeUpFact ==
  ASSUME NEW lost, NEW k0, WF(k0, lost), NEW parent \in Pid \cup {NoPid}, NEW child
  PROVE  Steps(k0, WakeUpWaitingParent(k0, parent, child), lost)
<1>1. CASE parent \in Pid
  BY <1>1, BlockFact, KeepsQuietSteps, StepsRefl DEF WakeUpWaitingParent
<1>2. CASE parent = NoPid
  <2>1. \A q \in QueueName : ~InQueue(k0, q, NoPid)
    BY PidFact DEF WF, KernelState, InQueue
  <2>2. NoPid # k0.current /\ NoPid # IdlePid
    BY PidFact DEF WF, KernelState
  <2>3. ~HasProcess(k0, parent)
    BY <1>2, <2>1, <2>2 DEF HasProcess
  <2>4. QED
    BY <2>3, StepsRefl DEF WakeUpWaitingParent
<1>3. QED
  BY <1>1, <1>2

\* killProcess of a process that no queue holds: it only stops being current.
LEMMA KillNobodyFact ==
  ASSUME NEW k0 \in KernelState, NEW p, ~Killable(k0, p)
  PROVE  KillProcess(k0, p) = [k0 EXCEPT !.current = IF @ = p THEN IdlePid ELSE @]
<1> DEFINE k1 == [k0 EXCEPT !.current = IF @ = p THEN IdlePid ELSE @]
<1>1. k1.queue = k0.queue
  BY DEF KernelState
<1>2. ~Killable(k1, p)
  BY <1>1 DEF Killable, InQueue
<1>3. QED
  BY <1>2 DEF KillProcess

\* kill, whoever calls it and whatever the victim was doing.
LEMMA KillFact ==
  ASSUME NEW lost, NEW k0, WF(k0, lost), CurOK(k0, lost), NEW p \in Pid
  PROVE  Sound(k0, Kill(k0, p), lost)
<1> DEFINE parent == k0.pcb[p].parentPid
           k1 == KillProcess(k0, p)
           counted == /\ parent > 0 /\ k0.pcb[p].foreground
                      /\ HasProcess(k1, parent) /\ k1.pcb[parent].children_sem >= 0
           k2 == IF counted THEN UncountForegroundChild(k1, parent) ELSE k1
           kw == WakeUpWaitingParent(k2, parent, p)
           k3 == ReapChild(kw, p)
<1>1. Sound(k0, k0, lost)
  BY DEF Sound
<1>2. CASE p <= ShellPid
  BY <1>1, <1>2 DEF Kill
<1>3. CASE ~(p <= ShellPid) /\ ~Killable(k0, p)
  <2>1. Kill(k0, p) = k1
    BY <1>3 DEF Kill
  <2>2. k1 = [k0 EXCEPT !.current = IF @ = p THEN IdlePid ELSE @]
    BY <1>3, KillNobodyFact DEF WF
  <2> HIDE DEF k1
  <2>3. /\ k1 \in KernelState /\ k1.queue = k0.queue /\ k1.pcb = k0.pcb /\ k1.sems = k0.sems
        /\ k1.nextPid = k0.nextPid /\ k1.foreground = k0.foreground
        /\ k1.current = IF k0.current = p THEN IdlePid ELSE k0.current
    BY <2>2, PidFact DEF WF, KernelState
  <2>4. /\ WF(k1, lost)
        /\ \A q \in QueueName, x \in Pid : InQueue(k1, q, x) <=> InQueue(k0, q, x)
    BY <2>3, PcbWriteFact, PidFact
  <2>5. CurOK(k1, lost)
    BY <2>3, <2>4, PidFact DEF CurOK, WF, KernelState
  <2>6. Quiet(k0, k1, lost)
    BY <2>3, <2>4, PidFact DEF Quiet, Alive
  <2>7. QED
    BY <2>1, <2>3, <2>4, <2>5, <2>6, QuietFact, PidFact DEF Sound
<1>4. CASE ~(p <= ShellPid) /\ Killable(k0, p)
  <2>1. Kill(k0, p) = IF p = k0.currentPid THEN Yield(k3) ELSE k3
    BY <1>4 DEF Kill
  <2>2. parent \in Pid \cup {NoPid}
    BY DEF WF, KernelState, Pcb
  <2>3. parent > 0 => parent \in Pid
    BY <2>2 DEF NoPid
  <2>4. k1 = KillProcess(k0, p)
    OBVIOUS
  <2> HIDE DEF k1, parent
  <2>5. /\ WF(k1, lost) /\ CurOK(k1, lost) /\ (Sleepers(k0, lost) => Sleepers(k1, lost))
        /\ \A x \in Pid : InQueue(k1, "zombie", x) <=> InQueue(k0, "zombie", x) \/ x = p
        /\ ~InQueue(k0, "zombie", p)
    BY <1>4, <2>4, KillProcessFact
  <2>6. Steps(k1, k2, lost)
    BY <2>3, <2>5, UncountChildFact, StepsRefl
  <2> HIDE DEF k2
  <2>7. WF(k2, lost)
    BY <2>6 DEF Steps, Keeps
  <2>8. Steps(k1, kw, lost)
    BY <2>2, <2>6, <2>7, WakeUpFact, StepsTrans
  <2> HIDE DEF kw
  <2>9. /\ WF(kw, lost) /\ CurOK(kw, lost) /\ (Sleepers(k0, lost) => Sleepers(kw, lost))
        /\ \A x \in Pid : InQueue(kw, "zombie", x) <=> InQueue(k0, "zombie", x) \/ x = p
    BY <2>5, <2>8 DEF Steps, Keeps
  <2>10. Sound(k0, k3, lost)
    <3>1. InQueue(kw, "zombie", p) /\ k3 = ReapChild(kw, p)
      BY <2>9
    <3> HIDE DEF k3
    <3>2. QED
      BY <2>9, <3>1, ReapFact DEF Sound
  <2> HIDE DEF k3
  <2>11. Sound(k3, Yield(k3), lost)
    <3>1. WF(k3, lost) /\ CurOK(k3, lost)
      BY <2>10 DEF Sound
    <3>2. Steps(k3, Yield(k3), lost)
      BY <3>1, ScheduleFact, KeepsQuietSteps
    <3>3. QED
      BY <3>1, <3>2, StepsSound
  <2>12. QED
    BY <2>1, <2>10, <2>11, SoundTrans
<1>5. QED
  BY <1>2, <1>3, <1>4

\* changePrio: a process it finds is queued, so it may leave idle's priority.
LEMMA ChangePrioFact ==
  ASSUME NEW lost, NEW k0, WF(k0, lost), CurOK(k0, lost), NEW p \in Pid, NEW prio \in Nat
  PROVE  Sound(k0, ChangePrio(k0, p, prio), lost)
<1> DEFINE n  == IF prio < MIN_PRIORITY THEN MIN_PRIORITY
                 ELSE IF prio > MAX_PRIORITY THEN MAX_PRIORITY ELSE prio
           k1 == [k0 EXCEPT !.pcb[p].priority = n]
<1>1. CASE p <= ShellPid \/ ~HasProcess(k0, p)
  BY <1>1 DEF ChangePrio, Sound
<1>2. CASE ~(p <= ShellPid \/ ~HasProcess(k0, p))
  <2>1. /\ k0 \in KernelState /\ Queues(k0) /\ States(k0) /\ Strays(k0, lost) /\ Fresh(k0) /\ Foreground(k0)
        /\ k0.pcb \in [Pid -> Pcb] /\ k0.current \in Pid /\ k0.foreground \in Pid \cup {NoPid}
    BY DEF WF, KernelState
  <2>2. n \in 0..IDLE_PRIORITY
    BY PriorityAssumption DEF MIN_PRIORITY, IDLE_PRIORITY
  <2>3. ChangePrio(k0, p, prio) = k1
    BY <1>2 DEF ChangePrio
  <2> HIDE DEF n
  <2>4. [k0.pcb EXCEPT ![p].priority = n] \in [Pid -> Pcb]
    BY <2>1, <2>2 DEF Pcb
  <2>5. /\ k1 \in KernelState /\ k1.pcb = [k0.pcb EXCEPT ![p].priority = n]
        /\ k1.queue = k0.queue /\ k1.nextPid = k0.nextPid /\ k1.foreground = k0.foreground
        /\ k1.sems = k0.sems /\ k1.current = k0.current
    BY <2>1, <2>4 DEF KernelState
  <2> HIDE DEF k1
  <2>6. /\ \A x \in Pid \ {p} : k1.pcb[x] = k0.pcb[x]
        /\ k1.pcb[p].state = k0.pcb[p].state
    BY <2>1, <2>5 DEF Pcb
  <2>7. \A q, x : InQueue(k1, q, x) <=> InQueue(k0, q, x)
    BY <2>5, InQueueIsIn
  <2>8. Queued(k0, p) \/ p \in lost
    <3>1. p # IdlePid
      BY <1>2 DEF IdlePid, ShellPid
    <3>2. QED
      BY <1>2, <3>1, PidFact DEF HasProcess, CurOK, Queued
  <2>9. Queues(k1) /\ States(k1) /\ Foreground(k1) /\ CurOK(k1, lost)
    BY <2>1, <2>5, <2>6, <2>7 DEF Queues, States, Foreground, Queued, CurOK
  <2>10. Strays(k1, lost)
    <3>1. k1.pcb[p].priority # IDLE_PRIORITY
      <4>1. k1.pcb[p].priority = n
        BY <2>1, <2>5 DEF Pcb
      <4>2. n # IDLE_PRIORITY
        BY PriorityAssumption DEF n, MIN_PRIORITY, IDLE_PRIORITY
      <4>3. QED
        BY <4>1, <4>2
    <3>2. \A x \in Pid : Queued(k1, x) <=> Queued(k0, x)
      BY <2>7 DEF Queued
    <3>3. \A x \in Pid \ {p, IdlePid} :
            x \in lost <=> /\ k1.pcb[x].state # "UNUSED" /\ k1.pcb[x].priority # IDLE_PRIORITY
                          /\ ~Queued(k1, x)
      BY <2>1, <2>6, <3>2 DEF Strays
    <3>4. QED
      BY <2>1, <2>6, <2>8, <3>1, <3>2, <3>3 DEF Strays
  <2>11. Fresh(k1)
    BY <2>1, <2>5, <2>6 DEF Fresh
  <2>12. Quiet(k0, k1, lost)
    BY <2>5, <2>6, <2>7 DEF Quiet, Alive
  <2>13. QED
    BY <2>3, <2>5, <2>7, <2>9, <2>10, <2>11, <2>12, QuietFact DEF Sound, WF
<1>3. QED
  BY <1>1, <1>2

SetWaiting(k0, c, p) == [k0 EXCEPT !.pcb[c].waitingForPid = p]

\* Writing waitingForPid of one process.
LEMMA WaitingFact ==
  ASSUME NEW lost, NEW k0, WF(k0, lost), NEW c \in Pid, NEW p \in Pid \cup {NoPid},
         NEW k1, k1 = SetWaiting(k0, c, p)
  PROVE  /\ Steps(k0, k1, lost) /\ k1.queue = k0.queue /\ k1.current = k0.current
         /\ k1.pcb = [k0.pcb EXCEPT ![c].waitingForPid = p]
<1>1. k0 \in KernelState /\ k0.pcb \in [Pid -> Pcb]
  BY DEF WF, KernelState
<1>2. [k0.pcb EXCEPT ![c].waitingForPid = p] \in [Pid -> Pcb]
  BY <1>1 DEF Pcb
<1>3. /\ k1 \in KernelState /\ k1.pcb = [k0.pcb EXCEPT ![c].waitingForPid = p]
      /\ k1.queue = k0.queue /\ k1.nextPid = k0.nextPid /\ k1.foreground = k0.foreground
      /\ k1.sems = k0.sems /\ k1.current = k0.current
  BY <1>1, <1>2 DEF KernelState, SetWaiting
<1>4. /\ \A x \in Pid \ {c} : k1.pcb[x] = k0.pcb[x]
      /\ k1.pcb[c].state = k0.pcb[c].state /\ k1.pcb[c].priority = k0.pcb[c].priority
  BY <1>1, <1>3 DEF Pcb
<1>5. QED
  BY <1>3, <1>4, PcbFieldFact, ZenonT(60)

SetPcb(k0, P) == [k0 EXCEPT !.pcb = P]

MarkBlocked(P, c) == [P EXCEPT ![c].state = "BLOCKED"]

\* k0 with the PCBs P, after the move of c from ready to blocked.
Moved(k0, P, c) ==
  LET Q1 == [k0.queue EXCEPT !["ready"] = RemovePid(@, c)]
      Q2 == [Q1 EXCEPT !["blocked"] = Append(@, c)]
  IN  [k0 EXCEPT !.queue = Q2, !.pcb = P]

\* What a move from ready to blocked writes.
LEMMA MoveShape ==
  ASSUME NEW k0 \in KernelState, NEW P, NEW c \in Pid, NEW kk, kk = SetPcb(k0, P),
         InQueue(kk, "ready", c)
  PROVE  SetState(SwitchProcessFromQueues(kk, "ready", "blocked", c), c, "BLOCKED")
           = Moved(k0, MarkBlocked(P, c), c)
<1> DEFINE Q1 == [k0.queue EXCEPT !["ready"] = RemovePid(@, c)]
           Q2 == [Q1 EXCEPT !["blocked"] = Append(@, c)]
           kr == [kk EXCEPT !.queue["ready"] = RemovePid(@, c)]
           ks == [kr EXCEPT !.queue["blocked"] = Append(@, c)]
<1>1. SwitchProcessFromQueues(kk, "ready", "blocked", c) = ks
  BY DEF SwitchProcessFromQueues, Enqueue
<1>2. kr = [k0 EXCEPT !.queue = Q1, !.pcb = P]
  BY DEF KernelState, SetPcb
<1> HIDE DEF Q1, kr
<1>3. ks = [k0 EXCEPT !.queue = Q2, !.pcb = P]
  BY <1>2 DEF KernelState
<1> HIDE DEF Q2, ks
<1>4. SetState(ks, c, "BLOCKED") = [k0 EXCEPT !.queue = Q2, !.pcb = [P EXCEPT ![c].state = "BLOCKED"]]
  BY <1>3 DEF SetState, KernelState
<1>5. QED
  BY <1>1, <1>4 DEF Q2, Q1, Moved, MarkBlocked

\* waitpid up to blockProcess.  It marks the caller BLOCKED before it leaves
\* the ready queue; blockProcess writes the same mark again.
LEMMA WaitpidShape ==
  ASSUME NEW lost, NEW k0, WF(k0, lost), NEW p \in Pid, NEW c, c = k0.current, CanBlock(k0, c),
         NEW kw, kw = SetWaiting(k0, c, p)
  PROVE  /\ WaitpidBlock(k0, p) = BlockProcess(kw, c) /\ CanBlock(kw, c)
         /\ Steps(k0, kw, lost) /\ kw.queue = k0.queue /\ kw.current = c
         /\ kw.pcb = [k0.pcb EXCEPT ![c].waitingForPid = p]
<1> DEFINE k1 == [k0 EXCEPT !.pcb[c].waitingForPid = p, !.pcb[c].state = "BLOCKED"]
<1>1. /\ c \in Pid /\ k0 \in KernelState /\ k0.pcb \in [Pid -> Pcb]
      /\ k0.queue \in [QueueName -> Seq(Pid)] /\ Queues(k0)
  BY DEF WF, KernelState
<1>2. /\ Steps(k0, kw, lost) /\ kw.queue = k0.queue /\ kw.current = c
      /\ kw.pcb = [k0.pcb EXCEPT ![c].waitingForPid = p]
  <2> HIDE DEF k1
  <2>1. p \in Pid \cup {NoPid} /\ c \in Pid
    BY <1>1
  <2>2. /\ Steps(k0, kw, lost) /\ kw.queue = k0.queue /\ kw.current = k0.current
        /\ kw.pcb = [k0.pcb EXCEPT ![c].waitingForPid = p]
    BY <2>1, WaitingFact
  <2>3. QED
    BY <2>2
<1>3. \A q, x : (InQueue(k1, q, x) <=> InQueue(k0, q, x)) /\ (InQueue(kw, q, x) <=> InQueue(k0, q, x))
  BY <1>1, <1>2 DEF InQueue, KernelState
<1>4. CanBlock(k1, c) /\ CanBlock(kw, c)
  BY <1>3 DEF CanBlock
<1> DEFINE P1 == [k0.pcb EXCEPT ![c].waitingForPid = p, ![c].state = "BLOCKED"]
           Pw == [k0.pcb EXCEPT ![c].waitingForPid = p]
<1>5. k1 = SetPcb(k0, P1) /\ kw = SetPcb(k0, Pw)
  BY <1>1 DEF KernelState, SetPcb, SetWaiting
<1>6. InQueue(k1, "ready", c) /\ InQueue(kw, "ready", c)
  BY <1>4 DEF CanBlock
<1>7. MarkBlocked(P1, c) = MarkBlocked(Pw, c)
  BY <1>1 DEF Pcb, MarkBlocked
<1>8. WaitpidBlock(k0, p) = BlockProcess(k1, c)
  BY DEF WaitpidBlock
<1> HIDE DEF P1, Pw, k1
<1>9. SetState(SwitchProcessFromQueues(k1, "ready", "blocked", c), c, "BLOCKED")
        = SetState(SwitchProcessFromQueues(kw, "ready", "blocked", c), c, "BLOCKED")
  <2>1. SetState(SwitchProcessFromQueues(k1, "ready", "blocked", c), c, "BLOCKED")
          = Moved(k0, MarkBlocked(P1, c), c)
    BY <1>1, <1>5, <1>6, MoveShape
  <2>2. SetState(SwitchProcessFromQueues(kw, "ready", "blocked", c), c, "BLOCKED")
          = Moved(k0, MarkBlocked(Pw, c), c)
    BY <1>1, <1>5, <1>6, MoveShape
  <2>3. QED
    BY <1>7, <2>1, <2>2
<1>10. BlockProcessQueue(k1, c) = BlockProcessQueue(kw, c)
  BY <1>4, <1>9 DEF BlockProcessQueue
<1>11. WaitpidBlock(k0, p) = BlockProcess(kw, c)
  BY <1>4, <1>8, <1>10 DEF BlockProcess
<1>12. QED
  BY <1>2, <1>4, <1>11

\* waitpid up to the switch keeps the kernel in order.
LEMMA WaitpidBlockFact ==
  ASSUME NEW lost, NEW k0, WF(k0, lost), CurOK(k0, lost), NEW p \in Pid
  PROVE  Sound(k0, WaitpidBlock(k0, p), lost)
<1> DEFINE c  == k0.current
           kw == SetWaiting(k0, c, p)
<1>1. /\ c \in Pid /\ k0 \in KernelState /\ k0.pcb \in [Pid -> Pcb]
      /\ k0.queue \in [QueueName -> Seq(Pid)] /\ Queues(k0)
  BY DEF WF, KernelState
<1>2. CASE CanBlock(k0, c)
  <2>1. /\ WaitpidBlock(k0, p) = BlockProcess(kw, c) /\ CanBlock(kw, c)
        /\ Steps(k0, kw, lost) /\ kw.queue = k0.queue /\ kw.current = c
        /\ kw.pcb = [k0.pcb EXCEPT ![c].waitingForPid = p]
    <3>1. kw = SetWaiting(k0, c, p) /\ c = k0.current
      OBVIOUS
    <3> HIDE DEF kw, c
    <3>2. QED
      BY <1>2, <3>1, WaitpidShape
  <2> HIDE DEF kw
  <2>4. Steps(kw, BlockProcess(kw, c), lost)
    <3>1. WF(kw, lost)
      BY <2>1 DEF Steps, Keeps
    <3>2. QED
      BY <1>1, <3>1, BlockFact, KeepsQuietSteps
  <2>5. QED
    BY <2>1, <2>4, StepsTrans, StepsSound
<1>3. CASE ~CanBlock(k0, c)
  <2> DEFINE k2 == [k0 EXCEPT !.pcb[c].waitingForPid = NoPid, !.pcb[c].state = "READY"]
             P == [k0.pcb EXCEPT ![c].waitingForPid = NoPid, ![c].state = "READY"]
  <2>1. c = IdlePid \/ (c \in lost /\ k0.pcb[c].state \in {"READY", "RUNNING"})
    <3>1. InQueue(k0, "ready", c) => ~InQueue(k0, "blockedBySem", c)
      BY <1>1, PidFact DEF Queues
    <3>2. QED
      BY <1>3, <3>1 DEF CanBlock, CurOK
  <2>2. WaitpidBlock(k0, p) = k2
    BY <1>3 DEF WaitpidBlock
  <2>3. P \in [Pid -> Pcb]
    <3>1. \A r \in Pcb : [r EXCEPT !.waitingForPid = NoPid, !.state = "READY"] \in Pcb
      BY DEF Pcb, State
    <3>2. P = [k0.pcb EXCEPT ![c] = [k0.pcb[c] EXCEPT !.waitingForPid = NoPid, !.state = "READY"]]
      BY <1>1
    <3>3. QED
      BY <1>1, <3>1, <3>2
  <2>4. k2 = [k0 EXCEPT !.pcb = P]
    BY <1>1 DEF KernelState
  <2>5. /\ \A x \in Pid \ {c} : P[x] = k0.pcb[x]
        /\ P[c].state = "READY" /\ P[c].priority = k0.pcb[c].priority
    BY <1>1 DEF Pcb
  <2> HIDE DEF P, k2
  <2>6. /\ k2 \in KernelState /\ k2.pcb = P
        /\ k2.queue = k0.queue /\ k2.nextPid = k0.nextPid /\ k2.foreground = k0.foreground
        /\ k2.sems = k0.sems /\ k2.current = k0.current
    BY <1>1, <2>3, <2>4 DEF KernelState
  <2>7. /\ WF(k2, lost)
        /\ \A q \in QueueName, x \in Pid : InQueue(k2, q, x) <=> InQueue(k0, q, x)
    BY <1>1, <2>1, <2>5, <2>6, PcbWriteFact
  <2>8. Keeps(k0, k2, lost)
    BY <1>1, <2>1, <2>5, <2>6, <2>7, PidFact DEF Keeps, CurOK
  <2>9. Quiet(k0, k2, lost)
    BY <2>1, <2>5, <2>6, <2>7, PidFact DEF Quiet, Alive
  <2>10. QED
    BY <2>2, <2>8, <2>9, KeepsQuietSteps, StepsSound
<1>4. QED
  BY <1>2, <1>3

\* Between system calls there are no zombies: the branch of waitpid that
\* reaps one is left with idle, whose state nothing ties to a queue.
NoZombies(k0) == \A x \in Pid : ~InQueue(k0, "zombie", x)

\* The kernel that main() leaves behind: idle and the shell, both on the stack
\* that setUpStackFrame built for them, and an empty semaphore table.
LEMMA BootFact ==
  ASSUME NEW k0, k0 = BootKernel
  PROVE  /\ WF(k0, {}) /\ CurOK(k0, {}) /\ NoZombies(k0) /\ Sleepers(k0, {})
         /\ k0.current = ShellPid /\ k0.nextPid = ShellPid + 1 /\ k0.first = TRUE /\ k0.cpu = BootCtx
         /\ \A s \in SemId : k0.sems[s] = UnusedSem
         /\ \A q \in QueueName, p \in Pid : InQueue(k0, q, p) <=> q = "ready" /\ p = ShellPid
         /\ \A p \in Pid : /\ k0.pcb[p].children_sem = -1 /\ k0.pcb[p].children_count = 0
                           /\ k0.pcb[p].waitingForPid = NoPid
                           /\ k0.pcb[p].parentPid = IF p = ShellPid THEN IdlePid ELSE NoPid
                           /\ p < k0.nextPid => k0.pcb[p].rsp = p
                           /\ p >= k0.nextPid => k0.pcb[p] = FreePcb
                           /\ k0.pcb[p].foreground <=> p = ShellPid
<1> DEFINE idle  == NewPcb(IdlePid, NoPid, IDLE_PRIORITY, FALSE)
           shell == NewPcb(ShellPid, IdlePid, 0, TRUE)
           Q == [q \in QueueName |-> IF q = "ready" THEN <<ShellPid>> ELSE << >>]
           P == [p \in Pid |-> IF p = IdlePid THEN idle ELSE IF p = ShellPid THEN shell ELSE FreePcb]
<1>1. MAX_PRIORITY \in Nat /\ IDLE_PRIORITY = MAX_PRIORITY + 1
  BY PriorityAssumption DEF IDLE_PRIORITY
<1>2. idle \in Pcb /\ shell \in Pcb /\ shell.state = "READY" /\ shell.priority = 0
  <2>1. idle.priority = IDLE_PRIORITY /\ shell.priority = 0
    BY <1>1 DEF NewPcb
  <2>2. QED
    BY <1>1, <2>1, PidFact DEF NewPcb, Pcb, State, Context
<1>3. P \in [Pid -> Pcb]
  BY <1>2, FreePcbFact
<1>4. Q \in [QueueName -> Seq(Pid)] /\ Q["ready"] = <<ShellPid>>
      /\ \A q \in QueueName \ {"ready"} : Q[q] = << >>
  BY PidFact
<1>5. CreateSemaphoresManager \in [SemId -> Sem]
  BY DEF CreateSemaphoresManager, UnusedSem, Sem
<1>6. \A p \in Pid : P[p] = IF p = IdlePid THEN idle ELSE IF p = ShellPid THEN shell ELSE FreePcb
  OBVIOUS
<1>7. k0 = [queue |-> Q, current |-> ShellPid, foreground |-> NoPid, currentPid |-> NoPid,
           nextPid |-> ShellPid + 1, quantum |-> 0, first |-> TRUE, cpu |-> BootCtx,
           pcb |-> P, sems |-> CreateSemaphoresManager]
  <2>1. P = [p \in Pid |-> IF p = IdlePid THEN NewPcb(p, NoPid, IDLE_PRIORITY, FALSE)
                           ELSE IF p = ShellPid THEN NewPcb(p, IdlePid, 0, TRUE) ELSE FreePcb]
    OBVIOUS
  <2>2. QED
    BY <2>1 DEF BootKernel
<1> HIDE DEF P, Q, idle, shell
<1>20. /\ k0.pcb = P /\ k0.queue = Q /\ k0.current = ShellPid /\ k0.foreground = NoPid
       /\ k0.nextPid = ShellPid + 1 /\ k0.first = TRUE /\ k0.cpu = BootCtx
       /\ k0.sems = CreateSemaphoresManager
  BY <1>7
<1>8. ShellPid + 1 \in Nat /\ ShellPid # IdlePid
  BY DEF ShellPid, IdlePid
<1>9. k0 \in KernelState
  BY <1>3, <1>4, <1>5, <1>7, <1>8, PidFact DEF KernelState, Context
<1>10. \A q \in QueueName, p \in Pid : InQueue(k0, q, p) <=> q = "ready" /\ p = ShellPid
  <2>1. Len(<<ShellPid>>) = 1 /\ <<ShellPid>>[1] = ShellPid /\ Len(<< >>) = 0
    OBVIOUS
  <2>2. k0.queue["ready"] = <<ShellPid>> /\ \A q \in QueueName \ {"ready"} : k0.queue[q] = << >>
    BY <1>4, <1>20
  <2>3. ASSUME NEW p \in Pid PROVE InQueue(k0, "ready", p) <=> p = ShellPid
    BY <2>1, <2>2 DEF InQueue
  <2>4. ASSUME NEW q \in QueueName \ {"ready"}, NEW p \in Pid PROVE ~InQueue(k0, q, p)
    BY <2>1, <2>2 DEF InQueue
  <2>5. QED
    BY <2>3, <2>4
<1>11. Queues(k0)
  <2>1. \A q \in QueueName : NoDup(k0.queue[q])
    BY <1>4, <1>20 DEF NoDup
  <2>2. QED
    BY <1>8, <1>10, <2>1, PidFact DEF Queues
<1>12. States(k0)
  BY <1>2, <1>6, <1>8, <1>10, <1>20, PidFact DEF States
<1>13. Strays(k0, {})
  BY <1>6, <1>20, <1>10, FreePcbFact, PidFact DEF Strays, Queued
<1>14. Fresh(k0)
  <2>1. \A p \in Pid : p >= k0.nextPid => p # IdlePid /\ p # ShellPid
    BY <1>20 DEF Pid, IdlePid, ShellPid
  <2>2. k0.nextPid > ShellPid
    BY <1>20 DEF ShellPid
  <2>3. QED
    BY <1>6, <1>20, <2>1, <2>2, FreePcbFact DEF Fresh
<1>15. Foreground(k0) /\ CurOK(k0, {}) /\ NoZombies(k0)
  BY <1>20, <1>10, PidFact DEF Foreground, CurOK, NoZombies
<1>16. Sleepers(k0, {})
  <2>1. \A s \in SemId : k0.sems[s].value = 0 /\ k0.sems[s].blocked = << >>
    BY <1>20 DEF CreateSemaphoresManager, UnusedSem
  <2>2. \A s \in SemId : Len(k0.sems[s].blocked) = 0
    BY <2>1
  <2>3. \A s \in SemId : ~(k0.sems[s].value > 0)
    BY <2>1
  <2>4. \A s \in SemId : \A i \in 1..Len(k0.sems[s].blocked) : FALSE
    BY <2>2
  <2>5. QED
    BY <2>3, <2>4 DEF Sleepers
<1>17. \A p \in Pid : /\ k0.pcb[p].children_sem = -1 /\ k0.pcb[p].children_count = 0
                      /\ k0.pcb[p].waitingForPid = NoPid
                      /\ k0.pcb[p].parentPid = IF p = ShellPid THEN IdlePid ELSE NoPid
                      /\ p < k0.nextPid => k0.pcb[p].rsp = p
                      /\ p >= k0.nextPid => k0.pcb[p] = FreePcb
                      /\ k0.pcb[p].foreground <=> p = ShellPid
  <2> SUFFICES ASSUME NEW p \in Pid
               PROVE  /\ k0.pcb[p].children_sem = -1 /\ k0.pcb[p].children_count = 0
                      /\ k0.pcb[p].waitingForPid = NoPid
                      /\ k0.pcb[p].parentPid = IF p = ShellPid THEN IdlePid ELSE NoPid
                      /\ p < k0.nextPid => k0.pcb[p].rsp = p
                      /\ p >= k0.nextPid => k0.pcb[p] = FreePcb
                      /\ k0.pcb[p].foreground <=> p = ShellPid
    OBVIOUS
  <2>1. p < k0.nextPid <=> p \in {IdlePid, ShellPid}
    BY <1>20 DEF Pid, IdlePid, ShellPid
  <2>2. k0.pcb[p] = P[p] /\ p \in Int /\ k0.nextPid \in Int
    BY <1>20 DEF Pid, ShellPid
  <2>3. CASE p = IdlePid
    BY <1>6, <1>8, <2>1, <2>2, <2>3 DEF NewPcb, idle
  <2>4. CASE p = ShellPid
    <3>1. k0.pcb[p] = shell
      BY <1>6, <1>8, <2>2, <2>4
    <3>2. QED
      BY <1>8, <2>1, <2>2, <2>4, <3>1 DEF NewPcb, shell
  <2>5. CASE p # IdlePid /\ p # ShellPid
    <3>1. k0.pcb[p] = FreePcb
      BY <1>6, <2>2, <2>5
    <3>2. ~(p < k0.nextPid) /\ p # ShellPid
      BY <2>1, <2>5
    <3>3. /\ FreePcb.children_sem = -1 /\ FreePcb.children_count = 0
          /\ FreePcb.waitingForPid = NoPid /\ FreePcb.parentPid = NoPid /\ ~FreePcb.foreground
      BY DEF FreePcb
    <3>4. QED
      BY <3>1, <3>2, <3>3
  <2>6. QED
    BY <2>3, <2>4, <2>5
<1>18. \A s \in SemId : k0.sems[s] = UnusedSem
  BY <1>20 DEF CreateSemaphoresManager
<1>19. QED
  BY <1>20, <1>9, <1>10, <1>11, <1>12, <1>13, <1>14, <1>15, <1>16, <1>17, <1>18 DEF WF

\* waitpid's last part, when it finds a zombie.
LEMMA WaitpidReapFact ==
  ASSUME NEW lost, NEW k0, WF(k0, lost), CurOK(k0, lost), NoZombies(k0), NEW p \in Pid,
         HasProcess(k0, p), k0.pcb[p].state = "ZOMBIE"
  PROVE  Sound(k0, WaitpidReap(k0, p), lost)
<1> DEFINE c  == k0.current
           k1 == SetWaiting(k0, c, NoPid)
           k2 == ReapChild(k1, p)
           P  == [k1.pcb EXCEPT ![p] = FreePcb]
<1>1. c \in Pid
  BY DEF WF, KernelState
<1>2. p = IdlePid
  <2>1. ~Queued(k0, p)
    BY DEF WF, States, NoZombies, Queued, QueueName
  <2>2. p # c \/ c = IdlePid
    BY <2>1, PidFact DEF CurOK, Queued
  <2>3. QED
    BY <2>1, <2>2 DEF HasProcess, Queued
<1>3. Steps(k0, k1, lost)
  BY <1>1, WaitingFact
<1>4. WaitpidReap(k0, p) = k2
  BY DEF WaitpidReap, SetWaiting
<1> HIDE DEF k1
<1>5. /\ WF(k1, lost) /\ CurOK(k1, lost) /\ k1 \in KernelState /\ k1.pcb \in [Pid -> Pcb]
      /\ k1.queue \in [QueueName -> Seq(Pid)] /\ k1.current \in Pid
      /\ ~InQueue(k1, "zombie", p)
  BY <1>3, PidFact DEF Steps, Keeps, WF, KernelState, NoZombies
<1>6. RemovePid(k1.queue["zombie"], p) = k1.queue["zombie"]
  BY <1>5 DEF RemovePid, InQueue
<1>7. k2 = [k1 EXCEPT !.pcb = P]
  BY <1>5, <1>6 DEF ReapChild, RemoveFromZombie, KernelState
<1>8. P \in [Pid -> Pcb] /\ \A x \in Pid \ {p} : P[x] = k1.pcb[x]
  BY <1>5, FreePcbFact
<1> HIDE DEF P, k2
<1>9. /\ k2 \in KernelState /\ k2.pcb = P
      /\ k2.queue = k1.queue /\ k2.nextPid = k1.nextPid /\ k2.foreground = k1.foreground
      /\ k2.sems = k1.sems /\ k2.current = k1.current
  BY <1>5, <1>7, <1>8 DEF KernelState
<1>10. /\ WF(k2, lost)
       /\ \A q \in QueueName, x \in Pid : InQueue(k2, q, x) <=> InQueue(k1, q, x)
  BY <1>2, <1>5, <1>8, <1>9, PcbWriteFact
<1>11. Keeps(k1, k2, lost)
  <2>1. k1.current \in lost => k1.current \in Pid \ {p}
    BY <1>2, <1>5, LostFact
  <2>2. QED
    BY <1>5, <1>8, <1>9, <1>10, <2>1, PidFact DEF Keeps, CurOK
<1>12. Quiet(k1, k2, lost)
  BY <1>2, <1>8, <1>9, <1>10, PidFact DEF Quiet, Alive
<1>13. QED
  BY <1>3, <1>4, <1>5, <1>11, <1>12, KeepsQuietSteps, StepsTrans, StepsSound

-----------------------------------------------------------------------------
(* What the functions write, beyond what keeps a kernel well-formed.        *)

\* The fields of a PCB that neither dispatching nor blocking writes: its
\* family, and what it counts of its foreground children.
SameKin(k0, k1, x) ==
  /\ k1.pcb[x].parentPid = k0.pcb[x].parentPid
  /\ k1.pcb[x].waitingForPid = k0.pcb[x].waitingForPid
  /\ k1.pcb[x].foreground = k0.pcb[x].foreground
  /\ x # IdlePid => (k1.pcb[x].state = "UNUSED" <=> k0.pcb[x].state = "UNUSED")

SameCounts(k0, k1, x) ==
  /\ k1.pcb[x].children_sem = k0.pcb[x].children_sem
  /\ k1.pcb[x].children_count = k0.pcb[x].children_count

SameFields(k0, k1) == \A x \in Pid : SameKin(k0, k1, x) /\ SameCounts(k0, k1, x)

SamePrio(k0, k1) == \A x \in Pid : k1.pcb[x].priority = k0.pcb[x].priority

\* The CPU stays where it is.
SameCpu(k0, k1) ==
  /\ k1.cpu = k0.cpu /\ k1.current = k0.current /\ k1.first = k0.first
  /\ \A x \in Pid : k1.pcb[x].rsp = k0.pcb[x].rsp

\* The CPU goes to the stack of the next process, idle or ready, and the stack
\* it was on is saved in the PCB of the process that was current.
Switched(k0, k1) ==
  /\ k1.first = FALSE
  /\ \A x \in Pid : k1.pcb[x].rsp = IF x = k0.current /\ ~k0.first THEN k0.cpu ELSE k0.pcb[x].rsp
  /\ k1.cpu = k1.pcb[k1.current].rsp
  /\ k1.current = IdlePid \/ InQueue(k1, "ready", k1.current)

Dispatched(k0, k1) == SameFields(k0, k1) /\ (SameCpu(k0, k1) \/ Switched(k0, k1))

\* The context switch of schedule() saves a stack and loads another.
LEMMA SwitchEffect ==
  ASSUME NEW lost, NEW k0, WF(k0, lost), NEW k9, k9 = SwitchContext(k0)
  PROVE  SameFields(k0, k9) /\ SamePrio(k0, k9) /\ Switched(k0, k9)
<1> DEFINE c == k0.current
           st == IF k0.pcb[c].state = "RUNNING" THEN "READY" ELSE k0.pcb[c].state
           r == IF k0.first THEN k0.pcb[c].rsp ELSE k0.cpu
           pcb1 == [k0.pcb EXCEPT ![c].rsp = r, ![c].state = st]
           k1 == [k0 EXCEPT !.pcb = pcb1]
           k2 == GetNextProcess(k1)
           n == k2.current
           pcb3 == [k2.pcb EXCEPT ![n].state = "RUNNING"]
           k3 == [k2 EXCEPT !.pcb        = pcb3,
                            !.first      = FALSE,
                            !.currentPid = n,
                            !.quantum    = CalculateQuantum(k2.pcb[n].priority),
                            !.cpu        = k2.pcb[n].rsp]
<1>1. /\ k0 \in KernelState /\ c \in Pid /\ k0.pcb \in [Pid -> Pcb] /\ k0.cpu \in Context
      /\ States(k0) /\ Queues(k0) /\ k0.first \in BOOLEAN
  BY DEF WF, KernelState
<1>2. /\ k0.pcb[c] \in Pcb
      /\ r \in Context /\ st \in State
      /\ pcb1 \in [Pid -> Pcb]
      /\ \A x \in Pid \ {c} : pcb1[x] = k0.pcb[x]
      /\ pcb1[c].state = st /\ pcb1[c].priority = k0.pcb[c].priority
      /\ pcb1[c].rsp = r
      /\ pcb1[c].parentPid = k0.pcb[c].parentPid
      /\ pcb1[c].waitingForPid = k0.pcb[c].waitingForPid
      /\ pcb1[c].foreground = k0.pcb[c].foreground
      /\ pcb1[c].children_sem = k0.pcb[c].children_sem
      /\ pcb1[c].children_count = k0.pcb[c].children_count
  <2> DEFINE e == [k0.pcb[c] EXCEPT !.rsp = r]
             g == [e EXCEPT !.state = st]
  <2>1. k0.pcb[c] \in Pcb /\ r \in Context /\ st \in State
    BY <1>1 DEF Pcb, State
  <2>2. /\ g \in Pcb /\ g.state = st /\ g.rsp = r /\ g.priority = k0.pcb[c].priority
        /\ g.parentPid = k0.pcb[c].parentPid /\ g.waitingForPid = k0.pcb[c].waitingForPid
        /\ g.foreground = k0.pcb[c].foreground /\ g.children_sem = k0.pcb[c].children_sem
        /\ g.children_count = k0.pcb[c].children_count
    <3> HIDE DEF r, st
    <3>1. QED
      BY <2>1 DEF Pcb
  <2>3. pcb1 = [k0.pcb EXCEPT ![c] = g]
    BY <1>1
  <2> HIDE DEF pcb1, g, r, st
  <2>4. QED
    BY <1>1, <2>1, <2>2, <2>3
<1>3. /\ k1 \in KernelState /\ k1.pcb = pcb1
      /\ k1.queue = k0.queue /\ k1.nextPid = k0.nextPid /\ k1.foreground = k0.foreground
  <2> HIDE DEF pcb1
  <2>1. QED
    BY <1>1, <1>2 DEF KernelState
<1>4. \/ st = k0.pcb[c].state
      \/ k0.pcb[c].state \in {"READY", "RUNNING"} /\ st \in {"READY", "RUNNING"}
  OBVIOUS
<1>5. SwitchContext(k0) = k3
  <2>1. k1 = [k0 EXCEPT !.pcb[k0.current].rsp = IF k0.first THEN @ ELSE k0.cpu,
                        !.pcb[k0.current].state = IF @ = "RUNNING" THEN "READY" ELSE @]
    BY <1>1 DEF KernelState, Pcb
  <2> HIDE DEF k1
  <2>2. QED
    BY <2>1 DEF SwitchContext
<1>7. \A x \in Pid : k1.pcb[x].rsp = IF x = k0.current /\ ~k0.first THEN k0.cpu ELSE k0.pcb[x].rsp
  <2>1. r = IF k0.first THEN k0.pcb[c].rsp ELSE k0.cpu
    OBVIOUS
  <2> HIDE DEF k1, pcb1, st, r
  <2>2. ASSUME NEW x \in Pid, x # c PROVE k1.pcb[x].rsp = k0.pcb[x].rsp
    BY <1>2, <1>3, <2>2
  <2>3. k1.pcb[c].rsp = IF ~k0.first THEN k0.cpu ELSE k0.pcb[c].rsp
    BY <1>1, <1>2, <1>3, <2>1
  <2>4. QED
    BY <2>2, <2>3
<1> HIDE DEF k1, pcb1, st, r
<1>6. SameFields(k0, k1) /\ SamePrio(k0, k1)
  BY <1>1, <1>2, <1>3, <1>4 DEF SameFields, SameKin, SameCounts, SamePrio
<1>8. WF(k1, lost)
  BY <1>1, <1>2, <1>3, <1>4, PcbWriteFact
<1>9. /\ WF(k2, lost) /\ CurOK(k2, lost) /\ k2.pcb = k1.pcb
      /\ n = IdlePid \/ InQueue(k2, "ready", n)
  BY <1>8, GetNextFact
<1> HIDE DEF k2
<1>10. /\ k2 \in KernelState /\ n \in Pid /\ k2.pcb \in [Pid -> Pcb] /\ k2.pcb[n] \in Pcb
       /\ n # IdlePid => k2.pcb[n].state \in {"READY", "RUNNING"}
  BY <1>9 DEF WF, KernelState, CurOK, States
<1>11. /\ pcb3 \in [Pid -> Pcb]
       /\ \A x \in Pid \ {n} : pcb3[x] = k2.pcb[x]
       /\ pcb3[n].state = "RUNNING"
       /\ pcb3[n].parentPid = k2.pcb[n].parentPid
       /\ pcb3[n].waitingForPid = k2.pcb[n].waitingForPid
       /\ pcb3[n].foreground = k2.pcb[n].foreground
       /\ pcb3[n].children_sem = k2.pcb[n].children_sem
       /\ pcb3[n].children_count = k2.pcb[n].children_count
       /\ pcb3[n].rsp = k2.pcb[n].rsp /\ pcb3[n].priority = k2.pcb[n].priority
  BY <1>10 DEF Pcb, State
<1>12. /\ k3.pcb = pcb3 /\ k3.current = n /\ k3.first = FALSE /\ k3.cpu = k2.pcb[n].rsp
       /\ k3.queue = k2.queue
  <2> HIDE DEF pcb3
  <2>1. QED
    BY <1>10 DEF KernelState
<1> HIDE DEF k3, pcb3
<1>13. SameFields(k2, k3) /\ SamePrio(k2, k3)
  BY <1>10, <1>11, <1>12 DEF SameFields, SameKin, SameCounts, SamePrio
<1>14. SameFields(k0, k3) /\ SamePrio(k0, k3)
  BY <1>6, <1>9, <1>13 DEF SameFields, SameKin, SameCounts, SamePrio
<1>15. \A x \in Pid : k3.pcb[x].rsp = k1.pcb[x].rsp
  BY <1>9, <1>10, <1>11, <1>12
<1>16. Switched(k0, k3)
  BY <1>7, <1>9, <1>10, <1>11, <1>12, <1>15 DEF Switched, InQueue
<1>17. QED
  BY <1>5, <1>14, <1>16

\* schedule() and yield() leave the CPU where it is, or switch.
LEMMA ScheduleEffect ==
  ASSUME NEW lost, NEW k0, WF(k0, lost), NEW k1, k1 = Schedule(k0) \/ k1 = Yield(k0)
  PROVE  /\ Dispatched(k0, k1) /\ SamePrio(k0, k1)
         /\ k1 = Yield(k0) => Switched(k0, k1)
<1>1. ASSUME NEW n \in Nat, NEW k2, k2 = [k0 EXCEPT !.quantum = n]
      PROVE  WF(k2, lost) /\ SameFields(k0, k2) /\ SamePrio(k0, k2) /\ SameCpu(k0, k2) /\ k2.quantum = n
  <2>1. /\ k2 \in KernelState /\ k2.queue = k0.queue /\ k2.pcb = k0.pcb
        /\ k2.nextPid = k0.nextPid /\ k2.foreground = k0.foreground /\ k2.current = k0.current
        /\ k2.quantum = n /\ k2.cpu = k0.cpu /\ k2.first = k0.first
    BY <1>1 DEF WF, KernelState
  <2>2. WF(k2, lost)
    BY <2>1, PcbWriteFact, PidFact
  <2>3. QED
    BY <2>1, <2>2 DEF SameFields, SameKin, SameCounts, SamePrio, SameCpu
<1>2. k0.quantum \in Nat
  BY DEF WF, KernelState
<1>3. ASSUME k1 = Schedule(k0) PROVE Dispatched(k0, k1) /\ SamePrio(k0, k1)
  <2>1. CASE k0.quantum > 0 /\ k0.pcb[k0.current].state = "RUNNING"
    <3>1. k0.quantum - 1 \in Nat /\ k1 = [k0 EXCEPT !.quantum = k0.quantum - 1]
      BY <1>2, <1>3, <2>1 DEF Schedule, WF, KernelState
    <3>2. QED
      BY <1>1, <3>1 DEF Dispatched
  <2>2. CASE ~(k0.quantum > 0 /\ k0.pcb[k0.current].state = "RUNNING")
    BY <1>3, <2>2, SwitchEffect DEF Schedule, Dispatched
  <2>3. QED
    BY <2>1, <2>2
<1>4. ASSUME k1 = Yield(k0) PROVE Dispatched(k0, k1) /\ SamePrio(k0, k1) /\ Switched(k0, k1)
  <2> DEFINE k2 == [k0 EXCEPT !.quantum = 0]
  <2>1. WF(k2, lost) /\ SameFields(k0, k2) /\ SamePrio(k0, k2) /\ SameCpu(k0, k2) /\ k2.quantum = 0
    BY <1>1
  <2> HIDE DEF k2
  <2>2. Yield(k0) = SwitchContext(k2)
    BY <2>1 DEF Yield, Schedule, k2
  <2>3. SameFields(k2, k1) /\ SamePrio(k2, k1) /\ Switched(k2, k1)
    BY <1>4, <2>1, <2>2, SwitchEffect
  <2>4. QED
    BY <2>1, <2>3 DEF Dispatched, SameFields, SameKin, SameCounts, SamePrio, SameCpu, Switched
<1>5. QED
  BY <1>3, <1>4

\* A move between ready, blocked and blockedBySem writes a state.
LEMMA MoveEffect ==
  ASSUME NEW lost, NEW k0, WF(k0, lost), NEW p \in Pid,
         NEW from \in QueueName \ {"zombie"}, NEW to \in QueueName \ {"zombie"},
         from # to, InQueue(k0, from, p),
         NEW st \in State, st = IF to = "ready" THEN "READY" ELSE "BLOCKED",
         NEW k2, k2 = SetState(SwitchProcessFromQueues(k0, from, to, p), p, st)
  PROVE  SameFields(k0, k2) /\ SameCpu(k0, k2)
<1>1. /\ SameRest(k0, k2)
      /\ k2.pcb = [k0.pcb EXCEPT ![p].state = st]
  BY MoveFact
<1>2. k0.pcb \in [Pid -> Pcb] /\ k0.pcb[p].state # "UNUSED"
  BY PidFact DEF WF, KernelState, States, QueueName
<1>3. \A x \in Pid \ {p} : k2.pcb[x] = k0.pcb[x]
  BY <1>1, <1>2
<1>4. k2.pcb[p] = [k0.pcb[p] EXCEPT !.state = st] /\ st # "UNUSED" /\ k0.pcb[p] \in Pcb
  BY <1>1, <1>2
<1>5. /\ k2.pcb[p].parentPid = k0.pcb[p].parentPid
      /\ k2.pcb[p].waitingForPid = k0.pcb[p].waitingForPid
      /\ k2.pcb[p].foreground = k0.pcb[p].foreground
      /\ k2.pcb[p].children_sem = k0.pcb[p].children_sem
      /\ k2.pcb[p].children_count = k0.pcb[p].children_count
      /\ k2.pcb[p].state = st /\ k2.pcb[p].rsp = k0.pcb[p].rsp
  BY <1>4 DEF Pcb
<1>6. \A x \in Pid : SameKin(k0, k2, x) /\ SameCounts(k0, k2, x) /\ k2.pcb[x].rsp = k0.pcb[x].rsp
  BY <1>2, <1>3, <1>4, <1>5 DEF SameKin, SameCounts
<1>7. QED
  BY <1>1, <1>6 DEF SameFields, SameCpu, SameRest

\* blockProcessBySem of the current process moves it and yields; idle and a
\* process that no queue holds go on.
LEMMA BlockBySemEffect ==
  ASSUME NEW lost, NEW k0, WF(k0, lost), CurOK(k0, lost), NEW k1, k1 = BlockProcessBySem(k0, k0.current)
  PROVE  /\ Dispatched(k0, k1)
         /\ k0.current = IdlePid => k1 = k0
         /\ k0.current \in lost => k1 = k0
         /\ k0.current # IdlePid /\ k0.current \notin lost =>
              \A q \in QueueName, x \in Pid :
                InQueue(k1, q, x) <=> IF x = k0.current THEN q = "blockedBySem" ELSE InQueue(k0, q, x)
<1> DEFINE p == k0.current
           k2 == BlockProcessQueueBySem(k0, p)
<1>1. p \in Pid
  BY DEF WF, KernelState
<1>2. CASE ~InQueue(k0, "ready", p)
  <2>1. k1 = k0 /\ (p = IdlePid \/ p \in lost)
    BY <1>2 DEF BlockProcessBySem, BlockProcessQueueBySem, CurOK
  <2>2. QED
    BY <2>1 DEF Dispatched, SameFields, SameKin, SameCounts, SameCpu
<1>3. CASE InQueue(k0, "ready", p)
  <2>1. k2 = SetState(SwitchProcessFromQueues(k0, "ready", "blockedBySem", p), p, "BLOCKED")
    BY <1>3 DEF BlockProcessQueueBySem
  <2> HIDE DEF k2
  <2>2. /\ WF(k2, lost) /\ SameRest(k0, k2)
        /\ k2.pcb = [k0.pcb EXCEPT ![p].state = "BLOCKED"]
        /\ \A q \in QueueName, x \in Pid :
             InQueue(k2, q, x) <=> IF x = p THEN q = "blockedBySem" ELSE InQueue(k0, q, x)
    BY <1>1, <1>3, <2>1, MoveFact, NameFact
  <2>3. SameFields(k0, k2) /\ SameCpu(k0, k2)
    BY <1>1, <1>3, <2>1, MoveEffect, NameFact
  <2>4. k1 = Yield(k2)
    BY <1>3, <2>2 DEF BlockProcessBySem, k2, SameRest
  <2>5. /\ Dispatched(k2, k1)
        /\ \A q \in QueueName, x \in Pid : InQueue(k1, q, x) <=> InQueue(k2, q, x)
    BY <2>2, <2>4, ScheduleEffect, ScheduleFact
  <2>6. Dispatched(k0, k1)
    <3>1. SameFields(k0, k1)
      BY <2>3, <2>5 DEF Dispatched, SameFields, SameKin, SameCounts
    <3>2. SameCpu(k0, k1) \/ Switched(k0, k1)
      BY <2>3, <2>5 DEF Dispatched, SameCpu, SameFields, Switched
    <3>3. QED
      BY <3>1, <3>2 DEF Dispatched
  <2>7. p # IdlePid /\ p \notin lost
    BY <1>1, <1>3, PidFact, QueuedNotLost DEF WF, Queues
  <2>8. QED
    BY <2>2, <2>5, <2>6, <2>7
<1>4. QED
  BY <1>2, <1>3

\* A write to one semaphore leaves processes and CPU alone.
LEMMA SetSemEffect ==
  ASSUME NEW lost, NEW k0, WF(k0, lost), NEW s \in SemId, NEW e \in Sem, NEW k1, k1 = SetSem(k0, s, e)
  PROVE  SameFields(k0, k1) /\ SameCpu(k0, k1) /\ k1.sems = [k0.sems EXCEPT ![s] = e]
<1>1. k1.pcb = k0.pcb /\ k1.cpu = k0.cpu /\ k1.current = k0.current /\ k1.first = k0.first
      /\ k1.sems = [k0.sems EXCEPT ![s] = e]
  BY DEF SetSem, WF, KernelState
<1>2. QED
  BY <1>1 DEF SameFields, SameKin, SameCounts, SameCpu

\* wait takes a unit, when there is one.
LEMMA SemTakeEffect ==
  ASSUME NEW lost, NEW k0, WF(k0, lost), NEW s \in SemId, k0.sems[s].value > 0,
         NEW k1, k1 = SemWait(k0, s)
  PROVE  /\ Dispatched(k0, k1) /\ SameCpu(k0, k1)
         /\ k1.sems = [k0.sems EXCEPT ![s].value = @ - 1]
         /\ \A q \in QueueName, x \in Pid : InQueue(k1, q, x) <=> InQueue(k0, q, x)
<1> DEFINE e == [k0.sems[s] EXCEPT !.value = @ - 1]
<1>1. k0.sems[s].value \in Nat /\ k0.sems[s] \in Sem /\ k0.sems \in [SemId -> Sem]
  BY SemTypeFact DEF WF, KernelState
<1>2. e \in Sem
  <2>1. e.value = k0.sems[s].value - 1 /\ k0.sems[s].value - 1 \in Nat
    BY <1>1 DEF Sem
  <2>2. QED
    BY <1>1, <2>1 DEF Sem
<1>3. k1 = SetSem(k0, s, e)
  BY DEF SemWait, SetSem
<1>4. [k0.sems EXCEPT ![s] = e] = [k0.sems EXCEPT ![s].value = @ - 1]
  BY <1>1
<1> HIDE DEF e
<1>5. QED
  BY <1>2, <1>3, <1>4, SetSemEffect, SemsWriteFact DEF Dispatched

\* wait without a unit: the caller goes to the end of the semaphore's queue and
\* to sleep, unless no queue holds it.
LEMMA SemEmptyEffect ==
  ASSUME NEW lost, NEW k0, WF(k0, lost), CurOK(k0, lost), NEW s \in SemId, k0.sems[s].value = 0,
         NEW k1, k1 = SemWait(k0, s), NEW c, c = k0.current
  PROVE  /\ Dispatched(k0, k1)
         /\ k1.sems = [k0.sems EXCEPT ![s].blocked = Append(@, c)]
         /\ c # IdlePid /\ c \notin lost =>
              \A q \in QueueName, x \in Pid :
                InQueue(k1, q, x) <=> IF x = c THEN q = "blockedBySem" ELSE InQueue(k0, q, x)
         /\ c = IdlePid \/ c \in lost =>
              /\ SameCpu(k0, k1)
              /\ \A q \in QueueName, x \in Pid : InQueue(k1, q, x) <=> InQueue(k0, q, x)
<1>1. /\ k0.sems[s].blocked \in Seq(Pid) /\ k0.sems[s] \in Sem /\ c \in Pid
      /\ k0.sems \in [SemId -> Sem]
  BY SemTypeFact DEF WF, KernelState
<1> DEFINE e == [k0.sems[s] EXCEPT !.blocked = Append(@, c)]
           k2 == SetSem(k0, s, e)
<1>2. e \in Sem
  <2> DEFINE a == Append(k0.sems[s].blocked, c)
  <2>1. a \in Seq(Pid) /\ e = [k0.sems[s] EXCEPT !.blocked = a]
    BY <1>1
  <2> HIDE DEF a, e
  <2>2. QED
    BY <1>1, <2>1 DEF Sem
<1>3. k1 = BlockProcessBySem(k2, c)
  BY DEF SemWait, SetSem
<1>4. [k0.sems EXCEPT ![s] = e] = [k0.sems EXCEPT ![s].blocked = Append(@, c)]
  BY <1>1
<1> HIDE DEF e
<1>5. /\ WF(k2, lost) /\ k2.current = c /\ SameFields(k0, k2) /\ SameCpu(k0, k2)
      /\ k2.sems = [k0.sems EXCEPT ![s] = e] /\ Keeps(k0, k2, lost)
      /\ \A q \in QueueName, x \in Pid : InQueue(k2, q, x) <=> InQueue(k0, q, x)
  BY <1>2, SetSemEffect, SemsWriteFact
<1>6. CurOK(k2, lost)
  BY <1>5 DEF Keeps
<1> HIDE DEF k2
<1>7. /\ Dispatched(k2, k1) /\ k1.sems = k2.sems
      /\ c = IdlePid \/ c \in lost => k1 = k2
      /\ c # IdlePid /\ c \notin lost =>
            \A q \in QueueName, x \in Pid :
              InQueue(k1, q, x) <=> IF x = c THEN q = "blockedBySem" ELSE InQueue(k2, q, x)
  BY <1>3, <1>5, <1>6, BlockBySemEffect, BlockBySemFact DEF Quiet
<1>8. Dispatched(k0, k1)
  BY <1>5, <1>7 DEF Dispatched, SameFields, SameKin, SameCounts, SameCpu, Switched
<1>9. QED
  BY <1>4, <1>5, <1>7, <1>8

\* wait takes a unit, or the caller goes to the end of the semaphore's queue
\* and to sleep; nobody else notices.
LEMMA SemWaitEffect ==
  ASSUME NEW lost, NEW k0, WF(k0, lost), CurOK(k0, lost), NEW s \in SemId, NEW k1, k1 = SemWait(k0, s)
  PROVE  /\ Dispatched(k0, k1)
         /\ k0.sems[s].value > 0 =>
              /\ k1.sems = [k0.sems EXCEPT ![s].value = @ - 1]
              /\ SameCpu(k0, k1)
              /\ \A q \in QueueName, x \in Pid : InQueue(k1, q, x) <=> InQueue(k0, q, x)
         /\ k0.sems[s].value = 0 =>
              k1.sems = [k0.sems EXCEPT ![s].blocked = Append(@, k0.current)]
         /\ k0.sems[s].value = 0 /\ k0.current # IdlePid /\ k0.current \notin lost =>
              \A q \in QueueName, x \in Pid :
                InQueue(k1, q, x) <=> IF x = k0.current THEN q = "blockedBySem" ELSE InQueue(k0, q, x)
         /\ k0.sems[s].value = 0 /\ (k0.current = IdlePid \/ k0.current \in lost) =>
              /\ SameCpu(k0, k1)
              /\ \A q \in QueueName, x \in Pid : InQueue(k1, q, x) <=> InQueue(k0, q, x)
<1> DEFINE v == k0.sems[s].value
           c == k0.current
<1>1. v \in Nat /\ k0.sems[s].blocked \in Seq(Pid) /\ k0.sems[s] \in Sem /\ c \in Pid
      /\ k0.sems \in [SemId -> Sem]
  BY SemTypeFact DEF WF, KernelState
<1>2. ASSUME v > 0
      PROVE  /\ Dispatched(k0, k1)
             /\ k1.sems = [k0.sems EXCEPT ![s].value = @ - 1]
             /\ SameCpu(k0, k1)
             /\ \A q \in QueueName, x \in Pid : InQueue(k1, q, x) <=> InQueue(k0, q, x)
  BY <1>2, SemTakeEffect
<1>3. ASSUME v = 0
      PROVE  /\ Dispatched(k0, k1)
             /\ k1.sems = [k0.sems EXCEPT ![s].blocked = Append(@, c)]
             /\ c # IdlePid /\ c \notin lost =>
                  \A q \in QueueName, x \in Pid :
                    InQueue(k1, q, x) <=> IF x = c THEN q = "blockedBySem" ELSE InQueue(k0, q, x)
             /\ c = IdlePid \/ c \in lost =>
                  /\ SameCpu(k0, k1)
                  /\ \A q \in QueueName, x \in Pid : InQueue(k1, q, x) <=> InQueue(k0, q, x)
  BY <1>3, SemEmptyEffect
<1>4. QED
  BY <1>1, <1>2, <1>3

\* wait puts the caller to sleep, when there is no unit.
LEMMA SemSleepEffect ==
  ASSUME NEW lost, NEW k0, WF(k0, lost), CurOK(k0, lost), NEW s \in SemId, k0.sems[s].value = 0,
         k0.current # IdlePid, k0.current \notin lost, NEW k1, k1 = SemWait(k0, s)
  PROVE  /\ Dispatched(k0, k1)
         /\ k1.sems = [k0.sems EXCEPT ![s].blocked = Append(@, k0.current)]
         /\ \A q \in QueueName, x \in Pid :
              InQueue(k1, q, x) <=> IF x = k0.current THEN q = "blockedBySem" ELSE InQueue(k0, q, x)
<1>1. PICK c : c = k0.current
  OBVIOUS
<1>2. /\ Dispatched(k0, k1)
      /\ k1.sems = [k0.sems EXCEPT ![s].blocked = Append(@, c)]
      /\ \A q \in QueueName, x \in Pid :
           InQueue(k1, q, x) <=> IF x = c THEN q = "blockedBySem" ELSE InQueue(k0, q, x)
  BY <1>1, SemEmptyEffect
<1>3. QED
  BY <1>1, <1>2

\* wait puts idle into the semaphore's queue and lets it go on.
LEMMA SemIdleEffect ==
  ASSUME NEW lost, NEW k0, WF(k0, lost), CurOK(k0, lost), NEW s \in SemId, k0.sems[s].value = 0,
         k0.current = IdlePid, NEW k1, k1 = SemWait(k0, s)
  PROVE  /\ Dispatched(k0, k1)
         /\ k1.sems = [k0.sems EXCEPT ![s].blocked = Append(@, k0.current)]
         /\ \A q \in QueueName, x \in Pid : InQueue(k1, q, x) <=> InQueue(k0, q, x)
<1>1. PICK c : c = k0.current
  OBVIOUS
<1>2. /\ Dispatched(k0, k1)
      /\ k1.sems = [k0.sems EXCEPT ![s].blocked = Append(@, c)]
      /\ \A q \in QueueName, x \in Pid : InQueue(k1, q, x) <=> InQueue(k0, q, x)
  BY <1>1, SemEmptyEffect
<1>3. QED
  BY <1>1, <1>2

\* post leaves a unit, or takes the first sleeper out of the semaphore's queue
\* and makes it ready if it is still asleep; the CPU stays where it is.
LEMMA SemPostEffect ==
  ASSUME NEW lost, NEW k0, WF(k0, lost), NEW s \in SemId, NEW k1, k1 = SemPost(k0, s)
  PROVE  /\ SameFields(k0, k1) /\ SameCpu(k0, k1)
         /\ k0.sems[s].blocked = << >> =>
              /\ k1.sems = [k0.sems EXCEPT ![s].value = @ + 1]
              /\ \A q \in QueueName, x \in Pid : InQueue(k1, q, x) <=> InQueue(k0, q, x)
         /\ k0.sems[s].blocked # << >> =>
              LET h == Head(k0.sems[s].blocked)
              IN  /\ k1.sems = [k0.sems EXCEPT ![s].blocked = Tail(@)]
                  /\ \A q \in QueueName, x \in Pid :
                       InQueue(k1, q, x) <=> IF x = h /\ InQueue(k0, "blockedBySem", h)
                                             THEN q = "ready" ELSE InQueue(k0, q, x)
<1> DEFINE b == k0.sems[s].blocked
<1>1. b \in Seq(Pid) /\ k0.sems[s] \in Sem /\ k0.sems \in [SemId -> Sem]
  BY SemTypeFact DEF WF, KernelState
<1>2. CASE b = << >>
  <2> DEFINE e == [k0.sems[s] EXCEPT !.value = @ + 1]
  <2>1. e \in Sem
    <3>1. e.value = k0.sems[s].value + 1 /\ k0.sems[s].value \in Nat
      BY <1>1 DEF Sem
    <3>2. QED
      BY <1>1, <3>1 DEF Sem
  <2>2. k1 = SetSem(k0, s, e)
    BY <1>2 DEF SemPost, SetSem
  <2>3. [k0.sems EXCEPT ![s] = e] = [k0.sems EXCEPT ![s].value = @ + 1]
    BY <1>1
  <2> HIDE DEF e
  <2>4. QED
    BY <1>2, <2>1, <2>2, <2>3, SetSemEffect, SemsWriteFact
<1>3. CASE b # << >>
  <2> DEFINE h == Head(b)
             e == [k0.sems[s] EXCEPT !.blocked = Tail(@)]
             k2 == SetSem(k0, s, e)
  <2>1. h \in Pid /\ Tail(b) \in Seq(Pid)
    BY <1>1, <1>3
  <2>2. e \in Sem
    <3> DEFINE tb == Tail(b)
    <3>1. e = [k0.sems[s] EXCEPT !.blocked = tb] /\ tb \in Seq(Pid)
      BY <2>1
    <3> HIDE DEF tb, e, b
    <3>2. QED
      BY <3>1, <1>1 DEF Sem
  <2>3. k1 = UnblockProcessBySem(k2, h)
    BY <1>3 DEF SemPost, SetSem
  <2>4. [k0.sems EXCEPT ![s] = e] = [k0.sems EXCEPT ![s].blocked = Tail(@)]
    BY <1>1
  <2> HIDE DEF e
  <2>5. /\ WF(k2, lost) /\ SameFields(k0, k2) /\ SameCpu(k0, k2)
        /\ k2.sems = [k0.sems EXCEPT ![s] = e]
        /\ \A q \in QueueName, x \in Pid : InQueue(k2, q, x) <=> InQueue(k0, q, x)
    BY <2>2, SetSemEffect, SemsWriteFact
  <2> HIDE DEF k2, h
  <2>6. CASE ~InQueue(k2, "blockedBySem", h)
    <3>1. k1 = k2
      BY <2>3, <2>6 DEF UnblockProcessBySem, UnblockProcessQueueBySem
    <3>2. ~InQueue(k0, "blockedBySem", h)
      BY <2>1, <2>5, <2>6, PidFact
    <3>3. QED
      BY <1>3, <2>4, <2>5, <3>1, <3>2 DEF h
  <2>7. CASE InQueue(k2, "blockedBySem", h)
    <3>1. k1 = SetState(SwitchProcessFromQueues(k2, "blockedBySem", "ready", h), h, "READY")
      BY <2>3, <2>7 DEF UnblockProcessBySem, UnblockProcessQueueBySem
    <3>2. /\ SameRest(k2, k1)
          /\ k1.pcb = [k2.pcb EXCEPT ![h].state = "READY"]
          /\ \A q \in QueueName, x \in Pid :
               InQueue(k1, q, x) <=> IF x = h THEN q = "ready" ELSE InQueue(k2, q, x)
      <4>1. WF(k2, lost) /\ "blockedBySem" # "ready"
        BY <2>5
      <4>2. QED
        BY <2>1, <2>7, <3>1, <4>1, MoveFact, NameFact
    <3>3. SameFields(k2, k1) /\ SameCpu(k2, k1)
      BY <2>1, <2>5, <2>7, <3>1, MoveEffect, NameFact
    <3>4. SameFields(k0, k1) /\ SameCpu(k0, k1)
      BY <2>5, <3>3 DEF SameFields, SameKin, SameCounts, SameCpu
    <3>5. InQueue(k0, "blockedBySem", h)
      BY <2>1, <2>5, <2>7, PidFact
    <3>6. k1.sems = k2.sems
      BY <3>2 DEF SameRest
    <3>7. QED
      BY <1>3, <2>1, <2>4, <2>5, <3>2, <3>4, <3>5, <3>6 DEF h
  <2>8. QED
    BY <2>6, <2>7
<1>4. QED
  BY <1>2, <1>3

\* Of the other semaphores, a wait leaves everything as it is.
LEMMA SemWaitOthers ==
  ASSUME NEW lost, NEW k0, WF(k0, lost), CurOK(k0, lost), NEW s \in SemId, NEW k1, k1 = SemWait(k0, s)
  PROVE  \A t \in SemId \ {s} : k1.sems[t] = k0.sems[t]
<1>1. k0.sems \in [SemId -> Sem] /\ k0.sems[s].value \in Nat
  BY SemTypeFact
<1>2. /\ k0.sems[s].value > 0 => k1.sems = [k0.sems EXCEPT ![s].value = @ - 1]
      /\ k0.sems[s].value = 0 => k1.sems = [k0.sems EXCEPT ![s].blocked = Append(@, k0.current)]
  BY SemWaitEffect
<1>3. CASE k0.sems[s].value > 0
  BY <1>1, <1>2, <1>3
<1>4. CASE k0.sems[s].value = 0
  BY <1>1, <1>2, <1>4
<1>5. QED
  BY <1>1, <1>3, <1>4

\* Of the other semaphores, a wait and a post leave everything as it is, and a
\* post puts nobody to sleep.
LEMMA SemOthers ==
  ASSUME NEW lost, NEW k0, WF(k0, lost), NEW s \in SemId
  PROVE  /\ CurOK(k0, lost) => \A t \in SemId \ {s} : SemWait(k0, s).sems[t] = k0.sems[t]
         /\ \A t \in SemId \ {s} : SemPost(k0, s).sems[t] = k0.sems[t]
         /\ \A x \in Pid : InQueue(SemPost(k0, s), "blockedBySem", x) => InQueue(k0, "blockedBySem", x)
<1> DEFINE k1 == SemPost(k0, s)
           k2 == SemWait(k0, s)
<1>1. k0.sems \in [SemId -> Sem] /\ k0.sems[s].value \in Nat
  BY SemTypeFact
<1>2. CurOK(k0, lost) => \A t \in SemId \ {s} : k2.sems[t] = k0.sems[t]
  BY SemWaitOthers
<1>3. /\ \A t \in SemId \ {s} : k1.sems[t] = k0.sems[t]
      /\ \A x \in Pid : InQueue(k1, "blockedBySem", x) => InQueue(k0, "blockedBySem", x)
  <2>1. k1 = SemPost(k0, s)
    OBVIOUS
  <2> HIDE DEF k1
  <2>2. CASE k0.sems[s].blocked = << >>
    <3>1. /\ SameFields(k0, k1) /\ SameCpu(k0, k1)
          /\ k1.sems = [k0.sems EXCEPT ![s].value = @ + 1]
          /\ \A q \in QueueName, x \in Pid : InQueue(k1, q, x) <=> InQueue(k0, q, x)
      BY <2>1, <2>2, SemPostEffect, ZenonT(60)
    <3>2. QED
      BY <1>1, <3>1, PidFact
  <2>3. CASE k0.sems[s].blocked # << >>
    <3> DEFINE h == Head(k0.sems[s].blocked)
    <3>1. /\ k1.sems = [k0.sems EXCEPT ![s].blocked = Tail(@)]
          /\ \A q \in QueueName, x \in Pid :
               InQueue(k1, q, x) <=> IF x = h /\ InQueue(k0, "blockedBySem", h)
                                     THEN q = "ready" ELSE InQueue(k0, q, x)
      BY <2>1, <2>3, SemPostEffect, ZenonT(60)
    <3> HIDE DEF h
    <3>2. \A t \in SemId \ {s} : k1.sems[t] = k0.sems[t]
      BY <1>1, <3>1
    <3>3. QED
      BY <3>1, <3>2, PidFact
  <2>4. QED
    BY <2>2, <2>3
<1>4. QED
  BY <1>2, <1>3

\* The same processes are queued, and only sleepers on semaphores change queue.
OnlySleepersMove(k0, k1) ==
  \A x \in Pid :
    /\ InQueue(k1, "blockedBySem", x) => InQueue(k0, "blockedBySem", x)
    /\ InQueue(k1, "blocked", x) <=> InQueue(k0, "blocked", x)
    /\ Queued(k1, x) <=> Queued(k0, x)

LEMMA PostMoves ==
  ASSUME NEW lost, NEW k0, WF(k0, lost), NEW s \in SemId, NEW k1, k1 = SemPost(k0, s)
  PROVE  OnlySleepersMove(k0, k1)
<1> SUFFICES ASSUME NEW x \in Pid
             PROVE  /\ InQueue(k1, "blockedBySem", x) => InQueue(k0, "blockedBySem", x)
                    /\ InQueue(k1, "blocked", x) <=> InQueue(k0, "blocked", x)
                    /\ Queued(k1, x) <=> Queued(k0, x)
  BY DEF OnlySleepersMove
<1>1. \/ \A q \in QueueName : InQueue(k1, q, x) <=> InQueue(k0, q, x)
      \/ /\ InQueue(k0, "blockedBySem", x)
         /\ \A q \in QueueName : InQueue(k1, q, x) <=> q = "ready"
  <2>1. CASE k0.sems[s].blocked = << >>
    <3>1. \A q \in QueueName, y \in Pid : InQueue(k1, q, y) <=> InQueue(k0, q, y)
      BY <2>1, SemPostEffect, ZenonT(60)
    <3> QED
      BY <3>1
  <2>2. CASE k0.sems[s].blocked # << >>
    <3> DEFINE h == Head(k0.sems[s].blocked)
    <3>1. \A q \in QueueName, y \in Pid :
            InQueue(k1, q, y) <=> IF y = h /\ InQueue(k0, "blockedBySem", h)
                                  THEN q = "ready" ELSE InQueue(k0, q, y)
      BY <2>2, SemPostEffect, ZenonT(60)
    <3> HIDE DEF h
    <3>2. CASE x = h /\ InQueue(k0, "blockedBySem", h)
      BY <3>1, <3>2
    <3>3. CASE ~(x = h /\ InQueue(k0, "blockedBySem", h))
      BY <3>1, <3>3
    <3> QED
      BY <3>2, <3>3
  <2> QED
    BY <2>1, <2>2
<1>2. InQueue(k0, "blockedBySem", x) => ~InQueue(k0, "blocked", x)
  <2>1. Queues(k0)
    BY DEF WF
  <2> QED
    BY <2>1, PidFact DEF Queues
<1>3. CASE \A q \in QueueName : InQueue(k1, q, x) <=> InQueue(k0, q, x)
  BY <1>3, PidFact DEF Queued
<1>4. CASE /\ InQueue(k0, "blockedBySem", x)
           /\ \A q \in QueueName : InQueue(k1, q, x) <=> q = "ready"
  BY <1>2, <1>4, PidFact DEF Queued
<1> QED
  BY <1>1, <1>3, <1>4

\* unblockProcess, blockProcess and blockProcessBySem do not touch families,
\* counts and semaphores; nobody starts to sleep on a semaphore.
LEMMA BlockEffect ==
  ASSUME NEW lost, NEW k0, WF(k0, lost), NEW p \in Pid
  PROVE  /\ Dispatched(k0, BlockProcess(k0, p))
         /\ CanBlock(k0, p) /\ p = k0.current => Switched(k0, BlockProcess(k0, p))
         /\ SameFields(k0, UnblockProcess(k0, p)) /\ SameCpu(k0, UnblockProcess(k0, p))
         /\ \A x \in Pid : InQueue(BlockProcess(k0, p), "blockedBySem", x)
                             <=> InQueue(k0, "blockedBySem", x)
         /\ \A x \in Pid : InQueue(UnblockProcess(k0, p), "blockedBySem", x)
                             <=> InQueue(k0, "blockedBySem", x)
<1>1. /\ Dispatched(k0, BlockProcess(k0, p))
      /\ CanBlock(k0, p) /\ p = k0.current => Switched(k0, BlockProcess(k0, p))
      /\ \A x \in Pid : InQueue(BlockProcess(k0, p), "blockedBySem", x)
                          <=> InQueue(k0, "blockedBySem", x)
  <2> DEFINE k1 == BlockProcessQueue(k0, p)
  <2>1. CASE ~CanBlock(k0, p)
    BY <2>1 DEF BlockProcess, BlockProcessQueue, Dispatched, SameFields, SameKin, SameCounts, SameCpu
  <2>2. CASE CanBlock(k0, p)
    <3>1. /\ InQueue(k0, "ready", p) /\ ~InQueue(k0, "blockedBySem", p)
          /\ k1 = SetState(SwitchProcessFromQueues(k0, "ready", "blocked", p), p, "BLOCKED")
      BY <2>2 DEF CanBlock, BlockProcessQueue
    <3>2. BlockProcess(k0, p) = IF p = k1.current THEN Yield(k1) ELSE k1
      BY <2>2 DEF BlockProcess
    <3> HIDE DEF k1
    <3>3. /\ WF(k1, lost) /\ SameRest(k0, k1)
          /\ k1.pcb = [k0.pcb EXCEPT ![p].state = "BLOCKED"]
          /\ \A q \in QueueName, x \in Pid :
               InQueue(k1, q, x) <=> IF x = p THEN q = "blocked" ELSE InQueue(k0, q, x)
      BY <3>1, MoveFact, NameFact
    <3>4. SameFields(k0, k1) /\ SameCpu(k0, k1)
      BY <3>1, MoveEffect, NameFact
    <3>5. \A x \in Pid : InQueue(k1, "blockedBySem", x) <=> InQueue(k0, "blockedBySem", x)
      BY <3>1, <3>3, PidFact
    <3>6. Dispatched(k1, Yield(k1)) /\ Switched(k1, Yield(k1))
      BY <3>3, ScheduleEffect
    <3>7. \A x \in Pid : InQueue(Yield(k1), "blockedBySem", x) <=> InQueue(k1, "blockedBySem", x)
      BY <3>3, ScheduleFact, PidFact
    <3>8. CASE p = k1.current
      <4>1. Switched(k0, BlockProcess(k0, p))
        BY <3>2, <3>4, <3>6, <3>8 DEF SameCpu, Switched
      <4>2. QED
        BY <3>2, <3>4, <3>5, <3>6, <3>7, <3>8, <4>1 DEF Dispatched, SameFields, SameKin, SameCounts
    <3>9. CASE p # k1.current
      BY <3>2, <3>4, <3>5, <3>9 DEF Dispatched, SameCpu
    <3>10. QED
      BY <3>8, <3>9
  <2>3. QED
    BY <2>1, <2>2
<1>2. /\ SameFields(k0, UnblockProcess(k0, p)) /\ SameCpu(k0, UnblockProcess(k0, p))
      /\ \A x \in Pid : InQueue(UnblockProcess(k0, p), "blockedBySem", x)
                          <=> InQueue(k0, "blockedBySem", x)
  <2> DEFINE k1 == UnblockProcess(k0, p)
  <2>1. CASE ~InQueue(k0, "blocked", p)
    BY <2>1 DEF UnblockProcess, UnblockProcessQueue, SameFields, SameKin, SameCounts, SameCpu
  <2>2. CASE InQueue(k0, "blocked", p)
    <3>1. k1 = SetState(SwitchProcessFromQueues(k0, "blocked", "ready", p), p, "READY")
      BY <2>2 DEF UnblockProcess, UnblockProcessQueue
    <3> HIDE DEF k1
    <3>2. /\ WF(k1, lost) /\ SameRest(k0, k1)
          /\ k1.pcb = [k0.pcb EXCEPT ![p].state = "READY"]
          /\ \A q \in QueueName, x \in Pid :
               InQueue(k1, q, x) <=> IF x = p THEN q = "ready" ELSE InQueue(k0, q, x)
      BY <2>2, <3>1, MoveFact, NameFact
    <3>3. SameFields(k0, k1) /\ SameCpu(k0, k1)
      BY <2>2, <3>1, MoveEffect, NameFact
    <3>4. ~InQueue(k0, "blockedBySem", p)
      BY <2>2, PidFact DEF WF, Queues
    <3>5. \A x \in Pid : InQueue(k1, "blockedBySem", x) <=> InQueue(k0, "blockedBySem", x)
      BY <3>2, <3>4, PidFact
    <3>6. QED
      BY <3>3, <3>5 DEF k1
  <2>3. QED
    BY <2>1, <2>2
<1>3. QED
  BY <1>1, <1>2

\* wakeUpWaitingParent unblocks at most.
LEMMA WakeUpEffect ==
  ASSUME NEW lost, NEW k0, WF(k0, lost), NEW parent \in Pid \cup {NoPid}, NEW child,
         NEW k1, k1 = WakeUpWaitingParent(k0, parent, child)
  PROVE  /\ SameFields(k0, k1) /\ SameCpu(k0, k1) /\ k1.sems = k0.sems
         /\ \A x \in Pid : InQueue(k1, "blockedBySem", x) <=> InQueue(k0, "blockedBySem", x)
<1>1. CASE k1 = k0
  BY <1>1 DEF SameFields, SameKin, SameCounts, SameCpu
<1>2. CASE k1 # k0
  <2>1. HasProcess(k0, parent) /\ k1 = UnblockProcess(k0, parent)
    BY <1>2 DEF WakeUpWaitingParent
  <2>2. parent \in Pid
    <3>1. \A q \in QueueName : ~InQueue(k0, q, NoPid)
      BY PidFact DEF WF, KernelState, InQueue
    <3>2. NoPid # k0.current /\ NoPid # IdlePid
      BY PidFact DEF WF, KernelState
    <3>3. QED
      BY <2>1, <3>1, <3>2 DEF HasProcess
  <2>3. QED
    BY <2>1, <2>2, BlockEffect, BlockFact DEF Quiet
<1>3. QED
  BY <1>1, <1>2

\* killProcess: the victim becomes a zombie, and idle is current for it.
LEMMA KillProcessEffect ==
  ASSUME NEW lost, NEW k0, WF(k0, lost), CurOK(k0, lost), NEW p \in Pid, Killable(k0, p),
         NEW k1, k1 = KillProcess(k0, p)
  PROVE  /\ k1.sems = k0.sems /\ k1.nextPid = k0.nextPid /\ k1.cpu = k0.cpu
         /\ k1.first = k0.first /\ k1.currentPid = k0.currentPid
         /\ k1.current = IF k0.current = p THEN IdlePid ELSE k0.current
         /\ k1.pcb = [k0.pcb EXCEPT ![p].state = "ZOMBIE"]
         /\ \A q \in QueueName, x \in Pid :
              InQueue(k1, q, x) <=> IF x = p THEN q = "zombie" ELSE InQueue(k0, q, x)
<1> DEFINE cur == IF k0.current = p THEN IdlePid ELSE k0.current
           fg == IF k0.foreground = p THEN NoPid ELSE k0.foreground
           kc == [k0 EXCEPT !.current = cur]
           from == QueueToKillFrom(kc, p)
           ks == SwitchProcessFromQueues(kc, from, "zombie", p)
           kf == [ks EXCEPT !.foreground = fg]
<1>1. /\ k0 \in KernelState /\ Queues(k0)
      /\ k0.pcb \in [Pid -> Pcb] /\ k0.current \in Pid /\ k0.foreground \in Pid \cup {NoPid}
      /\ k0.queue \in [QueueName -> Seq(Pid)]
  BY DEF WF, KernelState
<1>2. cur \in Pid /\ fg \in Pid \cup {NoPid}
  BY <1>1, PidFact
<1>3. /\ kc \in KernelState /\ kc.queue = k0.queue /\ kc.pcb = k0.pcb /\ kc.sems = k0.sems
      /\ kc.nextPid = k0.nextPid /\ kc.foreground = k0.foreground /\ kc.current = cur
      /\ kc.cpu = k0.cpu /\ kc.first = k0.first /\ kc.currentPid = k0.currentPid
  <2> HIDE DEF cur
  <2>1. QED
    BY <1>1, <1>2 DEF KernelState
<1>4. k1 = SetState(kf, p, "ZOMBIE")
  <2>1. kc = [k0 EXCEPT !.current = IF @ = p THEN IdlePid ELSE @]
    BY <1>1 DEF KernelState
  <2>2. Killable(kc, p)
    BY <1>3 DEF Killable, InQueue
  <2> HIDE DEF kc
  <2>3. ks.foreground = k0.foreground
    BY <1>3 DEF SwitchProcessFromQueues, Enqueue, KernelState
  <2>4. kf = [ks EXCEPT !.foreground = IF @ = p THEN NoPid ELSE @]
    BY <2>3
  <2>5. QED
    BY <2>1, <2>2, <2>4 DEF KillProcess
<1> HIDE DEF kc, cur, fg
<1>5. \A q, x : InQueue(kc, q, x) <=> InQueue(k0, q, x)
  BY <1>3, InQueueIsIn
<1>6. /\ from \in QueueName \ {"zombie"} /\ InQueue(kc, from, p) /\ Queues(kc)
  <2>1. from \in QueueName \ {"zombie"} /\ InQueue(kc, from, p)
    BY <1>5 DEF QueueToKillFrom, Killable, QueueName
  <2>2. Queues(kc)
    BY <1>1, <1>3, <1>5 DEF Queues
  <2>3. QED
    BY <2>1, <2>2
<1> HIDE DEF from
<1>7. /\ ks = [kc EXCEPT !.queue = ks.queue]
      /\ ks.queue \in [QueueName -> Seq(Pid)]
      /\ \A q \in QueueName, x \in Pid :
           InQueue(ks, q, x) <=> IF x = p THEN q = "zombie" ELSE InQueue(kc, q, x)
  BY <1>3, <1>6, SwitchFact, PidFact
<1> HIDE DEF ks
<1>8. /\ ks \in KernelState /\ ks.pcb = k0.pcb /\ ks.sems = k0.sems /\ ks.nextPid = k0.nextPid
      /\ ks.current = cur /\ ks.cpu = k0.cpu /\ ks.first = k0.first
      /\ ks.currentPid = k0.currentPid
  BY <1>3, <1>7 DEF KernelState
<1>9. /\ kf \in KernelState /\ kf.pcb = k0.pcb /\ kf.sems = k0.sems /\ kf.nextPid = k0.nextPid
      /\ kf.current = cur /\ kf.cpu = k0.cpu /\ kf.first = k0.first /\ kf.queue = ks.queue
      /\ kf.currentPid = k0.currentPid
  BY <1>2, <1>8 DEF KernelState
<1> HIDE DEF kf
<1>10. /\ k1.sems = k0.sems /\ k1.nextPid = k0.nextPid /\ k1.current = cur
       /\ k1.cpu = k0.cpu /\ k1.first = k0.first /\ k1.queue = ks.queue
       /\ k1.currentPid = k0.currentPid
       /\ k1.pcb = [k0.pcb EXCEPT ![p].state = "ZOMBIE"]
  <2>1. "ZOMBIE" \in State
    BY DEF State
  <2>2. QED
    BY <1>4, <1>9, <2>1, SetStateFact DEF SameRest
<1>11. \A q \in QueueName, x \in Pid :
         InQueue(k1, q, x) <=> IF x = p THEN q = "zombie" ELSE InQueue(k0, q, x)
  BY <1>5, <1>7, <1>10, InQueueIsIn
<1>12. QED
  BY <1>10, <1>11 DEF cur

\* reapCild frees one PCB.
LEMMA ReapEffect ==
  ASSUME NEW lost, NEW k0, WF(k0, lost), NEW p \in Pid, NEW k1, k1 = ReapChild(k0, p)
  PROVE  /\ k1.sems = k0.sems /\ k1.nextPid = k0.nextPid /\ k1.cpu = k0.cpu
         /\ k1.first = k0.first /\ k1.current = k0.current /\ k1.currentPid = k0.currentPid
         /\ k1.pcb = [k0.pcb EXCEPT ![p] = FreePcb]
         /\ \A x \in Pid, q \in QueueName \ {"zombie"} : InQueue(k1, q, x) <=> InQueue(k0, q, x)
<1> DEFINE s == RemovePid(k0.queue["zombie"], p)
           Q == [k0.queue EXCEPT !["zombie"] = s]
           P == [k0.pcb EXCEPT ![p] = FreePcb]
<1>1. /\ k0 \in KernelState /\ k0.queue \in [QueueName -> Seq(Pid)]
  BY DEF WF, KernelState
<1>2. k1 = [k0 EXCEPT !.queue = Q, !.pcb = P]
  BY <1>1 DEF ReapChild, RemoveFromZombie, KernelState
<1> HIDE DEF s
<1>3. \A q \in QueueName \ {"zombie"} : Q[q] = k0.queue[q]
  BY <1>1
<1> HIDE DEF Q, P
<1>4. /\ k1.queue = Q /\ k1.pcb = P /\ k1.sems = k0.sems /\ k1.cpu = k0.cpu
      /\ k1.nextPid = k0.nextPid /\ k1.first = k0.first /\ k1.current = k0.current
      /\ k1.currentPid = k0.currentPid
  BY <1>1, <1>2 DEF KernelState
<1>5. QED
  BY <1>3, <1>4, InQueueIsIn DEF P

SetCounts(k0, p, n, s) == [k0 EXCEPT !.pcb[p].children_count = n, !.pcb[p].children_sem = s]

\* Writing one of the two fields.
LEMMA SetCountsFact ==
  ASSUME NEW lost, NEW k0, WF(k0, lost), NEW p \in Pid
  PROVE  /\ \A n \in Int : [k0 EXCEPT !.pcb[p].children_count = n]
                             = SetCounts(k0, p, n, k0.pcb[p].children_sem)
         /\ \A s \in SemId \cup {-1} : [k0 EXCEPT !.pcb[p].children_sem = s]
                                        = SetCounts(k0, p, k0.pcb[p].children_count, s)
         /\ k0.pcb[p].children_sem \in SemId \cup {-1} /\ k0.pcb[p].children_count \in Int
<1>1. k0 \in KernelState /\ k0.pcb \in [Pid -> Pcb] /\ k0.pcb[p] \in Pcb
  BY DEF WF, KernelState
<1>2. QED
  BY <1>1 DEF SetCounts, Pcb, KernelState

\* A write to the counts of one process.
LEMMA CountsWriteEffect ==
  ASSUME NEW lost, NEW k0, WF(k0, lost), NEW p \in Pid, NEW n \in Int, NEW s \in SemId \cup {-1},
         NEW k1, k1 = SetCounts(k0, p, n, s)
  PROVE  /\ Steps(k0, k1, lost) /\ SameCpu(k0, k1) /\ k1.sems = k0.sems /\ k1.queue = k0.queue
         /\ k1.currentPid = k0.currentPid
         /\ \A x \in Pid : SameKin(k0, k1, x)
         /\ \A x \in Pid \ {p} : SameCounts(k0, k1, x)
         /\ k1.pcb[p].children_count = n /\ k1.pcb[p].children_sem = s
<1> DEFINE e == [k0.pcb[p] EXCEPT !.children_count = n, !.children_sem = s]
           P == [k0.pcb EXCEPT ![p] = e]
<1>1. k0 \in KernelState /\ k0.pcb \in [Pid -> Pcb] /\ k0.pcb[p] \in Pcb
  BY DEF WF, KernelState
<1>2. k1 = [k0 EXCEPT !.pcb = P]
  BY <1>1 DEF SetCounts, Pcb, KernelState
<1>3. /\ e \in Pcb /\ e.state = k0.pcb[p].state /\ e.priority = k0.pcb[p].priority
      /\ e.parentPid = k0.pcb[p].parentPid /\ e.waitingForPid = k0.pcb[p].waitingForPid
      /\ e.foreground = k0.pcb[p].foreground /\ e.rsp = k0.pcb[p].rsp
      /\ e.children_count = n /\ e.children_sem = s
  BY <1>1 DEF Pcb
<1> HIDE DEF e
<1>4. P \in [Pid -> Pcb] /\ P[p] = e /\ \A x \in Pid \ {p} : P[x] = k0.pcb[x]
  BY <1>1, <1>3
<1> HIDE DEF P
<1>5. /\ k1 \in KernelState /\ k1.pcb = P /\ k1.queue = k0.queue /\ k1.nextPid = k0.nextPid
      /\ k1.foreground = k0.foreground /\ k1.sems = k0.sems /\ k1.current = k0.current
      /\ k1.cpu = k0.cpu /\ k1.first = k0.first /\ k1.currentPid = k0.currentPid
  BY <1>1, <1>2, <1>4 DEF KernelState
<1>6. Steps(k0, k1, lost)
  BY <1>3, <1>4, <1>5, PcbFieldFact
<1>7. QED
  BY <1>3, <1>4, <1>5, <1>6 DEF SameCpu, SameKin, SameCounts

\* What a foreground child's death leaves of its parent's count and semaphore.
Uncounted(k0, k1, par) ==
  LET n == k0.pcb[par].children_count - 1
  IN  /\ k1.pcb[par].children_count = n
      /\ k1.pcb[par].children_sem = IF n = 0 THEN -1 ELSE k0.pcb[par].children_sem

\* The semaphore of the parent goes with its last foreground child.
SemGone(k0, k1, par) ==
  LET s == k0.pcb[par].children_sem
      last == k0.pcb[par].children_count = 1
  IN  /\ \A t \in SemId : t # s \/ ~last => k1.sems[t] = k0.sems[t]
      /\ last => ~k1.sems[s].used

\* The parent's semaphore and count, when a foreground child dies.
LEMMA UncountEffect ==
  ASSUME NEW lost, NEW k0, WF(k0, lost), NEW p \in Pid, k0.pcb[p].children_sem >= 0,
         NEW k9, k9 = UncountForegroundChild(k0, p)
  PROVE  /\ SameCpu(k0, k9) /\ k9.nextPid = k0.nextPid
         /\ \A x \in Pid : SameKin(k0, k9, x)
         /\ \A x \in Pid \ {p} : SameCounts(k0, k9, x)
         /\ Uncounted(k0, k9, p) /\ SemGone(k0, k9, p)
         /\ \A x \in Pid : InQueue(k9, "blockedBySem", x) => InQueue(k0, "blockedBySem", x)
         /\ OnlySleepersMove(k0, k9)
<1> DEFINE s  == k0.pcb[p].children_sem
           n  == k0.pcb[p].children_count - 1
           k1 == [k0 EXCEPT !.pcb[p].children_count = n]
           k2 == SemPost(k1, s)
           k3 == SemClose(k2, s)
           k4 == [k3 EXCEPT !.pcb[p].children_sem = -1]
<1>1. /\ k0 \in KernelState /\ k0.pcb \in [Pid -> Pcb] /\ s \in SemId /\ n \in Int
      /\ k0.pcb[p].children_count \in Int
  BY DEF WF, KernelState, Pcb
<1>2. k9 = IF n = 0 THEN k4 ELSE k1
  <2>1. k1 = [k0 EXCEPT !.pcb[p].children_count = @ - 1] /\ k1.pcb[p].children_count = n
    BY <1>1 DEF Pcb, KernelState
  <2> HIDE DEF k1, n
  <2>2. QED
    BY <2>1 DEF UncountForegroundChild
<1> HIDE DEF s, n
<1>3. /\ Steps(k0, k1, lost) /\ SameCpu(k0, k1) /\ k1.sems = k0.sems /\ k1.queue = k0.queue
      /\ \A x \in Pid : SameKin(k0, k1, x)
      /\ \A x \in Pid \ {p} : SameCounts(k0, k1, x)
      /\ k1.pcb[p].children_count = n /\ k1.pcb[p].children_sem = s
  <2>1. k1 = SetCounts(k0, p, n, s) /\ s \in SemId \cup {-1} /\ n \in Int
    BY <1>1, SetCountsFact DEF s
  <2> HIDE DEF k1
  <2>2. /\ Steps(k0, k1, lost) /\ SameCpu(k0, k1) /\ k1.sems = k0.sems /\ k1.queue = k0.queue
        /\ k1.currentPid = k0.currentPid
        /\ \A x \in Pid : SameKin(k0, k1, x)
        /\ \A x \in Pid \ {p} : SameCounts(k0, k1, x)
        /\ k1.pcb[p].children_count = n /\ k1.pcb[p].children_sem = s
    BY <2>1, CountsWriteEffect
  <2>3. QED
    BY <2>2
<1>4. CASE n # 0
  <2>1. k9 = k1
    BY <1>2, <1>4
  <2>2. k0.pcb[p].children_count # 1
    BY <1>1, <1>4 DEF n
  <2>3. OnlySleepersMove(k0, k1)
    BY <1>3 DEF OnlySleepersMove, Queued, InQueue
  <2>4. QED
    BY <1>3, <1>4, <2>1, <2>2, <2>3 DEF Uncounted, SemGone, Steps, InQueue, n, s
<1> HIDE DEF k1
<1>5. CASE n = 0
  <2>1. WF(k1, lost)
    BY <1>3 DEF Steps, Keeps
  <2>2. /\ Steps(k1, k2, lost) /\ WF(k2, lost) /\ SameFields(k1, k2) /\ SameCpu(k1, k2)
        /\ \A t \in SemId \ {s} : k2.sems[t] = k1.sems[t]
        /\ \A x \in Pid : InQueue(k2, "blockedBySem", x) => InQueue(k1, "blockedBySem", x)
        /\ OnlySleepersMove(k1, k2)
    <3>1. Steps(k1, k2, lost) /\ WF(k2, lost)
      BY <1>1, <2>1, SemPostFact DEF Steps, Keeps
    <3>2. SameFields(k1, k2) /\ SameCpu(k1, k2)
      BY <1>1, <2>1, SemPostEffect
    <3>3. OnlySleepersMove(k1, k2)
      BY <1>1, <2>1, PostMoves
    <3>4. QED
      BY <1>1, <2>1, <3>1, <3>2, <3>3, SemOthers
  <2> HIDE DEF k2
  <2>3. /\ Steps(k2, k3, lost) /\ WF(k3, lost) /\ SameFields(k2, k3) /\ SameCpu(k2, k3)
        /\ ~k3.sems[s].used
        /\ \A t \in SemId \ {s} : k3.sems[t] = k2.sems[t]
        /\ \A q \in QueueName, x \in Pid : InQueue(k3, q, x) <=> InQueue(k2, q, x)
    <3>1. Steps(k2, k3, lost) /\ WF(k3, lost)
      BY <1>1, <2>2, SemEntryFact DEF Steps, Keeps
    <3>2. CASE ~k2.sems[s].used
      BY <3>1, <3>2 DEF SemClose, SameFields, SameKin, SameCounts, SameCpu
    <3>3. CASE k2.sems[s].used
      <4>1. UnusedSem \in Sem /\ k3 = SetSem(k2, s, UnusedSem) /\ ~UnusedSem.used
        BY <3>3 DEF SemClose, SetSem, UnusedSem, Sem
      <4> HIDE DEF k3
      <4>2. /\ k3.sems[s] = UnusedSem /\ \A t \in SemId \ {s} : k3.sems[t] = k2.sems[t]
            /\ \A q \in QueueName, x \in Pid : InQueue(k3, q, x) <=> InQueue(k2, q, x)
        BY <1>1, <2>2, <4>1, SemsWriteFact
      <4>3. SameFields(k2, k3) /\ SameCpu(k2, k3)
        BY <1>1, <2>2, <4>1, SetSemEffect
      <4>4. QED
        BY <3>1, <4>1, <4>2, <4>3, PidFact
    <3>4. QED
      BY <3>2, <3>3
  <2> HIDE DEF k3
  <2>4. /\ SameCpu(k3, k4) /\ k4.sems = k3.sems /\ k4.queue = k3.queue /\ k4.nextPid = k3.nextPid
        /\ \A x \in Pid : SameKin(k3, k4, x)
        /\ \A x \in Pid \ {p} : SameCounts(k3, k4, x)
        /\ k4.pcb[p].children_count = k3.pcb[p].children_count
        /\ k4.pcb[p].children_sem = -1
    <3> DEFINE m == k3.pcb[p].children_count
               u == -1
    <3>1. m \in Int /\ u \in SemId \cup {-1} /\ WF(k3, lost)
      BY <2>3, SetCountsFact
    <3>2. k4 = SetCounts(k3, p, m, u)
      BY <2>3, SetCountsFact
    <3> HIDE DEF k4, m, u
    <3>3. /\ Steps(k3, k4, lost) /\ SameCpu(k3, k4) /\ k4.sems = k3.sems /\ k4.queue = k3.queue
          /\ \A x \in Pid : SameKin(k3, k4, x)
          /\ \A x \in Pid \ {p} : SameCounts(k3, k4, x)
          /\ k4.pcb[p].children_count = m /\ k4.pcb[p].children_sem = u
      BY <3>1, <3>2, CountsWriteEffect
    <3>4. QED
      BY <3>3 DEF Steps, m, u
  <2> HIDE DEF k4
  <2>5. k9 = k4
    BY <1>2, <1>5
  <2>6. SameCpu(k0, k4) /\ k4.nextPid = k0.nextPid
    BY <1>3, <2>2, <2>3, <2>4 DEF SameCpu, Steps
  <2>7. \A x \in Pid : SameKin(k0, k4, x)
    BY <1>3, <2>2, <2>3, <2>4 DEF SameFields, SameKin
  <2>8. \A x \in Pid \ {p} : SameCounts(k0, k4, x)
    BY <1>3, <2>2, <2>3, <2>4 DEF SameFields, SameCounts
  <2>9. Uncounted(k0, k4, p)
    BY <1>3, <1>5, <2>2, <2>3, <2>4 DEF Uncounted, SameFields, SameCounts, n
  <2>10. SemGone(k0, k4, p)
    <3>1. ~k4.sems[s].used /\ \A t \in SemId \ {s} : k4.sems[t] = k0.sems[t]
      BY <1>3, <2>2, <2>3, <2>4
    <3>2. k0.pcb[p].children_count = 1
      BY <1>1, <1>5 DEF n
    <3>3. QED
      BY <3>1, <3>2 DEF SemGone, s
  <2>11. \A x \in Pid : InQueue(k4, "blockedBySem", x) => InQueue(k0, "blockedBySem", x)
    <3>1. \A x \in Pid : InQueue(k4, "blockedBySem", x) <=> InQueue(k2, "blockedBySem", x)
      <4>1. k4.queue = k3.queue
        BY <2>4
      <4>2. \A x \in Pid : InQueue(k3, "blockedBySem", x) <=> InQueue(k2, "blockedBySem", x)
        BY <2>3, PidFact
      <4>3. QED
        BY <4>1, <4>2 DEF InQueue
    <3>2. \A x \in Pid : InQueue(k1, "blockedBySem", x) <=> InQueue(k0, "blockedBySem", x)
      BY <1>3 DEF InQueue
    <3>3. QED
      BY <2>2, <3>1, <3>2
  <2>12. OnlySleepersMove(k0, k4)
    <3>1. \A q \in QueueName, x \in Pid : InQueue(k4, q, x) <=> InQueue(k2, q, x)
      BY <2>3, <2>4 DEF InQueue
    <3>2. \A q \in QueueName, x \in Pid : InQueue(k1, q, x) <=> InQueue(k0, q, x)
      BY <1>3 DEF InQueue
    <3>3. \A x \in Pid : (Queued(k4, x) <=> Queued(k2, x)) /\ (Queued(k1, x) <=> Queued(k0, x))
      BY <3>1, <3>2 DEF Queued
    <3>4. QED
      BY <2>2, <3>1, <3>2, <3>3, PidFact DEF OnlySleepersMove
  <2>13. QED
    BY <2>5, <2>6, <2>7, <2>8, <2>9, <2>10, <2>11, <2>12
<1>6. QED
  BY <1>4, <1>5

\* A death that a parent counts: a foreground child of a live process that
\* has a semaphore for its children.
Counted(k0, p) ==
  LET par == k0.pcb[p].parentPid
  IN  /\ par > 0 /\ k0.pcb[p].foreground
      /\ HasProcess(k0, par) /\ k0.pcb[par].children_sem >= 0

\* Kill ends p, and nobody else's family changes.
Killed(k0, k1, p) ==
  /\ k1.nextPid = k0.nextPid /\ k1.current # p
  /\ \A x \in Pid \ {p} : SameKin(k0, k1, x)
  /\ /\ k1.pcb[p].state = "UNUSED" /\ k1.pcb[p].parentPid = NoPid
     /\ k1.pcb[p].waitingForPid = NoPid /\ k1.pcb[p].children_sem = -1
     /\ ~k1.pcb[p].foreground
  /\ LET par == k0.pcb[p].parentPid
     IN  IF Counted(k0, p)
         THEN /\ \A x \in Pid \ {p, par} : SameCounts(k0, k1, x)
              /\ par # p => Uncounted(k0, k1, par)
              /\ SemGone(k0, k1, par)
         ELSE /\ \A x \in Pid \ {p} : SameCounts(k0, k1, x)
              /\ k1.sems = k0.sems
  /\ \A x \in Pid : InQueue(k1, "blockedBySem", x) => InQueue(k0, "blockedBySem", x) /\ x # p

\* The CPU when kill returns: where it was, or on the next process's stack if
\* the victim was the process dispatched last.  Idle is current for a victim
\* that was current.
KillCpu(k0, k1, p) ==
  LET cur == IF k0.current = p THEN IdlePid ELSE k0.current
  IN  /\ k1.pcb[p].rsp = BootCtx
      /\ \/ /\ k1.cpu = k0.cpu /\ k1.first = k0.first /\ k1.current = cur
            /\ \A x \in Pid \ {p} : k1.pcb[x].rsp = k0.pcb[x].rsp
         \/ /\ k1.first = FALSE
            /\ \A x \in Pid \ {p} :
                 k1.pcb[x].rsp = IF x = cur /\ ~k0.first THEN k0.cpu ELSE k0.pcb[x].rsp
            /\ k1.cpu = k1.pcb[k1.current].rsp
            /\ k1.current = IdlePid \/ InQueue(k1, "ready", k1.current)

\* kill: one process ends, or nothing happens, or a process that no queue
\* holds stops being current.
LEMMA KillEffect ==
  ASSUME NEW lost, NEW k0, WF(k0, lost), CurOK(k0, lost), NEW p \in Pid, NEW k9, k9 = Kill(k0, p)
  PROVE  IF p > ShellPid /\ Killable(k0, p)
         THEN Killed(k0, k9, p) /\ KillCpu(k0, k9, p)
         ELSE \/ k9 = k0
              \/ p \in lost /\ p = k0.current /\ k9 = [k0 EXCEPT !.current = IdlePid]
<1> DEFINE parent == k0.pcb[p].parentPid
           cur == IF k0.current = p THEN IdlePid ELSE k0.current
           k1 == KillProcess(k0, p)
           counted == /\ parent > 0 /\ k0.pcb[p].foreground
                      /\ HasProcess(k1, parent) /\ k1.pcb[parent].children_sem >= 0
           k2 == IF counted THEN UncountForegroundChild(k1, parent) ELSE k1
           kw == WakeUpWaitingParent(k2, parent, p)
           k3 == ReapChild(kw, p)
<1>0. p <= ShellPid <=> ~(p > ShellPid)
  BY DEF Pid, ShellPid
<1>1. CASE p <= ShellPid
  BY <1>0, <1>1 DEF Kill
<1>2. CASE ~(p <= ShellPid) /\ ~Killable(k0, p)
  <2>1. Kill(k0, p) = k1
    BY <1>2 DEF Kill
  <2>2. p # k0.current \/ p \in lost
    <3>1. p # IdlePid
      BY <1>2 DEF IdlePid, ShellPid
    <3>2. ~InQueue(k0, "ready", p)
      BY <1>2 DEF Killable, QueueName
    <3>3. QED
      BY <3>1, <3>2 DEF CurOK
  <2>3. k1 = [k0 EXCEPT !.current = IF @ = p THEN IdlePid ELSE @]
    BY <1>2, KillNobodyFact DEF WF
  <2> HIDE DEF k1
  <2>4. CASE p # k0.current
    <3>1. k1 = k0
      BY <2>3, <2>4 DEF WF, KernelState
    <3>2. QED
      BY <1>2, <2>1, <3>1
  <2>5. CASE p = k0.current
    <3>1. k1 = [k0 EXCEPT !.current = IdlePid]
      BY <2>3, <2>5 DEF WF, KernelState
    <3>2. QED
      BY <1>2, <2>1, <2>2, <2>5, <3>1
  <2>6. QED
    BY <2>4, <2>5
<1>3. CASE ~(p <= ShellPid) /\ Killable(k0, p)
  <2>1. k9 = IF p = k0.currentPid THEN Yield(k3) ELSE k3
    BY <1>3 DEF Kill
  <2>2. /\ parent \in Pid \cup {NoPid} /\ k0.pcb \in [Pid -> Pcb] /\ k0.pcb[p] \in Pcb
        /\ k0.current \in Pid
    BY DEF WF, KernelState, Pcb
  <2>3. parent > 0 => parent \in Pid /\ parent # IdlePid
    BY <2>2 DEF NoPid, IdlePid
  <2>4. k1 = KillProcess(k0, p) /\ p > ShellPid /\ p # IdlePid
    BY <1>3 DEF Pid, ShellPid, IdlePid
  <2> HIDE DEF k1
  <2>5. /\ WF(k1, lost) /\ CurOK(k1, lost)
        /\ \A x \in Pid : InQueue(k1, "zombie", x) <=> InQueue(k0, "zombie", x) \/ x = p
    BY <1>3, <2>4, KillProcessFact
  <2>6. /\ k1.sems = k0.sems /\ k1.nextPid = k0.nextPid /\ k1.cpu = k0.cpu
        /\ k1.first = k0.first /\ k1.current = cur
        /\ k1.pcb = [k0.pcb EXCEPT ![p].state = "ZOMBIE"]
        /\ \A q \in QueueName, x \in Pid :
             InQueue(k1, q, x) <=> IF x = p THEN q = "zombie" ELSE InQueue(k0, q, x)
    BY <1>3, <2>4, KillProcessEffect
  <2>7. \A x \in Pid \ {p} : k1.pcb[x] = k0.pcb[x]
    BY <2>2, <2>6
  <2>8. k1.pcb[p].children_sem = k0.pcb[p].children_sem /\ k1.pcb[p].children_count = k0.pcb[p].children_count
    BY <2>2, <2>6 DEF Pcb
  <2>9. \A x \in Pid : k1.pcb[x].children_sem = k0.pcb[x].children_sem
                       /\ k1.pcb[x].children_count = k0.pcb[x].children_count
    BY <2>7, <2>8
  <2>10. cur # p /\ cur \in Pid
    BY <2>2, <2>4, PidFact
  <2>11. counted <=> Counted(k0, p)
    <3>1. ASSUME parent > 0 PROVE HasProcess(k1, parent) <=> HasProcess(k0, parent)
      <4>1. parent \in Pid /\ parent # IdlePid
        BY <2>3, <3>1
      <4>2. CASE parent = p
        <5>1. \E q \in QueueName : InQueue(k0, q, p)
          BY <1>3 DEF Killable
        <5>2. InQueue(k1, "zombie", p)
          BY <2>5
        <5>3. QED
          BY <4>2, <5>1, <5>2, PidFact DEF HasProcess
      <4>3. CASE parent # p
        <5>1. \A q \in QueueName : InQueue(k1, q, parent) <=> InQueue(k0, q, parent)
          BY <2>6, <4>1, <4>3
        <5>2. parent = k1.current <=> parent = k0.current
          BY <2>6, <4>1, <4>3
        <5>3. QED
          BY <5>1, <5>2 DEF HasProcess
      <4>4. QED
        BY <4>2, <4>3
    <3>2. QED
      BY <2>3, <2>9, <3>1 DEF Counted
  <2> HIDE DEF cur, parent
  <2>12. /\ WF(k2, lost) /\ Steps(k1, k2, lost) /\ SameCpu(k1, k2) /\ k2.nextPid = k0.nextPid
         /\ \A x \in Pid \ {p} : SameKin(k1, k2, x)
         /\ Counted(k0, p) => /\ \A x \in Pid \ {parent} : SameCounts(k1, k2, x)
                              /\ Uncounted(k1, k2, parent) /\ SemGone(k1, k2, parent)
         /\ ~Counted(k0, p) => k2 = k1
         /\ \A x \in Pid : InQueue(k2, "blockedBySem", x) => InQueue(k1, "blockedBySem", x)
    <3>1. CASE counted
      <4>1. parent \in Pid /\ k1.pcb[parent].children_sem >= 0
        BY <2>3, <3>1
      <4>2. k2 = UncountForegroundChild(k1, parent)
        BY <3>1
      <4> HIDE DEF k2
      <4>3. WF(k2, lost) /\ Steps(k1, k2, lost)
        BY <2>5, <4>1, <4>2, UncountChildFact DEF Steps, Keeps
      <4>4. QED
        BY <2>5, <2>6, <2>11, <3>1, <4>1, <4>2, <4>3, UncountEffect
    <3>2. CASE ~counted
      <4>1. k2 = k1 /\ Steps(k1, k1, lost)
        BY <2>5, <3>2, StepsRefl
      <4>2. QED
        BY <2>5, <2>6, <2>11, <3>2, <4>1 DEF SameCpu, SameKin
    <3>3. QED
      BY <3>1, <3>2
  <2> HIDE DEF k2
  <2>13. /\ SameFields(k2, kw) /\ SameCpu(k2, kw) /\ kw.sems = k2.sems
         /\ \A x \in Pid : InQueue(kw, "blockedBySem", x) <=> InQueue(k2, "blockedBySem", x)
    BY <2>2, <2>12, WakeUpEffect DEF parent
  <2>14. Steps(k2, kw, lost)
    BY <2>2, <2>12, WakeUpFact DEF parent
  <2>15. Steps(k1, kw, lost)
    BY <2>12, <2>14, StepsTrans
  <2> HIDE DEF kw
  <2>16. WF(kw, lost) /\ CurOK(kw, lost) /\ InQueue(kw, "zombie", p) /\ kw.nextPid = k0.nextPid
    BY <2>5, <2>6, <2>15 DEF Steps, Keeps
  <2>17. WF(k3, lost) /\ CurOK(k3, lost)
    BY <2>16, ReapFact
  <2>18. /\ k3.sems = kw.sems /\ k3.nextPid = kw.nextPid /\ k3.cpu = kw.cpu
         /\ k3.first = kw.first /\ k3.current = kw.current
         /\ k3.pcb = [kw.pcb EXCEPT ![p] = FreePcb]
         /\ \A x \in Pid, q \in QueueName \ {"zombie"} : InQueue(k3, q, x) <=> InQueue(kw, q, x)
    BY <2>16, ReapEffect
  <2> HIDE DEF k3
  <2>19. k3.pcb[p] = FreePcb /\ \A x \in Pid \ {p} : k3.pcb[x] = kw.pcb[x]
    BY <2>16, <2>18 DEF WF, KernelState
  <2>20. \A x \in Pid : InQueue(k3, "blockedBySem", x) => InQueue(k0, "blockedBySem", x) /\ x # p
    BY <2>6, <2>12, <2>13, <2>18, PidFact
  <2>21. \A x \in Pid \ {p} : SameKin(k0, k3, x)
    BY <2>7, <2>12, <2>13, <2>19 DEF SameKin, SameFields
  <2>22. \A x \in Pid \ {p, parent} : SameCounts(k0, k3, x)
    BY <2>7, <2>12, <2>13, <2>19 DEF SameCounts, SameFields
  <2>23. Counted(k0, p) => /\ parent # p => Uncounted(k0, k3, parent)
                           /\ SemGone(k0, k3, parent)
    <3> SUFFICES ASSUME Counted(k0, p) PROVE /\ parent # p => Uncounted(k0, k3, parent)
                                             /\ SemGone(k0, k3, parent)
      OBVIOUS
    <3>1. parent \in Pid
      BY <2>3 DEF Counted, parent
    <3>2. ASSUME parent # p PROVE Uncounted(k0, k3, parent)
      <4>1. /\ kw.pcb[parent].children_sem = k2.pcb[parent].children_sem
            /\ kw.pcb[parent].children_count = k2.pcb[parent].children_count
        BY <2>13, <3>1 DEF SameFields, SameCounts
      <4>2. k3.pcb[parent] = kw.pcb[parent] /\ k1.pcb[parent] = k0.pcb[parent]
        BY <2>7, <2>19, <3>1, <3>2
      <4>3. QED
        BY <2>12, <4>1, <4>2 DEF Uncounted
    <3>3. SemGone(k0, k3, parent)
      <4>1. SemGone(k1, k2, parent) /\ k3.sems = k2.sems
        BY <2>12, <2>13, <2>18
      <4>2. QED
        BY <2>6, <2>9, <3>1, <4>1 DEF SemGone
    <3>4. QED
      BY <3>2, <3>3
  <2>24. ~Counted(k0, p) => /\ \A x \in Pid \ {p} : SameCounts(k0, k3, x)
                            /\ k3.sems = k0.sems
    <3> SUFFICES ASSUME ~Counted(k0, p)
                 PROVE  /\ \A x \in Pid \ {p} : SameCounts(k0, k3, x)
                        /\ k3.sems = k0.sems
      OBVIOUS
    <3>1. k2 = k1
      BY <2>12
    <3>2. k3.sems = k0.sems
      BY <2>6, <2>13, <2>18, <3>1
    <3>3. \A x \in Pid : SameCounts(k1, kw, x)
      BY <2>13, <3>1 DEF SameFields
    <3>4. ASSUME NEW x \in Pid \ {p} PROVE SameCounts(k0, k3, x)
      <4>1. k1.pcb[x] = k0.pcb[x] /\ k3.pcb[x] = kw.pcb[x] /\ x \in Pid
        BY <2>7, <2>19
      <4>2. QED
        BY <3>3, <4>1 DEF SameCounts
    <3>5. QED
      BY <3>2, <3>4
  <2>25. /\ k3.pcb[p].state = "UNUSED" /\ k3.pcb[p].parentPid = NoPid
         /\ k3.pcb[p].waitingForPid = NoPid /\ k3.pcb[p].children_sem = -1
         /\ ~k3.pcb[p].foreground
    BY <2>19 DEF FreePcb
  <2>26. /\ k3.cpu = k0.cpu /\ k3.first = k0.first /\ k3.current = cur /\ k3.nextPid = k0.nextPid
         /\ \A x \in Pid \ {p} : k3.pcb[x].rsp = k0.pcb[x].rsp
    BY <2>6, <2>7, <2>12, <2>13, <2>16, <2>18, <2>19 DEF SameCpu
  <2>27. Killed(k0, k3, p)
    BY <2>10, <2>20, <2>21, <2>22, <2>23, <2>24, <2>25, <2>26 DEF Killed, parent
  <2>28. KillCpu(k0, k3, p)
    BY <2>19, <2>26 DEF KillCpu, cur, FreePcb
  <2>29. CASE k9 = k3
    BY <1>3, <2>4, <2>27, <2>28, <2>29
  <2>30. CASE k9 = Yield(k3)
    <3>1. /\ Dispatched(k3, k9) /\ WF(k9, lost) /\ CurOK(k9, lost) /\ k9.sems = k3.sems
          /\ k9.nextPid = k3.nextPid
          /\ \A q \in QueueName, x \in Pid : InQueue(k9, q, x) <=> InQueue(k3, q, x)
      BY <2>17, <2>30, ScheduleEffect, ScheduleFact DEF Keeps, Quiet
    <3>2. SameFields(k3, k9)
      BY <3>1 DEF Dispatched
    <3>3. k9.current # p
      <4>1. k9.pcb[p].state = "UNUSED"
        BY <2>4, <2>25, <3>2 DEF SameFields, SameKin
      <4>2. QED
        BY <2>4, <3>1, <4>1 DEF CurOK, WF, States
    <3>4. \A x \in Pid \ {p} : SameKin(k0, k9, x)
      BY <2>21, <3>2 DEF SameKin, SameFields
    <3>5. \A x \in Pid : SameCounts(k3, k9, x)
      BY <3>2 DEF SameFields
    <3>6. /\ k9.pcb[p].state = "UNUSED" /\ k9.pcb[p].parentPid = NoPid
          /\ k9.pcb[p].waitingForPid = NoPid /\ k9.pcb[p].children_sem = -1
          /\ ~k9.pcb[p].foreground
      BY <2>4, <2>25, <3>2 DEF SameFields, SameKin, SameCounts
    <3>7. \A x \in Pid : InQueue(k9, "blockedBySem", x) => InQueue(k0, "blockedBySem", x) /\ x # p
      BY <2>20, <3>1, PidFact
    <3>8. Counted(k0, p) => /\ parent # p => Uncounted(k0, k9, parent)
                            /\ SemGone(k0, k9, parent)
      <4>1. Counted(k0, p) => parent \in Pid
        BY <2>3 DEF Counted, parent
      <4>2. QED
        BY <2>23, <3>1, <3>5, <4>1 DEF Uncounted, SemGone, SameCounts
    <3>9. \A x \in Pid \ {p, parent} : SameCounts(k0, k9, x)
      BY <2>22, <3>5 DEF SameCounts
    <3>10. ~Counted(k0, p) => /\ \A x \in Pid \ {p} : SameCounts(k0, k9, x)
                              /\ k9.sems = k0.sems
      BY <2>24, <3>1, <3>5 DEF SameCounts
    <3>11. Killed(k0, k9, p)
      BY <2>26, <3>1, <3>3, <3>4, <3>6, <3>7, <3>8, <3>9, <3>10 DEF Killed, parent
    <3>12. KillCpu(k0, k9, p)
      <4>1. k3.pcb[p].rsp = BootCtx /\ k3.current # p
        BY <2>10, <2>19, <2>26 DEF FreePcb
      <4>2. k9.pcb[p].rsp = BootCtx
        BY <3>1, <4>1 DEF Dispatched, SameCpu, Switched
      <4>3. QED
        BY <2>26, <3>1, <3>3, <4>2 DEF KillCpu, cur, Dispatched, SameCpu, Switched
    <3>13. QED
      BY <1>3, <2>4, <3>11, <3>12
  <2>31. QED
    BY <2>1, <2>29, <2>30
<1>4. QED
  BY <1>1, <1>2, <1>3

\* A foreground child is counted: the parent's count goes up, with the
\* semaphore it has, or with a free entry of the table if there is one.
CountedIn(k0, k1, par) ==
  LET s0 == k0.pcb[par].children_sem
      s  == k1.pcb[par].children_sem
  IN  \/ /\ s0 >= 0 /\ s = s0 /\ k1.sems = k0.sems
         /\ k1.pcb[par].children_count = k0.pcb[par].children_count + 1
      \/ /\ s0 = -1 /\ s \in SemId /\ ~k0.sems[s].used /\ \A t \in SemId : t < s => k0.sems[t].used
         /\ k1.sems = [k0.sems EXCEPT ![s] = [value |-> 0, used |-> TRUE, blocked |-> << >>]]
         /\ k1.pcb[par].children_count = k0.pcb[par].children_count + 1
      \/ /\ s0 = -1 /\ \A t \in SemId : k0.sems[t].used
         /\ SameCounts(k0, k1, par) /\ k1.sems = k0.sems

\* The parent's semaphore and count, when a foreground child is born.
LEMMA CountChildEffect ==
  ASSUME NEW lost, NEW k0, WF(k0, lost), NEW p \in Pid, NEW k9, k9 = CountForegroundChild(k0, p)
  PROVE  /\ SameCpu(k0, k9) /\ k9.queue = k0.queue
         /\ \A x \in Pid : SameKin(k0, k9, x)
         /\ \A x \in Pid \ {p} : SameCounts(k0, k9, x)
         /\ CountedIn(k0, k9, p)
<1> DEFINE s0 == k0.pcb[p].children_sem
           s  == GetFreeSemId(k0)
           n  == k0.pcb[p].children_count
           e  == [value |-> 0, used |-> TRUE, blocked |-> << >>]
           k1 == SetSem(k0, s, e)
           k2 == SetCounts(k1, p, n, s)
           k3 == SetCounts(k2, p, n + 1, s)
           k4 == SetCounts(k0, p, n + 1, s0)
<1>1. s0 \in SemId \cup {-1} /\ n \in Int /\ n + 1 \in Int
  BY DEF WF, KernelState, Pcb
<1>2. /\ s = -1 \/ s \in SemId
      /\ s \in SemId => /\ ~k0.sems[s].used
                        /\ \A t \in SemId : t < s => k0.sems[t].used
      /\ s = -1 <=> \A t \in SemId : k0.sems[t].used
  BY FreeSemFact
<1>3. SemId \subseteq Nat /\ e \in Sem
  <2>1. << >> \in Seq(Pid)
    OBVIOUS
  <2>2. QED
    BY <2>1, NumSemsAssumption DEF SemId, Sem
<1> HIDE DEF e, s
<1>4. CASE s0 = -1 /\ s \in SemId
  <2>1. SemInit(k0, s, 0) = k1
    BY <1>2, <1>4 DEF SemInit, SetSem, e
  <2>4. k1.queue = k0.queue /\ k1 = SetSem(k0, s, e)
    BY DEF WF, KernelState, SetSem
  <2> HIDE DEF k1
  <2>2. /\ WF(k1, lost) /\ k1.sems[s] = e /\ k1.pcb = k0.pcb
    BY <1>3, <1>4, <2>4, SemsWriteFact
  <2>3. SameFields(k0, k1) /\ SameCpu(k0, k1) /\ k1.sems = [k0.sems EXCEPT ![s] = e]
    <3>1. s \in SemId /\ e \in Sem /\ k1 = SetSem(k0, s, e)
      BY <1>3, <1>4, <2>4
    <3>2. QED
      BY <3>1, SetSemEffect
  <2>5. [k1 EXCEPT !.pcb[p].children_sem = s] = k2
    <3>1. k1.pcb[p].children_count = n
      BY <2>2
    <3>2. QED
      BY <1>4, <2>2, <3>1, SetCountsFact
  <2>6. /\ Steps(k1, k2, lost) /\ SameCpu(k1, k2) /\ k2.sems = k1.sems /\ k2.queue = k1.queue
        /\ k2.currentPid = k1.currentPid
        /\ \A x \in Pid : SameKin(k1, k2, x)
        /\ \A x \in Pid \ {p} : SameCounts(k1, k2, x)
        /\ k2.pcb[p].children_count = n /\ k2.pcb[p].children_sem = s
    <3>1. s \in SemId \cup {-1} /\ n \in Int
      BY <1>1, <1>4
    <3>2. QED
      BY <2>2, <3>1, CountsWriteEffect
  <2>7. WF(k2, lost)
    BY <2>6 DEF Steps, Keeps
  <2> HIDE DEF k2
  <2>8. [k2 EXCEPT !.pcb[p].children_count = @ + 1] = k3
    <3>1. [k2 EXCEPT !.pcb[p].children_count = @ + 1] = [k2 EXCEPT !.pcb[p].children_count = n + 1]
      BY <2>6, <2>7 DEF WF, KernelState, Pcb
    <3>2. \A m \in Int : [k2 EXCEPT !.pcb[p].children_count = m] = SetCounts(k2, p, m, k2.pcb[p].children_sem)
      BY <2>7, SetCountsFact
    <3>3. QED
      BY <1>1, <2>6, <3>1, <3>2
  <2>9. /\ Steps(k2, k3, lost) /\ SameCpu(k2, k3) /\ k3.sems = k2.sems /\ k3.queue = k2.queue
        /\ k3.currentPid = k2.currentPid
        /\ \A x \in Pid : SameKin(k2, k3, x)
        /\ \A x \in Pid \ {p} : SameCounts(k2, k3, x)
        /\ k3.pcb[p].children_count = n + 1 /\ k3.pcb[p].children_sem = s
    <3>1. s \in SemId \cup {-1}
      BY <1>4
    <3>2. QED
      BY <1>1, <2>7, <3>1, CountsWriteEffect
  <2>10. k9 = k3
    <3>3. s \in Nat /\ k2.pcb[p].children_sem = s
      BY <1>3, <1>4, <2>6
    <3>1. s >= 0 /\ k2.pcb[p].children_sem >= 0
      BY <3>3
    <3>2. QED
      BY <1>4, <2>1, <2>5, <2>8, <3>1 DEF CountForegroundChild, s
  <2> HIDE DEF k3
  <2>11. SameCpu(k0, k9) /\ k9.queue = k0.queue
    BY <2>3, <2>4, <2>6, <2>9, <2>10 DEF SameCpu
  <2>12. \A x \in Pid : SameKin(k0, k9, x)
    BY <2>3, <2>6, <2>9, <2>10 DEF SameFields, SameKin
  <2>13. \A x \in Pid \ {p} : SameCounts(k0, k9, x)
    BY <2>3, <2>6, <2>9, <2>10 DEF SameFields, SameCounts
  <2>14. CountedIn(k0, k9, p)
    BY <1>2, <1>4, <2>3, <2>6, <2>9, <2>10 DEF CountedIn, e
  <2>15. QED
    BY <2>11, <2>12, <2>13, <2>14
<1>5. CASE s0 # -1
  <2>1. s0 >= 0 /\ s0 \in SemId
    <3>1. s0 \in SemId
      BY <1>1, <1>5
    <3> HIDE DEF s0
    <3>2. QED
      BY <1>3, <3>1
  <2>2. k9 = [k0 EXCEPT !.pcb[p].children_count = @ + 1]
    BY <1>5, <2>1 DEF CountForegroundChild
  <2>3. [k0 EXCEPT !.pcb[p].children_count = @ + 1] = [k0 EXCEPT !.pcb[p].children_count = n + 1]
    BY DEF WF, KernelState, Pcb
  <2>4. k9 = k4
    BY <1>1, <2>2, <2>3, SetCountsFact
  <2> HIDE DEF k4
  <2>5. /\ Steps(k0, k9, lost) /\ SameCpu(k0, k9) /\ k9.sems = k0.sems /\ k9.queue = k0.queue
        /\ k9.currentPid = k0.currentPid
        /\ \A x \in Pid : SameKin(k0, k9, x)
        /\ \A x \in Pid \ {p} : SameCounts(k0, k9, x)
        /\ k9.pcb[p].children_count = n + 1 /\ k9.pcb[p].children_sem = s0
    BY <1>1, <2>4, CountsWriteEffect DEF k4
  <2>6. CountedIn(k0, k9, p)
    BY <2>1, <2>5 DEF CountedIn
  <2>7. QED
    BY <2>5, <2>6
<1>6. CASE s0 = -1 /\ s = -1
  <2>1. k9 = k0
    BY <1>6 DEF CountForegroundChild, s
  <2>2. CountedIn(k0, k0, p)
    BY <1>2, <1>6 DEF CountedIn, SameCounts
  <2>3. QED
    BY <2>1, <2>2 DEF SameCpu, SameKin, SameCounts
<1>7. QED
  BY <1>2, <1>4, <1>5, <1>6

\* createProcessOnPCB: one new process, and nobody else's family changes.
Created(k0, k1, fg) ==
  LET p   == k0.nextPid
      par == k0.current
  IN  /\ k1.nextPid = p + 1 /\ k1.cpu = k0.cpu /\ k1.first = k0.first
      /\ \/ k1.current = par
         \/ par = IdlePid /\ k1.current = p
      /\ /\ k1.pcb[p].parentPid = par /\ k1.pcb[p].waitingForPid = NoPid
         /\ k1.pcb[p].foreground = fg /\ k1.pcb[p].state # "UNUSED"
         /\ k1.pcb[p].children_sem = -1 /\ k1.pcb[p].children_count = 0 /\ k1.pcb[p].rsp = p
      /\ \A x \in Pid \ {p} : SameKin(k0, k1, x) /\ k1.pcb[x].rsp = k0.pcb[x].rsp
      /\ \A x \in Pid \ {p} : (x = par /\ par > 0 /\ fg) \/ SameCounts(k0, k1, x)
      /\ IF fg /\ par > 0 THEN CountedIn(k0, k1, par) ELSE k1.sems = k0.sems
      /\ \A x \in Pid \ {p}, q \in QueueName : InQueue(k1, q, x) <=> InQueue(k0, q, x)
      /\ \A q \in QueueName : InQueue(k1, q, p) => q \in {"ready", "blocked"}

\* What createProcessOnPCB writes.
LEMMA CreateEffect ==
  ASSUME NEW lost, NEW k0, WF(k0, lost), CurOK(k0, lost), k0.nextPid <= MaxPid,
         NEW prio \in Nat, NEW fg \in BOOLEAN, NEW tty \in BOOLEAN,
         NEW k9, k9 = CreateProcess(k0, prio, fg, tty)
  PROVE  /\ Created(k0, k9, fg)
         /\ fg /\ prio # IDLE_PRIORITY => InQueue(k9, "ready", k0.nextPid)
<1> DEFINE k1 == IF fg /\ k0.current > 0 THEN CountForegroundChild(k0, k0.current) ELSE k0
           p == k0.nextPid
           c == k0.current
<1>1. /\ Steps(k0, k1, lost)
      /\ k9 \in KernelState /\ k9.cpu = k1.cpu /\ k9.first = k1.first
      /\ \E q \in {"ready", "blocked"}, n \in Pcb :
           /\ NewFields(n, k0.nextPid, k0.current, fg) /\ Born(k1, k9, n, q)
           /\ n.priority = IDLE_PRIORITY => prio = IDLE_PRIORITY
           /\ q = "blocked" => ~fg
  BY CreateBorn
<1>2. c \in Pid /\ p \in Pid /\ p # IdlePid /\ k0.pcb[p].state = "UNUSED"
      /\ k0.queue \in [QueueName -> Seq(Pid)]
  BY FreshFact DEF WF, KernelState
<1>3. c # p
  <2>1. ~InQueue(k0, "ready", p)
    BY FreshFact, PidFact
  <2>2. QED
    BY <1>2, <2>1 DEF CurOK
<1>4. /\ SameCpu(k0, k1) /\ k1.queue = k0.queue
      /\ \A x \in Pid : SameKin(k0, k1, x)
      /\ \A x \in Pid \ {c} : SameCounts(k0, k1, x)
      /\ IF fg /\ c > 0 THEN CountedIn(k0, k1, c) ELSE k1 = k0
  <2>1. CASE fg /\ c > 0
    <3>1. k1 = CountForegroundChild(k0, c)
      BY <2>1
    <3> HIDE DEF k1
    <3>2. QED
      BY <1>2, <2>1, <3>1, CountChildEffect
  <2>2. CASE ~(fg /\ c > 0)
    BY <2>2 DEF SameCpu, SameKin, SameCounts
  <2>3. QED
    BY <2>1, <2>2
<1> HIDE DEF k1
<1>5. /\ WF(k1, lost) /\ CurOK(k1, lost) /\ k1.nextPid = p /\ k1.nextPid <= MaxPid /\ k1.current = c
      /\ k1.pcb \in [Pid -> Pcb]
  BY <1>1, <1>4 DEF Steps, Keeps, SameCpu, WF, KernelState
<1>7. PICK q \in {"ready", "blocked"}, n \in Pcb :
              /\ NewFields(n, p, c, fg) /\ Born(k1, k9, n, q)
              /\ n.priority = IDLE_PRIORITY => prio = IDLE_PRIORITY
              /\ q = "blocked" => ~fg
  BY <1>1
<1>8. /\ n.parentPid = c /\ n.waitingForPid = NoPid /\ n.foreground = fg
      /\ n.children_sem = -1 /\ n.children_count = 0 /\ n.rsp = p
  BY <1>7 DEF NewFields
<1>9. /\ k9.nextPid = p + 1 /\ k9.sems = k1.sems /\ k9.pcb = [k1.pcb EXCEPT ![p] = n]
      /\ n.state # "UNUSED"
      /\ k9.current = c \/ (c = IdlePid /\ k9.current = p)
  BY <1>5, <1>7 DEF Born
<1>10. k9.pcb[p] = n /\ \A x \in Pid \ {p} : k9.pcb[x] = k1.pcb[x]
  BY <1>2, <1>5, <1>9
<1>11. /\ \A r \in QueueName, x \in Pid \ {p} : InQueue(k9, r, x) <=> InQueue(k1, r, x)
       /\ \A r \in QueueName : InQueue(k9, r, p) => r = q
       /\ fg /\ prio # IDLE_PRIORITY => InQueue(k9, "ready", p)
  <2>1. /\ Sound(k1, k9, lost)
        /\ \A r \in QueueName, x \in Pid \ {k1.nextPid} : InQueue(k9, r, x) <=> InQueue(k1, r, x)
        /\ \A r \in QueueName : InQueue(k9, r, k1.nextPid) => r = q
        /\ InQueue(k9, q, k1.nextPid) \/ n.priority = IDLE_PRIORITY
    BY <1>1, <1>5, <1>7, BirthFact
  <2>2. QED
    BY <1>5, <1>7, <2>1
<1>12. \A x \in Pid, r \in QueueName : InQueue(k1, r, x) <=> InQueue(k0, r, x)
  BY <1>4 DEF InQueue
<1>13. k9.cpu = k0.cpu /\ k9.first = k0.first
  BY <1>1, <1>4 DEF SameCpu
<1>14. \A x \in Pid \ {p} : SameKin(k0, k9, x) /\ k9.pcb[x].rsp = k0.pcb[x].rsp
  BY <1>4, <1>10 DEF SameKin, SameCpu
<1>15. \A x \in Pid \ {p, c} : SameCounts(k0, k9, x)
  BY <1>4, <1>10 DEF SameCounts
<1>16. IF fg /\ c > 0 THEN CountedIn(k0, k9, c) ELSE k9.sems = k0.sems /\ SameCounts(k0, k9, c)
  <2>1. k9.pcb[c] = k1.pcb[c]
    BY <1>2, <1>3, <1>10
  <2>2. CASE fg /\ c > 0
    BY <1>4, <1>9, <2>1, <2>2 DEF CountedIn, SameCounts
  <2>3. CASE ~(fg /\ c > 0)
    BY <1>4, <1>9, <2>1, <2>3 DEF SameCounts
  <2>4. QED
    BY <2>2, <2>3
<1>17. QED
  BY <1>2, <1>8, <1>9, <1>10, <1>11, <1>12, <1>13, <1>14, <1>15, <1>16 DEF Created

\* What it writes without memory for the queue node.
LEMMA NoNodeEffect ==
  ASSUME NEW lost, NEW k0, WF(k0, lost), CurOK(k0, lost), k0.nextPid <= MaxPid,
         NEW prio \in Nat, NEW fg \in BOOLEAN, NEW tty \in BOOLEAN,
         NEW k9, k9 = CreateProcessNoNode(k0, prio, fg, tty)
  PROVE  Created(k0, k9, fg)
<1> DEFINE kc == CreateProcess(k0, prio, fg, tty)
<1>1. kc \in KernelState /\ Created(k0, kc, fg)
  BY CreateBorn, CreateEffect
<1>2. k9 = [kc EXCEPT !.queue = k0.queue]
  BY DEF CreateProcessNoNode
<1> HIDE DEF kc
<1>3. /\ k9.nextPid = kc.nextPid /\ k9.cpu = kc.cpu /\ k9.first = kc.first
      /\ k9.current = kc.current /\ k9.pcb = kc.pcb /\ k9.sems = kc.sems
      /\ k9.queue = k0.queue
  BY <1>1, <1>2 DEF KernelState
<1>4. \A q, x : InQueue(k9, q, x) <=> InQueue(k0, q, x)
  BY <1>3 DEF InQueue
<1>5. \A q \in QueueName : ~InQueue(k9, q, k0.nextPid)
  BY <1>4, FreshFact
<1>6. \A x : (SameKin(k0, k9, x) <=> SameKin(k0, kc, x)) /\ (SameCounts(k0, k9, x) <=> SameCounts(k0, kc, x))
  BY <1>3 DEF SameKin, SameCounts
<1>7. \A x \in Pid : CountedIn(k0, k9, x) <=> CountedIn(k0, kc, x)
  BY <1>3, <1>6 DEF CountedIn
<1>8. k0.current \in Pid
  BY DEF WF, KernelState
<1>9. QED
  BY <1>1, <1>3, <1>4, <1>5, <1>6, <1>7, <1>8 DEF Created

\* A semaphore that semInit has just made.
NewSem(v) == [value |-> v, used |-> TRUE, blocked |-> << >>]

\* semInit of a free entry.
LEMMA SemInitEffect ==
  ASSUME NEW lost, NEW k0, WF(k0, lost), NEW s \in SemId, NEW v \in Nat, ~k0.sems[s].used,
         NEW k1, k1 = SemInit(k0, s, v)
  PROVE  /\ Steps(k0, k1, lost) /\ SameFields(k0, k1) /\ SameCpu(k0, k1)
         /\ k1.sems[s] = NewSem(v) /\ \A t \in SemId \ {s} : k1.sems[t] = k0.sems[t]
         /\ \A q \in QueueName, x \in Pid : InQueue(k1, q, x) <=> InQueue(k0, q, x)
<1>1. Steps(k0, k1, lost)
  BY SemEntryFact
<1>2. k1 = SetSem(k0, s, NewSem(v))
  BY DEF SemInit, SetSem, NewSem
<1>3. NewSem(v) \in Sem
  <2>1. << >> \in Seq(Pid)
    OBVIOUS
  <2>2. QED
    BY <2>1 DEF NewSem, Sem
<1>4. SameFields(k0, k1) /\ SameCpu(k0, k1) /\ k1.sems = [k0.sems EXCEPT ![s] = NewSem(v)]
  BY <1>2, <1>3, SetSemEffect
<1>5. /\ WF(k1, lost) /\ Keeps(k0, k1, lost)
      /\ k1.sems[s] = NewSem(v) /\ \A t \in SemId \ {s} : k1.sems[t] = k0.sems[t]
      /\ k1.pcb = k0.pcb /\ k1.nextPid = k0.nextPid /\ k1.current = k0.current
      /\ k1.currentPid = k0.currentPid
      /\ \A q \in QueueName, x \in Pid : InQueue(k1, q, x) <=> InQueue(k0, q, x)
  BY <1>2, <1>3, SemsWriteFact
<1>6. QED
  BY <1>1, <1>4, <1>5

\* schedule() does not choose idle when somebody is ready.
LEMMA SwitchNotIdle ==
  ASSUME NEW lost, NEW k0, WF(k0, lost), NEW x \in Pid, InQueue(k0, "ready", x), NEW k9, k9 = SwitchContext(k0)
  PROVE  k9.current # IdlePid
<1> DEFINE c == k0.current
           st == IF k0.pcb[c].state = "RUNNING" THEN "READY" ELSE k0.pcb[c].state
           r == IF k0.first THEN k0.pcb[c].rsp ELSE k0.cpu
           k1 == [k0 EXCEPT !.pcb = [k0.pcb EXCEPT ![c].rsp = r, ![c].state = st]]
           k2 == GetNextProcess(k1)
           s == k0.queue["ready"]
<1>1. k0 \in KernelState /\ s \in Seq(Pid) /\ k0.pcb \in [Pid -> Pcb] /\ c \in Pid
  BY PidFact DEF WF, KernelState
<1>2. k1.queue = k0.queue
  BY <1>1 DEF KernelState
<1>3. k1 = [k0 EXCEPT !.pcb[k0.current].rsp = IF k0.first THEN @ ELSE k0.cpu,
                      !.pcb[k0.current].state = IF @ = "RUNNING" THEN "READY" ELSE @]
  BY <1>1 DEF KernelState, Pcb
<1>4. k1 \in [queue : {k0.queue}, current : {k0.current}, foreground : {k0.foreground},
              currentPid : {k0.currentPid}, nextPid : {k0.nextPid}, quantum : {k0.quantum},
              first : {k0.first}, cpu : {k0.cpu}, pcb : {k1.pcb}, sems : {k0.sems}]
  BY <1>1 DEF KernelState
<1> HIDE DEF k1
<1>5. s # << >> /\ Head(s) \in Pid /\ In(s, Head(s))
  <2>1. s # << >>
    BY DEF InQueue
  <2>2. NoDup(s)
    BY PidFact DEF WF, Queues
  <2>3. QED
    BY <1>1, <2>1, <2>2, RotateFact
<1>6. Head(s) # IdlePid
  BY <1>5, PidFact, InQueueIsIn DEF WF, Queues
<1>7. k2.current = Head(s)
  BY <1>2, <1>4, <1>5 DEF GetNextProcess
<1>8. k9.current = k2.current
  <2>1. k2 = [k2 EXCEPT !.current = k2.current]
    BY <1>4 DEF GetNextProcess
  <2> HIDE DEF k2
  <2>2. k9 = [k2 EXCEPT !.pcb[k2.current].state = "RUNNING",
                        !.first        = FALSE,
                        !.currentPid   = k2.current,
                        !.quantum      = CalculateQuantum(k2.pcb[k2.current].priority),
                        !.cpu          = k2.pcb[k2.current].rsp]
    BY <1>3 DEF SwitchContext, k2
  <2>3. QED
    BY <2>1, <2>2
<1>9. QED
  BY <1>6, <1>7, <1>8

\* waitpid records whom it waits for and gives the CPU away; idle and a process
\* that no queue holds only lose their record.
LEMMA WaitpidBlockEffect ==
  ASSUME NEW lost, NEW k0, WF(k0, lost), CurOK(k0, lost), NEW p \in Pid, NEW k9, k9 = WaitpidBlock(k0, p),
         NEW c, c = k0.current
  PROVE  /\ k9.sems = k0.sems /\ k9.nextPid = k0.nextPid
         /\ \A x \in Pid : /\ k9.pcb[x].parentPid = k0.pcb[x].parentPid
                           /\ k9.pcb[x].foreground = k0.pcb[x].foreground
                           /\ SameCounts(k0, k9, x)
                           /\ x # IdlePid => (k9.pcb[x].state = "UNUSED" <=> k0.pcb[x].state = "UNUSED")
                           /\ InQueue(k9, "blockedBySem", x) <=> InQueue(k0, "blockedBySem", x)
         /\ \A x \in Pid \ {c} : k9.pcb[x].waitingForPid = k0.pcb[x].waitingForPid
         /\ CanBlock(k0, c) => /\ Switched(k0, k9) /\ c # IdlePid
                               /\ k9.pcb[c].waitingForPid = p
         /\ ~CanBlock(k0, c) => /\ c = IdlePid \/ c \in lost
                                /\ SameCpu(k0, k9)
                                /\ k9.pcb[c].waitingForPid = NoPid
<1>1. /\ c \in Pid /\ k0 \in KernelState /\ k0.pcb \in [Pid -> Pcb]
      /\ k0.queue \in [QueueName -> Seq(Pid)] /\ Queues(k0) /\ k0.pcb[c] \in Pcb
  BY DEF WF, KernelState
<1>2. CASE CanBlock(k0, c)
  <2> DEFINE kw == SetWaiting(k0, c, p)
  <2>1. kw = SetWaiting(k0, c, p)
    OBVIOUS
  <2>2. /\ kw.cpu = k0.cpu /\ kw.first = k0.first /\ kw.sems = k0.sems /\ kw.nextPid = k0.nextPid
    BY <1>1 DEF SetWaiting, KernelState
  <2> HIDE DEF kw
  <2>3. /\ WaitpidBlock(k0, p) = BlockProcess(kw, c) /\ CanBlock(kw, c)
        /\ Steps(k0, kw, lost) /\ kw.queue = k0.queue /\ kw.current = c
        /\ kw.pcb = [k0.pcb EXCEPT ![c].waitingForPid = p]
    BY <1>2, <2>1, WaitpidShape
  <2>4. WF(kw, lost)
    BY <2>3 DEF Steps, Keeps
  <2>5. /\ Dispatched(kw, k9) /\ Switched(kw, k9)
        /\ \A x \in Pid : InQueue(k9, "blockedBySem", x) <=> InQueue(kw, "blockedBySem", x)
    BY <1>1, <2>3, <2>4, BlockEffect
  <2>6. k9.sems = kw.sems /\ k9.nextPid = kw.nextPid
    BY <1>1, <2>3, <2>4, BlockFact DEF Quiet
  <2>7. /\ \A x \in Pid \ {c} : kw.pcb[x] = k0.pcb[x]
        /\ kw.pcb[c].waitingForPid = p
        /\ kw.pcb[c].parentPid = k0.pcb[c].parentPid /\ kw.pcb[c].foreground = k0.pcb[c].foreground
        /\ kw.pcb[c].state = k0.pcb[c].state /\ kw.pcb[c].rsp = k0.pcb[c].rsp
        /\ SameCounts(k0, kw, c)
    BY <1>1, <2>3 DEF Pcb, SameCounts
  <2>8. Switched(k0, k9)
    BY <2>2, <2>3, <2>5, <2>7 DEF Switched
  <2>9. SameFields(kw, k9)
    BY <2>5 DEF Dispatched
  <2>10. \A x \in Pid : InQueue(k9, "blockedBySem", x) <=> InQueue(k0, "blockedBySem", x)
    BY <2>3, <2>5 DEF InQueue
  <2>11. c # IdlePid
    BY <1>1, <1>2, PidFact DEF CanBlock, Queues
  <2>12. ASSUME NEW x \in Pid
         PROVE  /\ k9.pcb[x].parentPid = k0.pcb[x].parentPid
                /\ k9.pcb[x].foreground = k0.pcb[x].foreground
                /\ SameCounts(k0, k9, x)
                /\ x # IdlePid => (k9.pcb[x].state = "UNUSED" <=> k0.pcb[x].state = "UNUSED")
                /\ k9.pcb[x].waitingForPid = kw.pcb[x].waitingForPid
    <3>1. SameKin(kw, k9, x) /\ SameCounts(kw, k9, x)
      BY <2>9 DEF SameFields
    <3>2. CASE x = c
      BY <2>7, <3>1, <3>2 DEF SameKin, SameCounts
    <3>3. CASE x # c
      BY <2>7, <3>1, <3>3 DEF SameKin, SameCounts
    <3>4. QED
      BY <3>2, <3>3
  <2>13. QED
    BY <1>1, <1>2, <2>2, <2>6, <2>7, <2>8, <2>10, <2>11, <2>12
<1>3. CASE ~CanBlock(k0, c)
  <2> DEFINE P == [k0.pcb EXCEPT ![c].waitingForPid = NoPid, ![c].state = "READY"]
  <2>1. c = IdlePid \/ (c \in lost /\ k0.pcb[c].state \in {"READY", "RUNNING"})
    <3>1. InQueue(k0, "ready", c) => ~InQueue(k0, "blockedBySem", c)
      BY <1>1, PidFact DEF Queues
    <3>2. QED
      BY <1>3, <3>1 DEF CanBlock, CurOK
  <2>2. k9 = [k0 EXCEPT !.pcb = P]
    BY <1>1, <1>3 DEF WaitpidBlock, KernelState
  <2>3. /\ \A x \in Pid \ {c} : P[x] = k0.pcb[x]
        /\ P[c].waitingForPid = NoPid
        /\ P[c].parentPid = k0.pcb[c].parentPid /\ P[c].foreground = k0.pcb[c].foreground
        /\ P[c].rsp = k0.pcb[c].rsp
        /\ P[c].children_sem = k0.pcb[c].children_sem
        /\ P[c].children_count = k0.pcb[c].children_count
        /\ P[c].state = "READY"
    BY <1>1 DEF Pcb
  <2> HIDE DEF P
  <2>4. /\ k9.pcb = P /\ k9.queue = k0.queue /\ k9.nextPid = k0.nextPid /\ k9.sems = k0.sems
        /\ k9.cpu = k0.cpu /\ k9.first = k0.first /\ k9.current = k0.current
    BY <1>1, <2>2 DEF KernelState
  <2>5. SameCpu(k0, k9)
    BY <2>3, <2>4 DEF SameCpu
  <2>6. \A x \in Pid : InQueue(k9, "blockedBySem", x) <=> InQueue(k0, "blockedBySem", x)
    BY <2>4 DEF InQueue
  <2>7. QED
    BY <1>3, <2>1, <2>3, <2>4, <2>5, <2>6 DEF SameCounts
<1>4. QED
  BY <1>2, <1>3

\* changePrio writes one priority.
LEMMA ChangePrioEffect ==
  ASSUME NEW lost, NEW k0, WF(k0, lost), NEW p \in Pid, NEW prio \in Nat, NEW k1, k1 = ChangePrio(k0, p, prio)
  PROVE  /\ SameFields(k0, k1) /\ SameCpu(k0, k1) /\ k1.sems = k0.sems /\ k1.nextPid = k0.nextPid
         /\ k1.queue = k0.queue
<1>1. k0 \in KernelState /\ k0.pcb \in [Pid -> Pcb] /\ k0.pcb[p] \in Pcb
  BY DEF WF, KernelState
<1>2. CASE k1 = k0
  BY <1>2 DEF SameFields, SameKin, SameCounts, SameCpu
<1>3. ASSUME NEW n, k1 = [k0 EXCEPT !.pcb[p].priority = n]
      PROVE  /\ SameFields(k0, k1) /\ SameCpu(k0, k1) /\ k1.sems = k0.sems
             /\ k1.nextPid = k0.nextPid /\ k1.queue = k0.queue
  <2> DEFINE P == [k0.pcb EXCEPT ![p].priority = n]
  <2>1. k1 = [k0 EXCEPT !.pcb = P]
    BY <1>1, <1>3 DEF KernelState
  <2>2. /\ \A x \in Pid \ {p} : P[x] = k0.pcb[x]
        /\ P[p].waitingForPid = k0.pcb[p].waitingForPid
        /\ P[p].parentPid = k0.pcb[p].parentPid /\ P[p].foreground = k0.pcb[p].foreground
        /\ P[p].rsp = k0.pcb[p].rsp /\ P[p].state = k0.pcb[p].state
        /\ P[p].children_sem = k0.pcb[p].children_sem
        /\ P[p].children_count = k0.pcb[p].children_count
    BY <1>1 DEF Pcb
  <2> HIDE DEF P
  <2>3. /\ k1.pcb = P /\ k1.queue = k0.queue /\ k1.nextPid = k0.nextPid /\ k1.sems = k0.sems
        /\ k1.cpu = k0.cpu /\ k1.first = k0.first /\ k1.current = k0.current
    BY <1>1, <2>1 DEF KernelState
  <2>4. QED
    BY <2>2, <2>3 DEF SameFields, SameKin, SameCounts, SameCpu
<1>4. QED
  BY <1>2, <1>3 DEF ChangePrio

\* What follows a change of nextPid or of the semaphores alone.
LEMMA EntryEffect ==
  ASSUME NEW lost, NEW k0, WF(k0, lost), NEW s \in SemId, NEW v \in Nat,
         NEW k1, k1 = SemInit(k0, s, v) \/ k1 = SemClose(k0, s)
  PROVE  /\ SameFields(k0, k1) /\ SameCpu(k0, k1) /\ k1.nextPid = k0.nextPid
         /\ k1.queue = k0.queue /\ k1.pcb = k0.pcb
         /\ \A t \in SemId \ {s} : k1.sems[t] = k0.sems[t]
<1>1. k0 \in KernelState /\ k0.sems \in [SemId -> Sem]
  BY DEF WF, KernelState
<1>2. CASE k1 = k0
  BY <1>2 DEF SameFields, SameKin, SameCounts, SameCpu
<1>3. ASSUME NEW e, k1 = [k0 EXCEPT !.sems[s] = e]
      PROVE  /\ SameFields(k0, k1) /\ SameCpu(k0, k1) /\ k1.nextPid = k0.nextPid
             /\ k1.queue = k0.queue /\ k1.pcb = k0.pcb
             /\ \A t \in SemId \ {s} : k1.sems[t] = k0.sems[t]
  <2>1. /\ k1.pcb = k0.pcb /\ k1.queue = k0.queue /\ k1.nextPid = k0.nextPid
        /\ k1.cpu = k0.cpu /\ k1.first = k0.first /\ k1.current = k0.current
        /\ \A t \in SemId \ {s} : k1.sems[t] = k0.sems[t]
    BY <1>1, <1>3 DEF KernelState
  <2>2. QED
    BY <2>1 DEF SameFields, SameKin, SameCounts, SameCpu
<1>4. QED
  BY <1>2, <1>3 DEF SemInit, SemClose

-----------------------------------------------------------------------------
(* Stacks.                                                                  *)

Exists(k0, x) == k0.pcb[x].state # "UNUSED"

\* A process that exists runs on its own stack, and nobody else does: other
\* stacks in use are those of the dead, of idle and of main().  A process that
\* no queue holds never gets the CPU.
OwnStack(k0, lost) ==
  /\ k0.first => k0.cpu = BootCtx
  /\ k0.cpu \notin lost
  /\ k0.cpu \in Pid \ {IdlePid} =>
       k0.cpu < k0.nextPid /\ (Exists(k0, k0.cpu) => k0.current = k0.cpu)
  /\ \A x \in Pid : k0.pcb[x].rsp \in Pid \ {IdlePid} =>
       k0.pcb[x].rsp < k0.nextPid /\ (Exists(k0, k0.pcb[x].rsp) => k0.pcb[x].rsp = x)

\* Before the first switch nobody runs on the stack that was built for him.
LEMMA BootOwn ==
  ASSUME NEW k0, k0 = BootKernel
  PROVE  OwnStack(k0, {})
<1>1. /\ k0.first = TRUE /\ k0.cpu = BootCtx /\ BootCtx \notin Pid
      /\ \A p \in Pid : /\ p < k0.nextPid => k0.pcb[p].rsp = p
                        /\ p >= k0.nextPid => k0.pcb[p] = FreePcb
  <2>1. BootCtx \notin Pid
    BY MaxPidAssumption DEF BootCtx, Pid
  <2>2. QED
    BY <2>1, BootFact
<1>2. ASSUME NEW x \in Pid, k0.pcb[x].rsp \in Pid PROVE k0.pcb[x].rsp < k0.nextPid /\ k0.pcb[x].rsp = x
  <2>1. x < k0.nextPid
    <3>1. WF(k0, {})
      BY BootFact
    <3>2. k0.nextPid \in Nat /\ x \in Int
      BY <3>1 DEF WF, KernelState, Pid
    <3>3. ~(x >= k0.nextPid)
      BY <1>1, <1>2 DEF FreePcb
    <3>4. QED
      BY <3>2, <3>3
  <2>2. QED
    BY <1>1, <2>1
<1>3. QED
  BY <1>1, <1>2 DEF OwnStack

\* Giving the CPU away, or not, while nobody is born.
LEMMA StackOwn ==
  ASSUME NEW lost, NEW k0, WF(k0, lost), OwnStack(k0, lost), NEW k1, WF(k1, lost), k1.nextPid = k0.nextPid,
         SameCpu(k0, k1) \/ Switched(k0, k1),
         \A x \in Pid \ {IdlePid} : Exists(k1, x) => Exists(k0, x)
  PROVE  OwnStack(k1, lost)
<1>1. k0.current \in Pid /\ k1.current \in Pid
  BY DEF WF, KernelState
<1>2. CASE SameCpu(k0, k1)
  BY <1>2 DEF OwnStack, SameCpu
<1>3. CASE Switched(k0, k1)
  <2>0. k1.cpu \notin lost
    <3>1. k1.current \notin lost
      BY <1>1, <1>3, LostFact, PidFact DEF Switched
    <3>2. ASSUME k1.cpu \in lost PROVE FALSE
      <4>1. k1.cpu \in Pid \ {IdlePid} /\ Exists(k1, k1.cpu) /\ k1.cpu = k1.pcb[k1.current].rsp
        BY <1>3, <3>2, LostFact DEF Switched, Exists
      <4>2. k1.cpu = k1.current
        BY <1>1, <1>3, <4>1 DEF OwnStack, Switched
      <4>3. QED
        BY <3>1, <3>2, <4>2
    <3>3. QED
      BY <3>2
  <2>1. \A x \in Pid : k1.pcb[x].rsp \in Pid \ {IdlePid} =>
          k1.pcb[x].rsp < k1.nextPid /\ (Exists(k1, k1.pcb[x].rsp) => k1.pcb[x].rsp = x)
    BY <1>3 DEF OwnStack, Switched
  <2>2. QED
    BY <1>1, <1>3, <2>0, <2>1 DEF OwnStack, Switched
<1>4. QED
  BY <1>2, <1>3

LEMMA DispatchOwn ==
  ASSUME NEW lost, NEW k0, WF(k0, lost), OwnStack(k0, lost), NEW k1, WF(k1, lost), k1.nextPid = k0.nextPid, Dispatched(k0, k1)
  PROVE  OwnStack(k1, lost)
<1>1. \A x \in Pid \ {IdlePid} : Exists(k1, x) => Exists(k0, x)
  BY DEF Dispatched, SameFields, SameKin, Exists
<1>2. QED
  BY <1>1, StackOwn DEF Dispatched

\* A death.
LEMMA KillOwn ==
  ASSUME NEW lost, NEW k0, WF(k0, lost), OwnStack(k0, lost), NEW k1, WF(k1, lost), NEW p \in Pid, p # IdlePid,
         Killed(k0, k1, p), KillCpu(k0, k1, p)
  PROVE  OwnStack(k1, lost)
<1>1. /\ \A x \in Pid \ {IdlePid} : Exists(k1, x) => Exists(k0, x) /\ x # p
      /\ k1.nextPid = k0.nextPid /\ ~Exists(k1, p)
      /\ k1.current # p
  BY DEF Killed, SameKin, Exists
<1>2. k0.current \in Pid /\ k1.current \in Pid /\ BootCtx \notin Pid
  BY DEF WF, KernelState, BootCtx, Pid
<1> DEFINE cur == IF k0.current = p THEN IdlePid ELSE k0.current
<1>3. k1.pcb[p].rsp = BootCtx
  BY DEF KillCpu
<1>4. CASE /\ k1.cpu = k0.cpu /\ k1.first = k0.first /\ k1.current = cur
           /\ \A x \in Pid \ {p} : k1.pcb[x].rsp = k0.pcb[x].rsp
  BY <1>1, <1>2, <1>3, <1>4 DEF OwnStack
<1>5. CASE /\ k1.first = FALSE
           /\ \A x \in Pid \ {p} :
                k1.pcb[x].rsp = IF x = cur /\ ~k0.first THEN k0.cpu ELSE k0.pcb[x].rsp
           /\ k1.cpu = k1.pcb[k1.current].rsp
           /\ k1.current = IdlePid \/ InQueue(k1, "ready", k1.current)
  <2>0. k1.cpu \notin lost
    <3>1. k1.current \notin lost
      BY <1>2, <1>5, LostFact, PidFact
    <3>2. ASSUME k1.cpu \in lost PROVE FALSE
      <4>1. k1.cpu \in Pid \ {IdlePid} /\ Exists(k1, k1.cpu)
        BY <3>2, LostFact DEF Exists
      <4>2. k1.cpu = k1.current
        BY <1>1, <1>2, <1>3, <1>5, <4>1 DEF OwnStack
      <4>3. QED
        BY <3>1, <3>2, <4>2
    <3>3. QED
      BY <3>2
  <2>1. \A x \in Pid : k1.pcb[x].rsp \in Pid \ {IdlePid} =>
          k1.pcb[x].rsp < k1.nextPid /\ (Exists(k1, k1.pcb[x].rsp) => k1.pcb[x].rsp = x)
    BY <1>1, <1>2, <1>3, <1>5 DEF OwnStack
  <2>2. QED
    BY <1>2, <1>5, <2>0, <2>1 DEF OwnStack
<1>6. QED
  BY <1>4, <1>5 DEF KillCpu

\* Idle becomes current for a process that no queue holds.
LEMMA UncurrentOwn ==
  ASSUME NEW lost, NEW k0, WF(k0, lost), OwnStack(k0, lost), k0.current \in lost,
         NEW k1, k1 = [k0 EXCEPT !.current = IdlePid]
  PROVE  OwnStack(k1, lost)
<1>1. /\ k1.pcb = k0.pcb /\ k1.cpu = k0.cpu /\ k1.first = k0.first
      /\ k1.nextPid = k0.nextPid /\ k1.current = IdlePid
  BY DEF WF, KernelState
<1>2. k0.cpu \in Pid \ {IdlePid} => k0.cpu # k0.current
  BY DEF OwnStack
<1>3. QED
  BY <1>1, <1>2 DEF OwnStack, Exists

\* A birth.
LEMMA CreateOwn ==
  ASSUME NEW lost, NEW k0, WF(k0, lost), OwnStack(k0, lost), k0.nextPid <= MaxPid,
         NEW left, left \subseteq lost \cup {k0.nextPid}, NEW k1, WF(k1, left),
         NEW fg \in BOOLEAN, Created(k0, k1, fg)
  PROVE  OwnStack(k1, left)
<1> DEFINE p == k0.nextPid
<1>1. p \in Pid /\ p # IdlePid /\ p \in Nat /\ ~Exists(k0, p)
  BY DEF WF, KernelState, Fresh, Pid, ShellPid, IdlePid, Exists
<1>2. /\ k1.nextPid = p + 1 /\ k1.cpu = k0.cpu /\ k1.first = k0.first
      /\ k1.current = k0.current \/ k0.current = IdlePid
      /\ k1.pcb[p].rsp = p
      /\ \A x \in Pid \ {p} : /\ k1.pcb[x].rsp = k0.pcb[x].rsp
                              /\ x # IdlePid => (Exists(k1, x) <=> Exists(k0, x))
  BY DEF Created, SameKin, Exists
<1> HIDE DEF p
<1>3. p = k0.nextPid
  BY DEF p
<1>4. \A x \in Pid : x < k0.nextPid => x < k1.nextPid /\ x # p
  BY <1>1, <1>2, <1>3 DEF Pid
<1>5. k1.cpu \in Pid \ {IdlePid} =>
        k1.cpu < k1.nextPid /\ (Exists(k1, k1.cpu) => k1.current = k1.cpu)
  BY <1>1, <1>2, <1>4 DEF OwnStack
<1>5a. k1.cpu \notin left
  <2>1. k1.cpu = p => p < p
    BY <1>1, <1>2, <1>3 DEF OwnStack
  <2>2. k1.cpu # p
    BY <1>1, <2>1
  <2>3. QED
    BY <1>2, <1>3, <2>2 DEF OwnStack
<1>6. ASSUME NEW x \in Pid, k1.pcb[x].rsp \in Pid \ {IdlePid}
      PROVE  k1.pcb[x].rsp < k1.nextPid /\ (Exists(k1, k1.pcb[x].rsp) => k1.pcb[x].rsp = x)
  <2>1. CASE x = p
    <3>1. p < k1.nextPid
      BY <1>1, <1>2, <1>3
    <3>2. QED
      BY <1>2, <2>1, <3>1
  <2>2. CASE x # p
    BY <1>2, <1>4, <1>6, <2>2 DEF OwnStack
  <2>3. QED
    BY <2>1, <2>2
<1>7. QED
  BY <1>2, <1>5, <1>5a, <1>6 DEF OwnStack

-----------------------------------------------------------------------------
(* Who is in which queue, and the priorities.                               *)

SameQueues(k0, k1) == \A q \in QueueName, x \in Pid : InQueue(k1, q, x) <=> InQueue(k0, q, x)

\* Process p goes to the queue to, the others stay where they are.
OneMoves(k0, k1, p, to) ==
  \A q \in QueueName, x \in Pid : InQueue(k1, q, x) <=> IF x = p THEN q = to ELSE InQueue(k0, q, x)

\* blockProcess takes a process from ready to blocked, or does nothing.
LEMMA BlockQueues ==
  ASSUME NEW lost, NEW k0, WF(k0, lost), NEW p \in Pid, NEW k1, k1 = BlockProcess(k0, p)
  PROVE  /\ SamePrio(k0, k1)
         /\ IF CanBlock(k0, p) THEN OneMoves(k0, k1, p, "blocked") ELSE k1 = k0
<1> DEFINE kb == BlockProcessQueue(k0, p)
<1>1. CASE ~CanBlock(k0, p)
  BY <1>1 DEF BlockProcess, BlockProcessQueue, SamePrio
<1>2. CASE CanBlock(k0, p)
  <2>1. /\ InQueue(k0, "ready", p)
        /\ kb = SetState(SwitchProcessFromQueues(k0, "ready", "blocked", p), p, "BLOCKED")
    BY <1>2 DEF CanBlock, BlockProcessQueue
  <2>2. k1 = IF p = kb.current THEN Yield(kb) ELSE kb
    BY <1>2 DEF BlockProcess
  <2> HIDE DEF kb
  <2>3. /\ WF(kb, lost) /\ kb.pcb = [k0.pcb EXCEPT ![p].state = "BLOCKED"]
        /\ OneMoves(k0, kb, p, "blocked")
    BY <2>1, MoveFact, NameFact DEF OneMoves
  <2>4. SamePrio(k0, kb)
    BY <2>3 DEF WF, KernelState, Pcb, SamePrio
  <2>5. SamePrio(kb, Yield(kb)) /\ SameQueues(kb, Yield(kb))
    BY <2>3, ScheduleEffect, ScheduleFact DEF SameQueues
  <2>6. OneMoves(k0, Yield(kb), p, "blocked") /\ SamePrio(k0, Yield(kb))
    BY <2>3, <2>4, <2>5 DEF OneMoves, SameQueues, SamePrio
  <2>7. QED
    BY <1>2, <2>2, <2>3, <2>4, <2>6
<1>3. QED
  BY <1>1, <1>2

\* unblockProcess takes a process from blocked to ready, or does nothing.
LEMMA UnblockQueues ==
  ASSUME NEW lost, NEW k0, WF(k0, lost), NEW p \in Pid, NEW k1, k1 = UnblockProcess(k0, p)
  PROVE  /\ SamePrio(k0, k1)
         /\ IF InQueue(k0, "blocked", p) THEN OneMoves(k0, k1, p, "ready") ELSE k1 = k0
<1>1. CASE ~InQueue(k0, "blocked", p)
  BY <1>1 DEF UnblockProcess, UnblockProcessQueue, SamePrio
<1>2. CASE InQueue(k0, "blocked", p)
  <2>1. k1 = SetState(SwitchProcessFromQueues(k0, "blocked", "ready", p), p, "READY")
    BY <1>2 DEF UnblockProcess, UnblockProcessQueue
  <2>2. /\ WF(k1, lost) /\ k1.pcb = [k0.pcb EXCEPT ![p].state = "READY"]
        /\ OneMoves(k0, k1, p, "ready")
    BY <1>2, <2>1, MoveFact, NameFact DEF OneMoves
  <2>3. SamePrio(k0, k1)
    BY <2>2 DEF WF, KernelState, Pcb, SamePrio
  <2>4. QED
    BY <1>2, <2>2, <2>3
<1>3. QED
  BY <1>1, <1>2

\* A process that waits leaves the ready queue for blocked.
LEMMA WaitpidQueues ==
  ASSUME NEW lost, NEW k0, WF(k0, lost), NEW p \in Pid, NEW c, c = k0.current, CanBlock(k0, c),
         NEW k1, k1 = WaitpidBlock(k0, p)
  PROVE  SamePrio(k0, k1) /\ OneMoves(k0, k1, c, "blocked")
<1> DEFINE kw == SetWaiting(k0, c, p)
<1>1. kw = SetWaiting(k0, c, p)
  OBVIOUS
<1> HIDE DEF kw
<1>2. /\ k1 = BlockProcess(kw, c) /\ CanBlock(kw, c)
      /\ Steps(k0, kw, lost) /\ kw.queue = k0.queue /\ kw.current = c
      /\ kw.pcb = [k0.pcb EXCEPT ![c].waitingForPid = p]
  BY <1>1, WaitpidShape
<1>3. WF(kw, lost) /\ c \in Pid /\ k0.pcb \in [Pid -> Pcb]
  BY <1>2 DEF Steps, Keeps, WF, KernelState
<1>4. SamePrio(kw, k1) /\ OneMoves(kw, k1, c, "blocked")
  BY <1>2, <1>3, BlockQueues
<1>5. SamePrio(k0, kw)
  BY <1>2, <1>3 DEF SamePrio, Pcb
<1>6. SameQueues(k0, kw)
  BY <1>2 DEF SameQueues, InQueue
<1>7. QED
  BY <1>4, <1>5, <1>6 DEF SamePrio, SameQueues, OneMoves

\* wakeUpWaitingParent wakes the parent when it sleeps for this child.
Wakes(k0, x, parent, child) ==
  x = parent /\ InQueue(k0, "blocked", x) /\ k0.pcb[x].waitingForPid = child

LEMMA WakeUpQueues ==
  ASSUME NEW lost, NEW k0, WF(k0, lost), NEW parent \in Pid \cup {NoPid}, NEW child,
         NEW k1, k1 = WakeUpWaitingParent(k0, parent, child)
  PROVE  /\ SamePrio(k0, k1)
         /\ \A q \in QueueName, x \in Pid :
              InQueue(k1, q, x) <=> IF Wakes(k0, x, parent, child) THEN q = "ready" ELSE InQueue(k0, q, x)
<1>1. CASE \E x \in Pid : Wakes(k0, x, parent, child)
  <2>1. parent \in Pid /\ InQueue(k0, "blocked", parent) /\ k0.pcb[parent].waitingForPid = child
    BY <1>1 DEF Wakes
  <2>2. HasProcess(k0, parent) /\ k0.pcb[parent].state = "BLOCKED"
    BY <2>1, PidFact DEF HasProcess, WF, States
  <2>3. k1 = UnblockProcess(k0, parent)
    BY <2>1, <2>2 DEF WakeUpWaitingParent
  <2>4. SamePrio(k0, k1) /\ OneMoves(k0, k1, parent, "ready")
    BY <2>1, <2>3, UnblockQueues
  <2>5. \A x \in Pid : Wakes(k0, x, parent, child) <=> x = parent
    BY <2>1 DEF Wakes
  <2>6. QED
    BY <2>4, <2>5 DEF OneMoves
<1>2. CASE \A x \in Pid : ~Wakes(k0, x, parent, child)
  <2>1. k1 = k0
    <3>1. CASE k1 = UnblockProcess(k0, parent) /\ k0.pcb[parent].waitingForPid = child
      <4>1. ~InQueue(k0, "blocked", parent)
        <5>1. CASE parent \in Pid
          BY <1>2, <3>1, <5>1 DEF Wakes
        <5>2. CASE parent \notin Pid
          BY <5>2, PidFact DEF WF, KernelState, InQueue
        <5>3. QED
          BY <5>1, <5>2
      <4>2. QED
        BY <3>1, <4>1 DEF UnblockProcess, UnblockProcessQueue
    <3>2. QED
      BY <3>1 DEF WakeUpWaitingParent
  <2>2. QED
    BY <1>2, <2>1 DEF SamePrio
<1>3. QED
  BY <1>1, <1>2

\* A process in the background dies: its parent stops waiting for it, and
\* nobody else notices.
LEMMA KillQueues ==
  ASSUME NEW lost, NEW k0, WF(k0, lost), CurOK(k0, lost), NEW p \in Pid, p > ShellPid, Killable(k0, p),
         ~k0.pcb[p].foreground, NEW k9, k9 = Kill(k0, p)
  PROVE  /\ \A x \in Pid \ {p} : k9.pcb[x].priority = k0.pcb[x].priority
         /\ \A q \in QueueName \ {"zombie"}, x \in Pid :
              InQueue(k9, q, x) <=>
                /\ x # p
                /\ IF Wakes(k0, x, k0.pcb[p].parentPid, p) THEN q = "ready" ELSE InQueue(k0, q, x)
<1> DEFINE parent == k0.pcb[p].parentPid
           k1 == KillProcess(k0, p)
           kw == WakeUpWaitingParent(k1, parent, p)
           k3 == ReapChild(kw, p)
<1>1. k9 = IF p = k0.currentPid THEN Yield(k3) ELSE k3
  <2>1. ~(p <= ShellPid)
    BY DEF Pid, ShellPid
  <2>2. QED
    BY <2>1 DEF Kill
<1>2. parent \in Pid \cup {NoPid} /\ k0.pcb \in [Pid -> Pcb] /\ p # IdlePid
  <2>1. k0.pcb \in [Pid -> Pcb]
    BY DEF WF, KernelState
  <2>2. k0.pcb[p] \in Pcb
    BY <2>1
  <2>3. parent \in Pid \cup {NoPid}
    BY <2>2 DEF Pcb
  <2>4. p # IdlePid
    BY DEF Pid, ShellPid, IdlePid
  <2>5. QED
    BY <2>1, <2>3, <2>4
<1>3. /\ WF(k1, lost) /\ CurOK(k1, lost)
      /\ \A x \in Pid : InQueue(k1, "zombie", x) <=> InQueue(k0, "zombie", x) \/ x = p
      /\ k1.pcb = [k0.pcb EXCEPT ![p].state = "ZOMBIE"]
      /\ OneMoves(k0, k1, p, "zombie")
  BY KillProcessFact, KillProcessEffect DEF OneMoves
<1> HIDE DEF k1
<1>4. SamePrio(k0, k1) /\ \A x \in Pid : k1.pcb[x].waitingForPid = k0.pcb[x].waitingForPid
  BY <1>2, <1>3 DEF SamePrio, Pcb
<1>5. /\ SamePrio(k1, kw)
      /\ \A q \in QueueName, x \in Pid :
           InQueue(kw, q, x) <=> IF Wakes(k1, x, parent, p) THEN q = "ready" ELSE InQueue(k1, q, x)
      /\ Steps(k1, kw, lost)
  <2>1. WF(k1, lost) /\ kw = WakeUpWaitingParent(k1, parent, p)
    BY <1>3
  <2> HIDE DEF kw, parent
  <2>2. Steps(k1, kw, lost)
    BY <1>2, <2>1, WakeUpFact
  <2>3. QED
    BY <1>2, <2>1, <2>2, WakeUpQueues
<1>6. \A x \in Pid : Wakes(k1, x, parent, p) <=> Wakes(k0, x, parent, p) /\ x # p
  BY <1>3, <1>4, PidFact DEF Wakes, OneMoves
<1> HIDE DEF parent, kw
<1>7. /\ WF(k3, lost) /\ CurOK(k3, lost)
      /\ k3.pcb = [kw.pcb EXCEPT ![p] = FreePcb]
      /\ \A x \in Pid, q \in QueueName \ {"zombie"} : InQueue(k3, q, x) <=> InQueue(kw, q, x)
  <2>1. WF(kw, lost) /\ CurOK(kw, lost) /\ InQueue(kw, "zombie", p)
    BY <1>3, <1>5 DEF Steps, Keeps
  <2>2. QED
    BY <2>1, ReapFact, ReapEffect
<1> HIDE DEF k3
<1>8. \A x \in Pid \ {p} : k3.pcb[x].priority = k0.pcb[x].priority
  <2>1. kw.pcb \in [Pid -> Pcb]
    BY <1>5 DEF Steps, Keeps, WF, KernelState
  <2>2. QED
    BY <1>4, <1>5, <1>7, <2>1 DEF SamePrio
<1>9. \A q \in QueueName \ {"zombie"}, x \in Pid :
        InQueue(k3, q, x) <=> x # p /\ IF Wakes(k0, x, parent, p) THEN q = "ready" ELSE InQueue(k0, q, x)
  BY <1>3, <1>5, <1>6, <1>7 DEF OneMoves
<1>10. SamePrio(k3, Yield(k3)) /\ SameQueues(k3, Yield(k3))
  BY <1>7, ScheduleEffect, ScheduleFact DEF SameQueues
<1>11. QED
  BY <1>1, <1>8, <1>9, <1>10 DEF SamePrio, SameQueues, parent

\* Process p has priority prio, the others keep theirs.
OnePrio(k0, k1, p, prio) ==
  k1.pcb[p].priority = prio /\ \A x \in Pid \ {p} : k1.pcb[x].priority = k0.pcb[x].priority

\* A process born in the background without standard input is ready.
LEMMA CreateQueues ==
  ASSUME NEW lost, NEW k0, WF(k0, lost), CurOK(k0, lost), k0.nextPid <= MaxPid,
         NEW prio \in Nat, prio <= MAX_PRIORITY, NEW k9, k9 = CreateProcess(k0, prio, FALSE, FALSE)
  PROVE  /\ OneMoves(k0, k9, k0.nextPid, "ready")
         /\ OnePrio(k0, k9, k0.nextPid, prio)
<1> DEFINE p == k0.nextPid
           new == NewPcb(p, k0.current, prio, FALSE)
           k2 == [k0 EXCEPT !.nextPid = @ + 1, !.pcb[p] = new]
<1>1. /\ p \in Pid /\ k0.queue \in [QueueName -> Seq(Pid)] /\ k0.pcb \in [Pid -> Pcb]
      /\ \A q \in QueueName : ~InQueue(k0, q, p)
  BY FreshFact DEF WF, KernelState
<1>2. new.priority = prio /\ prio # IDLE_PRIORITY
  BY PriorityAssumption DEF NewPcb, IDLE_PRIORITY
<1>3. k9 = AddProcess(k2, p)
  BY <1>2 DEF CreateProcess
<1> HIDE DEF new
<1>4. k9.queue = [k0.queue EXCEPT !["ready"] = Append(@, p)] /\ k9.pcb = [k0.pcb EXCEPT ![p] = new]
  BY <1>3 DEF WF, KernelState, AddProcess, Enqueue
<1>5. k9.pcb[p].priority = prio /\ \A x \in Pid \ {p} : k9.pcb[x].priority = k0.pcb[x].priority
  BY <1>1, <1>2, <1>4
<1>6. \A x : InQueue(k9, "ready", x) <=> InQueue(k0, "ready", x) \/ x = p
  <2>1. NoDup(k0.queue["ready"]) /\ k0.queue["ready"] \in Seq(Pid) /\ ~In(k0.queue["ready"], p)
    BY <1>1, PidFact, InQueueIsIn DEF WF, Queues
  <2>2. k9.queue["ready"] = Append(k0.queue["ready"], p)
    BY <1>1, <1>4, PidFact
  <2>3. \A x : In(k9.queue["ready"], x) <=> In(k0.queue["ready"], x) \/ x = p
    <3> DEFINE s == k0.queue["ready"]
    <3>1. s \in Seq(Pid) /\ p \in Pid /\ NoDup(s) /\ ~In(s, p)
      BY <1>1, <2>1
    <3> HIDE DEF s, p
    <3>2. \A x : In(Append(s, p), x) <=> In(s, x) \/ x = p
      BY <3>1, AppendFact
    <3>3. QED
      BY <2>2, <3>2 DEF s
  <2>4. \A x : InQueue(k9, "ready", x) <=> In(k9.queue["ready"], x)
    BY InQueueIsIn
  <2>5. \A x : InQueue(k0, "ready", x) <=> In(k0.queue["ready"], x)
    BY InQueueIsIn
  <2>6. QED
    BY <2>3, <2>4, <2>5
<1>7. \A q \in QueueName \ {"ready"} : \A x : InQueue(k9, q, x) <=> InQueue(k0, q, x)
  BY <1>1, <1>4 DEF InQueue
<1>8. ASSUME NEW q \in QueueName, NEW x \in Pid
      PROVE  InQueue(k9, q, x) <=> IF x = p THEN q = "ready" ELSE InQueue(k0, q, x)
  <2>1. CASE q = "ready"
    BY <1>1, <1>6, <2>1
  <2>2. CASE q # "ready"
    BY <1>1, <1>7, <2>2
  <2>3. QED
    BY <2>1, <2>2
<1>9. QED
  BY <1>5, <1>8 DEF OneMoves, OnePrio

\* A death takes no other process out of the queues, and wakes only the parent
\* that waits for it: of a foreground child too, whose parent's semaphore is
\* posted to.
LEMMA KillMoves ==
  ASSUME NEW lost, NEW k0, WF(k0, lost), CurOK(k0, lost), NEW p \in Pid, p > ShellPid, Killable(k0, p),
         NEW k9, k9 = Kill(k0, p)
  PROVE  \A x \in Pid \ {p} :
           /\ Queued(k0, x) => Queued(k9, x)
           /\ InQueue(k0, "blocked", x) /\ ~Wakes(k0, x, k0.pcb[p].parentPid, p)
                => InQueue(k9, "blocked", x)
<1> DEFINE parent == k0.pcb[p].parentPid
           k1 == KillProcess(k0, p)
           counted == /\ parent > 0 /\ k0.pcb[p].foreground
                      /\ HasProcess(k1, parent) /\ k1.pcb[parent].children_sem >= 0
           k2 == IF counted THEN UncountForegroundChild(k1, parent) ELSE k1
           kw == WakeUpWaitingParent(k2, parent, p)
           k3 == ReapChild(kw, p)
<1>1. k9 = IF p = k0.currentPid THEN Yield(k3) ELSE k3
  <2>1. ~(p <= ShellPid)
    BY DEF Pid, ShellPid
  <2> QED
    BY <2>1 DEF Kill
<1>2. /\ parent \in Pid \cup {NoPid} /\ k0.pcb \in [Pid -> Pcb] /\ p # IdlePid
      /\ parent > 0 => parent \in Pid
  <2>1. k0.pcb \in [Pid -> Pcb]
    BY DEF WF, KernelState
  <2>2. k0.pcb[p] \in Pcb
    BY <2>1
  <2>3. parent \in Pid \cup {NoPid}
    BY <2>2 DEF Pcb
  <2> QED
    BY <2>1, <2>3 DEF Pid, ShellPid, IdlePid, NoPid
<1>3. /\ WF(k1, lost) /\ CurOK(k1, lost)
      /\ \A x \in Pid : InQueue(k1, "zombie", x) <=> InQueue(k0, "zombie", x) \/ x = p
      /\ k1.pcb = [k0.pcb EXCEPT ![p].state = "ZOMBIE"]
      /\ OneMoves(k0, k1, p, "zombie")
  BY KillProcessFact, KillProcessEffect DEF OneMoves
<1> HIDE DEF k1
<1>4. \A x \in Pid : k1.pcb[x].waitingForPid = k0.pcb[x].waitingForPid
  BY <1>2, <1>3 DEF Pcb
<1>5. /\ WF(k2, lost) /\ Steps(k1, k2, lost) /\ OnlySleepersMove(k1, k2)
      /\ \A x \in Pid : k2.pcb[x].waitingForPid = k1.pcb[x].waitingForPid
  <2>1. CASE counted
    <3>1. parent \in Pid /\ k1.pcb[parent].children_sem >= 0 /\ k2 = UncountForegroundChild(k1, parent)
      BY <1>2, <2>1
    <3> HIDE DEF k2, parent
    <3>2. WF(k2, lost) /\ Steps(k1, k2, lost)
      BY <1>3, <3>1, UncountChildFact DEF Steps, Keeps
    <3>3. OnlySleepersMove(k1, k2) /\ \A x \in Pid : SameKin(k1, k2, x)
      BY <1>3, <3>1, UncountEffect
    <3> QED
      BY <3>2, <3>3 DEF SameKin
  <2>2. CASE ~counted
    <3>1. k2 = k1 /\ Steps(k1, k1, lost)
      BY <1>3, <2>2, StepsRefl
    <3> QED
      BY <1>3, <3>1 DEF OnlySleepersMove
  <2> QED
    BY <2>1, <2>2
<1> HIDE DEF k2, parent
<1>6. /\ Steps(k2, kw, lost) /\ Steps(k1, kw, lost)
      /\ \A q \in QueueName, x \in Pid :
           InQueue(kw, q, x) <=> IF Wakes(k2, x, parent, p) THEN q = "ready" ELSE InQueue(k2, q, x)
  <2>1. kw = WakeUpWaitingParent(k2, parent, p)
    OBVIOUS
  <2> HIDE DEF kw
  <2>2. Steps(k2, kw, lost)
    BY <1>2, <1>5, <2>1, WakeUpFact
  <2> QED
    BY <1>2, <1>5, <2>1, <2>2, StepsTrans, WakeUpQueues
<1> HIDE DEF kw
<1>7. /\ WF(k3, lost)
      /\ \A x \in Pid, q \in QueueName \ {"zombie"} : InQueue(k3, q, x) <=> InQueue(kw, q, x)
      /\ \A x \in Pid : InQueue(k3, "zombie", x) <=> InQueue(kw, "zombie", x) /\ x # p
  <2>1. WF(kw, lost) /\ CurOK(kw, lost) /\ InQueue(kw, "zombie", p)
    BY <1>3, <1>6 DEF Steps, Keeps
  <2> QED
    BY <2>1, ReapFact, ReapEffect
<1> HIDE DEF k3
<1>8. \A x \in Pid \ {p} :
        /\ Queued(k0, x) => Queued(k3, x)
        /\ InQueue(k0, "blocked", x) /\ ~Wakes(k0, x, parent, p) => InQueue(k3, "blocked", x)
  <2> SUFFICES ASSUME NEW x \in Pid \ {p}
               PROVE  /\ Queued(k0, x) => Queued(k3, x)
                      /\ InQueue(k0, "blocked", x) /\ ~Wakes(k0, x, parent, p) => InQueue(k3, "blocked", x)
    OBVIOUS
  <2>1. \A q \in QueueName : InQueue(k1, q, x) <=> InQueue(k0, q, x)
    BY <1>3 DEF OneMoves
  <2>2. (Queued(k2, x) <=> Queued(k1, x)) /\ (InQueue(k2, "blocked", x) <=> InQueue(k1, "blocked", x))
    BY <1>5 DEF OnlySleepersMove
  <2>3. Wakes(k2, x, parent, p) <=> Wakes(k0, x, parent, p)
    BY <1>4, <1>5, <2>1, <2>2, PidFact DEF Wakes
  <2>4. \A q \in QueueName : InQueue(k3, q, x) <=> InQueue(kw, q, x)
    BY <1>7
  <2>5. ASSUME Queued(k0, x) PROVE Queued(k3, x)
    <3>1. Queued(k2, x)
      BY <2>1, <2>2, <2>5 DEF Queued
    <3>2. Queued(kw, x)
      BY <1>6, <3>1, PidFact DEF Queued
    <3> QED
      BY <2>4, <3>2 DEF Queued
  <2>6. ASSUME InQueue(k0, "blocked", x), ~Wakes(k0, x, parent, p) PROVE InQueue(k3, "blocked", x)
    <3>1. InQueue(k2, "blocked", x) /\ ~Wakes(k2, x, parent, p)
      BY <2>1, <2>2, <2>3, <2>6, PidFact
    <3> QED
      BY <1>6, <2>4, <3>1, PidFact
  <2> QED
    BY <2>5, <2>6
<1>9. SameQueues(k3, Yield(k3))
  BY <1>7, ScheduleFact DEF SameQueues
<1>10. \A x \in Pid : (Queued(k9, x) <=> Queued(k3, x)) /\ (InQueue(k9, "blocked", x) <=> InQueue(k3, "blocked", x))
  BY <1>1, <1>9, PidFact DEF SameQueues, Queued
<1> QED
  BY <1>8, <1>10 DEF parent
=============================================================================
