------------------------------- MODULE Program -------------------------------
(***************************************************************************)
(* User programs on the kernel, one statement at a time.  Process 2 is a   *)
(* program that the shell has started and waits for, its children have the *)
(* pids from 3 on.  Module Tests runs one of several programs; a program   *)
(* keeps its data in d.                                                    *)
(*                                                                         *)
(* pc[p] is the next statement of process p; a process at "resume" is      *)
(* suspended inside waitpid.  The timer may interrupt between any two      *)
(* statements.                                                             *)
(***************************************************************************)
EXTENDS Lifecycle

CONSTANTS
  PAIRS, N,          \* test_sync: TOTAL_PAIR_PROCESSES, iterations
  SEM_ID, UseSem,    \* its semaphore, and the values of its second argument
  max_processes,     \* test_processes
  TOTAL_PROCESSES,   \* test_prio
  max_value,
  MaxWait            \* loop: the longest sleep, in ticks

ASSUME ProgramAssumption ==
  /\ PAIRS \in Nat /\ N \in Nat \ {0} /\ UseSem \subseteq BOOLEAN
  /\ SEM_ID \in SemId \ {0}      \* entry 0 is the shell's own: it counts its children
  /\ MAX_PRIORITY >= 1 /\ TOTAL_PROCESSES <= MAX_PRIORITY + 1
  /\ max_processes \in Nat \ {0}
  /\ TOTAL_PROCESSES \in Nat \ {0} /\ max_value \in Nat \ {0}
  /\ MaxWait \in Nat \ {0}
  /\ MaxPid >= 2 + 2 * PAIRS /\ MaxPid >= 2 + 3 * TOTAL_PROCESSES /\ MaxPid >= 2 + max_processes

VARIABLES program, k, pc, d
vars == <<program, k, pc, d>>

Test == 2

\* The shell has created the program and is blocked in waitpid(2).
Started == WaitpidBlock(CreateProcess(SwitchContext(BootKernel), MIN_PRIORITY, TRUE, FALSE), Test)

\* The kernel, and the statements the processes start with.
Boot(first, child) ==
  /\ k = Started
  /\ pc = [p \in Pid |-> IF p = Test THEN first
                         ELSE IF p = ShellPid THEN "resume"
                         ELSE IF p = IdlePid THEN "halt" ELSE child]

At(p, place)   == k.cpu = p /\ pc[p] = place
Goto(p, place) == pc' = [pc EXCEPT ![p] = place]

\* The end of a process (wrapper, or syscall_exit).
Exit(p) ==
  /\ At(p, "exit")
  /\ k' = Kill(k, k.current)
  /\ Goto(p, "halt")
  /\ UNCHANGED d

\* The shell returns from waitpid(2).
ShellResume ==
  /\ At(ShellPid, "resume")
  /\ Goto(ShellPid, "prompt")
  /\ UNCHANGED <<program, k, d>>

\* The timer's interrupt; it is off inside waitpid.
Interrupt ==
  /\ pc[k.cpu] # "resume"
  /\ k' = Schedule(k)

\* IRQ 0 under a program that keeps no count of the ticks.
Tick == Interrupt /\ UNCHANGED <<pc, d>>

\* waitpid(p) for the program, which then goes to place: -1 at once for a
\* process that is gone.
AwaitChild(p, place) ==
  IF MayWaitFor(k, p) /\ CanBlock(k, Test)
  THEN k' = WaitpidBlock(k, p) /\ Goto(Test, "resume")
  ELSE UNCHANGED k /\ Goto(Test, place)
==============================================================================
