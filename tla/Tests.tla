-------------------------------- MODULE Tests --------------------------------
(***************************************************************************)
(* The kernel under the programs that come with it: test_sync,             *)
(* test_processes, test_prio and loop, one of them at a time.              *)
(***************************************************************************)
EXTENDS TestSync, TestProcesses, TestPrio, Clock

Init ==
  \/ program = "test_sync"      /\ SyncInit
  \/ program = "test_processes" /\ ProcessesInit
  \/ program = "test_prio"      /\ PrioInit
  \/ program = "loop"           /\ SleepInit

SyncStep      == program = "test_sync" /\ SyncNext /\ UNCHANGED program
ProcessesStep == program = "test_processes" /\ ProcessesNext /\ UNCHANGED program
PrioStep      == program = "test_prio" /\ PrioNext /\ UNCHANGED program
SleepStep     == program = "loop" /\ SleepNext /\ UNCHANGED program

Next == SyncStep \/ ProcessesStep \/ PrioStep \/ SleepStep \/ ShellResume

Spec == Init /\ [][Next]_vars

-----------------------------------------------------------------------------
(* Fairness.                                                                *)

TimerTick == (IF program = "loop" THEN SleepTick ELSE Tick) /\ UNCHANGED program

\* Process p has the CPU and does not halt there, and goes on to another of the
\* statements it has.
Places == {"open", "spawn", "join", "resume", "close", "create", "block", "prio", "unblock", "wait",
           "enter", "load", "store", "leave", "count", "exit", "halt", "user", "loop", "read", "prompt"}

GoesOn(p) ==
  /\ program # "test_processes"
  /\ k.cpu = p /\ pc[p] \notin {"halt", "prompt"}
  /\ \E place \in Places : pc' = [pc EXCEPT ![p] = place]

\* The processes that work at a time.
Worker(i) == CASE program = "test_prio" -> PidOf(i)
               [] program = "loop" -> 1 + i
               [] OTHER -> 2 + i

\* The timer ticks, and a process that gets the CPU again and again goes on:
\* a quantum is worth many statements.
FairSpec ==
  /\ Spec
  /\ WF_vars(TimerTick)
  /\ WF_pc(GoesOn(ShellPid)) /\ SF_pc(GoesOn(Test))
  /\ SF_pc(GoesOn(Worker(1))) /\ SF_pc(GoesOn(Worker(2)))

-----------------------------------------------------------------------------
(* Correctness (the safety of each program is stated in its module).        *)

\* test_sync and test_prio end and the shell gets its prompt back.
TestsEnd == program \in {"test_sync", "test_prio"} => <>(pc[ShellPid] = "prompt")

\* Processes that loop for ever do not keep test_processes from the CPU, nor
\* does a process that sleeps in wait_ticks fail to see its target pass while
\* another one yields and sleeps.
NobodyStarves ==
  /\ program = "test_processes" => []<>(k.cpu = Test)
  /\ \A p \in {2, 3} : (program = "loop" /\ pc[p] # "user") ~> (program = "loop" /\ pc[p] = "user")
==============================================================================
