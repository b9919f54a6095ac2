---------------------------- MODULE TestProcesses ----------------------------
(***************************************************************************)
(* Userland/SampleCodeModule/tests/test_processes.c: process 2 creates     *)
(* max_processes processes that loop for ever, and kills, blocks and       *)
(* unblocks them at random until all are dead, again and again.  Its book, *)
(* p_rqs, has the state it believes each of them in.  An error of any      *)
(* system call ends the test, at "error".                                  *)
(*                                                                         *)
(* MaxPid bounds the processes that are created.                           *)
(***************************************************************************)
EXTENDS Program

ProcessesInit ==
  /\ Boot("create", "loop")
  /\ d = [rq |-> 1, p_rqs |-> [i \in 1..max_processes |-> [pid |-> 0, state |-> "EXITED"]]]

Entry == d.p_rqs[d.rq]

\* The next iteration of the loop at place, or what follows it.
NextRq(e, place, after) ==
  /\ d' = [rq |-> IF d.rq < max_processes THEN d.rq + 1 ELSE 1, p_rqs |-> [d.p_rqs EXCEPT ![d.rq] = e]]
  /\ Goto(Test, IF d.rq < max_processes THEN place ELSE after)

Fails == Goto(Test, "error") /\ UNCHANGED <<k, d>>

\* Background, no standard input.
CreateOne ==
  /\ At(Test, "create")
  /\ k.nextPid <= MaxPid
  /\ k' = CreateProcess(k, MAX_PRIORITY, FALSE, FALSE)
  /\ NextRq([pid |-> k.nextPid, state |-> "RUNNING"], "create", "act")

KillOne ==
  /\ At(Test, "act")
  /\ Entry.state # "EXITED"
  /\ IF ~Killable(k, Entry.pid) THEN Fails
     ELSE k' = Kill(k, Entry.pid) /\ NextRq([Entry EXCEPT !.state = "EXITED"], "act", "unblock")

BlockOne ==
  /\ At(Test, "act")
  /\ Entry.state = "RUNNING"
  /\ IF ~CanBlock(k, Entry.pid) THEN Fails
     ELSE k' = BlockProcess(k, Entry.pid) /\ NextRq([Entry EXCEPT !.state = "BLOCKED"], "act", "unblock")

\* The action that was drawn does not fit the state.
Skip ==
  /\ At(Test, "act")
  /\ Entry.state # "RUNNING"
  /\ NextRq(Entry, "act", "unblock")
  /\ UNCHANGED k

\* while (alive > 0), once the last of them has been looked at.
AfterUnblock(e) ==
  IF e.state = "EXITED" /\ \A i \in 1..(max_processes - 1) : d.p_rqs[i].state = "EXITED"
  THEN "create" ELSE "act"

UnblockOne ==
  /\ At(Test, "unblock")
  /\ Entry.state = "BLOCKED"
  /\ LET e == [Entry EXCEPT !.state = "RUNNING"]
     IN  IF ~InQueue(k, "blocked", Entry.pid) THEN Fails
         ELSE k' = UnblockProcess(k, Entry.pid) /\ NextRq(e, "unblock", AfterUnblock(e))

KeepOne ==
  /\ At(Test, "unblock")
  /\ NextRq(Entry, "unblock", AfterUnblock(Entry))
  /\ UNCHANGED k

ProcessesTest == CreateOne \/ KillOne \/ BlockOne \/ Skip \/ UnblockOne \/ KeepOne
ProcessesNext == ProcessesTest \/ Tick

-----------------------------------------------------------------------------
(* Correctness.                                                             *)

\* No call of the test fails, and whatever the timer does between the calls
\* the kernel has each process where the test's book has it.
BookMatchesKernel ==
  program = "test_processes" =>
    /\ pc[Test] # "error"
    /\ \A i \in 1..max_processes :
         LET e == d.p_rqs[i]
         IN  /\ e.state = "RUNNING" => InQueue(k, "ready", e.pid) /\ k.pcb[e.pid].state \in {"READY", "RUNNING"}
             /\ e.state = "BLOCKED" => InQueue(k, "blocked", e.pid) /\ k.pcb[e.pid].state = "BLOCKED"
             /\ e.state = "EXITED" /\ e.pid # 0 => ~HasProcess(k, e.pid) /\ k.pcb[e.pid].state = "UNUSED"
==============================================================================
