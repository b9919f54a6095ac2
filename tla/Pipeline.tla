------------------------------ MODULE Pipeline ------------------------------
(***************************************************************************)
(* The shell's  command1 | command2  (handle_piped_commands in             *)
(* Userland/SampleCodeModule/shell/shell.c) on top of the pipe, the        *)
(* semaphores and the scheduler.  Process 2 writes to the pipe and ends    *)
(* (help, echo); process 3 reads until it gets an EOF byte                 *)
(* (read_and_process_chars of wc and filter, cat).  Only the keyboard      *)
(* makes EOF bytes, and it writes them to pipe 0, not to this pipe.        *)
(*                                                                         *)
(* The shell has opened the pipe and created both processes; prog.shell    *)
(* says what it does next and prog.left how many bytes process 2 still     *)
(* writes.  The pipe's slot is one that pipeClose accepts.                 *)
(***************************************************************************)
EXTENDS Pipe

CONSTANTS
  Output        \* bytes that command1 writes (MaxPid is at least 3 here)

ASSUME PipelineAssumption == Output \in Nat

VARIABLE prog
allVars == <<vars, prog>>

Writer == 2
Reader == 3
ShellState == {"wait1", "wait2", "close", "prompt"}

\* The process the shell waits for, and what it does after that.
Target      == IF prog.shell = "wait1" THEN Writer ELSE Reader
AfterWait   == IF prog.shell = "wait1" THEN "wait2" ELSE "close"
PipeIsOpen  == prog.shell # "prompt"

PipelineInit == Init /\ prog = [shell |-> "wait1", left |-> Output]

\* Mutant: the shell goes on without waiting.
ShellHurries ==
  /\ InProgram /\ k.cpu = ShellPid
  /\ prog.shell \in {"wait1", "wait2"}
  /\ prog' = [prog EXCEPT !.shell = AfterWait]
  /\ UNCHANGED vars

\* syscall_waitpid(pids[i], &status): -1 at once for a process that is gone.
ShellWait ==
  /\ InProgram /\ k.cpu = ShellPid
  /\ prog.shell \in {"wait1", "wait2"}
  /\ IF MayWaitFor(k, Target) /\ CanBlock(k, ShellPid)
     THEN /\ k' = WaitpidBlock(k, Target)
          /\ job' = [job EXCEPT ![ShellPid].op = "waitpid", ![ShellPid].at = "waitpid"]
          /\ UNCHANGED prog
     ELSE /\ prog' = [prog EXCEPT !.shell = AfterWait]
          /\ UNCHANGED <<k, job>>
  /\ UNCHANGED <<pipe, out>>

\* The rest of waitpid (kill has already freed a child that is dead).
ShellResume ==
  /\ k.cpu = ShellPid /\ job[ShellPid].op = "waitpid"
  /\ prog' = [prog EXCEPT !.shell = AfterWait]
  /\ job' = [job EXCEPT ![ShellPid] = NoJob("user")]
  /\ UNCHANGED <<k, pipe, out>>

\* syscall_close_pipe(pipe).
ShellClose ==
  /\ InProgram /\ k.cpu = ShellPid
  /\ prog.shell = "close"
  /\ k' = SemClose(SemClose(SemClose(k, semReaders), semWriters), mutex)
  /\ pipe' = [pipe EXCEPT !.readIdx = 0, !.writeIdx = 0, !.count = 0]
  /\ prog' = [prog EXCEPT !.shell = "prompt"]
  /\ UNCHANGED <<job, out>>

\* A writer that was killed while it ran goes on under idle: its bytes go
\* nowhere.
WriterWrites ==
  /\ InProgram /\ k.cpu = Writer
  /\ prog.left > 0
  /\ \/ /\ FindsPipe /\ PipeIsOpen
        /\ Bounded(semWriters, semReaders, 1)
        /\ Start("write", "token", 1)
     \/ ~FindsPipe /\ UNCHANGED vars
  /\ prog' = [prog EXCEPT !.left = @ - 1]

\* The writer's function returns and wrapper calls exit.
WriterExits ==
  /\ InProgram /\ k.cpu = Writer
  /\ prog.left = 0
  /\ k' = Kill(k, k.current)
  /\ job' = [job EXCEPT ![Writer].base = "halt"]
  /\ UNCHANGED <<pipe, out, prog>>

ReaderReads ==
  /\ FindsPipe /\ k.cpu = Reader
  /\ PipeIsOpen
  /\ Bounded(semReaders, semWriters, 1)
  /\ Start("read", "token", 1)
  /\ UNCHANGED prog

\* The stack of a reader that was killed while it ran: getChar returns a char
\* that nobody has set.  The program reads on (no step), or takes it for EOF
\* and exits, which kills nobody.
DeadReaderStops ==
  /\ InProgram /\ ~FindsPipe /\ k.cpu = Reader
  /\ k' = Kill(k, k.current)
  /\ job' = [job EXCEPT ![Reader].base = "halt"]
  /\ UNCHANGED <<pipe, out, prog>>

ProgStep == ShellWait \/ ShellClose \/ WriterWrites \/ WriterExits \/ ReaderReads

PipelineNext ==
  \/ ProgStep
  \/ DeadReaderStops
  \/ ShellResume
  \/ (KernelStep \/ TimerTick \/ CtrlC) /\ UNCHANGED prog

PipelineSpec == PipelineInit /\ [][PipelineNext]_allVars

\* The timer ticks, what has entered the kernel goes on, and a program that
\* gets the CPU again and again goes on.
PipelineFair ==
  /\ PipelineSpec
  /\ SF_allVars(TimerTick /\ UNCHANGED prog)
  /\ WF_allVars(ShellResume \/ (KernelStep /\ UNCHANGED prog))
  /\ \A p \in {ShellPid, Writer, Reader} : SF_allVars(k.cpu = p /\ ProgStep)

-----------------------------------------------------------------------------
(* Correctness.                                                             *)

Gone(p) == k.pcb[p].state = "UNUSED"

\* When the shell closes the pipe and prompts again, both commands are gone
\* and nobody sleeps on the semaphores it closes, however they ended.
ClosedLast ==
  prog.shell \in {"close", "prompt"} =>
    /\ Gone(Writer) /\ Gone(Reader)
    /\ \A p \in Pid : ~InQueue(k, "blockedBySem", p)

\* A command1 that ends gets all of its output through and ends, as long as
\* command2 lives: a full pipe does not stop it for good.  (Ctrl-C may kill
\* command2, and then nobody empties the pipe: README.md:331.)
WriterFinishes == []~Gone(Reader) => <>Gone(Writer)

-----------------------------------------------------------------------------
(* What comments and documents say, and the code does not do.               *)

\* README.md:160-163 and 238-239 show help | wc giving the line count and the
\* next prompt: a pipeline whose first command ends comes to an end.
PipelineEnds == <>(prog.shell = "prompt")
=============================================================================
