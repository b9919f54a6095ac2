-------------------------------- MODULE Pipe --------------------------------
(***************************************************************************)
(* One pipe (Kernel/pipes/pipe.c) on top of the semaphores and the         *)
(* scheduler, used by programs through read and write, by the keyboard     *)
(* interrupt (drivers/keyboardDriver.c) and by clear_buffer.               *)
(*                                                                         *)
(* The pipe is pipe 0, the standard input: its semaphores are the first    *)
(* three of the table.  job[c] says what context c does inside the kernel: *)
(*   base  what the context returns to: a program ("user") or a hlt loop   *)
(*   op    "none", or the pipe function it is executing                    *)
(*   at    the next statement: the wait for a token, the wait for the      *)
(*         mutex, or the body up to the two posts                          *)
(*   left  bytes to go                                                     *)
(* A context inside a pipe function runs with interrupts off: it leaves    *)
(* the CPU only when a semaphore puts it to sleep.                         *)
(***************************************************************************)
EXTENDS Lifecycle

CONSTANTS
  PIPE_BUFFER_SIZE,
  Byte,          \* the bytes that are written
  MaxCall,       \* bound: bytes of one read or write call
  MaxUnits,      \* bound: no call that could take a semaphore over this
  MaxWaiters,    \* bound: no call when this many pids sleep on a semaphore
  Env            \* which of EnvKind the environment does

\* key      the keyboard interrupts programs and halted contexts, except
\*          idle while the buffer has no room
\* idleKey  the keyboard also interrupts idle while the buffer has no room
\* clear    programs empty the pipe (clear_buffer)
\* kill     programs die: kill, exit and Ctrl-C
EnvKind == {"key", "idleKey", "clear", "kill"}

ASSUME SizeAssumption  == PIPE_BUFFER_SIZE \in Nat \ {0}
ASSUME CallAssumption  == MaxCall \in Nat /\ MaxUnits \in Nat /\ MaxWaiters \in Nat
ASSUME EnvAssumption   == Env \subseteq EnvKind
ASSUME TableAssumption == NUM_SEMS >= 3

VARIABLES k, pipe, job, out
vars == <<k, pipe, job, out>>

semReaders == 0
semWriters == 1
mutex      == 2

NoJob(base) == [base |-> base, op |-> "none", at |-> "token", left |-> 0]

-----------------------------------------------------------------------------
(* Initial state: the shell created the pipe, got the CPU, and started the  *)
(* other processes.                                                         *)

\* createPipe's semInit calls.
CreatePipe(k0) ==
  SemInit(SemInit(SemInit(k0, semReaders, 0), semWriters, PIPE_BUFFER_SIZE), mutex, 1)

\* When processes 1..p have been started.
StartedUpTo[p \in 1..MaxPid] ==
  IF p = ShellPid THEN SwitchContext(CreatePipe(BootKernel))
                  ELSE CreateProcess(StartedUpTo[p - 1], MIN_PRIORITY, TRUE, TRUE)

Started == StartedUpTo[MaxPid]

Init ==
  /\ k = Started
  /\ out \in Byte
  /\ \E b \in Byte : pipe = [buffer  |-> [i \in 0..(PIPE_BUFFER_SIZE - 1) |-> b],
                             readIdx |-> 0, writeIdx |-> 0, count |-> 0]
  /\ job = [c \in Context |-> NoJob(IF c \in {IdlePid, BootCtx} THEN "halt" ELSE "user")]

-----------------------------------------------------------------------------
(* What programs and interrupts start.                                      *)

Interruptible == job[k.cpu].op = "none"
InProgram     == Interruptible /\ job[k.cpu].base = "user"

Bounded(takes, gives, n) ==
  /\ Len(k.sems[takes].blocked) + n <= MaxWaiters
  /\ k.sems[gives].value + n <= MaxUnits

Start(op, at, n) ==
  /\ job' = [job EXCEPT ![k.cpu].op = op, ![k.cpu].at = at, ![k.cpu].left = n]
  /\ UNCHANGED <<k, pipe, out>>

\* read and write find the pipe through the current process (fd 0).  While idle
\* is current, a dead program's stack is running: the call returns -1.
FindsPipe == InProgram /\ k.current # IdlePid

SysRead(n) ==
  FindsPipe /\ Bounded(semReaders, semWriters, n) /\ Start("read", "token", n)

SysWrite(n) ==
  FindsPipe /\ Bounded(semWriters, semReaders, n) /\ Start("write", "token", n)

\* clear_buffer names the pipe itself.
SysClear ==
  "clear" \in Env /\ InProgram /\ Start("clear", "mutex", 0)

\* IRQ 1: addToBuffer writes one byte on the stack of whatever it interrupts.
KeyIRQ ==
  /\ Interruptible
  /\ Bounded(semWriters, semReaders, 1)
  /\ \/ "key" \in Env /\ (k.current # IdlePid \/ k.sems[semWriters].value > 0)
     \/ "idleKey" \in Env
  /\ Start("write", "token", 1)

TimerTick ==
  /\ Interruptible
  /\ k' = Schedule(k)
  /\ UNCHANGED <<pipe, job, out>>

SysYield ==
  /\ InProgram
  /\ k' = Yield(k)
  /\ UNCHANGED <<pipe, job, out>>

CtrlC ==
  /\ "kill" \in Env
  /\ Interruptible
  /\ k.foreground # NoPid
  /\ k' = Kill(k, k.foreground)
  /\ UNCHANGED <<pipe, job, out>>

SysKill(p) ==
  /\ "kill" \in Env
  /\ InProgram
  /\ k' = Kill(k, p)
  /\ UNCHANGED <<pipe, job, out>>

SysExit ==
  /\ "kill" \in Env
  /\ InProgram
  /\ k.cpu # ShellPid
  /\ k' = Kill(k, k.current)
  /\ job' = [job EXCEPT ![k.cpu].base = "halt"]
  /\ UNCHANGED <<pipe, out>>

-----------------------------------------------------------------------------
(* The statements of pipeRead, pipeWrite and pipeClear.  A step moves the   *)
(* running context past its semWait even when it goes to sleep there: it    *)
(* does not test again when it is woken.                                    *)

TokenOf(op)  == IF op = "read" THEN semReaders ELSE semWriters
SignalOf(op) == IF op = "read" THEN semWriters ELSE semReaders

At(place) == job[k.cpu].op # "none" /\ job[k.cpu].at = place

WaitToken ==
  /\ At("token")
  /\ k' = SemWait(k, TokenOf(job[k.cpu].op))
  /\ job' = [job EXCEPT ![k.cpu].at = "mutex"]
  /\ UNCHANGED <<pipe, out>>

WaitMutex ==
  /\ At("mutex")
  /\ k' = SemWait(k, mutex)
  /\ job' = [job EXCEPT ![k.cpu].at = "body"]
  /\ UNCHANGED <<pipe, out>>

\* Mutant: the read index stays where it is.
TakeStays(pp) == IF pp.count > 0 THEN [pp EXCEPT !.count = @ - 1] ELSE pp

\* The bodies of the three loops, on the buffer.
Take(pp) ==
  IF pp.count > 0
  THEN [pp EXCEPT !.readIdx = (@ + 1) % PIPE_BUFFER_SIZE, !.count = @ - 1]
  ELSE pp

Store(pp, b) ==
  IF pp.count < PIPE_BUFFER_SIZE
  THEN [pp EXCEPT !.buffer[pp.writeIdx] = b,
                  !.writeIdx = (@ + 1) % PIPE_BUFFER_SIZE, !.count = @ + 1]
  ELSE pp

\* Mutant: the token is posted and the mutex is not.
SignalKeepsMutex(op) == SemPost(k, SignalOf(op))

\* Mutant: the mutex is posted and the token is not.
SignalForgets(op) == SemPost(k, mutex)

\* After the body: post the mutex, then the other side's token.
Signal(op) == SemPost(SemPost(k, mutex), SignalOf(op))

\* One byte done: the next one, or back to what the context was doing.
ByteDone(j) ==
  IF j.left > 1 THEN [j EXCEPT !.at = "token", !.left = @ - 1] ELSE NoJob(j.base)

NextByte(c) == job' = [job EXCEPT ![c] = ByteDone(@)]

ReadBody ==
  /\ At("body") /\ job[k.cpu].op = "read"
  /\ out' = IF pipe.count > 0 THEN pipe.buffer[pipe.readIdx] ELSE out
  /\ pipe' = Take(pipe)
  /\ k' = Signal("read")
  /\ NextByte(k.cpu)

WriteBody(b) ==
  /\ At("body") /\ job[k.cpu].op = "write"
  /\ pipe' = Store(pipe, b)
  /\ k' = Signal("write")
  /\ NextByte(k.cpu)
  /\ UNCHANGED out

ClearBody ==
  /\ At("body") /\ job[k.cpu].op = "clear"
  /\ pipe' = [pipe EXCEPT !.readIdx = 0, !.writeIdx = 0, !.count = 0]
  /\ k' = SemPost(k, mutex)
  /\ NextByte(k.cpu)
  /\ UNCHANGED out

KernelStep == WaitToken \/ WaitMutex \/ ReadBody \/ (\E b \in Byte : WriteBody(b)) \/ ClearBody

Next ==
  \/ \E n \in 1..MaxCall : SysRead(n) \/ SysWrite(n)
  \/ SysClear \/ KeyIRQ
  \/ TimerTick \/ SysYield \/ CtrlC
  \/ \E p \in Pid : SysKill(p)
  \/ SysExit
  \/ KernelStep

Spec == Init /\ [][Next]_vars

\* What the kernel starts it goes on with, and the timer keeps ticking.
FairSpec == Spec /\ SF_vars(TimerTick) /\ WF_vars(KernelStep)

-----------------------------------------------------------------------------
(* Correctness.                                                             *)

\* The contexts past their token wait that sleep in no semaphore's queue:
\* they hold a token.
Asleep(p)   == \E s \in {semReaders, semWriters, mutex} :
                 \E i \in 1..Len(k.sems[s].blocked) : k.sems[s].blocked[i] = p
Holders(op) == {c \in Context : job[c].op = op /\ job[c].at \in {"mutex", "body"} /\ ~Asleep(c)}

\* The units of the two semaphores account for the buffer: free readers'
\* tokens and those in hand are the bytes stored, and what is left of the
\* buffer is free or in a writer's hand.
TokensMatch ==
  /\ k.sems[semReaders].value + Cardinality(Holders("read")) = pipe.count
  /\ k.sems[semWriters].value + Cardinality(Holders("write")) + pipe.count = PIPE_BUFFER_SIZE

\* The mutex is free whenever interrupts are on, and nobody ever sleeps on
\* it: no death and no wakeup comes between taking and releasing it.
MutexFree ==
  /\ k.sems[mutex].blocked = << >>
  /\ Interruptible => k.sems[mutex].value = 1

\* The pipe implements the channel of module Channel: bytes come out once, in
\* the order they went in, whoever dies, clears or interrupts.
Stored == [i \in 1..pipe.count |-> pipe.buffer[(pipe.readIdx + i - 1) % PIPE_BUFFER_SIZE]]

Abstract == INSTANCE Channel WITH chan <- Stored, Capacity <- PIPE_BUFFER_SIZE

ImplementsChannel == Abstract!Spec

\* No reader is left asleep while bytes keep coming: the queue of the readers'
\* semaphore is served in order.
ReadersAreServed ==
  []<><<\E b \in Byte : WriteBody(b)>>_vars =>
    \A p \in Pid \ {IdlePid} : job[p].op = "read" /\ Asleep(p) ~> ~Asleep(p)
=============================================================================
