# A TLA+ model of the TP2_SO_G15 kernel

The repository is a small 64-bit teaching operating system: a single-core kernel
(scheduler, semaphores, pipes, two memory managers, drivers), a user-land with a
shell, programs and tests, and a vendored boot loader. This directory holds TLA+
modules translated from its C code, TLC configurations that check them on small
instances, and TLAPS proofs, for instances of any size, of what the scheduler, the
semaphores, the pipes, the linked structures, the bitmap memory manager, `mvar`, the
shell's loop, its pipelines and the test programs promise.

`PROJECT.json` lists, for every definition, the source lines it models; for every
run its properties; for every property a mutation of the model that breaks it;
and the findings, the hazards and the theorems.

## 1. The system

| Part | State | Operations |
|---|---|---|
| process manager (`Kernel/processes/process.c`) | ready, blocked, blockedBySem and zombie queues; current, idle and foreground process | add, block, unblock, switch queues, next process, kill |
| scheduler (`Kernel/processes/scheduler.c`, `asm/`) | PCBs, `currentPid`, `nextPid`, `quantum`, `first` | schedule (timer), yield, create, kill, reap, waitpid, nice, ps |
| semaphores (`Kernel/semaphores/semaphore.c`) | 300 entries: value, used, queue of pids | init, close, wait, post |
| pipes (`Kernel/pipes/pipe.c`) | 16 slots: circular buffer, count, three semaphore ids; `next_sem_id` | create, read, write, close, clear |
| queue, doubly linked list (`Kernel/dataStructures`) | linked nodes, both ends, size | add, take and remove elements, clear, free |
| memory (`Kernel/Memorymanager/`), one of two at build time | bitmap and search position; or block headers and free lists | alloc, free, info |
| time (`Kernel/drivers/time.c`) | `ticks` | count, wait |
| keyboard (`Kernel/drivers/keyboardDriver.c`) | modifiers | key interrupt: write to pipe 0, Ctrl-C, Ctrl-D |
| console (`Kernel/textModule.c`, `Kernel/drivers/videoDriver.c`) | cursor, font size, frame buffer | characters, line feed, delete, scroll, clear |
| shell and programs (`Userland/SampleCodeModule/shell`) | line, command buffers, pids, pipe id | `readLine`, parsing, commands, pipelines, `mvar`, `loop` |
| tests (`Userland/SampleCodeModule/tests`) | shared counter, book of processes, pids | `test_sync`, `test_processes`, `test_prio`, `test_mm` |

How they interact. A system call, a key or a timer tick enters the kernel through
an interrupt gate, that is, with interrupts off, and runs on the stack of the
process it interrupted. Kernel code is therefore atomic except where it gives the
CPU away, which it does in one way: `yield` raises the timer's interrupt in
software, and the interrupted stack goes on when it is dispatched again. So
`waitpid`, `semWait`, and with it `pipeRead` and `pipeWrite`, are cut in two at
that point, and everything else can happen in between. `wait_ticks` is the only
kernel code that turns interrupts on. The spin locks of the semaphores are never
contended. Scheduler, semaphores and pipes call each other: a pipe is three
semaphores, a semaphore blocks and unblocks processes, `createProcess` and `kill`
open and close semaphores (`children_sem`), and the keyboard writes to a pipe on
behalf of whatever process it interrupts, idle included.

What is hard: the order of deaths and waits; pids left in semaphore queues by
processes that were killed; pointers to PCBs that `kill` frees; a process that
ends while it is current; tokens and bytes of a pipe that must stay in step
while readers and writers are suspended anywhere; stale headers and merging in
the buddy allocator; a key that prints in the middle of a line; a dozen heap
blocks per command line on paths that may fail anywhere; starvation. `PROJECT.json` lists these as hazards, each at
its line and with the properties that would catch it.

What makes each part correct: the queues partition the processes as their states
say, nobody falls between two, and no pointer dangles; a unit and a sleeper never coexist and every sleeper
can be woken; a death wakes its waiter and nobody is starved; a pipe delivers
bytes once and in order and its tokens account for its buffer; the allocators
hand out disjoint, large enough blocks, lose none and refuse only when they must;
the linked structures are sequences; the screen shows what the line buffer holds;
the shell runs what was typed and gives back memory, processes and pipes; the test
programs find what their authors expect.

## 2. The modules

```
ProcessManager <- Dispatcher <- Semaphores <- Lifecycle <- Scheduler
                                                        <- Pipe <- Pipeline      (Pipe implements Channel)
                                                        <- Program <- TestSync, TestProcesses, TestPrio, Clock
                                                                   <- Tests, one of the four
MemoryParameters <- Bitmap, Buddy (implement Allocator); Memory is one or the other
ListParameters <- LinkedQueue (implements Fifo), DoubleLinkedList (implements Deque); Lists is one or the other
Text, Keyboard <- Terminal
PipeTable <- Shell <- ShellProofs
MVar <- MVarProofs
Bitmap <- BitmapProofs
Lists <- ListProofs
Lifecycle <- KernelProofs <- SchedulerProofs (with Scheduler), PipeProofs (with Pipeline), TestsProofs (with Tests)
```
(`A <- B`: B extends A.) `Memory` and `Lists` hold INSTANCEs of two modules each, `Tests`
extends its four, and each chooses in Init. A run uses the module it checks, or the
module `MCX` where instances of `X` need definitions or a name of their own.

A C function that changes kernel state is an operator from a kernel state `k`, a
record, to a kernel state, with the name of the function; a handler is the
composition of the functions it calls and an action sets `k'` to the result. The
first four modules hold these operators, the others the state machines:

- `ProcessManager`: `process.c`. `k.queue` holds sequences of pids, `k.pcb` the
  PCBs (state `UNUSED`: freed or not yet created).
- `Dispatcher`: `schedule`, `yield`, `block` and `unblock`. A stack is an abstract
  context; `k.cpu` is the one the CPU runs on, `pcb.rsp` the one saved for a
  process. With idle current, the CPU may be on the stack of a process that has
  ended: see the disagreements in section 3.
- `Semaphores`: `semaphore.c`.
- `Lifecycle`: `createProcess`, `kill`, `waitpid`, `changePrio`.
- `Scheduler`: one action per system call on processes and semaphores, the timer
  and Ctrl-C. `frame[c]` says where each context is: in a program, inside
  `waitpid`, or in a `hlt` loop. The constant `Env` selects what the environment
  may do besides: Ctrl-C, self-kill, closing a semaphore others sleep on,
  allocation failures, `block`.
- `Pipe`: the statements of `pipeRead`, `pipeWrite` and `pipeClear` between two
  points where the CPU may be given away, for any number of processes and the
  keyboard interrupt. `Channel` is the abstract pipe.
- `Pipeline`: the shell's `command1 | command2` on top of `Pipe`.
- `PipeTable`: the slots, the ids the calls exchange, and the semaphore ids pipes
  take from a counter while other users take the lowest free entry or a fixed one.
- `Shell`: the loop of `shell`, from `bufferControl` through the handlers to the
  last `free`, on top of `PipeTable`. Every `malloc`, `free`, `waitpid` and pipe call
  is a step; in between other processes end, allocate and take semaphores. What is
  left to do with a line is the list `sh.todo`: the C code after parsing is straight
  with a few early exits, and each of its paths is such a list. A line is a sequence
  of words and separators, with what an earlier edit left after its terminator.
- `Text`: the console as a set of glyphs with places and sizes. `Keyboard`: scan
  codes, modifiers and bytes. `Terminal`: keys at any moment, pipe 0, `readLine` and
  the console, from the welcome through any number of lines.
- `Program`: what user programs on the modelled kernel share: the start under a
  waiting shell, exit, timer, `waitpid`. `TestSync`, `TestProcesses` and `TestPrio`
  are the test programs statement by statement, `Clock` is the program `loop` with
  `wait_ticks` and the tick counter, kept relative to the sleepers' targets.
  `ProgramAssumption` says what the tests take for granted: room for their processes,
  a semaphore that is not the one with which the kernel counts the shell's children,
  and as many priorities as `test_prio` gives out.
- `LinkedQueue` and `DoubleLinkedList`, node by node, with `Fifo` and `Deque`, what they
  promise. The memory is a function whose domain is the nodes that are allocated.
- `Bitmap` and `Buddy`, the two memory managers, with `Allocator`, what both
  promise. `Memory` is the manager of an image: `#ifdef BUDDY` picks one, and its
  properties are stated once for either.
- `MVar`: the program `mvar` over two channels.
- The modules whose names end in `Proofs` hold the theorems and their lemmas;
  `KernelProofs` those about the kernel's functions, which three others use.

Abstractions. Argument copying, names, return values, colours and pixels and what
programs print are left out. In `Terminal` a command prints one line, and what a
background process prints while a line is typed is left out. Memory is modelled
inside the allocators and in `Shell`; elsewhere an allocation either succeeds or, in `Scheduler` with `outOfMemory`, fails
where that changes state: the stack of a new process (`SysCreateNoStack`), the queue
node of a new process (`SysCreateNoNode`: `addProcess` and `addToBlocked` ignore what
`enqueue` returns), the node of a semaphore queue (`SysSemWaitNoNode`). A PCB that
cannot be allocated leaves the state as it was. Moving a process from a queue to
another frees a node before it takes one of the same size, with interrupts off, and
so never lacks memory. In `Pipe`, `Pipeline` and the test programs these allocations
succeed. In `Shell`, a process that was left in no queue is one that has ended: it
never runs, and `waitpid` and `kill` do not find it.
The reuse of freed stacks is not modelled: a context that has ended keeps its
frame. The semaphore table of `Scheduler` starts after the three entries of the
shell's pipe. Programs only wait on and post to semaphores that are open (on a
closed one the code works on a freed queue).

## 3. Runs

| Run | Properties | Instance |
|---|---|---|
| SchedCore | TypeOK, EverySleeperCanWake, ChildrenCounted, ReadyIsDispatched, WaiterReturns | pids 0..3, 4 semaphores, fair |
| SchedHostile | QueuesHold, NoDanglingPointer, NoUnitWhileAsleep, SleepersAreBlocked, WaiterWillBeFound, NeverOvertaken | pids 0..3, 2 semaphores, every `Env` |
| PipeCore | TokensMatch, ReadersAreServed | buffer of 2, calls of up to 2 bytes, fair |
| PipeHostile | MutexFree, ImplementsChannel | buffer of 2, two byte values, deaths, clears, keys on idle |
| Pipeline | ClosedLast, WriterFinishes | 3 bytes of output through a buffer of 2, Ctrl-C, fair |
| Memory | Consistent, BuddiesMerge, RoomForRequest, ImplementsAllocator | 7 blocks of 2 units, `UINT_RANGE` 16; a region of 11 units rounded up to 16, orders 1 to 4; sizes 1 to 19 |
| Lists | WellLinked, ImplementSequences | 4 nodes, 2 values |
| Terminal | NothingOffScreen, EchoIsBuffer, EnterEndsLine | screen of 6 by 6 glyphs of size 1, lines of 3, 6 keys, 2 typed ahead, fair |
| Shell | PipesKeepApart, ParsedAsWritten, HeapGivenBack, NothingLeftOver, OnlyOwnFreed, ClosedAfterUse | 17 lines, 5 blocks (symmetric), 6 slots, 12 semaphores, of which programs may name 10, 2 processes |
| Tests | MutualExclusion, EndsWithZero, BookMatchesKernel, RoundIsReady, TestsEnd, NobodyStarves | one pair with 2 iterations, with and without its semaphore; 2 processes per round; sleeps of up to 3 ticks; fair |
| MVar | SinglePlace, EverybodyServed | 7 writers, 3 readers, fair |
| PipelineEof | PipelineEnds, which fails: see below | 2 bytes of output, no Ctrl-C, fair |

What they show. The scheduler's runs say that no order of system calls, ticks and
deaths loses a process, a wakeup or a child's count, and that nobody starves; the
hostile one drops every assumption about well-behaved programs and about memory and
keeps what must hold even then. Creation without memory for a queue node does lose
the process it makes (`Lost`): `QueuesHold` says that nothing else loses one, and
the other properties that the kernel stays consistent around it. The pipe's runs say the same of bytes and tokens: with only readers,
writers and keys the tokens are exact, and with deaths, `pipeClear` and keys on
idle the tokens drift (see below) and the buffer is still a channel. `Pipeline` and
`Tests` put user programs on the modelled kernel and ask what their authors expect.
`Memory` and `Lists` check data structures against abstract specifications.
`Terminal` and `Shell` follow a command line from the key to the last `free`. Several of
their properties name exceptions: those are the places where the code does not do
what one would like, and the properties say that there are no others.

The bounds. Four pids are idle, the shell and two processes, which is enough for
a parent with two children, or with a child and a grandchild. One priority is
enough where the quantum only decides how many ticks pass; `QUANTUM = 1` keeps
preemption at every point. `MaxWaiters` and `MaxValue` bound a semaphore's queue and value: no process
can sleep twice, so the queue is only longer than the number of processes by dead
pids, and three slots admit those. A buffer of 2 fills, wraps around and
empties. Seven blocks are prime to the group sizes, so the bitmap's circular
search starts everywhere. Sixteen units are three levels of buddies, so a merge
can cascade and a header can be stale; with a region of 11 the size 13 is
refused, although a block of 16 would hold it. A `UINT_RANGE` of 16 has the
size 19 on the far side of the bitmap manager's conversion, and a heap of 14 below it. `MaxPid` bounds births: the code never
reuses a pid; 8 are enough for three rounds of two in `test_prio` and for several
rounds of `test_processes`. Four nodes have a first, two middle ones and a last. Six
glyphs per line (three at the size of the banner) and six lines wrap a line that is
typed and scroll within two prompts. Two keys typed ahead are enough for one that
`pipeClear` drops and one that comes after it. The seventeen lines are one of each
kind: empty, known and unknown words, foreground and background, built-ins, bars
with mixtures of these, bars without blanks, and lines with deleted text. Five
blocks are what one line needs at most, so that one block of somebody else makes every allocation
fail in some behaviour; `MaxCreates` is enough to use up the semaphores of the
slots that are never closed.

Fairness. In `Scheduler`, `Pipe` and `Pipeline` the timer is strongly fair: it interrupts
any program and any `hlt` loop, and only the few instructions inside the kernel keep
it out. Code inside the kernel is weakly fair: nothing but the timer's interrupt,
which it raises itself, can stop it. In `Tests` weak fairness of the timer is enough.
In `Pipeline` and `Tests` a program that gets the CPU again and again executes its
next statement (a quantum is worth many instructions): strong fairness of its
step, in `Tests` of a change of its `pc`. In `Terminal` the shell is weakly fair: the
only other actor is the keyboard's interrupt, which returns. In `MVar` strong
fairness of the reads stands for the order in which a pipe's semaphore serves its
queue, which `ReadersAreServed` checks. `ReadyIsDispatched` assumes nothing about
programs. Every run also checks that no behaviour ends.

### Where documents and code disagree

`PipelineEof` is expected to fail. README.md:162-163 and 238-239 show `help | wc`
answering with a count, and `wc` reads until an EOF byte that nobody writes to the
pipe: TLC's counterexample is a fair behaviour in which the writer has ended, the
reader sleeps on the pipe and the shell waits for the reader.

The models follow the code at these places too, where its comments, headers or
README say something else; the properties above are stated so as to be true of the
code and no run is spent on them:

- `waitpid` returns -1 after a wait that blocked (scheduler.c:322; scheduler.h:85-87
  say the pid): `kill` has freed the PCB by then. `WaitpidResult`.
- `malloc` of 2^32 bytes or more gets a block for the low 32 bits of the size: the
  bitmap manager's `sizeToBlockQty` takes a `uint32_t` (bitmapMemoryManager.c:29,
  119), and a size whose low bits are 0 counts no blocks at all (`RequestAssumption`
  leaves those out). `SizeToBlockQty`, `RoomForRequest`.
- `createProcess` returns the pid of a process that no queue holds when there is no
  memory for the node (process.c:91, 495). Made current because idle was, it runs
  until it is preempted; otherwise it never runs, and nothing finds it.
  `CreateProcessNoNode`, `Lost`.
- When Ctrl-C kills the reader of a pipeline while it runs and the writer sleeps on
  the full pipe, nobody empties the pipe: the dead reader's stack runs with idle
  current, whose standard input is -1, and its reads return at once
  (syscallDispatcher.c:75-80). The writer and the shell sleep on. README.md:331 warns
  of it; `FindsPipe`, and `WriterFinishes` speaks of a reader that lives.
- A post that dequeues the pid of a killed process wakes nobody and adds no unit
  (semaphore.c:117; semaphore.h:64). `SemPost`; `SleepersAreBlocked` shows that only
  dead pids swallow posts.
- The line after `kill` in `syscall_exit`, "never reached" (syscallDispatcher.c:148),
  is reached when nobody else is ready: `schedule` has saved the dead stack as
  idle's (scheduler.c:155-178). `SysExit` leaves the context in a `hlt` loop.
- Priority 5, "máxima" (README.md:231), has the shortest quantum (scheduler.c:21).
  `CalculateQuantum`.
- `pipeClear` empties the buffer and leaves the tokens (pipe.c:181), and a key that
  interrupts idle with the buffer full goes past its wait without a token
  (keyboardDriver.c:104), so that `TokensMatch` holds in `PipeCore` only. The shell
  clears pipe 0 before every prompt: for each key dropped there a later `getChar`
  finds no byte and returns its uninitialised variable. `GetChar` of `Terminal`.
- The pipes in slots 1 and 2 cannot be closed (pipe.c:149 tests the slot after
  PIPE_ID_CHECK has subtracted 2) and the ids of the last two slots are refused
  (pipe.c:28). `CloseWorks`, `PipeIdCheck`; `NothingLeftOver` excepts these slots.
- `wait_ticks` counts its own yields as ticks (time.c:36, interrupts.asm:112-114).
  `TimerHandler`.
- The buddy manager rounds its region up to a power of two and hands out what is
  past its end (BuddyMemoryManager.c:110-116). `max_order`.
- Ctrl-C kills the foreground pointer's process, one of a pipeline's two at most
  (README.md:208 says both), and none while the pointer is on the shell
  (keyboardDriver.c:116, process.c:318). `CtrlC`.

Other things the shell and the console do, which the exceptions in their properties
stand for:

- `handle_help`, `handle_clear` and `handle_test_malloc_free` free the argument buffer
  that the caller frees again (shellfunctions.c:173, shell.c:110): a block that got
  a new owner in between is taken from it. `OnlyOwnFreed`.
- A bar with only one command that can be run leaks `arg2`; without memory for
  `instruction` or `shell_buffer` the buffers taken before leak. `HeapGivenBack`.
- For the second command `getInstruction` frees a pointer into the middle of the line
  (shell.c:184, 211), and with only the second command known the handler at index
  -1 is called (shell.c:98). Both are `fault` in `Shell`, where its behaviours end. The
  bitmap manager ignores such a pointer, so `SplitLine` may also go on.
- When a command has no arguments `getInstruction` steps over the terminator and
  reads on in text that was typed and deleted before (shell.c:172).
  `ParsedAsWritten` speaks of lines typed without deleting.
- With one command of a pipeline in the background, or not started, the shell
  closes the pipe under the other one (shell.c:255-273). `ClosedAfterUse` speaks of
  the processes of the line: a background process of an earlier line may still
  hold an id whose slot was closed and opened again.
- Pipes take new semaphore ids for every creation and never the old ones again
  (pipe.c:70). With slots 1 and 2 never closed, creation in the end fails for
  good. `PipesKeepApart`, `NothingLeftOver`.
- A backspace at the right edge of the screen goes to the next line and deletes
  there (textModule.c:189), and `readLine` stores the EOF byte of a Ctrl-D, which has no
  glyph. `EchoIsBuffer` excepts both.
- `verifyInstruction` compares with one entry past the end of `inst_list`
  (shell.c:151); `VerifyInstruction` takes it to be no name.

## 4. Proofs

A run decides one small instance; the theorems below hold for every value of the
constants that the named ASSUMEs of the modules admit: naturals where the code has
unsigned numbers, room for idle and the shell, finite sets of processes, a heap
of any size. A theorem that needs more says so in its statement. Every
invariant was checked by TLC on the run of its module before it was proved.

| Module | Theorem | States | Needs |
|---|---|---|---|
| SchedulerProofs | TypeCorrect, QueuesCorrect, PointersCorrect, UnitsCorrect, SleepersCorrect | `TypeOK`, `QueuesHold`, `NoDanglingPointer`, `NoUnitWhileAsleep`, `SleepersAreBlocked` | |
| | NobodyLost | `Lost(k) = {}` | no `outOfMemory` |
| | WaitersCorrect | `WaiterWillBeFound` | |
| | OrderKept | `NeverOvertaken` | |
| | ChildrenCorrect | `ChildrenCounted` | `SemsApart`; no `outOfMemory` |
| | SleepersCanWake | `EverySleeperCanWake` | `SemsApart`; no `closeBusy`, no `outOfMemory` |
| PipeProofs | ChannelImplemented | `ImplementsChannel` | |
| | MutexCorrect | `MutexFree` | |
| | TokensCorrect | `TokensMatch` | `Env \subseteq {"key"}` |
| | ClosedLastCorrect | `ClosedLast` | `MaxPid >= 3` |
| TestsProofs | BookKept | `BookMatchesKernel` | |
| | OneInside, PrintsZero | `MutualExclusion`, `EndsWithZero` | |
| | RoundsReady | `RoundIsReady` | |
| MVarProofs | SinglePlaceCorrect | `SinglePlace` | |
| BitmapProofs | BitmapConsistent, BitmapRoom, BitmapImplements | `Consistent`, `RoomForRequest`, `ImplementsAllocator` of `Bitmap` | |
| ListProofs | ListsCorrect | `WellLinked` | |
| | ListsImplementSequences | `ImplementSequences` | |
| ShellProofs | PipesApart, NothingLeft, HeapBalanced, OwnFreed, ClosedInTime | `PipesKeepApart`, `NothingLeftOver`, `HeapGivenBack`, `OnlyOwnFreed`, `ClosedAfterUse` | |

### The kernel

None of the first five is inductive alone. Queues stay disjoint because blocking and
killing act on the queue that holds the process, which for the current process
must be the ready queue or none (`CurOK`: it is idle, ready or lost). Nobody is enqueued
twice at birth because pids are fresh (`nextPid` is above every pid in a queue or
with a PCB). A post wakes the process it dequeues because a live pid in a
semaphore's queue is there once and in `blockedBySem` (`Sleepers`), which in turn
needs that only the current process, which is ready and so in no such queue, goes
to sleep. `waitpid`'s branch for zombies is harmless because the zombie queue is
empty between calls (`NoZombies`). Their conjunction, with the type of the frames,
is `IInv`:

    IInv == /\ WF(k, Lost(k)) /\ CurOK(k, Lost(k)) /\ Sleepers(k, Lost(k))
            /\ NoZombies(k) /\ FrameOK
            /\ "outOfMemory" \notin Env => Lost(k) = {}

`Lost(k)` is the set of processes that exist in no queue. The predicates take it as a
parameter, so that a lemma about a kernel function says that the function leaves the
set as it is; only `SysCreateNoNode` adds to it (`Kept`). A lost process may be current,
wait for others and enter a semaphore's queue, but it cannot be blocked, and its
first preemption is its last. `PipeProofs` and `TestsProofs` use the same lemmas with
the empty set.

`KernelProofs` has a lemma for each kernel function: what it does to queue
membership, to states, to the other fields of a PCB, to the stacks and to the
semaphore queues. `Keeps`, `Quiet`, `Steps` and `Sound` name the relations between the
state before and after that the lemmas establish, and compose: a handler's lemma
chains those of the functions it calls. Each invariant then has one case per action.

- `WaitersCorrect` needs `WaitInv`: besides `IInv`, that a process that exists runs on
  its own stack and nobody else does (`OwnStack`), so that what a suspended `waitpid`
  goes on with is its own frame; that whoever is recorded as waited for is dead or
  a child (`Awaited`), so that `kill` looks at the right parent.
- `OrderKept` follows the position of every pid in the ready queue through each
  function: removals only move others forward, additions go to the tail, and only
  a dispatch moves a process there.
- `ChildrenCorrect` needs `KidInv`: `children_count` is the number of living foreground
  children (`Family`), no two processes share a `children_sem` (`Holds`), and a counting
  argument (`Room`): a parent that dies leaves its semaphore in use for ever, so the
  kernel's semaphores in use are at most as many as the pids that hold one or are
  dead, which keeps the lowest free entry below `MaxPid`. Hence `SemsApart`: the
  table has an entry per process ever made and programs use entries behind those.
  The code does not enforce this. Its table has 300 entries, pipes count up from 0
  and test programs pick fixed ids; once the entries are used up or a program picks
  one that the kernel took, counts do go wrong, so the condition is a real limit of
  the code and not of the proof.
- `SleepersCanWake` needs in addition that every sleeper is in the queue of a
  semaphore in use (`SleepInv`). Closing a semaphore under its sleepers and running
  out of memory for a queue node both strand a process in the code as well
  (semaphore.c:69, 109): `SchedHostile` has these environments and not the property.

### The pipe

`ChannelImplemented` is a refinement, step by step: the bytes between the two
indices are the channel's contents, and the write index is `count` places after
the read index, modulo the size of the buffer (`PipeInv`). The buffer's correctness
does not depend on the tokens, because both bodies test `count` themselves; so it
survives deaths inside a call, `pipeClear` and keys on idle.

`MutexCorrect` needs that the mutex is taken exactly while the running context is in
the body of a pipe function, that no other context is in one, and that no process's
`children_sem` is one of the pipe's three (`MutexInv`): else a death would post to it.

`TokensCorrect` is about the environment of `PipeCore`: a death inside a call,
`pipeClear` and a key that finds idle with the buffer full really make the tokens
drift (section 3). It needs `TokenInv`: everyone is ready or asleep, on his own
stack, and whoever sleeps for a token has passed his wait, so that being dequeued
is the same as having the token.

The initial state of `Pipe` is the result of as many `createProcess` calls as there are
processes, a recursive function; its facts are proved by the least number that
would violate them.

### A pipeline

`ClosedLast` says that `handle_piped_commands` closes the pipe after both commands have
ended. Its hypothesis only says that there is a process number for the second
command; there may be any number of other processes. `PipelineInv` is the conjunction
of four facts:

- `Waited`: what the shell has waited for is gone, and a number is never used again;
- `Suspended`: while its target lives the shell is blocked and recorded as waiting for
  it, so that `waitpid` goes on for no other reason than that death. `KillRuns` proves
  that a death of anybody else does not wake the shell;
- `Roles`: only the contexts of the two commands are inside pipe functions;
- `Staff`: whoever lives is in a queue and is a child of the shell, so that `waitpid`
  returns at once for the dead only; and only the commands sleep on semaphores. The
  last part needs `HomeStacks`: the CPU runs on the stack of the current process,
  unless that is idle. Otherwise a statement of a command could put somebody else to
  sleep; with idle current, and a dead command's stack in use, nobody goes to sleep.

### The test programs

The tests run on the kernel that the lemmas of `KernelProofs` are about, one lemma per
kernel function saying what a program sees of it. Each program has an invariant that
says where the kernel has its processes at each of its statements.

- `ProcessesInv`: the book of `test_processes` is true of the queues and has no process
  twice (`Book`); the test is ready and everybody else is its child, in the background
  (`Parent`), so that no death opens or closes a semaphore or moves another process.
- `SyncInv`: a process of `test_sync` lives from its birth to its last statement
  (`Family`) and the parent is ready, but while it waits for a child that lives
  (`Awaits`, `Joined`); whoever is in the semaphore's queue is at the wait that lets him
  in, and each once (`Asleep`); the unit is in the semaphore or with the one process
  inside (`Unit`). `PrintsZero` then needs a sum over any number of processes without
  induction over data: `Tally` makes it a cardinality. Each addition made is a pair of
  a process and its number, and the variable is the number of pairs of the processes
  that add less the number of pairs of those that subtract.
- `PrioInv`: the children of the rounds are numbered one after the other, so that
  where the parent is tells who is born, who has his priority, who is blocked and
  who may still live (`Scene`, `ChildAt`).

`ProgramAssumption` is needed: entry 0 of the semaphore table is the one that counts the
shell's foreground children, and with `SEM_ID = 0` a death would post to it; and
`test_prio` gives process `i` priority `i - 1`, which `changePrio` clips to the highest.

### The linked structures

    ListsInv == QueueInv /\ ListInv

There is a sequence of distinct nodes that is the structure: the links lead from each
node to the next (and back), the end pointers name its ends, the count is its length
and the nodes are exactly the allocated ones. For each call a lemma gives the
sequence that it leaves, and that sequence is what `WellLinked` finds by following the
links and what the refinements map to the abstract queue and double-ended sequence.
That following the links gives the sequence is proved by the least position at
which it would not (`LeastNatural`). A removal from the middle is one lemma on
sequences (`Drop`).

### mvar, the bitmap manager

`SinglePlace` is inductive with one more fact: a reader that has not given its token
back holds the last value put. In the bitmap manager (`BInv`) the marks are covered
by groups, `blocksUsed` counts them and the search starts inside the heap;
allocating and freeing are the same relation between two bitmaps read forwards and
backwards (`Carved`), so that "no other group changes" is proved once for both. The
run `Memory` checks the three properties for whichever manager an image has; the
theorems are about the bitmap half.

### The shell

The loop of `shell` holds buffers, processes and a pipe on paths that may fail at any
`malloc`. What it still has to do, `sh.todo`, accounts for what it holds, and `ShInv`
says how:

- `Shape`: the pipe is opened first and closed when only frees are left; whatever may
  start a process comes before the wait for it; who allocates `argv` frees it next;
- `FreesOnce`: no free is in the list twice, unless the line has one of the three
  commands that free their own argument (`SelfFreeing`);
- `OwnBlocks`: the pointers that will be freed point to different blocks of the shell;
- `AccountsOK`: every block of the shell is one that will be freed, or one of as many
  others as at the last prompt, on all but the paths that leak;
- `PidsOK`: a process of the line that lives will be waited for, unless one of the
  two could not be started;
- `PipeOK`, `TableOK`: the only pipe open that `pipeClose` accepts is the one of the
  line, and good pipes have three semaphores each of their own, below `next_sem_id`.

Proving these for any table showed that two properties had been true of the run's
bounds and not of the code. `ClosedAfterUse` used to speak of every process that
holds the id of a closed slot; a background process of an earlier line may hold it
from before the slot was reused, and the run has too few processes for that.
`NothingLeftOver` used to except slots 1 and 2 only; with all slots in use, one
whose id `PIPE_ID_CHECK` refuses stays open as well. Both now say what the code does.

### Only model-checked

- Liveness (`ReadyIsDispatched`, `WaiterReturns`, `ReadersAreServed`, `WriterFinishes`,
  `TestsEnd`, `NobodyStarves`, `EnterEndsLine`, `EverybodyServed`): the proof system does
  not handle fairness.
- The buddy half of `Memory`: sums of block sizes and powers of two need induction
  over data.
- `ParsedAsWritten`: it compares the parse of a line with a filter over the same
  sequence, for every line, which is induction over data too.
- `NothingOffScreen` and `EchoIsBuffer`: see the plan below.

## 5. Not modelled

- The real-time clock and sound (port I/O and formatting), the interrupt tables and
  exceptions (written once, or a restart), the boot loader and the module packer
  (vendored, build-time).
- `test_mm`: random requests whose sequences are among those of the run `Memory`;
  the test helpers (a random number generator, busy loops).
- What single programs print, the system calls that only report, the wrappers and
  the number formatting of the user library, the drawing functions nobody calls.
- Effects of undefined behaviour beyond the step that causes it: work on a closed
  semaphore's freed queue (semaphore.c:92), the semaphore manager that `semInit`
  frees when it has no memory (semaphore.c:47), a line that starts with a bar, which
  writes before its buffer (shell.c:206), an argument of 32 characters, which
  writes past its place (stdlib.c:129), arguments handed over without their NULL.
- Deaths in `mvar`: a reader or writer killed with the token in hand stops the others
  (haskell.c:61); `PipeHostile` shows that the pipe itself survives it.

## 6. Plan

Done, in this order: process manager, dispatcher, semaphores, life cycle and their
proofs; pipes and their abstract channel; pipelines; allocators; linked structures;
pipe table; `mvar`; console, keyboard and terminal; the shell's loop; the test
programs and `loop` on the kernel.

Then proofs: the scheduler's invariants, its waits, order, children and sleepers; the
pipe; `mvar`; the bitmap manager; the shell; the linked structures; the test programs;
the pipelines.

Left: `NothingOffScreen` of `Terminal` for any screen, and `EchoIsBuffer` from it; the
buddy manager.
