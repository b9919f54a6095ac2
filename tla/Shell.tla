-------------------------------- MODULE Shell --------------------------------
(***************************************************************************)
(* The shell's loop (Userland/SampleCodeModule/shell/shell.c, the handlers *)
(* of shellfunctions.c and analize_arg of programs.c): it reads a line,    *)
(* splits it, starts one or two processes, waits for them and gives back   *)
(* the memory and the pipe.  Every call of malloc, free, waitpid and of    *)
(* the pipe table is a step of its own; between any two of them the other  *)
(* processes allocate, free, take semaphores and end.                      *)
(*                                                                         *)
(* A line is a sequence of words, " ", "|" and "&"; a word is one symbol.  *)
(* line.tail is what readLine leaves behind the terminator: it clears the  *)
(* buffer at the start only, so text that was typed and deleted is still   *)
(* there.  Words stand between blanks, except next to a first bar.         *)
(* A block of the heap belongs to nobody, to the shell or to another.      *)
(* sh.at = "fault" when the shell has used memory that is not its own;     *)
(* what follows is outside of the model.                                   *)
(***************************************************************************)
EXTENDS PipeTable, Sequences

CONSTANTS
  Block,        \* blocks of the heap
  NULL,
  Lines,        \* the lines users type: records [text, tail]
  MaxProcs,     \* bound: processes of the shell that live at a time
  MaxOtherBlocks  \* bound: blocks that others hold at a time

ASSUME ShellAssumption ==
  /\ IsFiniteSet(Block) /\ NULL \notin Block
  /\ \A l \in Lines : l.text \in Seq(STRING) /\ l.tail \in Seq(STRING)
  /\ MaxProcs \in Nat /\ MaxOtherBlocks \in Nat

VARIABLES
  sh,           \* the shell
  owner,        \* owner[b]: "none", "shell" or "other"
  live          \* its processes: live[p] are the pipes that p reads or writes
vars == <<table, sh, owner, live>>

-----------------------------------------------------------------------------
(* The commands.                                                            *)

SelfFreeing == {"help", "clear", "test_malloc_free"}
Plain       == {"echo", "memInfo"}
Expected(i) ==
  CASE i \in {"ps", "wc", "filter", "cat"} -> 0
    [] i \in {"test_mm", "test_processes", "test_prio", "loop"} -> 1
    [] i \in {"test_sync", "mvar", "nice"} -> 2
BuiltIns     == {"kill", "block", "unblock"}
Programs     == {"ps", "wc", "filter", "cat", "test_mm", "test_processes", "test_prio",
                 "loop", "test_sync", "mvar", "nice"}
Instructions == SelfFreeing \cup Plain \cup Programs \cup BuiltIns

\* Commands that give their process the pipe as standard input.
ReadsStdin == {"help", "clear", "memInfo", "wc", "filter", "cat"}

-----------------------------------------------------------------------------
(* The text of a line.                                                      *)

\* strstr(shell_buffer, "|"): the first bar, 0 when there is none.
PipePos(text) ==
  IF \E p \in 1..Len(text) : text[p] = "|"
  THEN CHOOSE p \in 1..Len(text) : text[p] = "|" /\ \A q \in 1..(p - 1) : text[q] # "|"
  ELSE 0

Piped(l) == PipePos(l.text) # 0

Buffer(l) == l.text \o <<"NUL">> \o l.tail
Char(b, i) == IF i \in DOMAIN b THEN b[i] ELSE "NUL"

\* What getInstruction reads for command i.  bufferControl has cleared the bar
\* and the characters before and after it: a word there loses a letter, and is
\* "cut", no command any more.  Command 2 starts two characters after the bar,
\* even when the line ends before that.
Part(l, i) ==
  LET p == PipePos(l.text)
      b == Buffer(l)
  IN  IF i = 1
      THEN IF p = 0 THEN b
           ELSE SubSeq(b, 1, p - 2) \o (IF p = 1 \/ Char(b, p - 1) = " " THEN << >> ELSE <<"cut">>)
                  \o <<"NUL", "NUL", "NUL">> \o SubSeq(b, p + 2, Len(b))
      ELSE (IF Char(b, p + 1) \in {" ", "NUL"} THEN << >> ELSE <<"cut">>) \o SubSeq(b, p + 2, Len(b))

\* The first position from i on with one of the characters S.
FirstOf(b, i, S) ==
  CHOOSE j \in i..(Len(b) + i) : Char(b, j) \in S /\ \A m \in i..(j - 1) : Char(b, m) \notin S

\* Mutant: the word does not end at a blank.
SplitAtEnd(b) ==
  LET j == FirstOf(b, 1, {"NUL"})
  IN  [word |-> SubSeq(b, 1, j - 1), args |-> << >>]

\* getInstruction: the word up to a blank or the terminator, and as arguments
\* the characters after that one up to a terminator.
Split(b) ==
  LET j == FirstOf(b, 1, {" ", "NUL"})
  IN  [word |-> SubSeq(b, 1, j - 1), args |-> SubSeq(b, j + 1, FirstOf(b, j + 1, {"NUL"}) - 1)]

\* verifyInstruction.  (Its loop also compares with the entry after the table's
\* last, which is taken here to be no name.)
VerifyInstruction(word) ==
  IF Len(word) = 1 /\ word[1] \in Instructions THEN word[1] ELSE "none"

\* parse_string.
WordsOf(s) == SelectSeq(s, LAMBDA c : c # " ")

\* analize_arg: is the process for the background, or -1.
AnalizeArg(args, expected) ==
  LET words == WordsOf(args)
      bg    == words # << >> /\ words[Len(words)] = "&"
      num   == IF bg THEN Len(words) - 1 ELSE Len(words)
  IN  IF num # expected THEN -1 ELSE IF bg THEN 1 ELSE 0


-----------------------------------------------------------------------------
(* The heap, the processes and the others.                                  *)

Vars == {"pipe_cmd", "shell_buffer", "arg1", "arg2", "instruction", "argv"}
NoPointers == [x \in Vars |-> NULL]
Arg(i) == IF i = 1 THEN "arg1" ELSE "arg2"

Free     == {b \in Block : owner[b] = "none"}
Mine     == Cardinality({b \in Block : owner[b] = "shell"})

\* x = malloc(...), and the shell goes on with s: any free block, NULL without.
Malloc(x, s) ==
  \/ /\ Free = {}
     /\ sh' = [s EXCEPT !.ptr[x] = NULL]
     /\ UNCHANGED owner
  \/ \E b \in Free :
       /\ owner' = [owner EXCEPT ![b] = "shell"]
       /\ sh' = [s EXCEPT !.ptr[x] = b]

\* free(x): freeMemory ignores NULL and a block that is marked free; a block
\* that has a new owner is taken from it.
FreeMem(x) == owner' = IF sh.ptr[x] = NULL THEN owner ELSE [owner EXCEPT ![sh.ptr[x]] = "none"]

\* Pids name a process only until the next line, and may be used again here.
UnusedPid == (1..MaxProcs) \ (DOMAIN live \cup {sh.pids[1], sh.pids[2]})
NewPid == {p \in UnusedPid : \A q \in UnusedPid : p <= q}

Without(p) == [q \in DOMAIN live \ {p} |-> live[q]]

\* A process of the shell ends or is killed.
ProcessEnds ==
  /\ \E p \in DOMAIN live : live' = Without(p)
  /\ UNCHANGED <<table, sh, owner>>

\* Other processes and the kernel use the heap too.
OthersMalloc ==
  /\ Cardinality({b \in Block : owner[b] = "other"}) < MaxOtherBlocks
  /\ \E b \in Free : owner' = [owner EXCEPT ![b] = "other"]
  /\ UNCHANGED <<table, sh, live>>

OthersFree ==
  /\ \E b \in Block : owner[b] = "other" /\ owner' = [owner EXCEPT ![b] = "none"]
  /\ UNCHANGED <<table, sh, live>>

-----------------------------------------------------------------------------
(* The loop.                                                                *)

NoLine    == [text |-> << >>, tail |-> << >>]
NoCommand == [inst |-> <<"none", "none">>, args |-> << << >>, << >> >>]

InitShell ==
  /\ Init
  /\ sh = [at |-> "prompt", todo |-> << >>, part |-> 1, line |-> NoLine,
           ptr |-> NoPointers, cmd |-> NoCommand, pids |-> <<0, 0>>, pipe |-> 0,
           before |-> 0, starved |-> FALSE]
  /\ owner = [b \in Block |-> "none"]
  /\ live = << >>

\* The start of a turn: pipe_cmd.  Without memory the shell returns.
NewLine ==
  /\ sh.at = "prompt"
  /\ Malloc("pipe_cmd", [sh EXCEPT !.at = IF Free = {} THEN "returned" ELSE "buffer",
                                   !.ptr = NoPointers, !.line = NoLine, !.part = 1,
                                   !.cmd = NoCommand, !.pids = <<0, 0>>, !.pipe = 0,
                                   !.before = Mine, !.starved = FALSE])
  /\ UNCHANGED <<table, live>>

\* bufferControl's shell_buffer; without, the turn ends and pipe_cmd stays.
NewBuffer ==
  /\ sh.at = "buffer"
  /\ Malloc("shell_buffer", IF Free = {} THEN [sh EXCEPT !.at = "prompt", !.starved = TRUE]
                                         ELSE [sh EXCEPT !.at = "read"])
  /\ UNCHANGED <<table, live>>

\* readLine, and strstr: with a bar command 2 is looked at first.
ReadLine ==
  /\ sh.at = "read"
  /\ \E l \in Lines :
       /\ Piped(l) => next_sem_id < 3 * MaxCreates
       /\ sh' = [sh EXCEPT !.at = "arg", !.line = l, !.part = IF Piped(l) THEN 2 ELSE 1]
  /\ UNCHANGED <<table, owner, live>>

NewArg ==
  /\ sh.at = "arg"
  /\ Malloc(Arg(sh.part), [sh EXCEPT !.at = "instruction"])
  /\ UNCHANGED <<table, live>>

\* After getInstruction for command 2 comes command 1, then the decision.
NextPart(s) == IF s.part = 2 THEN [s EXCEPT !.at = "arg", !.part = 1] ELSE [s EXCEPT !.at = "control"]

\* getInstruction: instruction.  Without memory it returns -1 and keeps the
\* buffer.
NewInstruction ==
  /\ sh.at = "instruction"
  /\ Malloc("instruction", IF Free = {} THEN NextPart([sh EXCEPT !.starved = TRUE])
                                        ELSE [sh EXCEPT !.at = "split"])
  /\ UNCHANGED <<table, live>>

\* The two loops of getInstruction and free(buffer).  A NULL arguments is
\* written to.  For command 2, buffer is a pointer into the block: the bitmap
\* manager ignores it; the buddy manager takes the text before it for a header,
\* which reads as free, or not.
SplitLine ==
  LET i     == sh.part
      split == Split(Part(sh.line, i))
      s     == [sh EXCEPT !.at = "verify", !.cmd.inst[i] = VerifyInstruction(split.word),
                          !.cmd.args[i] = split.args]
  IN  /\ sh.at = "split"
      /\ \/ /\ sh.ptr[Arg(i)] # NULL
            /\ sh' = s
            /\ IF i = 1 THEN FreeMem("shell_buffer") ELSE UNCHANGED owner
         \/ /\ sh.ptr[Arg(i)] = NULL \/ i = 2
            /\ sh' = [s EXCEPT !.at = "fault"]
            /\ UNCHANGED owner
      /\ UNCHANGED <<table, live>>

\* The end of getInstruction: free(instruction).
Verify ==
  /\ sh.at = "verify"
  /\ FreeMem("instruction")
  /\ sh' = NextPart([sh EXCEPT !.ptr["instruction"] = NULL,
                                !.ptr["shell_buffer"] = IF sh.part = 1 THEN NULL ELSE @])
  /\ UNCHANGED <<table, live>>

-----------------------------------------------------------------------------
(* What is done with a line: sh.todo, one step after the other.             *)

Do(op, x) == [op |-> op, x |-> x]
FreeOf(x) == Do("free", x)

\* free_pipe_cmd.
Cleanup == <<FreeOf("arg1"), FreeOf("arg2"), FreeOf("pipe_cmd")>>

\* Mutant: the argument is freed twice.
SingleTwice == <<Do("handler", 1), Do("waitpid", 1), FreeOf("arg1"), FreeOf("arg1"), FreeOf("pipe_cmd")>>

\* handle_single_command; a result that is not a pid is not waited for.
Single == <<Do("handler", 1), Do("waitpid", 1), FreeOf("arg1"), FreeOf("pipe_cmd")>>

\* handle_builtin_command.
BuiltIn == <<Do("builtin", 1), FreeOf("arg1"), FreeOf("pipe_cmd")>>

\* handle_piped_commands, up to its second error.
Pipeline == <<Do("open", 0), Do("handler", 1), Do("handler", 2), Do("created", 0)>>

\* Mutant: the pipe is closed when the first command has ended.
CloseEarly == <<Do("waitpid", 1), FreeOf("arg1"), Do("close", 0), Do("waitpid", 2), FreeOf("arg2"),
                FreeOf("pipe_cmd")>>

\* Its end, when both processes were created.
AwaitBoth == <<Do("waitpid", 1), FreeOf("arg1"), Do("waitpid", 2), FreeOf("arg2"),
               FreeOf("pipe_cmd"), Do("close", 0)>>

\* Mutant: the pipe stays open.
AbandonPipe == Cleanup

\* And when one was not.
Abandon == <<Do("close", 0)>> \o Cleanup

\* The turn goes on with the steps t; after the last one its pointers are gone.
GoOn(s, t) ==
  IF t = << >> THEN [s EXCEPT !.todo = t, !.at = "prompt", !.ptr = NoPointers]
               ELSE [s EXCEPT !.todo = t, !.at = "run"]

\* The end of bufferControl, and the switch of shell on its result.  Handler
\* -1 is called when command 2 is known and command 1 is not.
Control ==
  LET c == sh.cmd.inst
      n == Cardinality({i \in 1..2 : c[i] # "none"})
  IN  /\ sh.at = "control"
      /\ \/ /\ \/ c[1] \in BuiltIns /\ c[2] \in BuiltIns
               \/ n = 0
               \/ n = 2 /\ c[1] \notin BuiltIns /\ c[2] \in BuiltIns
            /\ sh' = GoOn(sh, Cleanup)
         \/ /\ c[1] \in BuiltIns /\ c[2] \notin BuiltIns
            /\ sh' = GoOn(sh, BuiltIn)
         \/ /\ n = 1 /\ c[1] \notin BuiltIns
            /\ sh' = IF c[1] = "none" THEN [sh EXCEPT !.at = "fault"] ELSE GoOn(sh, Single)
         \/ /\ n = 2 /\ {c[1], c[2]} \cap BuiltIns = {}
            /\ sh' = GoOn(sh, Pipeline)
      /\ UNCHANGED <<table, owner, live>>

\* The step at the head of the list.
Step(op) == sh.at = "run" /\ Head(sh.todo).op = op
X        == Head(sh.todo).x
Rest     == Tail(sh.todo)

DoFree ==
  /\ Step("free")
  /\ FreeMem(X)
  /\ sh' = GoOn(sh, Rest)
  /\ UNCHANGED <<table, live>>

\* kill, block and unblock: at most one process ends.
DoBuiltIn ==
  /\ Step("builtin")
  /\ \/ UNCHANGED live
     \/ sh.cmd.inst[1] = "kill" /\ \E p \in DOMAIN live : live' = Without(p)
  /\ sh' = GoOn(sh, Rest)
  /\ UNCHANGED <<table, owner>>

\* Mutant: argv is not freed when the process cannot be created.
KeepArgv(i) == <<Do("argv", i), Do("create", i)>>

\* create_process_with_args.
WithArgs(i) == <<Do("argv", i), Do("create", i), FreeOf("argv")>>

\* The handler of command i: help, clear and test_malloc_free free their
\* argument, which the caller frees again; the rest parse it.
DoHandler ==
  LET inst == sh.cmd.inst[X]
      bg   == AnalizeArg(sh.cmd.args[X], Expected(inst))
  IN  /\ Step("handler")
      /\ sh' = IF inst \in SelfFreeing THEN GoOn(sh, <<FreeOf(Arg(X)), Do("create", X)>> \o Rest)
               ELSE IF inst \in Plain THEN GoOn(sh, <<Do("create", X)>> \o Rest)
               ELSE IF bg = -1 THEN GoOn([sh EXCEPT !.pids[X] = -1], Rest)
               ELSE IF Expected(inst) = 0 THEN GoOn(sh, <<Do("create", X)>> \o Rest)
               ELSE GoOn(sh, WithArgs(X) \o Rest)
      /\ UNCHANGED <<table, owner, live>>

\* argv; without memory the handler returns -1.
DoArgv ==
  /\ Step("argv")
  /\ Malloc("argv", IF Free = {} THEN GoOn([sh EXCEPT !.pids[X] = -1], Tail(Tail(Rest)))
                                 ELSE GoOn(sh, Rest))
  /\ UNCHANGED <<table, live>>

InBackground(i) ==
  sh.cmd.inst[i] \in Programs /\ AnalizeArg(sh.cmd.args[i], Expected(sh.cmd.inst[i])) = 1

\* The pipe that command i's process reads or writes.
PipesOf(i) ==
  IF Len(Rest) > 0 /\ Rest[Len(Rest)].op = "created" /\ (i = 1 \/ sh.cmd.inst[i] \in ReadsStdin)
  THEN {sh.pipe} ELSE {}

\* syscall_create_process.  A background process is 0 to the caller.
DoCreate ==
  /\ Step("create")
  /\ \/ \E p \in NewPid :
          /\ live' = [q \in DOMAIN live \cup {p} |->
                        IF q = p THEN PipesOf(X) ELSE live[q]]
          /\ sh' = GoOn([sh EXCEPT !.pids[X] = IF InBackground(X) THEN 0 ELSE p], Rest)
     \/ /\ sh' = GoOn([sh EXCEPT !.pids[X] = -1], Rest)
        /\ UNCHANGED live
  /\ UNCHANGED <<table, owner>>

\* handle_piped_commands after both handlers.
DoCreated ==
  /\ Step("created")
  /\ sh' = GoOn(sh, IF \E i \in 1..2 : sh.pids[i] < 0 THEN Abandon ELSE AwaitBoth)
  /\ UNCHANGED <<table, owner, live>>

\* syscall_waitpid: at once for what is no living child (-1, 0, or gone).
DoWaitpid ==
  /\ Step("waitpid")
  /\ sh.pids[X] \notin DOMAIN live
  /\ sh' = GoOn(sh, Rest)
  /\ UNCHANGED <<table, owner, live>>

\* syscall_open_pipe.
DoOpen ==
  /\ Step("open")
  /\ \/ /\ CreatePipe
        /\ sh' = IF given' = given THEN GoOn(sh, Cleanup)
                 ELSE GoOn([sh EXCEPT !.pipe = CHOOSE id \in given' : id \notin given], Rest)
     \/ /\ \A i \in Slot : pipes[i].isOpen
        /\ sh' = GoOn(sh, Cleanup)
        /\ UNCHANGED table
  /\ UNCHANGED <<owner, live>>

\* syscall_close_pipe.
DoClose ==
  /\ Step("close")
  /\ IF CloseWorks(sh.pipe) THEN PipeClose(sh.pipe) ELSE UNCHANGED table
  /\ sh' = GoOn(sh, Rest)
  /\ UNCHANGED <<owner, live>>

ShellStep ==
  \/ NewLine \/ NewBuffer \/ ReadLine \/ NewArg \/ NewInstruction \/ SplitLine \/ Verify
  \/ Control \/ DoFree \/ DoBuiltIn \/ DoHandler \/ DoArgv \/ DoCreate \/ DoCreated
  \/ DoWaitpid \/ DoOpen \/ DoClose

Next ==
  \/ ShellStep
  \/ ProcessEnds \/ OthersMalloc \/ OthersFree
  \/ (OthersTake \/ OthersGive) /\ UNCHANGED <<sh, owner, live>>

Spec == InitShell /\ [][Next]_vars

-----------------------------------------------------------------------------
(* Correctness.                                                             *)

\* A line typed without deleting, with blanks around its bar.
WellTyped(l) ==
  LET p == PipePos(l.text)
  IN  /\ l.tail = << >>
      /\ l.text # << >> => l.text[1] \notin {" ", "|"}
      /\ p # 0 => /\ p < Len(l.text) /\ l.text[p - 1] = " " /\ l.text[p + 1] = " "
                  /\ p + 2 <= Len(l.text) => l.text[p + 2] # " "

\* The words on either side of the bar.
WordsBy(l, i) ==
  LET p == PipePos(l.text)
  IN  WordsOf(IF p = 0 THEN (IF i = 1 THEN l.text ELSE << >>)
              ELSE IF i = 1 THEN SubSeq(l.text, 1, p - 1) ELSE SubSeq(l.text, p + 1, Len(l.text)))

\* The commands and arguments that the two passes over the buffer find, one of
\* them reading what the other one has cut, are the ones typed.  (Not so for a
\* line that was edited: what was deleted may come back as an argument or as
\* the second command.)
ParsedAsWritten ==
  (sh.at = "control" /\ WellTyped(sh.line) /\ ~sh.starved) =>
    \A i \in 1..2 :
      LET words == WordsBy(sh.line, i)
      IN  /\ sh.cmd.inst[i] = IF words # << >> THEN VerifyInstruction(<<words[1]>>) ELSE "none"
          /\ words # << >> => WordsOf(sh.cmd.args[i]) = Tail(words)

\* At the prompt the shell holds as many blocks as at the prompt before: every
\* path through a line, the failures too, frees what it allocated.  The paths
\* that do not: no memory for shell_buffer or instruction, and a bar with only
\* one command that can be run (arg2 stays).
HeapGivenBack ==
  (sh.at = "prompt" /\ ~sh.starved) =>
    \/ Mine = sh.before
    \/ Piped(sh.line) /\ (sh.cmd.inst[1] \in BuiltIns \/ "none" \in {sh.cmd.inst[1], sh.cmd.inst[2]})

\* The shell never takes a block from its owner, however its frees and the
\* allocations of others interleave, unless the line has a command that frees
\* its own argument.
OnlyOwnFreed ==
  [][ShellStep => \/ \A b \in Block : owner[b] = "other" => owner'[b] = "other"
                  \/ {sh.cmd.inst[1], sh.cmd.inst[2]} \cap SelfFreeing # {}]_vars

\* When the shell closes a pipe no process of the line has it as input or output
\* any more, unless a command of the line runs in the background or could not be
\* started.  (A process that an earlier line left in the background may still
\* have the id of a pipe that was closed under it, and of any later one there.)
ClosedAfterUse ==
  [][\A i \in Slot : (pipes[i].isOpen /\ ~pipes'[i].isOpen) =>
       \/ \A j \in 1..2 : sh.pids[j] \in DOMAIN live =>
                            \A id \in live[sh.pids[j]] : SlotOf(id) # i
       \/ \E j \in 1..2 : sh.pids[j] < 1]_vars

\* When the prompt comes back nothing of the line is left over: its foreground
\* processes are gone, unless one of its two commands could not be started, and
\* the only pipes open are the ones that pipeClose refuses, by their slot (the
\* keyboard's among them) or by their id, and the ones createPipe left behind.
NothingLeftOver ==
  sh.at = "prompt" =>
    /\ (\A i \in 1..2 : sh.pids[i] >= 0) => \A i \in 1..2 : sh.pids[i] \notin DOMAIN live
    /\ \A i \in Slot : pipes[i].isOpen => i \in 0..2 \cup lost \/ ExportedId(i) >= MAX_PIPES
=============================================================================
