------------------------------ MODULE Terminal ------------------------------
(***************************************************************************)
(* The terminal: keys, pipe 0, the shell's readLine                        *)
(* (Userland/SampleCodeModule/shell/programs.c) and the console, from the  *)
(* shell's welcome through any number of command lines.                    *)
(*                                                                         *)
(* A system call is one step; the keyboard interrupts between any two.     *)
(* pipeClear empties the buffer of pipe 0 and leaves its semaphores alone: *)
(* the readers' tokens of the bytes it dropped are spent by reads that     *)
(* find no byte, and getChar then returns its uninitialised variable.      *)
(* The shell is the only process that writes while it reads a line: what a *)
(* process in background prints is left out.                               *)
(***************************************************************************)
EXTENDS Text, Keyboard

CONSTANTS
  MAX_USERNAME_LENGTH, BUFFER_SPACE,
  Outputs,       \* what a command may print
  KeysAhead,     \* bound: bytes that wait in pipe 0
  Keys           \* the keys of this keyboard

ASSUME TerminalAssumption ==
  /\ MAX_USERNAME_LENGTH \in Nat \ {0} /\ BUFFER_SPACE \in Nat \ {0} /\ KeysAhead \in Nat
  /\ Keys \subseteq Key

VARIABLES
  console,       \* module Text
  kb,            \* the keyboard's modifiers
  stdin,         \* the bytes of pipe 0
  tokens,        \* units of its semReaders that stand for no byte
  step,          \* the shell's place in Script
  buff,          \* readLine: the characters in the buffer
  echo,          \* readLine: the text it is about to print, and whether it ends then
  undisturbed    \* history: see EchoIsBuffer
vars == <<console, kb, stdin, tokens, step, buff, echo, undisturbed>>

Printf(text)  == [op |-> "print", text |-> text]
Read(length)  == [op |-> "read", length |-> length]
Call(name)    == [op |-> name]
Prompt        == <<"$">>

\* The system calls of shell(), from the welcome in large letters to the loop.
\* Words are cut short: a line of the banner is wider than the screen.
Script ==
  <<Call("clear"), Call("up"), Printf(<<"NL">>), Printf(<<"t", "t", "t", "NL">>), Call("down"),
    Printf(<<" ", "e", "NL">>), Printf(Prompt), Read(MAX_USERNAME_LENGTH), Call("clear"),
    Call("flush"), Printf(Prompt), Read(BUFFER_SPACE), Call("run")>>

LoopStart == CHOOSE i \in DOMAIN Script : Script[i].op = "flush"
AfterStep == IF step = Len(Script) THEN LoopStart ELSE step + 1
Doing(op) == Script[step].op = op
Nothing   == [text |-> << >>, last |-> FALSE]

Init ==
  /\ console = EmptyConsole
  /\ kb = NoModifiers
  /\ stdin = << >> /\ tokens = 0 /\ buff = << >> /\ echo = Nothing
  /\ step = 1
  /\ undisturbed = FALSE

-----------------------------------------------------------------------------
(* The keyboard's interrupt: bufferWrite.                                   *)

\* printStr and lineFeed in the interrupt, wherever the cursor is.
WriteFromIRQ(text) ==
  /\ console' = LineFeed(Write(console, text))
  /\ undisturbed' = FALSE

KeyIRQ(key) ==
  \/ /\ key \in SpecialKeys
     /\ kb' = HandleSpecialKeys(kb, key)
     /\ UNCHANGED <<console, stdin, tokens, step, buff, echo, undisturbed>>
  \/ /\ key \in DOMAIN press_keys /\ IsCtrlC(kb, key)
     /\ WriteFromIRQ(<<"^", "C">>)
     /\ UNCHANGED <<kb, stdin, tokens, step, buff, echo>>
  \/ /\ key \in DOMAIN press_keys /\ ~IsCtrlC(kb, key)
     /\ Len(stdin) + tokens < KeysAhead
     /\ IF IsCtrlD(kb, key)
        THEN stdin' = Append(stdin, "EOF") /\ WriteFromIRQ(<<"^", "D">>)
        ELSE stdin' = Append(stdin, Byte(kb, key)) /\ UNCHANGED <<console, undisturbed>>
     /\ UNCHANGED <<kb, tokens, step, buff, echo>>

-----------------------------------------------------------------------------
(* The shell.                                                               *)

ShellPrintf ==
  /\ Doing("print")
  /\ console' = Write(console, Script[step].text)
  /\ undisturbed' = TRUE
  /\ step' = AfterStep
  /\ UNCHANGED <<kb, stdin, tokens, buff, echo>>

ShellCall ==
  /\ \/ Doing("clear") /\ console' = ClearText(console)
     \/ Doing("up")    /\ console' = FontSizeUp(console, 1)
     \/ Doing("down")  /\ console' = FontSizeDown(console, 1)
  /\ step' = AfterStep
  /\ UNCHANGED <<kb, stdin, tokens, buff, echo, undisturbed>>

\* clearBuffer.
ShellFlush ==
  /\ Doing("flush")
  /\ stdin' = << >>
  /\ tokens' = tokens + Len(stdin)
  /\ step' = AfterStep
  /\ UNCHANGED <<console, kb, buff, echo, undisturbed>>

\* A command runs and prints.
ShellRun ==
  /\ Doing("run")
  /\ \E out \in Outputs : console' = Write(console, out)
  /\ step' = AfterStep
  /\ UNCHANGED <<kb, stdin, tokens, buff, echo, undisturbed>>

\* Mutant: backspaces are taken out of the buffer and not off the screen.
EditSilently(line, c) ==
  IF c = "BS" THEN [line |-> SubSeq(line, 1, Len(line) - 1), echo |-> << >>]
  ELSE IF c = "NUL" THEN [line |-> line, echo |-> << >>]
  ELSE [line |-> Append(line, c), echo |-> <<c>>]

\* The body of readLine's loop for a character: the buffer after it, and what
\* is printed.
Edit(line, c) ==
  IF c = "BS" /\ line # << >> THEN [line |-> SubSeq(line, 1, Len(line) - 1), echo |-> <<"BS", " ", "BS">>]
  ELSE IF c \in {"BS", "NUL"} THEN [line |-> line, echo |-> << >>]
  ELSE [line |-> Append(line, c), echo |-> <<c>>]

\* Mutant: an empty line does not end.
EndsNonEmptyLine(c) == (c = "NL" /\ buff # << >>) \/ Len(buff) >= Script[step].length - 1

\* The loop's condition, tested after the character has been read: in a full
\* buffer any character ends the line.
EndsLine(c) == c = "NL" \/ Len(buff) >= Script[step].length - 1

\* A byte, or what may be left of an earlier one.
Bytes == {"EOF", "NUL"} \cup UNION {{press_keys[key].ascii, press_keys[key].shift_ascii} :
                              key \in Keys \cap DOMAIN press_keys}

GetChar(c) ==
  /\ Doing("read") /\ echo = Nothing
  /\ \/ /\ stdin # << >> /\ c = Head(stdin)
        /\ stdin' = Tail(stdin)
        /\ UNCHANGED tokens
     \/ /\ stdin = << >> /\ tokens > 0
        /\ tokens' = tokens - 1
        /\ UNCHANGED stdin
  /\ IF EndsLine(c)
     THEN echo' = [text |-> <<"NL">>, last |-> TRUE] /\ UNCHANGED buff
     ELSE LET e == Edit(buff, c)
          IN  buff' = e.line /\ echo' = [text |-> e.echo, last |-> FALSE]
  /\ UNCHANGED <<console, kb, step, undisturbed>>

\* The cursor is where a line of the screen ends or begins.
AtEdge == console.x = 0 \/ console.x + console.fontSize > Width

\* readLine prints what it decided on; a newline is its last act.
Echo ==
  /\ echo # Nothing
  /\ console' = Write(console, echo.text)
  /\ echo' = Nothing
  /\ undisturbed' = (undisturbed /\ echo.text[1] # "EOF" /\ ~(echo.text[1] = "BS" /\ AtEdge))
  /\ IF echo.last
     THEN step' = AfterStep /\ buff' = << >>
     ELSE UNCHANGED <<step, buff>>
  /\ UNCHANGED <<kb, stdin, tokens>>

ShellStep == ShellPrintf \/ ShellCall \/ ShellFlush \/ ShellRun \/ (\E c \in Bytes : GetChar(c)) \/ Echo

Next == ShellStep \/ \E key \in Keys : KeyIRQ(key)

Spec == Init /\ [][Next]_vars

\* The shell runs when it can: keys do not keep it from the CPU.
FairSpec == Spec /\ WF_vars(ShellStep)

-----------------------------------------------------------------------------
(* Correctness.                                                             *)

\* Nothing is ever drawn or erased outside the frame buffer, which putPixel
\* does not check: not by long lines, by scrolling, by the change of font size
\* in the welcome, or by keys that print at any moment.
NothingOffScreen == ~console.wild

\* While a line is typed the user sees what readLine has: the characters of
\* the buffer stand before the cursor, over as many lines as they need, and
\* nothing stands after them.  Three things disturb that until the next prompt:
\* what the interrupt prints for Ctrl-C and Ctrl-D; the EOF byte of a Ctrl-D,
\* which is stored and has no glyph; and a backspace that crosses the end of a
\* line of the screen, because putChar takes a backspace at the right edge for a
\* glyph.
EchoIsBuffer ==
  Doing("read") /\ echo = Nothing /\ undisturbed =>
    /\ \A i \in 1..Len(buff) :
         GlyphBack(console, Len(buff) - i + 1) = {buff[i]} \ Blank
    /\ GlyphBack(console, 0) = {}

\* Once Enter is in the pipe readLine returns, whatever was typed before it and
\* however many tokens an earlier clearBuffer has left behind.
EnterEndsLine ==
  (Doing("read") /\ \E i \in DOMAIN stdin : stdin[i] = "NL") ~> ~Doing("read")
=============================================================================
