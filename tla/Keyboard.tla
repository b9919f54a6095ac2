------------------------------ MODULE Keyboard ------------------------------
(***************************************************************************)
(* The keyboard driver, Kernel/drivers/keyboardDriver.c: from scan codes   *)
(* to the bytes of pipe 0.                                                 *)
(*                                                                         *)
(* A scan code is a key: a special one, or one of the table press_keys,    *)
(* given here by its kinds of entries, or one past F12 (all the releases   *)
(* of ordinary keys).                                                      *)
(***************************************************************************)
EXTENDS Integers, Sequences

SpecialKeys == {"LSHIFT_PRESS", "LSHIFT_RELEASE", "RSHIFT_PRESS", "RSHIFT_RELEASE", "CAPS_PRESS",
                "ALT_PRESS", "CTRL_PRESS", "CTRL_RELEASE", "ESC_PRESS"}

\* press_keys: letters, of which c and d matter, a digit, the control
\* characters, and the many keys without a character.
press_keys ==
  [a      |-> [ascii |-> "a",   shift_ascii |-> "A"],
   c      |-> [ascii |-> "c",   shift_ascii |-> "C"],
   d      |-> [ascii |-> "d",   shift_ascii |-> "D"],
   seven  |-> [ascii |-> "7",   shift_ascii |-> "("],
   back   |-> [ascii |-> "BS",  shift_ascii |-> "BS"],
   tab    |-> [ascii |-> "TAB", shift_ascii |-> "TAB"],
   enter  |-> [ascii |-> "NL",  shift_ascii |-> "NL"],
   f1     |-> [ascii |-> "NUL", shift_ascii |-> "NUL"]]

PastF12 == {"release"}
Key     == SpecialKeys \cup DOMAIN press_keys \cup PastF12

IsAlpha(key) == key \in {"a", "c", "d"}

\* The static flags.
NoModifiers == [shift |-> FALSE, caps |-> FALSE, ctrl |-> FALSE]

HandleSpecialKeys(kb, key) ==
  CASE key \in {"LSHIFT_PRESS", "RSHIFT_PRESS"}     -> [kb EXCEPT !.shift = TRUE]
    [] key \in {"LSHIFT_RELEASE", "RSHIFT_RELEASE"} -> [kb EXCEPT !.shift = FALSE]
    [] key = "CAPS_PRESS"                           -> [kb EXCEPT !.caps = ~@]
    [] key = "CTRL_PRESS"                           -> [kb EXCEPT !.ctrl = TRUE]
    [] key = "CTRL_RELEASE"                         -> [kb EXCEPT !.ctrl = FALSE]
    [] OTHER                                        -> kb

IsCtrlC(kb, key) == kb.ctrl /\ key = "c"
IsCtrlD(kb, key) == kb.ctrl /\ key = "d"

\* The byte that an ordinary key sends: Caps Lock is for letters only.
Byte(kb, key) ==
  LET mayus == kb.caps # kb.shift
  IN  IF (IsAlpha(key) /\ mayus) \/ (~IsAlpha(key) /\ kb.shift)
      THEN press_keys[key].shift_ascii
      ELSE press_keys[key].ascii
=============================================================================
