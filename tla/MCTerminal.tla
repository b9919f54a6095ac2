----------------------------- MODULE MCTerminal -----------------------------
(* Small instances of Terminal for TLC. *)
EXTENDS Terminal

MCOutputs == {<<"o", "NL">>}
MCKeys    == {"c", "d", "back", "enter", "CTRL_PRESS", "CTRL_RELEASE"}
=============================================================================
