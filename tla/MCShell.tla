------------------------------ MODULE MCShell ------------------------------
(* Small instances of Shell for TLC: the lines that users type. *)
EXTENDS Shell, TLC

Typed(s) == [text |-> s, tail |-> << >>]

MCLines == {
  Typed(<< >>),
  Typed(<<"help">>),
  Typed(<<"loop", " ", "7">>),
  Typed(<<"loop", " ", "7", " ", "&">>),
  Typed(<<"kill", " ", "7">>),
  Typed(<<"ps", " ", "|", " ", "wc">>),
  Typed(<<"echo", " ", "7", " ", "|", " ", "cat", " ", "&">>),
  Typed(<<"loop", " ", "7", " ", "&", " ", "|", " ", "wc">>),
  Typed(<<"ps", " ", "|", " ", "nice", " ", "7", " ", "7">>),
  Typed(<<"ps", " ", "|", " ", "foo">>),
  Typed(<<"foo", " ", "|", " ", "wc">>),
  Typed(<<"ps", " ", "|", " ", "kill", " ", "7">>),
  Typed(<<"kill", " ", "7", " ", "|", " ", "kill">>),
  Typed(<<"kill", " ", "7", " ", "|", " ", "ps">>),
  Typed(<<"ps", "|", "wc">>),
  [text |-> <<"ps">>, tail |-> <<"wc">>],
  [text |-> <<"ps", " ", "|">>, tail |-> <<"wc">>]}

BlockSymmetry == Permutations(Block)
=============================================================================
