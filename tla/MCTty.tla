------------------------------- MODULE MCTty -------------------------------
(* Two readers on the first terminal.  None reads the second: what is typed *)
(* there is followed to its first character.                               *)
EXTENDS Tty
MCTtyOf == [p \in 0 .. 1 |-> 0]
OneElsewhere == Len(text[1]) <= 1
=============================================================================
