----------------------------- MODULE Terminals -----------------------------
(* What the input and the output side of the terminals share (src/io/tty.c). *)
EXTENDS Integers

Ttys == {0, 1}

VARIABLE current_tty \* the terminal that is shown and typed on
=============================================================================
