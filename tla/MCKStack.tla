------------------------------ MODULE MCKStack ------------------------------
(* Two shells, and one slot for what they fork.                            *)
EXTENDS KStack
MCBootSps == {-1}
MCLow == -1
MCStub == 4
MCDriverSps == {-21}
=============================================================================
