--------------------------- MODULE MCPageFrames ---------------------------
(* Page frames for a few slots, fewer frames than they can ask for.        *)
EXTENDS PageFrames

CONSTANTS p0, p1, p2
MCProcs == {p0, p1, p2}
=============================================================================
