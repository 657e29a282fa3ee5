----------------------------- MODULE MCPaging -----------------------------
(* Paging for a few processes with two-page address spaces.                *)
EXTENDS Paging, TLC

CONSTANTS p0, p1, p2, blank, a

MCProcs == {p0, p1, p2}
MCData == {a}
MCPages == {0, 1}
Symm == Permutations({p1, p2})
=============================================================================
