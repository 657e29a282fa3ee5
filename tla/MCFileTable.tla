---------------------------- MODULE MCFileTable ----------------------------
(* Open files of a few processes, with short tables and a short counter.   *)
(* Slots but init's, and files, are alike.                                 *)
EXTENDS FileTable, TLC

CONSTANTS p0, p1, p2, f1, f2
MCProcs == {p0, p1, p2}
MCFiles == {f1, f2}
Alike == {r @@ s : r \in Permutations({p1, p2}), s \in Permutations(MCFiles)}
=============================================================================
