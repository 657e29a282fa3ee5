----------------------------- MODULE AddrSpace -----------------------------
(***************************************************************************)
(* What memory management promises a program: every process has an address *)
(* space of its own.  A store changes one word of one process; fork gives  *)
(* the child a snapshot; exec replaces the whole space; nothing else is    *)
(* ever seen to change.                                                    *)
(***************************************************************************)
CONSTANTS Procs,  \* process slots
          Pages,  \* user pages of an address space
          Data,   \* what a store or a program file puts into a page
          Blank,  \* what a page holds before: not in Data, so that the loss of
                  \* what was stored cannot pass for another store
          Image   \* the pages a program file fills

VARIABLES running, \* processes that have an address space
          space    \* space[p][v]: what p reads in page v

SpaceInit ==
    /\ \E p \in Procs : running = {p}
    /\ space = [p \in Procs |-> [v \in Pages |-> Blank]]

StoreWord(p, v, d) ==
    /\ p \in running
    /\ space' = [space EXCEPT ![p][v] = d]
    /\ UNCHANGED running

Snapshot(p, c) ==
    /\ p \in running
    /\ c \notin running
    /\ running' = running \cup {c}
    /\ space' = [space EXCEPT ![c] = space[p]]

Load(p, d) ==
    /\ p \in running
    /\ space' = [space EXCEPT ![p] = [v \in Pages |-> IF v \in Image THEN d ELSE Blank]]
    /\ UNCHANGED running

Leave(p) ==
    /\ p \in running
    /\ running' = running \ {p}
    /\ space' = [space EXCEPT ![p] = [v \in Pages |-> Blank]]

SpaceNext ==
    \E p \in Procs :
        \/ \E v \in Pages, d \in Data : StoreWord(p, v, d)
        \/ \E c \in Procs : Snapshot(p, c)
        \/ \E d \in Data : Load(p, d)
        \/ Leave(p)

SpaceSpec == SpaceInit /\ [][SpaceNext]_<<running, space>>
=============================================================================
