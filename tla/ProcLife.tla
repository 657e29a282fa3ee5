----------------------------- MODULE ProcLife -----------------------------
(***************************************************************************)
(* What fork, exit and wait promise, whatever the scheduler does: a family *)
(* tree in which a process is born to a living parent, dies leaving a      *)
(* zombie, and disappears exactly once, when its living parent is told of  *)
(* its death.  The children of a process that dies go to Root (init).      *)
(* The project documentation promises this under "exit and wait".          *)
(***************************************************************************)
CONSTANTS Slots,   \* places in the process table
          Root,    \* the process that inherits orphans
          Driver   \* the kernel process beside it

VARIABLES life,    \* "free", "alive" or "zombie"
          parent   \* of a slot in use; Root for a free one

LifeInit ==
    /\ life = [p \in Slots |-> IF p \in {Root, Driver} THEN "alive" ELSE "free"]
    /\ parent = [p \in Slots |-> Root]

\* p is given a child in a free slot.
Spawn(p, c) ==
    /\ life[p] = "alive"
    /\ life[c] = "free"
    /\ life' = [life EXCEPT ![c] = "alive"]
    /\ parent' = [parent EXCEPT ![c] = p]

\* p dies; its parent can still be told, and Root takes over its children,
\* the dead ones included.
Die(p) ==
    /\ p \notin {Root, Driver}
    /\ life[p] = "alive"
    /\ life[parent[p]] = "alive"
    /\ life' = [life EXCEPT ![p] = "zombie"]
    /\ parent' = [q \in Slots |-> IF parent[q] = p THEN Root ELSE parent[q]]

\* The parent of a zombie learns of its death, and the zombie is no more.
Reap(z) ==
    /\ life[z] = "zombie"
    /\ life[parent[z]] = "alive"
    /\ life' = [life EXCEPT ![z] = "free"]
    /\ parent' = [parent EXCEPT ![z] = Root]

LifeNext ==
    \/ \E p, c \in Slots : Spawn(p, c)
    \/ \E p \in Slots : Die(p) \/ Reap(p)

LifeSpec == LifeInit /\ [][LifeNext]_<<life, parent>>
=============================================================================
