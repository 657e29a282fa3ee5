----------------------------- MODULE FileTable -----------------------------
(***************************************************************************)
(* Open files: the four descriptor slots of a process, the table of file   *)
(* descriptors behind them and its reference counts (sys_do_open and       *)
(* sys_do_close in src/fs/fs.c), which fork copies, exit closes and exec   *)
(* uses to read the program (src/proc/proc.c).  All are system calls: each *)
(* is one step.                                                            *)
(***************************************************************************)
EXTENDS Lowest, FiniteSets

CONSTANTS Procs,        \* process slots
          Init0,        \* the process there is at boot
          FD_CNT,       \* descriptor slots of a process (4)
          DESC_CNT,     \* entries of file_desc_table (64)
          WORD,         \* values of rwcount (2^32)
          Files,        \* inodes
          MaxForked     \* bound of the model: descriptors that forks copy

ASSUME SizeAssumption == FD_CNT \in Nat /\ DESC_CNT \in Nat /\ WORD \in Nat /\ WORD >= 2
ASSUME FileAssumption == 0 \notin Files /\ Init0 \in Procs

Fds == 0 .. FD_CNT - 1
Descs == 1 .. DESC_CNT   \* 0 is the null pointer

VARIABLES
    live,   \* processes between their fork and their exit
    fds,    \* pcb->fds: a descriptor or 0
    inode,  \* the inode of each descriptor; 0: the descriptor is free
    rwcount,
    opened, \* the file each slot was opened on (history)
    forked, \* the descriptors a fork has copied into a second slot (history)
    hung    \* the kernel is in one of the while(1) loops

vars == <<live, fds, inode, rwcount, opened, forked, hung>>

TypeOK ==
    /\ live \subseteq Procs
    /\ fds \in [Procs -> [Fds -> Descs \cup {0}]]
    /\ inode \in [Descs -> Files \cup {0}]
    /\ rwcount \in [Descs -> 0 .. WORD - 1]
    /\ opened \in [Procs -> [Fds -> Files \cup {0}]]
    /\ forked \subseteq Descs
    /\ hung \in BOOLEAN

NoFds == [i \in Fds |-> 0]

Init ==
    /\ live = {Init0}
    /\ fds = [p \in Procs |-> NoFds]
    /\ inode = [d \in Descs |-> 0]
    /\ rwcount = [d \in Descs |-> 0]
    /\ opened = [p \in Procs |-> NoFds]
    /\ forked = {}
    /\ hung = FALSE

-----------------------------------------------------------------------------
FreeFds(p) == {i \in Fds : fds[p][i] = 0}
\* (Mutant of FreeDescs: the search stops at the first entry, free or not.)
FirstDesc == {1}

FreeDescs == {d \in Descs : inode[d] = 0}
Running(p) == p \in live /\ ~hung

\* Arithmetic of uint32_t.
Plus(n, k) == (n + k) % WORD

Hang == hung' = TRUE /\ UNCHANGED <<live, fds, inode, rwcount, opened, forked>>

\* sys_do_open when the file exists or is created.  Running out of slots or of
\* descriptors stops the kernel, before the name is even looked at.
Open(p, f) ==
    /\ Running(p)
    /\ IF LeastOf(FreeFds(p)) = {} \/ LeastOf(FreeDescs) = {} THEN Hang
       ELSE \E i \in LeastOf(FreeFds(p)), d \in LeastOf(FreeDescs) :
            /\ fds' = [fds EXCEPT ![p][i] = d]
            /\ inode' = [inode EXCEPT ![d] = f]
            /\ rwcount' = [rwcount EXCEPT ![d] = Plus(@, 1)]
            /\ opened' = [opened EXCEPT ![p][i] = f]
            /\ UNCHANGED <<live, forked, hung>>

\* The inode of descriptor d after k calls of sys_do_close on it: the count is
\* decremented first and the inode dropped when it comes to 0.
Dropped(d, k) == IF rwcount[d] \in 1 .. k THEN 0 ELSE inode[d]

\* sys_do_close on each of the slots in S.
Close(p, S) ==
    LET calls(d) == Cardinality({i \in S : fds[p][i] = d}) IN
    /\ fds' = [fds EXCEPT ![p] = [i \in Fds |-> IF i \in S THEN 0 ELSE @[i]]]
    /\ inode' = [d \in Descs |-> Dropped(d, calls(d))]
    /\ rwcount' = [d \in Descs |-> Plus(rwcount[d], -calls(d))]
    /\ opened' = [opened EXCEPT ![p] = [i \in Fds |-> IF i \in S THEN 0 ELSE @[i]]]

\* The system call, with a slot that may be empty or a number that is no slot,
\* for which the kernel stops (as it does in read and write).
SysClose(p, i) ==
    /\ Running(p)
    /\ IF i \notin Fds THEN Hang
       ELSE Close(p, {i}) /\ UNCHANGED <<live, forked, hung>>

\* sys_fork copies the pcb, its slots included, and counts nothing.
Fork(p, c) ==
    /\ Running(p)
    /\ c \notin live
    /\ live' = live \cup {c}
    /\ fds' = [fds EXCEPT ![c] = fds[p]]
    /\ opened' = [opened EXCEPT ![c] = opened[p]]
    /\ forked' = forked \cup ({fds[p][i] : i \in Fds} \ {0})
    /\ Cardinality(forked') <= MaxForked
    /\ UNCHANGED <<inode, rwcount, hung>>

\* (Mutant of ExitCloses: the loop of sys_exit stops one slot early.)
ExitClosesButLast == Fds \ {FD_CNT - 1}

\* The slots that sys_exit closes.
ExitCloses == Fds

Exit(p) ==
    /\ Running(p)
    /\ p # Init0
    /\ Close(p, ExitCloses)
    /\ live' = live \ {p}
    /\ UNCHANGED <<forked, hung>>

\* sys_exec opens the program in a free slot, reads it and closes it again; the
\* other slots stay open.  The descriptor keeps the inode if its count was off.
Exec(p, f) ==
    /\ Running(p)
    /\ IF LeastOf(FreeFds(p)) = {} \/ LeastOf(FreeDescs) = {} THEN Hang
       ELSE \E d \in LeastOf(FreeDescs) :
            /\ inode' = [inode EXCEPT ![d] = IF rwcount[d] = 0 THEN 0 ELSE f]
            /\ UNCHANGED <<live, fds, rwcount, opened, forked, hung>>

Next ==
    \E p \in Procs :
        \/ \E f \in Files : Open(p, f) \/ Exec(p, f)
        \/ \E i \in Fds \cup {FD_CNT} : SysClose(p, i)
        \/ \E c \in Procs : Fork(p, c)
        \/ Exit(p)

Spec == Init /\ [][Next]_vars

-----------------------------------------------------------------------------
(* Properties.                                                             *)

References(d) == {r \in live \X Fds : fds[r[1]][r[2]] = d}

\* An open slot stays on the file it was opened on until its process closes it:
\* no open, close, fork, exec or exit of any process takes the file away or puts
\* another in its place.  A descriptor that a fork has copied is excepted, for
\* good: the count of such a descriptor is one too small, the first close drops
\* the file of the other process and the last leaves the count below zero.
\* (close, in the documentation, only drops the file of a descriptor that one
\* process is connected to.)
FdKeepsItsFile ==
    \A p \in live, i \in Fds :
        fds[p][i] \notin forked \cup {0} => inode[fds[p][i]] = opened[p][i]

\* The count of a descriptor that no fork has copied is the number of slots that
\* point at it, whatever happens to the others, and the last of them to go gives
\* the descriptor back (and the variables keep their types).
CountsReferences ==
    /\ TypeOK
    /\ \A d \in Descs \ forked :
          /\ rwcount[d] = Cardinality(References(d))
          /\ References(d) = {} => inode[d] = 0
=============================================================================
