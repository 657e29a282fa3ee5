----------------------------- MODULE PageFrames -----------------------------
(***************************************************************************)
(* The page frames of directories and page tables: page_bitmap and its     *)
(* users in src/mem/paging.c, fork, exec and exit in src/proc/proc.c and   *)
(* the scheduler.  A region is the part of an address space that one page  *)
(* table covers, one entry of the directory below entry 768.               *)
(***************************************************************************)
EXTENDS Lowest

CONSTANTS Procs,       \* process slots
          Init0,       \* the slot set up at boot
          Regions,     \* directory entries for user space that programs use
          Image,       \* the regions exec fills: the segments and the stack
          TableFrames  \* frames behind page_bitmap (0xe0)

ASSUME RegionAssumption == Regions \subseteq Nat /\ Image \subseteq Regions
ASSUME FrameAssumption == TableFrames \in Nat /\ TableFrames >= 2
ASSUME ProcAssumption == Init0 \in Procs

Frames == 0 .. TableFrames - 1
None == -1

VARIABLES
    phase,       \* "free", "live" or "exited" (directory kept for the scheduler)
    pde,         \* the page directory of each slot
    table,       \* table[p][r]: the page table of region r
    stray,       \* a page table in the kernel's half of the directory
    page_bitmap, \* frames handed out
    leaked,      \* tables whose directory is gone (history)
    hung         \* sys_alloc_page_frame found none and loops for ever

vars == <<phase, pde, table, stray, page_bitmap, leaked, hung>>

TypeOK ==
    /\ phase \in [Procs -> {"free", "live", "exited"}]
    /\ pde \in [Procs -> Frames \cup {None}]
    /\ table \in [Procs -> [Regions -> Frames \cup {None}]]
    /\ stray \in [Procs -> Frames \cup {None}]
    /\ page_bitmap \subseteq Frames /\ leaked \subseteq Frames
    /\ hung \in BOOLEAN

\* Frame 0 stands for the kernel's own directory and tables, frame 1 is the
\* directory sys_create_proc_page_table makes for pid 0.
Init ==
    /\ phase = [p \in Procs |-> IF p = Init0 THEN "live" ELSE "free"]
    /\ pde = [p \in Procs |-> IF p = Init0 THEN 1 ELSE None]
    /\ table = [p \in Procs |-> [r \in Regions |-> None]]
    /\ stray = [p \in Procs |-> None]
    /\ page_bitmap = {0, 1}
    /\ leaked = {}
    /\ hung = FALSE

-----------------------------------------------------------------------------
FreeFrames == Frames \ page_bitmap
\* What sys_alloc_page_frame finds for each of R, called in their order.
Found(R) == InOrder(R, FreeFrames)
Live(p) == phase[p] = "live" /\ ~hung
RegionsOf(p) == {r \in Regions : table[p][r] # None}

Hang == hung' = TRUE /\ UNCHANGED <<phase, pde, table, stray, page_bitmap, leaked>>

\* page_fault_handler in a region that has no table yet.
FaultTable(p, r) ==
    /\ Live(p)
    /\ table[p][r] = None
    /\ IF Found({r}) = {} THEN Hang
       ELSE \E got \in Found({r}) :
            /\ table' = [table EXCEPT ![p][r] = got[r]]
            /\ page_bitmap' = page_bitmap \cup {got[r]}
            /\ UNCHANGED <<phase, pde, stray, leaked, hung>>

\* sys_do_unlink clears bit 0xffffffff of inode_map: an address of the kernel's
\* half that is not mapped, so the page fault gives the directory of the caller
\* another table there.
Unlink(p) ==
    /\ Live(p)
    /\ stray[p] = None
    /\ IF Found({0}) = {} THEN Hang
       ELSE \E got \in Found({0}) :
            /\ stray' = [stray EXCEPT ![p] = got[0]]
            /\ page_bitmap' = page_bitmap \cup {got[0]}
            /\ UNCHANGED <<phase, pde, table, leaked, hung>>

\* (Mutant of CopiedTables: the child is given the tables of its father.)
SharedTables(p, got) == table[p]

\* The tables of the child, of the frames sys_copy_pages got for them.
CopiedTables(p, got) == [r \in Regions |-> IF r \in RegionsOf(p) THEN got[r] ELSE None]

\* sys_copy_pages: the directory is allocated before the tables.  The kernel's
\* half of it is copied as it is.
Directory == -1
Fork(p, c) ==
    LET found == Found({Directory} \cup RegionsOf(p)) IN
    /\ Live(p)
    /\ phase[c] = "free"
    /\ IF found = {} THEN Hang
       ELSE \E got \in found :
            /\ phase' = [phase EXCEPT ![c] = "live"]
            /\ pde' = [pde EXCEPT ![c] = got[Directory]]
            /\ table' = [table EXCEPT ![c] = CopiedTables(p, got)]
            /\ stray' = [stray EXCEPT ![c] = stray[p]]
            /\ page_bitmap' = page_bitmap \cup {got[r] : r \in {Directory} \cup RegionsOf(p)}
            /\ UNCHANGED <<leaked, hung>>

\* (Mutants of Released: the directory goes with the tables, or the last table
\* is missed.)
ReleasedAll(p) == {table[p][r] : r \in RegionsOf(p)} \cup {pde[p]}
ReleasedButLast(p) ==
    {table[p][r] : r \in {s \in RegionsOf(p) : \E t \in RegionsOf(p) : s < t}}

\* The frames that sys_cleanup_memory frees: it stops at entry 768.
Released(p) == {table[p][r] : r \in RegionsOf(p)}

\* sys_exec: sys_cleanup_memory, then page faults while the segments and the
\* stack are stored.
Exec(p) ==
    LET found == InOrder(Image, FreeFrames \cup Released(p)) IN
    /\ Live(p)
    /\ IF found = {} THEN Hang
       ELSE \E got \in found :
            /\ table' = [table EXCEPT ![p] =
                            [r \in Regions |-> IF r \in Image THEN got[r] ELSE None]]
            /\ page_bitmap' = (page_bitmap \ Released(p)) \cup {got[r] : r \in Image}
            /\ UNCHANGED <<phase, pde, stray, leaked, hung>>

\* sys_exit: sys_cleanup_memory; the directory is still in cr3.
Exit(p) ==
    /\ Live(p)
    /\ p # Init0
    /\ phase' = [phase EXCEPT ![p] = "exited"]
    /\ table' = [table EXCEPT ![p] = [r \in Regions |-> None]]
    /\ page_bitmap' = page_bitmap \ Released(p)
    /\ UNCHANGED <<pde, stray, leaked, hung>>

\* schedule() passes over a slot whose exit has been waited for.
Reclaim(p) ==
    /\ ~hung
    /\ phase[p] = "exited"
    /\ phase' = [phase EXCEPT ![p] = "free"]
    /\ page_bitmap' = page_bitmap \ {pde[p]}
    /\ pde' = [pde EXCEPT ![p] = None]
    /\ stray' = [stray EXCEPT ![p] = None]
    /\ leaked' = leaked \cup ({stray[p]} \ ({stray[q] : q \in Procs \ {p}} \cup {None}))
    /\ UNCHANGED <<table, hung>>

Next ==
    \E p \in Procs :
        \/ \E r \in Regions : FaultTable(p, r)
        \/ Unlink(p)
        \/ \E c \in Procs : Fork(p, c)
        \/ Exec(p)
        \/ Exit(p)
        \/ Reclaim(p)

Spec == Init /\ [][Next]_vars

-----------------------------------------------------------------------------
(* Properties.                                                             *)

\* What a directory or a table is used for, and its frame.
Uses ==
    {<<"kernel", 0>>}
    \cup {<<"pde", p>> : p \in {q \in Procs : phase[q] # "free"}}
    \cup {<<"table", p, r>> : p \in Procs, r \in Regions}
FrameOf(use) ==
    CASE use[1] = "kernel" -> 0
      [] use[1] = "pde" -> pde[use[2]]
      [] use[1] = "table" -> table[use[2]][use[3]]
InUse == ({FrameOf(u) : u \in Uses} \cup {stray[p] : p \in Procs}) \ {None}

\* No two directories or tables share a frame, whatever the order of faults,
\* forks and exits: a table freed twice, or handed out twice, would show here.
FramesNotShared ==
    \A u, w \in Uses : FrameOf(u) = FrameOf(w) /\ FrameOf(u) # None => u = w

\* No directory or table that a process can still run on is in a frame that the
\* allocator may hand out again: nothing is freed too early (and the variables keep
\* their types).
FramesHeld == TypeOK /\ InUse \subseteq page_bitmap

\* When a process is gone its tables and its directory can be used again: the
\* documentation calls this the complete clearing of its resources (exit and
\* wait).  Every frame allocated is in use, but for the tables unlink leaves.
FramesReturned == page_bitmap \subseteq InUse \cup leaked
=============================================================================
