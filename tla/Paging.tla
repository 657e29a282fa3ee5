------------------------------- MODULE Paging -------------------------------
(***************************************************************************)
(* User memory: the entries of the page tables, the copy-on-write sharing  *)
(* of fork and the table that counts it (src/mem/paging.c), the allocator  *)
(* of physical pages (src/mem/alloc.c) and the memory side of exec and     *)
(* exit (src/proc/proc.c).  Page faults and system calls run with          *)
(* interrupts off: each is one step, taken by any process that has an      *)
(* address space.  The frames of the directories and tables themselves     *)
(* come from another allocator and are the subject of module PageFrames.   *)
(***************************************************************************)
EXTENDS Lowest, FiniteSets

CONSTANTS Procs,         \* process slots
          Init0,         \* the slot set up at boot
          Pages,         \* user page numbers, 0 .. some bound
          PoolSize,      \* bits of mem_bitmap (0x1d00): physical pages
          AddSlots,      \* entries of frame_copy_map, which add() scans (128)
          DecSlots,      \* entries dec() scans (64)
          Data,          \* what programs and program files put into a page
          Blank,         \* what unused RAM holds
          Image          \* pages that exec fills: the segments and the stack

ASSUME PageAssumption ==
    Pages \subseteq Nat /\ Image \subseteq Pages /\ IsFiniteSet(Pages) /\ IsFiniteSet(Procs)
ASSUME SlotAssumption == AddSlots \in Nat /\ DecSlots \in Nat /\ DecSlots <= AddSlots
ASSUME DataAssumption == Blank \notin Data /\ Init0 \in Procs

USER_SPACE_START == 3145728  \* 0x300000, the first physical page for users
PAGE_SIZE == 4096

\* The pool (0x1d00 pages) is far from the bits of FreeBit.
ASSUME PoolAssumption ==
    PoolSize \in Nat \ {0} /\ PoolSize <= USER_SPACE_START - (USER_SPACE_START \div PAGE_SIZE)

Pool == 0 .. PoolSize - 1           \* physical pages, by their bit of mem_bitmap
None == -1                          \* no page: the present bit is clear
Slots == 1 .. AddSlots

VARIABLES
    live,        \* processes between their fork and their exit
    pte,         \* pte[p][v]: physical page and write permission
    mem,         \* what each physical page holds
    mp,          \* where sys_alloc_phy_page goes on searching
    mem_bitmap,  \* bits set: physical pages handed out
    copy_map,    \* frame_copy_map: physical page and number of ptes
    stopped      \* why nothing goes on: see Stop

vars == <<live, pte, mem, mp, mem_bitmap, copy_map, stopped>>
physical == <<mp, mem_bitmap>>

NoPage == [frame |-> None, rw |-> FALSE]
NoEntry == [key |-> None, cnt |-> 0]

TypeOK ==
    /\ live \subseteq Procs
    /\ pte \in [Procs -> [Pages -> [frame : Pool \cup {None}, rw : BOOLEAN]]]
    /\ mem \in [Pool -> Data \cup {Blank}]
    /\ mp \in Pool
    /\ mem_bitmap \subseteq Pool
    /\ copy_map \in [Slots -> [key : Pool \cup {None}, cnt : Nat]]
    /\ stopped \in {"no", "hung", "overrun"}

Present(p, v) == pte[p][v].frame # None
PresentPages(p) == {v \in Pages : Present(p, v)}
Mapped(p) == {pte[p][v].frame : v \in PresentPages(p)}
Running(p) == p \in live /\ stopped = "no"

\* The first process starts without a user page.
Init ==
    /\ live = {Init0}
    /\ pte = [p \in Procs |-> [v \in Pages |-> NoPage]]
    /\ mem = [f \in Pool |-> Blank]
    /\ mp = 0
    /\ mem_bitmap = {}
    /\ copy_map = [i \in Slots |-> NoEntry]
    /\ stopped = "no"

-----------------------------------------------------------------------------
(* The two allocators.                                                     *)

\* sys_alloc_phy_page hands out the clear bits from mp on, and mp never goes
\* back: FreePages are all it will ever find.
FreePages == {f \in Pool : f >= mp /\ f \notin mem_bitmap}
NextPage == LeastOf(FreePages)

\* It has handed out the pages in taken; mp stays at the last one.
TakePages(taken, freed) ==
    /\ IF taken = {} THEN mp' = mp ELSE mp' \in {f \in taken : \A g \in taken : g <= f}
    /\ mem_bitmap' = (mem_bitmap \ freed) \cup taken

\* The bit that sys_free_phy_page clears for physical page f: the subtraction
\* is not divided, so it is far outside mem_bitmap for every page.
FreeBit(f) == (USER_SPACE_START + PAGE_SIZE * f) - (USER_SPACE_START \div PAGE_SIZE)

-----------------------------------------------------------------------------
(* frame_copy_map.                                                         *)

\* The entries dec() finds for a set of physical pages.
Scanned(keys) == {i \in Slots : i <= DecSlots /\ copy_map[i].key \in keys}

\* dec() for every page of keys: entries that reach 0 are given up.
Dec(keys) ==
    [i \in Slots |->
        IF i \notin Scanned(keys) THEN copy_map[i]
        ELSE IF copy_map[i].cnt = 1 THEN NoEntry
        ELSE [copy_map[i] EXCEPT !.cnt = @ - 1]]

\* dec() returns how many ptes are left; 0 also when it finds no entry.
DecLeft(f) ==
    IF Scanned({f}) = {} THEN 0
    ELSE copy_map[CHOOSE i \in Scanned({f}) : TRUE].cnt - 1

Keys == {copy_map[i].key : i \in Slots} \ {None}
UnusedEntries == {i \in Slots : copy_map[i].key = None}
\* Pages of p that add() does not find, in the order fork meets them.
Untracked(p) == {v \in PresentPages(p) : pte[p][v].frame \notin Keys}

\* The entries add() finds for these pages.
EntriesFor(p) == InOrder(Untracked(p), UnusedEntries)

\* (Mutant of Added: a new entry counts the child only.)
AddedOne(p, entry) ==
    [i \in Slots |->
        IF copy_map[i].key \in Mapped(p) THEN [copy_map[i] EXCEPT !.cnt = @ + 1]
        ELSE IF \E v \in Untracked(p) : entry[v] = i
        THEN [key |-> pte[p][CHOOSE v \in Untracked(p) : entry[v] = i].frame, cnt |-> 1]
        ELSE copy_map[i]]

\* add() for every page of p: one more pte, or a new entry for two.
Added(p, entry) ==
    [i \in Slots |->
        IF copy_map[i].key \in Mapped(p) THEN [copy_map[i] EXCEPT !.cnt = @ + 1]
        ELSE IF \E v \in Untracked(p) : entry[v] = i
        THEN [key |-> pte[p][CHOOSE v \in Untracked(p) : entry[v] = i].frame, cnt |-> 2]
        ELSE copy_map[i]]

\* What is not followed further: "hung", add() found no unused entry and loops
\* for ever; "overrun", sys_alloc_phy_page goes on to the bits behind mem_bitmap
\* (it bounds its steps, not mp) and to addresses behind the 32 MB of RAM.
Stop(why) == stopped' = why /\ UNCHANGED <<live, pte, mem, physical, copy_map>>

-----------------------------------------------------------------------------
(* What a program does: stores, and the faults they take.                  *)

Store(p, v, d) ==
    /\ Running(p)
    /\ Present(p, v)
    /\ pte[p][v].rw
    /\ mem' = [mem EXCEPT ![pte[p][v].frame] = d]
    /\ UNCHANGED <<live, pte, physical, copy_map, stopped>>

\* A system call stores into a buffer of its caller (read, std_read, listdir).
\* CR0.WP is clear, so the kernel does not fault on a read-only page: it stores
\* into a page shared by fork.
CopyOut(p, v, d) ==
    /\ Running(p)
    /\ Present(p, v)
    /\ mem' = [mem EXCEPT ![pte[p][v].frame] = d]
    /\ UNCHANGED <<live, pte, physical, copy_map, stopped>>

\* page_fault_handler on a page that is not there: it gets the next physical
\* page, with what that holds.
FaultMissing(p, v) ==
    /\ Running(p)
    /\ ~Present(p, v)
    /\ IF NextPage = {} THEN Stop("overrun")
       ELSE \E new \in NextPage :
            /\ pte' = [pte EXCEPT ![p][v] = [frame |-> new, rw |-> TRUE]]
            /\ TakePages({new}, {})
            /\ UNCHANGED <<live, mem, copy_map, stopped>>

\* (Mutant of CopiedTo: the second memcpy is missing.)
CopiedNowhere(old, new) == mem' = mem

\* The two memcpy calls of a copy-on-write fault, from page old by way of
\* PAGE_BUFFER to page new: the second one is translated by the new entry.  (The
\* TLB is flushed after it; a processor that kept the old translation for the
\* store would not.)
CopiedTo(old, new) == mem' = [mem EXCEPT ![new] = mem[old]]

\* page_fault_handler on a store to a read-only page: the last user of the
\* page may write to it, any other gets a copy.
FaultWrite(p, v) ==
    LET f == pte[p][v].frame IN
    /\ Running(p)
    /\ Present(p, v)
    /\ ~pte[p][v].rw
    /\ IF DecLeft(f) = 0
       THEN /\ pte' = [pte EXCEPT ![p][v].rw = TRUE]
            /\ copy_map' = Dec({f})
            /\ UNCHANGED <<live, mem, physical, stopped>>
       ELSE IF NextPage = {} THEN Stop("overrun")
       ELSE \E new \in NextPage :
            /\ pte' = [pte EXCEPT ![p][v] = [frame |-> new, rw |-> TRUE]]
            /\ copy_map' = Dec({f})
            /\ CopiedTo(f, new)
            /\ TakePages({new}, {})
            /\ UNCHANGED <<live, stopped>>

-----------------------------------------------------------------------------
(* fork, exec and exit.                                                    *)

\* (Mutant of ForkPtes: the father keeps write permission.)
ForkPtesChild(p, c) ==
    [pte EXCEPT ![c] = [v \in Pages |-> [pte[p][v] EXCEPT !.rw = FALSE]]]

\* Both sides of a fork see the same pages, read-only.
ForkPtes(p, c) ==
    LET shared == [v \in Pages |-> [pte[p][v] EXCEPT !.rw = FALSE]]
    IN [pte EXCEPT ![p] = shared, ![c] = shared]

\* sys_copy_pages: the child gets the entries of the father's tables, each of
\* them counted by add(), which hangs when frame_copy_map is full.
Fork(p, c) ==
    /\ Running(p)
    /\ c \notin live
    /\ IF EntriesFor(p) = {} THEN Stop("hung")
       ELSE \E entry \in EntriesFor(p) :
            /\ live' = live \cup {c}
            /\ pte' = ForkPtes(p, c)
            /\ copy_map' = Added(p, entry)
            /\ UNCHANGED <<mem, physical, stopped>>

\* Bits that sys_cleanup_memory clears, or tries to, for pages nobody else has.
ReleasedBits(p) == {FreeBit(f) : f \in {g \in Mapped(p) : DecLeft(g) = 0}}

\* sys_exec: sys_cleanup_memory, then the segments and the stack are stored
\* into pages that fault in one after the other.
Exec(p, d) ==
    LET found == InOrder(Image, FreePages) IN
    /\ Running(p)
    /\ IF found = {} THEN Stop("overrun")
       ELSE \E got \in found :
            /\ copy_map' = Dec(Mapped(p))
            /\ pte' = [pte EXCEPT ![p] = [v \in Pages |->
                         IF v \in Image THEN [frame |-> got[v], rw |-> TRUE] ELSE NoPage]]
            /\ TakePages({got[v] : v \in Image}, ReleasedBits(p))
            /\ mem' = [f \in Pool |-> IF \E v \in Image : f = got[v] THEN d ELSE mem[f]]
            /\ UNCHANGED <<live, stopped>>

\* The memory side of sys_exit: sys_cleanup_memory.
Exit(p) ==
    /\ Running(p)
    /\ p # Init0
    /\ live' = live \ {p}
    /\ copy_map' = Dec(Mapped(p))
    /\ pte' = [pte EXCEPT ![p] = [v \in Pages |-> NoPage]]
    /\ TakePages({}, ReleasedBits(p))
    /\ UNCHANGED <<mem, stopped>>

Next ==
    \E p \in Procs :
        \/ \E v \in Pages, d \in Data : Store(p, v, d) \/ CopyOut(p, v, d)
        \/ \E v \in Pages : FaultMissing(p, v) \/ FaultWrite(p, v)
        \/ \E c \in Procs : Fork(p, c)
        \/ \E d \in Data : Exec(p, d)
        \/ Exit(p)

Spec == Init /\ [][Next]_vars

-----------------------------------------------------------------------------
(* Properties.                                                             *)

Mappings(f) == {m \in Procs \X Pages : pte[m[1]][m[2]].frame = f}

\* dec() finds every entry in use.  Those behind DecSlots stay for ever, so once
\* it is false it remains so: what follows is promised up to there.
InWindow == \A i \in Slots : copy_map[i].key # None => i <= DecSlots

\* The rule that copy-on-write rests on: a page somebody may write to without
\* a fault is mapped nowhere else (as long as dec() finds every entry).
ExclusiveWritable ==
    InWindow =>
        \A p \in Procs, v \in Pages :
            Present(p, v) /\ pte[p][v].rw => Mappings(pte[p][v].frame) = {<<p, v>>}

\* frame_copy_map counts the ptes of every page it holds, holds a page once and
\* not after its last pte is gone, and holds every page with several ptes, as
\* long as dec() finds every entry (and the variables keep their types).
SharersCounted ==
    /\ TypeOK
    /\ InWindow =>
         /\ \A i \in Slots : copy_map[i].key # None =>
              /\ copy_map[i].cnt >= 1
              /\ copy_map[i].cnt = Cardinality(Mappings(copy_map[i].key))
              /\ \A j \in Slots : copy_map[j].key = copy_map[i].key => j = i
         /\ \A f \in Pool : Cardinality(Mappings(f)) > 1 => f \in Keys

\* What each process reads in its pages.
Seen == [p \in Procs |-> [v \in Pages |->
            IF Present(p, v) THEN mem[pte[p][v].frame] ELSE Blank]]

Space == INSTANCE AddrSpace WITH running <- live, space <- Seen

\* A system call stores into a page its caller may not write to.
CopyOutReadOnly == \E p \in Procs, v \in Pages, d \in Data : ~pte[p][v].rw /\ CopyOut(p, v, d)

\* Each process reads its own pages: what it last stored, whatever the others
\* do, with the copy of fork made at the time of the fork (module AddrSpace).
\* Every step is one of an address space of its own, but for those of
\* CopyOutReadOnly and as long as dec() finds every entry.
ImplementsSpace ==
    /\ Space!SpaceInit
    /\ [][InWindow' /\ ~CopyOutReadOnly => Space!SpaceNext]_<<live, Seen>>

\* The documentation (exec; exit and wait) says that cleaning up a user space
\* frees its physical pages: those handed out are those some process maps.
PagesFreed == mem_bitmap = UNION {Mapped(p) : p \in Procs}
=============================================================================
