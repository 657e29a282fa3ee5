# A TLA+ model of the BananaOS kernel

The repository is a teaching kernel for 32-bit x86: about 2000 lines of C and
assembly that boot from a floppy, run programs in user mode, page memory with
copy-on-write, keep files on an ATA disk and serve two text terminals.  This
directory models its core as TLA+ modules, checks them with TLC on small
instances, and proves the central results with TLAPS for every value of the
constants.  All paths below are relative to the repository.

## The system

One processor, no second core.  Every gate of the IDT is an interrupt gate
(`sys/int.c`), so interrupt handlers and system calls run with interrupts off
and are atomic up to the places where a system call yields with `int $0x20`:
`sys_exit`, `sys_wait` and `sys_std_read`.  Three things run with interrupts
on and can be preempted at any instruction: user programs, the boot code
`init_start` of pid 0, and the kernel process `tty_driver` (pid 1).  The kernel
is compiled without optimisation, so `++cnt` is a load and a store.

| component | state | operations |
|---|---|---|
| process table and scheduler (`proc/`, `sys/timer.c`) | 32 pcbs: status, father, tty, page directory, saved context; `current_proc`, `ticks` | `sys_fork`, `sys_exit`, `sys_wait`, `sys_exec`, `timer_handler`, `schedule` |
| user memory (`mem/paging.c`, `mem/alloc.c`) | page tables, `frame_copy_map` (sharers of a page), `mem_bitmap` and `mp` | page faults, `sys_copy_pages`, `sys_cleanup_memory`, `sys_alloc_phy_page`, `sys_free_phy_page` |
| page table frames (`mem/paging.c`) | `page_bitmap`, the directories | `sys_alloc_page_frame`, `sys_free_page_frame` |
| open files (`fs/fs.c`) | `fds[4]` of each pcb, `file_desc_table` with counts | open, close, fork, exit, exec |
| file system (`fs/fs.c`) | superblock, sector map, inode map and table in memory and on disk, directory | create, read, write, unlink, getsize, listdir, format |
| keyboard (`io/kb.c`, `io/tty.c`) | ring of 32 scancodes | interrupt, timer poll, `get_byte_from_buffer` |
| terminals (`io/tty.c`) | two rings of 128 characters, `current_tty` | `put_tty_in_buffer`, Enter, `sys_std_read`, `sys_switch_tty` |
| screen (`video/video.c`) | cursor of each terminal, video memory, CRT controller registers | putchar, scrolling, cursor |
| kernel stacks and entry code (`sys/*.asm`, `sys/syscall.c`, `mem/gdt.c`) | a page of 0x1000 bytes for each process, `kstktop`, `tss.esp0` | `common_handler`, `resume`, `syscall`, `syscall_resume`, `exec_start`, the frames that fork builds |

fork, exec and exit touch almost all of it: they copy or release the page
tables (user memory, page table frames) and the descriptor slots (open files).
The tty driver writes statuses of the process table when it sees Enter.  The
timer interrupt calls the keyboard handler every 16 ticks and the scheduler
every 4.

What is hard to test here: the handshake of exit and wait with preemption in
between; the order in which slots, directories and zombies are given back;
counts of sharers of pages and of descriptors through any history of fork,
exec and exit; the driver and the interrupt handler on the same ring; the
driver and a reader on the same terminal buffer, the driver and a writer on the
same screen and CRT controller; the first run of a forked process, interrupted
between two pops; limits of every table; power
lost between two sector writes.  `PROJECT.json` lists these hazards at their
lines, with the properties that cover them.

## Modules

Each component is one module; the properties are at its end.  `MC*.tla` and
`MC*.cfg` give its constants values for TLC; definitions called mutants stand
before the definition they are a wrong version of.  The theorems about a module
`M` are in `MProofs`; those about `Scancode` are in `KbProofs` and those about
`Screen` in `TtyProofs`, beside the other half of the same C file.

| module | models | code |
|---|---|---|
| `Proc` | process table, scheduler, blocking | `proc.c`, `schedule.c`, `timer.c`, `kernel.c`, `init.c` |
| `ProcLife` | what fork, exit and wait promise (abstract) | - |
| `Paging` | page table entries, sharing counts, physical pages | `paging.c`, `alloc.c`, `proc.c` |
| `AddrSpace` | an address space for each process (abstract) | - |
| `PageFrames` | frames of directories and page tables | `paging.c`, `proc.c`, `schedule.c` |
| `FileTable` | descriptor slots and their counts | `fs.c`, `proc.c` |
| `Fs` | directory, inodes, maps, order of sector writes | `fs.c`, `fs.h` |
| `Kb` | scancode ring, instruction by instruction | `kb.c`, `tty.c` |
| `Scancode` | scancodes to keys, modifiers | `tty.c` |
| `Terminals` | the terminals and `current_tty`, which `Tty` and `Screen` share | `tty.c` |
| `Tty` | character rings, driver against reader | `tty.c` |
| `Screen` | video memory, cursors, CRT controller, driver against writers | `video.c`, `tty.c` |
| `Lowest` | what searches for a free place find, one after the other (`LeastOf`, `InOrder`) | `paging.c`, `alloc.c`, `fs.c` |
| `KStack` | frames on the kernel stacks, `kstktop`, `esp0`, the boot code on them | `int.asm`, `syscall.asm`, `syscall.c`, `proc.c`, `schedule.c`, `gdt.c` |

**Proc.**  One variable per pcb field that the statuses depend on (`stat`,
`father`, `tty`), `ctx` for the place a saved context resumes at, `prog` for
the code of the two processes the kernel itself starts, `dirs` for the page
directories that `schedule()` frees.  A system call is one action up to its
`int $0x20`; the timer handler and the scan of `schedule()` inside it are part
of the action that raises it.  `WaitResume` and `StdReadReturn` are the code
behind the `int $0x20`.  User processes make any call at any time.  `Init`
is what `main()` leaves; pid 0 goes through `BootFork`, `BootExecShell` and
`BootExecInit` to the loop of init.  The wake-up loop of Enter is here any
number of single turns, `WakeReader`, because the driver can lose the
processor between them; `Tty` has the loop itself.

**Paging.**  `pte` has a physical page and a permission for each user page,
`copy_map` is `frame_copy_map` entry by entry, `mem` is what each physical page
holds, `mp` and `mem_bitmap` are the allocator.  A page fault, `sys_fork`,
`sys_exec` and `sys_exit` are one action each.  `stopped` ends a behaviour where
`add()` loops for ever, or where the allocator leaves its map: what comes then
is not followed.  `sys_free_phy_page` is modelled with the bit number it really
computes; the store that clears this bit goes to a word far behind `mem_bitmap`,
and what it does there, change another variable or fault where nothing is
mapped, is not modelled.  The translation buffer is not either: an entry
is taken to hold as soon as it is written.

**PageFrames.**  The same operations seen from the allocator of table frames:
`pde` and `table` are the frames of each directory and of its tables, `stray`
is the page table that `sys_do_unlink` makes appear in the kernel's half of a
directory when it uses inode number 0xffffffff.

**FileTable.**  `fds`, `inode` and `rwcount` are the fields of that name;
`rwcount` wraps at `WORD`; `opened` remembers the file of each slot and
`forked` the descriptors that a fork has copied without counting them.  `hung` is
a kernel loop: no slot or descriptor left, or a call with a slot number of 4 and
more.

**Fs.**  `disk` is what is on the disk, `inodes` and `imap` the copies in memory.
An operation is the sequence of images it gives the disk, one for each sector
written (`CreateImages`, `AllocImages`, `DataImages`, `SyncImages`,
`FormatImages`); it ends on the last one, or power goes on any other and the
next boot starts from there.  Calls that return -1 and change nothing are left
out.  `Getsize` and `Listed` are what `sys_do_getsize` and `sys_listdir` return;
`KeptName` is what `split_name` keeps of a name.

**Kb, Scancode, Tty.**  The keyboard from the 8042 to the line a program reads,
cut at the two rings: `Kb` moves numbered bytes, `Scancode` turns bytes into
keys, `Tty` turns keys into lines.  The driver runs with interrupts on: in `Kb`
every access to shared memory is a step, with the interrupt handler in between;
in `Tty` every access to `cnt` and each step that other code can notice, with
`sys_std_read` of other processes in between.

**Screen.**  `run` has two runs of the code of `video.c`, the driver's and that of a
system call, each with its place in the code (`at`) and its local variables.
`VideoStep` makes one store or port write: draw a cell, roll by a row, select a
register of the CRT controller, send it a byte, store the cursor.  The driver's
echo and Ctrl-Alt-F1 or F2 can be preempted between any two of them, so that
system calls of other processes come between an index write and its data write,
and between reading the cursor and storing it.  `sys_std_write` runs with
interrupts off: while its run is busy nothing else takes a step.  What a
terminal should show is an endless sheet of rows (`TypedOn`) of which the last
`HEIGHT` are seen; characters are numbered in the order of output.

**KStack.**  Addresses are a page and a number of words from its pcb.  `Frames`
is where an interrupt saves the context: below the stack in use, or where
`tss.esp0` points when it comes from user mode.  `kstktop` is written by every
interrupt and read by the schedule that returns to the process; `schedule`,
`AfterCall` and nothing else set `esp0`.  `Child` is the stack side of `sys_fork`:
a copy of the page and a second frame, one ring-0 context long, below the copied
one.  The boot code `init_start` is followed instruction by instruction around
its two forks, with its variable `pid` on the page its frame pointer names.
Which process is scheduled is left open, which includes every order of `Proc`.
`Proc` takes the result of fork in `init_start` as given; `KStack` has how it
gets there.

How they fit: `Proc` has the order in which processes run and says nothing of
memory or files; `Paging`, `PageFrames` and `FileTable` take the fork, exec and
exit of any process that is alive, in any order, which includes every order
`Proc` allows; `Kb` and `Tty` rest on the driver being run again and again,
which is `ReadyRuns` of `Proc`.

## Runs

All on two workers, each below five minutes.

| run | instance | shows |
|---|---|---|
| `proc` | 4 slots, quantum 2, unused slots with any father of {0, 2} | all invariants of `Proc`, the refinement of `ProcLife`, two liveness properties |
| `paging` | 3 processes, 2 pages, 4 physical pages, 3 entries of which `dec()` scans 2 | exclusive write permission, exact counts, the refinement of `AddrSpace`, up to the first use of the third entry |
| `frames` | 3 processes, 2 tables each, 7 frames | no frame shared, freed early or lost |
| `files` | 3 processes, 2 slots, 3 descriptors of which forks copy one, counter of 2 bits | counts exact, files stay, but for the descriptor a fork has copied |
| `kb` | ring of 2, 8042 of 2, 6 bytes | order, ring contents, delivery, outside `Exposed` |
| `scancode` | 11 keys of one, two, four and six bytes, ring of 6 | keys and modifiers, until a byte is lost |
| `tty` | 2 readers on one of 2 terminals, ring of 3 | ring contents, lines, wake-up |
| `fs` | 3 files, 3 blocks of 2 bytes, 4 calls, power cuts | ownership of sectors, read back, maps, directory, listing |
| `screen` | 2 terminals of 2 x 4 cells, 3 characters | screens, cursor and start of the picture, outside the named races |
| `kstack` | 4 slots, 2 generations of forks, a stack that holds just these | frames, `esp0`, room on the stack, the roles of the boot processes |
| `pages_freed` | as `paging`, 8 entries of which 4 are scanned | `PagesFreed` fails |
| `boot_race` | as `kstack` | `InitRoles` fails |

In every module but `Proc` the type invariant is a conjunct of one of the
properties (`SharersCounted`, `FramesHeld`, `CountsReferences`, `RingExact`,
`RingIsText`, `SectorsOwned`, `ModifiersFollow`, `CursorShown`, `OwnStack`).

Why the bounds are enough.  `proc`: two slots beside the kernel's own two allow
a father with a child, a grandchild given to init, a slot used again while an
old father word still names it, and a scan that passes over a dead slot; the
theorems cover every number of slots.  `paging`: three processes share one page
at three counts, each count can be reached by fork, exec or exit, and physical
pages run out; a page table of two entries has one page in `Image` and one not.
Two pages can be shared at once inside the two scanned entries, and a third one
takes the entry outside.  From there on an entry is never given up and its count
has no bound, and the properties promise nothing (`InWindow` stays false): the
constraint of the run ends a behaviour at the first such state, which is still
checked.  `frames`: seven frames are one too few for three
processes with all their tables, so the allocator runs dry.  `files`: three
descriptors for six slots, so that both limits are met; one copied descriptor
(`MaxForked`) can be left below zero and be opened again while the other two are
in use.  `kb`: with a ring of
two slots, an increment can meet the wrap and the ring can be full with one
byte left to take; six bytes go round three times.  `tty`: a ring of
three wraps in a line with two letters; what a reader asks for (2) is less than
the ring, as 127 is less than 128.  No process reads the second terminal, so
what is typed there is followed to its first character (`OneElsewhere`).  `scancode`: a ring of six bytes holds the
longest key exactly, so bytes get lost; `LAG` lets keys be struck while a key
is half read.  `fs`: three inodes beside the directory in two sectors of
the table; a file has up to three sectors, so a write begins and ends inside a
sector, at its edge and in a third one; an entry per directory sector makes the
directory go on in its second sector; four calls are two creates and a write to
each, or a create, a write, an unlink or a cut, and another create; eleven sectors are enough
for all files, as 20480 are for 63 files of 29.  `screen`: two rows and four
columns with a tab stop in between, so that two line feeds with a character
before, between or behind them, or a line feed and two tabs, leave the last row
and roll the screen; a byte of six values,
so that positions of the second terminal need both cursor registers.  A string is
its characters, one after another.  `kstack`:
`STACK` holds two generations and one yield (994 words would hold about 44); the
boot code and user programs yield at one depth of 20 words, and the first run of
a child is interrupted after three pops, in the middle.  `init_start` calls for
fork at 4 words (`StubSp`) and is interrupted where it is deepest, in the stub of
exec at -1 (`LowSp`); the driver, which calls functions of its own, as deep below
that as a system call.  The words of `init_start` were read from the disassembly
of the shipped kernel; the theorems take any number of places (`BootAssumption`,
`DriverAssumption`).

Deadlock checking is off where the system or the bounded input really stops:
kernel loops (`hung`, `stopped`) in `paging`, `frames` and `files`, all bytes
sent in `kb`, no reader active in `tty`, `MaxLost` in `scancode`.  `paging` uses
the symmetry of the processes that are not the first; it checks no liveness.

### Conditions

Some properties hold only under a condition that the code does not enforce.
The condition is always in the formula, never in a missing action:

- `CopyOutReadOnly` (`paging`, `ImplementsSpace`): a step in which a system call
  stores into a page its caller may not write to, one still shared by a fork for
  example.  With CR0.WP clear such a store changes the other process too; without
  the condition TLC finds `ImplementsSpace` violated.
- `forked` (`files`): descriptors that a fork has copied are left out of both
  properties, for good.  `sys_fork` copies the slots and leaves `rwcount` at 1
  (`proc.c:45`), so the first close takes the file away from the other process,
  where the documentation (close) drops it only for the last one; without the
  condition TLC finds both properties violated.
- `InWindow` (`paging`): every entry in use is one that `dec()` scans, 64 of the 128
  that `add()` fills (`paging.c:24`).  Without it TLC finds a page that is still
  shared made writable (`ExclusiveWritable`) and a wrong count (`SharersCounted`).
- `raced` (`Kb`): an interrupt took a byte while the driver was at one of the
  places of `Exposed`.  The places are minimal: without any single one of them
  TLC finds one of the properties violated.
- `raced` and `Sound` (`Tty`): a read emptied the ring after the driver had loaded
  `cnt` to store it or had found it above 0 to take a character off (`MidWork`; a
  read before the character is stored or before the load is covered); or `tail`
  left the ring, for the flush after a line does not wrap it (`tty.c:448`): with
  Enter in the last place the next line is read from the memory behind the ring.
- `tainted` (`Fs`): the last, partial sector of a write to several sectors gets
  bytes from the start of the data (`fs.c:292`), so the contents of that file
  are not followed; nor those of a file whose write was cut.  `torn`: power went
  in a create or a format, which write the directory before the inode map.
  `clipped`: a file was created under a name that does not fit an entry; it is
  stored cut, so no call finds it under its own name.  `lost`: a boot forgot
  sectors that a failed or cut write had got for an inode; a cut that came when
  the inode was on the disk loses nothing.
- `lost` (`Scancode`): the ring was full.
- `lost` and `torn` (`Screen`): a process wrote to the shown terminal while the
  driver held its cursor, or between the driver's index write and its data
  write.  Both are minimal: without either TLC finds a property violated.  And
  the second terminal is followed until it should scroll: the bound of the loop
  (`video.c:45`) counts the offset of its area twice, so it writes on behind its
  area of 0xfa0 bytes (the documentation has it exactly one screen) until twice
  as many rows are full.
- `cut` (`KStack`, `BootRoles`): `init_start` lost the processor between storing
  `pid` and testing it.  `boot_race` is the same run without it.  `gen[p] <= Fit`
  (`StackFits`): as many generations of forks as fit on a page.

### Fairness

`Proc`: a tick that arrives with interrupts off stays pending in the 8259 and is
delivered as soon as they are on, so the timer is strongly fair, although it is
disabled during system calls.  A processor carries on with kernel code: weak
fairness of the code after `int $0x20`.  The boot code and the loop of init
are strongly fair, since they are enabled only while pid 0 runs.  Nothing is
assumed of user programs, of keys or of the driver's wake-ups.  `Kb` and `Tty`:
weak fairness of the driver, which never blocks and which `Proc` shows to run
again and again, and of a woken reader's return, for the same reason.  The
keyboard owes nothing.  `Paging`, `PageFrames`, `FileTable`, `Fs`, `Scancode`,
`Screen` and `KStack` check safety only.

### Findings

- `pages_freed`: `sys_free_phy_page` divides before it subtracts; no physical page
  is ever handed out twice.
- `boot_race`: the child of `init_start` stores the result of its fork through a
  frame pointer that still points into the stack of pid 0 (`proc.c:57` moves only
  the one of the stub).  If the timer lets the child run between pid 0's store
  and its test, pid 0 becomes a shell and init never runs.

The conditions above name five more places where the code does not keep what
the properties say: `CopyOutReadOnly`, `forked`, `InWindow`, `Sound` and the
scrolling of the second terminal.

## Proofs

Everything proved holds for every value of the constants that the named
assumptions of the module allow; TLC evaluates these in the runs.  Each proof has
one invariant `IInv` (`InStep` of `Scancode`, `ScreenInv` of `Screen`), which is
inductive, one lemma that each action preserves it
(`ForkInv`, `ExitInv`, ...), `NextInv` (in `ProcProofs` `StepInv`) that combines
them, `Invariance` for the induction, and then the theorems, which are what
`IInv` implies.  Lemmas about operators stand before the actions that use them.

| module | theorem | states |
|---|---|---|
| `ProcProofs` | `TypeCorrect` | `TypeOK` |
| | `ExitFindsFather` | `FatherAlive`: the father of every slot in use is alive |
| | `FamilyTree` | `FathersLeadToInit`: no circle of fathers |
| | `ExitWaitHandshake` | `NoLostWakeup`: no wake-up is lost |
| | `WokenFatherReaps` | `WokenFindsZombie`: who is woken finds a hanging child |
| | `OrphansReachInit` | `InitCanBeWoken`: while init sleeps next to a zombie, a living child is there to wake it |
| | `Scheduling` | `SchedulerSafe`: the scan ends on a READY process |
| | `ExitedNeverRuns` | `StatMatchesContext`: statuses match contexts |
| | `DirectoriesExact` | `DirsExact`: no directory leaks or goes early |
| | `ImplementsProcLife` | `ImplementsLife`: the refinement of `ProcLife` |
| `PagingProofs` | `WritesAreExclusive` | `ExclusiveWritable`: a page somebody may write to is mapped once |
| | `SharersAreCounted` | `SharersCounted`: `frame_copy_map` is exact |
| | `SpacesAreSeparate` | `ImplementsSpace`: the refinement of `AddrSpace` |
| `PageFramesProofs` | `TypeCorrect` | `TypeOK` |
| | `NeverShared` | `FramesNotShared`: no two uses of a frame |
| | `NeverFreedEarly` | `FramesHeld`: no frame in use can be handed out |
| | `AllReturned` | `FramesReturned`: no frame is lost but those of unlink |
| `FileTableProofs` | `KeepsItsFile` | `FdKeepsItsFile`: an open slot stays on its file |
| | `CountsExact` | `CountsReferences`: counts are exact and descriptors come back |
| `KStackProofs` | `EntersOnOwnStack` | `OwnStack`: `esp0` is right in user mode |
| | `ResumesItsContext` | `ContextSaved`: `kstktop` is the last frame |
| | `StackSuffices` | `StackFits`: `Fit` generations fit on a page |
| | `BootRolesTaken` | `BootRoles`: one init, one shell for each terminal |
| `KbProofs` | `CodesTakenInOrder` | `TakenInOrder`: every byte once, in order |
| | `RingHoldsTheRest` | `RingExact`: the ring holds the rest |
| | `KeysAreDecoded` | `DecodedAsStruck`: each stroke is taken for what it is |
| | `FlagsFollowKeys` | `ModifiersFollow`: `kbflag` is what is held |
| `TtyProofs` | `RingsHoldTheText` | `RingIsText`: the ring holds what was typed |
| | `ReadsReturnTheLine` | `ReadsWhatWasTyped`: a read returns the line |
| | `ShowsWhatIsOutput` | `ScreenShowsOutput`: the screens show the last rows of what was output |
| | `CursorIsShown` | `CursorShown`: the controller has the cursor of the terminal shown |
| | `PictureStarts` | `StartShown`: the picture starts at its area |
| `FsProofs` | `NeverTwoOwners` | `SectorsOwned`: no sector has two owners |
| | `NamesApart` | `EntriesOwnInodes`: names have inodes of their own |
| | `NoSectorStray` | `MapExact`: the sector map is exact |
| | `DirectoryTrue` | `DirectoryAgrees`: listdir and getsize agree |
| | `ReadsWhatWasWritten` | `ReadBack`: read returns what was written |

A property that holds under a condition (see Conditions) is proved under the same
condition.

**Proc**, for every `PROC_MAX_CNT >= 2`, every `QUANTUM >= 1` and every `RamFather`.
That exit wakes a living father needs `FatherAlive`; that this survives the
death of the father needs adoption by pid 0, and so that pid 0 never dies,
which is `KernelProcs` (what pid 0 and pid 1 run).  That a woken father finds a
zombie needs that nobody else takes it, so that statuses agree with contexts.
That adoption leaves no cycle needs that the new father is on no cycle itself.
The effect of `schedule()` is stated once (`TimerEffect`).
`InitCanBeWoken` is a second induction on top of it (`WakeInv`): the driver has no
children, so if the process that exits has a living father besides init, the
living processes besides pid 0 and pid 1 are a family, and by `FathersLeadToInit`
one of them is a child of init.  The refinement maps fork to `Spawn`, exit to `Die`
and the reaping turn of wait to `Reap`; every other step stutters
(`StepImplements`).  TLC checks every part of `IInv` but `KernelProcs` in run
`proc` too.

**Searches.**  `InOrder(R, S)` is the one way in which successive searches of S serve R,
or empty if S runs out, and then the action hangs or stops as the code does.
So the proofs count nothing: they use that two searches never find the same
place (`FoundApart`), and that all places found are free.

**Paging**, for any number of processes and pages, a physical memory far from the
bits of `FreeBit` (`PoolAssumption`) and any window of `dec()`.  Counts change
soundly only if no page is mapped twice by one process (`MappedOnce`), or one
`add()` would stand for two ptes, and if the allocator hands out no mapped page
(`Taken`).  Faults, exec and exit have the same effect, one process giving up
ptes that `dec()` uncounts and getting fresh pages, and share one lemma
(`RemapInv`); fork is the other (`ForkInv`).  What lies behind the
window is never given up, so a step that ends in `InWindow` starts there too;
`Positive` keeps the counts from falling below zero outside of it.  The refinement has
a lemma for each action: what a process sees changes by a store only for its
owner, since the page is mapped nowhere else; by a copy-on-write fault not at
all, since the new page holds the same; by an exec only for the caller, since
new pages are mapped by nobody; by a fork only for the child.

**PageFrames**, for any number of processes, regions and frames.  Freeing a frame
is right only if nobody else uses it, so that early release, loss and sharing
are one invariant: `Separate` (no two uses of a frame, directories, tables and
stray tables together), `Held` (uses are marked) and `Accounted` (marks are uses).

**FileTable**, for any number of processes, slots, descriptors and forks.  A
descriptor that no fork has copied is free and without reference (`Unused`), or
has the one reference its open made, and the count 1 (`UsedOnce`).  The counts
that are off do not spread: a close touches only the descriptors its slots name,
and an open takes a descriptor nobody but copied slots can name.

**KStack**, for any number of slots, generations, and places to yield or to be
interrupted.  All frames are on the page of their process (`OwnPages`), the
running process enters where it always did (`EntryKept`), the others have their
frame below that (`FrameSaved`), and a call returns to it (`CallFrames`).  For
`StackFits` each generation has a `Top` it never enters above and a distance it
never goes below it (`Levels`).  For `BootRoles` the invariant `BootOrder` follows
pid 0 through its two forks, with at most one child of each, and holds as long as
no process of `init_start` loses the processor between store and test.

**Kb**, for a ring and an 8042 of any size and any number of bytes.  The driver
changes `cnt` before it stores a byte and before it reads one, so the invariant
speaks of the bytes really there (`Held`): they are sent in order, later than
those taken and earlier than those to come (`Ring`, `Later`), and `head` is behind
them (`Pointers`).  The places of `Exposed` are just those where an interrupt
breaks one of these.

**Tty**, for any number of processes, any assignment of terminals and any sizes.
`HoldsText` is `RingIsText` cell by cell, also in the middle of the driver's work;
`HeadBehind` is where `head` is then.  That `std_read` leaves `tail` in the ring or
unfollowed, and `text` empty with the ring, is most of the proof.

**Scancode**, for any set of the keys of `keyboard` (`KeyAssumption`), any size of
ring and any bounds (`RoomAssumption`).  That the property holds now says nothing of
the bytes still in the ring, so the invariant follows them as long as none was
lost: each is the byte that its stroke has at its place (`Placed`), the next one goes
on with the stroke or begins the one struck next, whose modifiers are those the
last one left (`Chained`), the ring ends with a whole stroke (`Whole`), and `got` and
`kbflag` are what the front of the ring needs (`Begun`).  Reading a byte keeps this if
`transfer_buffer` stops just at the end of each stroke (`SentForm`, `BytesKnown`: the
first two bytes tell how many there are) and if the row of `keymap`, the shift
column and the bits of `kbflag` make of it what was meant (`KeysTaken`, `StrokeDone`,
`StrokeFlags`, by cases of the key).

**Screen**, for screens of any size whose rows are a multiple of the tab stop
(`AreaAssumption`, `TabAssumption`), a byte wide enough for the picture
(`ByteAssumption`) and any number of characters.  `Fits` keeps each run inside the
area of its terminal: `pos` is at most one past its end, and then the run rolls.
`Sheets` says the same of the endless sheet, blank behind its end.  `Screens` is the
property in the middle of a run (`Completes`): what is still to be done, a cell to
draw, a row to roll, a cursor to store, makes the screen show its sheet; no two
runs hold the cursor of a terminal that is followed.  `Ports` has what each run
has sent of its pair of registers (`Sent`).  A system call that comes in between
selects other registers, so that the driver's next data byte goes astray: then it
is for the terminal shown, which is what `CallTears` ties to `torn`, and it can
only be the cursor that it sends (`CursorIndex`).  That the sheet scrolls when the loop
rolls is arithmetic of rows and columns, in lemmas of its own.

**Fs**, for sectors, tables, directories and files of any size and any names with a
character.  (A disk whose formatting was cut reads the empty name, that of the
root, in every entry.)  Either formatting has not come to the directory (`Fresh`)
or the disk is one a boot may find (`Ready`, `Kept`).  An operation is safe
because every image it gives the disk is one of `Kept`, whichever is the last; each
lemma about images (`AllocSteps`, `DataSteps`, `SyncSteps`, `FormatSteps`) says what
they have in common.  That needs the order of the writes: sectors are marked
before an inode names them, and the inode table, written sector by sector, is a
mixture of the old and the new one, in which files stay apart because the old
table is apart from the new one too (`Apart(inodes, disk.inodes)` in `Running`).
`Roomy` says that a file has more space than its size, for `DirectoryAgrees`.
For `MapExact` no image of a write marks a sector but those found (`WriteMarks`), so
a cut that comes when the disk has every inode as memory has it loses nothing.
For `ReadBack` a second invariant, `TextInv`, follows the bytes: `Near` are the disks
that an operation may leave on its way, with other bytes only in the sectors of the
file it writes, so that every other file reads the same on them (`ToldNear`); of the
file itself, `DataByte` and `OverlayByte` say byte by byte that the disk and the
text change alike.  No descriptor is behind the end of its file, or a write would
leave a gap that was never written.

Only model-checked are the liveness properties: `ReadyRuns` and `SlotReturns` of
`Proc`, `EveryByteTaken` of `Kb`, `EnterWakes` of `Tty`.  Fairness and ENABLED are out
of the prover's reach.


## Not modelled

- GDT, IDT, the 8259 and the boot loader: set up once; their effect, which code
  runs with interrupts off, is in the atomicity of the actions.
- The ATA port protocol: a sector write happens or does not.
- File names of twelve and more characters, which overrun a directory entry; a
  full disk, which the disk of the emulator is too large for.
- What `sys_do_unlink` does to the sector map when 55 descriptors are open
  (fourteen processes with four each): `inode_table[-1]` (`fs.c:361`) is the end of
  `file_desc_table` in the kernel as linked, its `block_count` the inode pointer of
  descriptor 54.  While that is null the loop is empty, as `Unlink` has it; else
  it clears bits that the following words name.
- exec that fails in `init_start` (`proc.c:109`): `shell.elf` and `init.elf` are taken
  to be on the disk, where `install` puts them.
- Grey keys with Shift or NumLock held, and PrintScreen with a modifier: a real
  keyboard of set 1 adds e0 2a, e0 aa, e0 36 or e0 b6 around them, or sends other
  codes.  `keyboard` of `Scancode` sends none of these.  `transfer_buffer` takes
  e0 2a for the beginning of PrintScreen, reads the two bytes of the grey key with
  it and goes on with `mark` unset (`tty.c:289`); what it then does is not followed.
- Lost scancodes: after one, or a sequence that only begins like PrintScreen or
  Pause (`tty.c:288`), `Scancode` takes any character for read and checks nothing.
- Registers other than eax and ebp, and colours of characters.
- ELF headers, arguments of exec, shell and other user programs: any program
  may make any call.
- Storing through a wrong address: where the code leaves an array, the model
  stops following (`stopped`, `smashed`, `Sound`) and says so at the place.

## Plan

Done: the modules above, in the order `Proc`, `ProcLife`, `ProcProofs`, `AddrSpace`,
`Paging`, `PageFrames`, `FileTable`, `Kb`, `Tty`, `Fs`, `Scancode`, `Screen`, `KStack`,
and the proofs of all their safety properties.  Next:

1. `Command`: how exec packs its arguments (`proc.c:116`) and the start code of a
   program takes them apart.
2. `Kernel`: fork, exec and exit over `Proc`, `Paging` and `FileTable` together,
   with the abstract specification of each.
