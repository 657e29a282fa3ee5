--------------------------------- MODULE Fs ---------------------------------
(***************************************************************************)
(* The file system (src/fs/fs.c): the flat directory, the inodes, the map  *)
(* of sectors, and the algorithms of open, write, read and unlink, down to *)
(* the order in which sectors are written.                                 *)
(*                                                                         *)
(* System calls run with interrupts off, one at a time; what can come      *)
(* between two sector writes is power being cut.  So an operation is the   *)
(* sequence of the images it gives the disk, one for each sector written:  *)
(* it ends on the last one, or the power goes on any other.  The next boot *)
(* takes what is on the disk (init_fs).                                    *)
(*                                                                         *)
(* Descriptors are here what open makes of them, an inode and a position;  *)
(* how processes share and count them is in module FileTable.              *)
(***************************************************************************)
EXTENDS Lowest, Sequences, FiniteSets, SequencesExt

CONSTANTS SECTOR,    \* bytes of a sector (512)
          MAX_BLOCKS, \* direct_pointers of an inode (29)
          INODES,    \* inodes, the root directory included (64)
          PER,       \* inodes in a sector (4)
          ENTRIES,   \* entries in a sector of the directory (32)
          SECTORS,   \* sectors behind data_start
          Names,     \* what programs call files
          Stored,    \* what split_name keeps of each name
          Fds,       \* descriptors
          Sizes,     \* sizes of writes
          MaxCalls   \* bound of the model: calls that change the disk

ASSUME SectorAssumption ==
    /\ SECTOR \in Nat \ {0} /\ PER \in Nat \ {0} /\ ENTRIES \in Nat \ {0}
    /\ MAX_BLOCKS \in Nat /\ MAX_BLOCKS >= 2   \* the directory has two
    /\ INODES \in Nat /\ INODES >= PER /\ INODES % PER = 0
    /\ SECTORS \in Nat /\ SECTORS > 2
    /\ Sizes \subseteq Nat /\ MaxCalls \in Nat
\* A name has a character.  (On a disk whose formatting was cut, every entry of
\* the directory reads as the empty name, of the root.)
ASSUME NameAssumption == Stored \in [Names -> Names] /\ "" \notin Names

VARIABLES
    disk,    \* what the disk holds
    on,      \* the kernel is running
    inodes,  \* inode_table
    imap,    \* inode_map, the set of its bits
    fds,     \* open descriptors
    text,    \* what was written to each inode (history)
    tainted, \* inodes whose text is not followed: see Write (history)
    torn,    \* power went in the middle of a create or a format (history)
    clipped, \* a file was created under a name of which a part is kept (history)
    lost,    \* a boot has forgotten sectors an inode had got (history)
    calls    \* calls so far

history == <<text, tainted, torn, clipped, lost>>
memory == <<on, inodes, imap, fds>>
vars == <<disk, memory, history, calls>>

Inodes == 0 .. INODES - 1
TableSectors == INODES \div PER
DataSectors == 0 .. SECTORS - 1
Slots == (0 .. 1) \X (1 .. ENTRIES)
Least(m, n) == IF m < n THEN m ELSE n
Most(m, n) == IF m > n THEN m ELSE n

Empty == [size |-> 0, ptr |-> <<>>]
FreeEntry == [inode |-> -1, name |-> "-"]
Closed == [inode |-> 0, rw |-> 0]
NoInodes == [j \in Inodes |-> Empty]

\* A byte is <<d, k>>, the k-th one of what descriptor d writes; NUL is on the
\* disk before.
NUL == <<0, 0>>
Bytes == {NUL} \cup (Fds \X (1 .. SECTOR * (MAX_BLOCKS + 1)))
Data(d, n) == [k \in 1 .. n |-> <<d, k>>]

BlankDisk ==
    [super |-> FALSE, secmap |-> {}, imap |-> {}, inodes |-> NoInodes,
     dir |-> [e \in Slots |-> [inode |-> 0, name |-> ""]],
     data |-> [s \in DataSectors |-> [b \in 0 .. SECTOR - 1 |-> NUL]]]

-----------------------------------------------------------------------------
(* The operations, as images of the disk.                                  *)

\* (Mutants: the last sector of the table is not written; the map is not.)
SyncShort(d, table, map) ==
    [k \in 1 .. TableSectors |->
        [d EXCEPT !.imap = map,
                  !.inodes = [j \in Inodes |-> IF j < PER * (k - 1) THEN table[j] ELSE d.inodes[j]]]]
SyncNoMap(d, table, map) == [k \in 1 .. 1 + TableSectors |->
    [d EXCEPT !.inodes = [j \in Inodes |-> IF j < PER * (k - 1) THEN table[j] ELSE d.inodes[j]]]]

\* sync_inode: the inode map, then the inode table sector by sector.
SyncImages(d, table, map) ==
    [k \in 1 .. 1 + TableSectors |->
        [d EXCEPT !.imap = map,
                  !.inodes = [j \in Inodes |-> IF j < PER * (k - 1) THEN table[j] ELSE d.inodes[j]]]]

Root == [size |-> 2 * SECTOR, ptr |-> <<0, 1>>]

\* sys_format: magic number, empty maps, root inode, inode map, sector map,
\* directory.  The images of the empty maps are those of a blank disk.
FormatImages ==
    LET super == [disk EXCEPT !.super = TRUE]
        cleared == [super EXCEPT !.secmap = {}, !.imap = {}]
        root == [cleared EXCEPT !.inodes = [j \in Inodes |->
                    IF j = 0 THEN Root ELSE IF j < PER THEN Empty ELSE @[j]]]
        imapped == [root EXCEPT !.imap = {0}]
        smapped == [imapped EXCEPT !.secmap = {0, 1}]
        dir(d, b) == [d EXCEPT !.dir = [e \in Slots |-> IF e[1] = b THEN FreeEntry ELSE d.dir[e]]]
    IN <<super, cleared, root, imapped, smapped, dir(smapped, 0), dir(dir(smapped, 0), 1)>>

\* The entries in the order of the scans; none if the root inode is empty.
Before(e, f) == e[1] < f[1] \/ (e[1] = f[1] /\ e[2] < f[2])
InDir(e) == e[1] < Len(inodes[0].ptr)
FirstOf(E) == CHOOSE e \in E : \A f \in E \ {e} : Before(e, f)

Used(e) == InDir(e) /\ disk.dir[e].inode # -1
\* (Mutant: the search ends with the first sector.)
MatchesFirst(name) == {e \in Slots : Used(e) /\ e[1] = 0 /\ disk.dir[e].name = name}

Matches(name) == {e \in Slots : Used(e) /\ disk.dir[e].name = name}

\* sys_do_getsize, and an entry of what sys_listdir returns.
Getsize(name) ==
    IF Matches(name) = {} THEN -1 ELSE inodes[disk.dir[FirstOf(Matches(name))].inode].size
Listed(e) ==
    LET ino == inodes[disk.dir[e].inode] IN
    [name |-> disk.dir[e].name, size |-> ino.size, space |-> SECTOR * Len(ino.ptr)]

FreeSlots == {e \in Slots : InDir(e) /\ ~Used(e)}
FreeInodes == Inodes \ imap

\* split_name: seven characters and three behind the last dot are kept.
KeptName(name) == Stored[name]

\* create_file: the name goes to the directory before the inode is taken.
CreateImages(name, j) ==
    LET named == [disk EXCEPT !.dir = [@ EXCEPT ![FirstOf(FreeSlots)] =
                                            [inode |-> j, name |-> KeptName(name)]]]
    IN <<named>> \o SyncImages(named, [inodes EXCEPT ![j] = Empty], imap \cup {j})

\* What n calls of alloc_sector find, one after the other.
Sectors(n) == InOrder(1 .. n, DataSectors \ disk.secmap)

\* (Mutant of AllocImages: the bit after is set.)
AllocNextBit(got) ==
    [k \in 1 .. Len(got) |-> [disk EXCEPT !.secmap = @ \cup {got[m] + 1 : m \in 1 .. k}]]

\* The blocks an inode has after the loop of sys_do_write.
BlocksFor(e, have) == Most(have, Least(e + 1, MAX_BLOCKS))

\* The sectors found are marked one by one.
AllocImages(got) ==
    [k \in 1 .. Len(got) |-> [disk EXCEPT !.secmap = @ \cup {got[m] : m \in 1 .. k}]]

\* Positions in the file that the write stores into its first sector.
FirstPart(b, pos, n) == pos .. Least((b + 1) * SECTOR, pos + n) - 1

\* Bytes of block b after n bytes of data are written at pos.  The last of
\* several sectors gets the start of the data.
BlockAfter(old, b, pos, data) ==
    LET n == Len(data)
        first == pos \div SECTOR
        end == (pos + n) \div SECTOR
    IN [k \in 0 .. SECTOR - 1 |->
          LET at == b * SECTOR + k IN
          CASE b = first -> IF at \in FirstPart(b, pos, n) THEN data[at - pos + 1] ELSE old[k]
            [] first < b /\ b < end -> data[at - pos + 1]
            [] first < b /\ b = end -> IF k < (pos + n) % SECTOR THEN data[k + 1] ELSE old[k]]

\* The sectors of the data are written in the order of the file.
DataImages(d, ptr, pos, data) ==
    LET first == pos \div SECTOR
        blocks(k) == first .. first + k - 1
    IN [k \in 1 .. (pos + Len(data)) \div SECTOR - first + 1 |->
          [d EXCEPT !.data = [s \in DataSectors |->
              IF \E b \in blocks(k) : ptr[b + 1] = s
              THEN BlockAfter(d.data[s], CHOOSE b \in blocks(k) : ptr[b + 1] = s, pos, data)
              ELSE d.data[s]]]]

-----------------------------------------------------------------------------
(* Power.                                                                  *)

Init ==
    /\ disk = BlankDisk
    /\ on = FALSE /\ inodes = NoInodes /\ imap = {}
    /\ fds = [d \in Fds |-> Closed]
    /\ text = [j \in Inodes |-> <<>>] /\ tainted = {}
    /\ torn = FALSE /\ clipped = FALSE /\ lost = FALSE
    /\ calls = 0

Forget ==
    /\ on' = FALSE /\ inodes' = NoInodes /\ imap' = {}
    /\ fds' = [d \in Fds |-> Closed]

\* The power goes after one of the images but the last.
CutIn(images) ==
    /\ \E k \in 1 .. Len(images) - 1 : disk' = images[k]
    /\ Forget

PowerOff ==
    /\ on
    /\ Forget
    /\ lost' = (lost \/ inodes # disk.inodes)
    /\ UNCHANGED <<disk, text, tainted, torn, clipped, calls>>

\* init_fs.
Boot ==
    /\ ~on
    /\ on' = TRUE
    /\ disk' = IF disk.super THEN disk ELSE Last(FormatImages)
    /\ inodes' = disk'.inodes /\ imap' = disk'.imap
    /\ UNCHANGED <<fds, history, calls>>

BootCut ==
    /\ ~on /\ ~disk.super
    /\ CutIn(FormatImages)
    /\ torn' = TRUE
    /\ UNCHANGED <<text, tainted, clipped, lost, calls>>

-----------------------------------------------------------------------------
(* System calls.  Those that return -1 and leave everything as it was are  *)
(* left out.                                                               *)

Call == on /\ calls < MaxCalls /\ calls' = calls + 1

Opened(d, j, append) ==
    fds' = [fds EXCEPT ![d] = [inode |-> j, rw |-> IF append THEN inodes'[j].size ELSE 0]]

\* sys_do_open of a file that exists.
Open(d, name, append) ==
    /\ on /\ fds[d] = Closed
    /\ Matches(name) # {}
    /\ LET j == disk.dir[FirstOf(Matches(name))].inode IN
       inodes' = inodes /\ Opened(d, j, append)
    /\ UNCHANGED <<disk, on, imap, history, calls>>

\* sys_do_open of a file that does not: create_file.
CanCreate(d, name) ==
    /\ Call /\ fds[d] = Closed
    /\ Matches(name) = {}
    /\ FreeSlots # {} /\ FreeInodes # {}
    /\ clipped' = (clipped \/ KeptName(name) # name)

NextInode == CHOOSE j \in FreeInodes : \A m \in FreeInodes : j <= m

Create(d, name) ==
    LET j == NextInode IN
    /\ CanCreate(d, name)
    /\ disk' = Last(CreateImages(name, j))
    /\ inodes' = [inodes EXCEPT ![j] = Empty]
    /\ imap' = imap \cup {j}
    /\ Opened(d, j, FALSE)
    /\ text' = [text EXCEPT ![j] = <<>>]
    /\ UNCHANGED <<on, tainted, torn, lost>>

\* lost: what the inode of a name without inode had got before.
CreateCut(d, name) ==
    LET j == NextInode IN
    /\ CanCreate(d, name)
    /\ CutIn(CreateImages(name, j))
    /\ text' = [text EXCEPT ![j] = <<>>]
    /\ torn' = TRUE
    /\ tainted' = tainted \cup {j}
    /\ lost' = (lost \/ inodes # disk.inodes)

Close(d) ==
    /\ on /\ fds[d] # Closed
    /\ fds' = [fds EXCEPT ![d] = Closed]
    /\ UNCHANGED <<disk, on, inodes, imap, history, calls>>

\* sys_do_write: the inode after the loop, and the images.
WriteEnd(d, n) == (fds[d].rw + n) \div SECTOR
Grown(d, n) ==
    LET ino == inodes[fds[d].inode] IN
    BlocksFor(WriteEnd(d, n), Len(ino.ptr)) - Len(ino.ptr)
GrownPtr(d, got) == inodes[fds[d].inode].ptr \o got
TooLong(d, n) == WriteEnd(d, n) >= MAX_BLOCKS

\* A write that needs more sectors than there are is not followed: its pointer
\* -1 is the sector before data_start, which is in the inode table.
CanWrite(d) == Call /\ fds[d] # Closed

WrittenInode(d, n, got) ==
    [size |-> Most(inodes[fds[d].inode].size, fds[d].rw + n), ptr |-> GrownPtr(d, got)]

WriteImages(d, n, got) ==
    LET alloc == AllocImages(got)
        data == DataImages(Last(<<disk>> \o alloc), GrownPtr(d, got), fds[d].rw, Data(d, n))
        table == [inodes EXCEPT ![fds[d].inode] = WrittenInode(d, n, got)]
    IN alloc \o data \o SyncImages(Last(data), table, imap)

\* The last of several sectors is partly written: it gets the wrong bytes, and
\* the text of the file is not followed any more.
WrongTail(d, n) == WriteEnd(d, n) > fds[d].rw \div SECTOR /\ (fds[d].rw + n) % SECTOR # 0

\* old with data at pos.
Overlay(old, pos, data) ==
    SubSeq(old, 1, pos) \o data \o SubSeq(old, pos + Len(data) + 1, Len(old))

Write(d, n, got) ==
    LET j == fds[d].inode IN
    /\ CanWrite(d) /\ ~TooLong(d, n)
    /\ disk' = Last(WriteImages(d, n, got))
    /\ inodes' = [inodes EXCEPT ![j] = WrittenInode(d, n, got)]
    /\ tainted' = IF WrongTail(d, n) THEN tainted \cup {j} ELSE tainted
    /\ text' = [text EXCEPT ![j] =
                    IF j \in tainted' THEN <<>> ELSE Overlay(@, fds[d].rw, Data(d, n))]
    /\ UNCHANGED <<on, imap, fds, torn, clipped, lost>>

\* inode_table once the loop has got the sectors, or as many as it may.
WithGot(d, got) == [inodes EXCEPT ![fds[d].inode].ptr = GrownPtr(d, got)]

\* The loop returns -1 with the sectors it has got in the inode.
WriteFails(d, n, got) ==
    /\ CanWrite(d) /\ TooLong(d, n)
    /\ disk' = Last(<<disk>> \o AllocImages(got))
    /\ inodes' = WithGot(d, got)
    /\ UNCHANGED <<on, imap, fds, history>>

\* lost: what an inode had got in this call or before and has not on the disk.
WriteCut(d, n, got) ==
    LET j == fds[d].inode IN
    /\ CanWrite(d)
    /\ IF TooLong(d, n)
       THEN CutIn(AllocImages(got)) /\ UNCHANGED <<tainted, text>>
       ELSE /\ CutIn(WriteImages(d, n, got))
            /\ tainted' = tainted \cup {j}
            /\ text' = [text EXCEPT ![j] = <<>>]
    /\ lost' = (lost \/ \E m \in Inodes : WithGot(d, got)[m].ptr # disk'.inodes[m].ptr)
    /\ UNCHANGED <<torn, clipped>>

\* sys_do_unlink: the entry is freed; the inode number it then uses for the
\* inode and its sectors is the one it has just overwritten.  The loop over the
\* sectors of inode_table[-1] is taken to be empty: in the kernel as linked its
\* block_count is the inode of descriptor 54, which is free unless 55 are open.
Unlink(name) ==
    /\ Call /\ Matches(name) # {}
    /\ disk' = [disk EXCEPT !.dir = [@ EXCEPT ![FirstOf(Matches(name))] = FreeEntry]]
    /\ UNCHANGED <<memory, history>>

Next ==
    \/ PowerOff \/ Boot \/ BootCut
    \/ \E d \in Fds :
          \/ \E name \in Names :
                \/ \E append \in BOOLEAN : Open(d, name, append)
                \/ Create(d, name) \/ CreateCut(d, name)
          \/ \E n \in Sizes : \E got \in Sectors(Grown(d, n)) :
                Write(d, n, got) \/ WriteFails(d, n, got) \/ WriteCut(d, n, got)
          \/ Close(d)
    \/ \E name \in Names : Unlink(name)

Spec == Init /\ [][Next]_vars

-----------------------------------------------------------------------------
(* Properties.                                                             *)

\* What sys_do_read returns of n bytes at pos.
ReadAt(ino, d, pos, n) ==
    LET size == Least(n, ino.size - pos) IN
    [k \in 1 .. size |->
        d.data[ino.ptr[(pos + k - 1) \div SECTOR + 1]][(pos + k - 1) % SECTOR]]

\* The inode tables that count: on the disk and, while running, in memory.
Tables == {disk.inodes} \cup (IF on THEN {inodes} ELSE {})

TypeOK ==
    /\ disk.super \in BOOLEAN /\ disk.secmap \subseteq DataSectors
    /\ disk.imap \subseteq Inodes
    /\ \A s \in DataSectors : \A k \in 0 .. SECTOR - 1 : disk.data[s][k] \in Bytes
    /\ \A e \in Slots : disk.dir[e].inode \in -1 .. INODES - 1
    /\ \A j \in Inodes : \A t \in Tables :
          /\ t[j].size \in 0 .. SECTOR * MAX_BLOCKS
          /\ Len(t[j].ptr) \in 0 .. MAX_BLOCKS
          /\ \A b \in DOMAIN t[j].ptr : t[j].ptr[b] \in DataSectors
    /\ on \in BOOLEAN /\ imap \subseteq Inodes
    /\ \A d \in Fds : fds[d].inode \in Inodes /\ fds[d].rw \in 0 .. SECTOR * MAX_BLOCKS
    /\ tainted \subseteq Inodes /\ {torn, clipped, lost} \subseteq BOOLEAN
    /\ calls \in 0 .. MaxCalls

Owned(t) == UNION {Range(t[j].ptr) : j \in Inodes \ {0}}

\* No two files share a sector, none has one twice or one of the directory,
\* and every sector of a file is marked in the map of sectors: in memory and on
\* the disk, at every place where the power can go (and the variables keep their
\* types).
SectorsOwned ==
    TypeOK /\ \A t \in Tables :
        /\ \A j \in Inodes : IsInjective(t[j].ptr)
        /\ \A j, m \in Inodes : j # m => Range(t[j].ptr) \cap Range(t[m].ptr) = {}
        /\ Owned(t) \subseteq disk.secmap

\* read returns what was written (documentation, read and write: from rwpointer,
\* the given length), and what a write has returned from is on the disk, also
\* after the power was cut in a later call; but for files with a write that ended
\* inside the last of several sectors or was itself cut.
ReadBack ==
    \A t \in Tables : \A j \in Inodes \ ({0} \cup tainted) :
        ReadAt(t[j], disk, 0, t[j].size) = text[j]

\* What listdir and getsize tell of a file is the same, each name is listed once,
\* and a file that has any byte has more space than its size (the last sector
\* that read looks at, (rwpointer + size) / 512, is one of the file); unless a
\* name was cut to what an entry holds, which then is listed next to others of
\* its beginning and found by none.
DirectoryAgrees ==
    on /\ ~torn /\ ~clipped =>
        \A e \in Slots : Used(e) =>
            /\ Getsize(Listed(e).name) = Listed(e).size
            /\ Listed(e).size > 0 => Listed(e).size < Listed(e).space
            /\ Cardinality(Matches(Listed(e).name)) = 1

\* Names have inodes of their own, marked in the inode map on the disk, unless
\* the power went in a create (or a format).
EntriesOwnInodes ==
    on /\ ~torn =>
        /\ \A e \in Slots : Used(e) => disk.dir[e].inode \in disk.imap \ {0}
        /\ \A e, f \in Slots : Used(e) /\ Used(f) /\ e # f => disk.dir[e].inode # disk.dir[f].inode
        /\ imap = disk.imap

\* The map of sectors has no sectors but those of the directory and of inodes
\* (of unlinked files too), unless a boot forgot some: then no write finds the
\* disk full that has room for the longest files.
MapExact ==
    on /\ ~lost /\ ~torn => disk.secmap = {0, 1} \cup Owned(inodes)
=============================================================================
