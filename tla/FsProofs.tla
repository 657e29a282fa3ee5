------------------------------ MODULE FsProofs ------------------------------
(***************************************************************************)
(* Proofs about module Fs, for a disk, a directory, files and writes of    *)
(* any size, any names, and any number of power cuts.                      *)
(***************************************************************************)
EXTENDS Fs, WellFoundedInduction, SequenceTheorems, FiniteSetTheorems, TLAPS

-----------------------------------------------------------------------------
(* The inductive invariant.                                                *)

Inode == [size : 0 .. SECTOR * MAX_BLOCKS, ptr : Seq(DataSectors)]
Table == {t \in [Inodes -> Inode] :
            \A j \in Inodes : Len(t[j].ptr) <= MAX_BLOCKS /\ IsInjective(t[j].ptr)}
Entry == [inode : -1 .. INODES - 1, name : Names \cup {"", "-"}]
Content == [DataSectors -> [0 .. SECTOR - 1 -> Bytes]]
Disk == [super : BOOLEAN, secmap : SUBSET DataSectors, imap : SUBSET Inodes, inodes : Table,
         dir : [Slots -> Entry], data : Content]
Desc == [inode : Inodes, rw : 0 .. SECTOR * MAX_BLOCKS]

Typed ==
    /\ disk \in Disk /\ on \in BOOLEAN /\ inodes \in Table /\ imap \in SUBSET Inodes
    /\ fds \in [Fds -> Desc]
    /\ tainted \in SUBSET Inodes
    /\ torn \in BOOLEAN /\ clipped \in BOOLEAN /\ lost \in BOOLEAN
    /\ calls \in 0 .. MaxCalls

\* Without power the memory holds nothing.
Off == ~on => inodes = NoInodes /\ imap = {} /\ fds = [d \in Fds |-> Closed]

\* Different inodes have different sectors, also one of t and another of u.
Apart(t, u) ==
    \A j, m \in Inodes : j # m => Range(t[j].ptr) \cap Range(u[m].ptr) = {}

\* The last sector that read looks at is one of the file.
Roomy(t) == \A j \in Inodes \ {0} : t[j].size > 0 => t[j].size < SECTOR * Len(t[j].ptr)

\* What a table of inodes must be, on a disk where these sectors are marked.
GoodTable(t, secmap) ==
    t[0] = Root /\ Apart(t, t) /\ Owned(t) \subseteq secmap /\ Roomy(t)

\* A formatted disk.
GoodDisk(d) ==
    /\ d.super /\ {0, 1} \subseteq d.secmap /\ 0 \in d.imap
    /\ GoodTable(d.inodes, d.secmap)
    /\ \A e \in Slots : d.dir[e].inode = 0 => d.dir[e].name = ""

\* Names have inodes of their own; those without a name were never used.
Named(d) ==
    /\ \A e \in Slots : d.dir[e].inode # -1 => d.dir[e].inode \in d.imap \ {0}
    /\ \A e, f \in Slots : d.dir[e].inode # -1 /\ d.dir[e].inode = d.dir[f].inode => e = f
    /\ \A j \in Inodes \ d.imap : d.inodes[j] = Empty

Unique(d) ==
    \A e, f \in Slots :
        d.dir[e].inode # -1 /\ d.dir[f].inode # -1 /\ d.dir[e].name = d.dir[f].name => e = f

\* The disks a boot may find, unless the power went while it was being formatted.
Kept(tn, cl) ==
    {d \in Disk : GoodDisk(d) /\ (~tn => Named(d)) /\ (~tn /\ ~cl => Unique(d))}

\* A running kernel.
Running ==
    /\ imap = disk.imap
    /\ GoodTable(inodes, disk.secmap) /\ Apart(inodes, disk.inodes)
    /\ \A d \in Fds : fds[d].inode # 0 \/ fds[d] = Closed
    /\ ~torn => /\ \A j \in Inodes \ imap : inodes[j] = Empty
                /\ \A d \in Fds : fds[d].inode \in imap

Exact ==
    ~torn /\ ~lost => disk.secmap = {0, 1} \cup Owned(IF on THEN inodes ELSE disk.inodes)

Ready == disk \in Kept(torn, clipped) /\ (on => Running) /\ Exact

\* Formatting has not come to the directory: no call finds or makes a file.
RootTable == [j \in Inodes |-> IF j = 0 THEN Root ELSE Empty]
FreshDisk(d) ==
    /\ d.dir = BlankDisk.dir /\ d.imap \subseteq {0} /\ d.inodes \in {NoInodes, RootTable}
Fresh ==
    /\ FreshDisk(disk) /\ fds = [d \in Fds |-> Closed]
    /\ IF disk.super THEN torn ELSE disk = BlankDisk /\ ~on
    /\ on => inodes = disk.inodes /\ imap = disk.imap

IInv == Typed /\ Off /\ (Fresh \/ Ready)

-----------------------------------------------------------------------------
(* Numbers and sequences.                                                  *)

LEMMA Constants ==
    /\ SECTOR \in Nat \ {0} /\ PER \in Nat \ {0} /\ ENTRIES \in Nat \ {0}
    /\ MAX_BLOCKS \in Nat /\ MAX_BLOCKS >= 2 /\ INODES \in Nat
BY SectorAssumption

LEMMA Numbers ==
    /\ 0 \in Inodes /\ Inodes \subseteq Nat
    /\ 0 \in DataSectors /\ 1 \in DataSectors /\ DataSectors \subseteq Nat
<1>1. /\ PER \in Nat \ {0}
      /\ INODES \in Nat /\ INODES >= PER /\ SECTORS \in Nat /\ SECTORS > 2
  BY SectorAssumption
<1>2. 0 \in Inodes /\ Inodes \subseteq Nat
  BY <1>1 DEF Inodes
<1>3. 0 \in DataSectors /\ 1 \in DataSectors /\ DataSectors \subseteq Nat
  BY <1>1 DEF DataSectors
<1> QED
  BY <1>2, <1>3

LEMMA Multiple ==
    ASSUME NEW m \in Nat, NEW a \in Nat
    PROVE  m * a \in Nat /\ m * (a + 1) = m * a + m
OBVIOUS

LEMMA Monotonic ==
    ASSUME NEW m \in Nat, NEW a \in Nat, NEW b \in Nat
    PROVE  /\ a <= b => m * a <= m * b
           /\ a < b => m * a + m <= m * b
OBVIOUS

LEMMA Division ==
    ASSUME NEW m \in Nat \ {0}, NEW a \in Nat
    PROVE  /\ a \div m \in Nat /\ a % m \in 0 .. m - 1
           /\ m * (a \div m) \in Nat /\ a = m * (a \div m) + (a % m)
<1>1. PICK q \in Nat, r \in 0 .. m - 1 : q = a \div m /\ r = a % m /\ a = m * q + r
  OBVIOUS
<1>2. m * q \in Nat
  BY Multiple
<1> QED
  BY <1>1, <1>2

LEMMA DivisionUnique ==
    ASSUME NEW m \in Nat \ {0}, NEW a \in Nat, NEW q \in Nat, NEW r \in 0 .. m - 1, a = m * q + r
    PROVE  a \div m = q /\ a % m = r
<1>1. PICK x \in Nat, y \in 0 .. m - 1 :
        x = a \div m /\ y = a % m /\ m * x \in Nat /\ a = m * x + y
  BY Division
<1>2. ~(x < q) /\ ~(q < x) /\ m * q \in Nat
  BY <1>1, Monotonic, Multiple
<1> QED
  BY <1>1, <1>2

LEMMA FunctionIsSeq ==
    ASSUME NEW S, NEW n \in Nat, NEW f \in [1 .. n -> S]
    PROVE  f \in Seq(S) /\ Len(f) = n /\ \A k \in 1 .. n : f[k] \in S
OBVIOUS

LEMMA LengthOf ==
    ASSUME NEW n \in Nat, NEW f, f = [k \in 1 .. n |-> f[k]]
    PROVE  Len(f) = n /\ DOMAIN f = 1 .. n
<1> DEFINE S == {f[k] : k \in 1 .. n}
<1>1. f \in [1 .. n -> S]
  OBVIOUS
<1> HIDE DEF S
<1> QED
  BY <1>1, FunctionIsSeq

\* The last of two sequences one behind the other.
LEMMA LastOfBoth ==
    ASSUME NEW S, NEW s \in Seq(S), NEW t \in Seq(S)
    PROVE  /\ s \o t \in Seq(S) /\ Len(s \o t) = Len(s) + Len(t)
           /\ Len(t) > 0 => Last(s \o t) = Last(t)
           /\ Len(t) = 0 => s \o t = s
<1>1. Len(s) \in Nat /\ Len(t) \in Nat
  OBVIOUS
<1>2. /\ s \o t \in Seq(S) /\ Len(s \o t) = Len(s) + Len(t)
      /\ \A i \in 1 .. Len(s) + Len(t) : (s \o t)[i] = IF i <= Len(s) THEN s[i] ELSE t[i - Len(s)]
  BY ConcatProperties
<1>3. Len(t) > 0 => Last(s \o t) = Last(t)
  <2> HAVE Len(t) > 0
  <2>1. Len(s) + Len(t) \in 1 .. Len(s) + Len(t) /\ ~(Len(s) + Len(t) <= Len(s))
        /\ Len(s) + Len(t) - Len(s) = Len(t)
    BY <1>1
  <2> QED
    BY <1>2, <2>1 DEF Last
<1>4. Len(t) = 0 => s \o t = s
  BY EmptySeq, ConcatEmptySeq
<1> QED
  BY <1>2, <1>3, <1>4

LEMMA OneImage == ASSUME NEW S, NEW x \in S PROVE <<x>> \in Seq(S)
OBVIOUS

\* An image at which the power may go.
LEMMA CutImage ==
    ASSUME NEW S, NEW s \in Seq(S), NEW k \in 1 .. Len(s) - 1
    PROVE  s[k] \in S
<1>1. Len(s) \in Nat /\ k \in 1 .. Len(s)
  OBVIOUS
<1> QED
  BY <1>1

LEMMA LastIn ==
    ASSUME NEW S, NEW s \in Seq(S), Len(s) > 0
    PROVE  Last(s) \in S
BY DEF Last

LEMMA LeastExists ==
    ASSUME NEW S \in SUBSET Nat, S # {}
    PROVE  \E n \in S : \A m \in S : n <= m
<1>1. PICK less : IsWellFoundedOn(less, Nat) /\ \A m, n \in Nat : m < n => <<m, n>> \in less
  <2>1. \A m, n \in Nat : m < n => <<m, n>> \in OpToRel(<, Nat)
    BY DEF OpToRel
  <2> QED
    BY <2>1, NatLessThanWellFounded, Zenon
<1>2. S \subseteq Nat /\ IsWellFoundedOn(less, Nat)
  BY <1>1
<1>3. PICK n \in S : \A m \in S : <<m, n>> \notin less
  BY <1>2, WFMin
<1>4. ASSUME NEW m \in S PROVE n <= m
  <2>1. m \in Nat /\ n \in Nat /\ <<m, n>> \notin less
    BY <1>3
  <2> QED
    BY <1>1, <2>1
<1> QED
  BY <1>4

-----------------------------------------------------------------------------
(* What the searches find.                                                 *)

\* The scans of the directory find an entry if there is one.
LEMMA FirstFound ==
    ASSUME NEW E \in SUBSET Slots, E # {}
    PROVE  FirstOf(E) \in E
<1>0. \A e \in E : e = <<e[1], e[2]>> /\ e[1] \in Nat /\ e[2] \in Nat
  <2>1. ENTRIES \in Nat
    BY Constants
  <2>2. 0 .. 1 \subseteq Nat /\ 1 .. ENTRIES \subseteq Nat
    BY <2>1
  <2> QED
    BY <2>2 DEF Slots
<1> DEFINE B == {e[1] : e \in E}
<1>1. B \in SUBSET Nat /\ B # {}
  BY <1>0
<1>2. PICK b \in B : \A m \in B : b <= m
  BY <1>1, LeastExists
<1> DEFINE C == {e[2] : e \in {f \in E : f[1] = b}}
<1>3. C \in SUBSET Nat /\ C # {}
  BY <1>0, <1>2
<1>4. PICK c \in C : \A m \in C : c <= m
  BY <1>3, LeastExists
<1>5. PICK e \in E : e[1] = b /\ e[2] = c
  OBVIOUS
<1>6. ASSUME NEW f \in E, f # e PROVE Before(e, f)
  <2>1. e = <<e[1], e[2]>> /\ f = <<f[1], f[2]>> /\ e[1] \in Nat /\ f[1] \in Nat
        /\ e[2] \in Nat /\ f[2] \in Nat
    BY <1>0
  <2>2. f[1] \in B /\ b <= f[1]
    BY <1>2
  <2>3. f[1] = b => c <= f[2]
    BY <1>4
  <2> QED
    BY <1>5, <1>6, <2>1, <2>2, <2>3 DEF Before
<1>7. \E x \in E : \A f \in E \ {x} : Before(x, f)
  BY <1>6
<1> QED
  BY <1>7 DEF FirstOf

LEMMA NextInodeFree ==
    ASSUME FreeInodes # {}
    PROVE  NextInode \in Inodes /\ NextInode \notin imap
<1>1. FreeInodes \in SUBSET Nat
  BY Numbers DEF FreeInodes
<1>2. \E j \in FreeInodes : \A m \in FreeInodes : j <= m
  BY <1>1, LeastExists
<1> QED
  BY <1>2 DEF NextInode, FreeInodes

\* The sectors that alloc_sector finds are unmarked and all different.
LEMMA NewSectors ==
    ASSUME NEW n \in Nat, NEW got \in Sectors(n)
    PROVE  /\ got \in Seq(DataSectors) /\ Len(got) = n /\ IsInjective(got)
           /\ Range(got) \in SUBSET DataSectors /\ Range(got) \cap disk.secmap = {}
<1>1. got \in [1 .. n -> DataSectors \ disk.secmap]
      /\ \A r, t \in 1 .. n : r < t => got[r] < got[t]
  BY DEF Sectors, InOrder
<1>2. got \in [1 .. n -> DataSectors] /\ \A k \in 1 .. n : got[k] \in Nat /\ got[k] \notin disk.secmap
  BY <1>1, Numbers
<1>3. got \in Seq(DataSectors) /\ Len(got) = n
  BY <1>2, FunctionIsSeq
<1>4. IsInjective(got)
  <2>1. ASSUME NEW r \in 1 .. n, NEW t \in 1 .. n, got[r] = got[t] PROVE r = t
    <3>1. ~(r < t) /\ ~(t < r)
      BY <1>1, <1>2, <2>1
    <3> QED
      BY <3>1
  <2> QED
    BY <1>1, <2>1 DEF IsInjective
<1> QED
  BY <1>2, <1>3, <1>4 DEF Range

-----------------------------------------------------------------------------
(* Tables of inodes.                                                       *)

\* A table of which some inodes are those of t, some those of u.
Mixed(x, t, u) == x \in [Inodes -> Inode] /\ \A j \in Inodes : x[j] \in {t[j], u[j]}

LEMMA MixedGood ==
    ASSUME NEW S, NEW t \in Table, NEW u \in Table, NEW x, Mixed(x, t, u),
           GoodTable(t, S), GoodTable(u, S), Apart(t, u)
    PROVE  x \in Table /\ GoodTable(x, S) /\ Apart(t, x) /\ Apart(u, x)
<1>1. x \in Table
  BY DEF Mixed, Table
<1>2. Apart(u, t)
  BY DEF Apart
<1>3. Apart(x, x) /\ Apart(t, x) /\ Apart(u, x)
  BY <1>2 DEF GoodTable, Apart, Mixed
<1>4. x[0] = Root
  BY Numbers DEF Mixed, GoodTable
<1>5. Owned(x) \subseteq S
  <2>1. ASSUME NEW j \in Inodes \ {0} PROVE Range(x[j].ptr) \subseteq S
    <3>1. Range(t[j].ptr) \subseteq S /\ Range(u[j].ptr) \subseteq S
      BY DEF GoodTable, Owned
    <3> QED
      BY <3>1 DEF Mixed
  <2> QED
    BY <2>1 DEF Owned
<1>6. Roomy(x)
  BY DEF Roomy, GoodTable, Mixed
<1> QED
  BY <1>1, <1>3, <1>4, <1>5, <1>6 DEF GoodTable

\* More sectors may be marked.
LEMMA MoreMarked ==
    ASSUME NEW t, NEW S, NEW U, S \subseteq U, GoodTable(t, S)
    PROVE  GoodTable(t, U)
BY DEF GoodTable

-----------------------------------------------------------------------------
(* The images of the disk that an operation goes through.                  *)

WithTable(d, map, x) == [d EXCEPT !.imap = map, !.inodes = x]

LEMMA SyncSteps ==
    ASSUME NEW d \in Disk, NEW table \in Table, NEW map \in SUBSET Inodes
    PROVE  /\ Len(SyncImages(d, table, map)) \in Nat \ {0}
           /\ DOMAIN SyncImages(d, table, map) = 1 .. Len(SyncImages(d, table, map))
           /\ Last(SyncImages(d, table, map)) = WithTable(d, map, table)
           /\ \A k \in 1 .. Len(SyncImages(d, table, map)) :
                \E x : /\ Mixed(x, d.inodes, table)
                       /\ SyncImages(d, table, map)[k] = WithTable(d, map, x)
<1> DEFINE images == SyncImages(d, table, map)
           mix(k) == [j \in Inodes |-> IF j < PER * (k - 1) THEN table[j] ELSE d.inodes[j]]
<1>1. TableSectors \in Nat /\ PER * TableSectors = INODES
  <2>1. INODES \in Nat /\ PER \in Nat \ {0} /\ INODES % PER = 0
    BY SectorAssumption
  <2>2. INODES \div PER \in Nat /\ PER * (INODES \div PER) \in Nat
        /\ INODES = PER * (INODES \div PER) + (INODES % PER)
    BY <2>1, Division
  <2> QED
    BY <2>1, <2>2 DEF TableSectors
<1>2. images = [k \in 1 .. 1 + TableSectors |-> WithTable(d, map, mix(k))]
  BY DEF SyncImages, WithTable
<1> DEFINE n == 1 + TableSectors
<1>3. n \in Nat \ {0}
  BY <1>1
<1>4. Len(images) = n /\ DOMAIN images = 1 .. n
  <2>1. images = [k \in 1 .. n |-> images[k]]
    BY <1>2
  <2> HIDE DEF images, n
  <2> QED
    BY <1>3, <2>1, LengthOf
<1>5. d.inodes \in [Inodes -> Inode] /\ table \in [Inodes -> Inode]
  BY DEF Disk, Table
<1>6. ASSUME NEW k \in 1 .. n PROVE Mixed(mix(k), d.inodes, table)
  BY <1>5 DEF Mixed
<1>7. mix(n) = table
  <2>1. n - 1 = TableSectors
    BY <1>1
  <2>2. PER * (n - 1) = INODES /\ INODES \in Nat
    BY <1>1, <2>1, Constants
  <2>3. \A j \in 0 .. INODES - 1 : j < INODES
    BY <2>2
  <2> QED
    BY <1>5, <2>2, <2>3 DEF Inodes
<1>8. n \in 1 .. n /\ Last(images) = images[n]
  BY <1>3, <1>4 DEF Last
<1>9. ASSUME NEW k \in 1 .. n
      PROVE  \E x : Mixed(x, d.inodes, table) /\ images[k] = WithTable(d, map, x)
  <2>1. images[k] = WithTable(d, map, mix(k))
    BY <1>2
  <2> QED
    BY <1>6, <2>1
<1>10. images[n] = WithTable(d, map, table)
  BY <1>2, <1>7, <1>8
<1> HIDE DEF n, mix, images
<1> QED
  BY <1>3, <1>4, <1>8, <1>9, <1>10 DEF images

LEMMA KeptByTable ==
    ASSUME NEW tn, NEW cl, NEW d \in Kept(tn, cl), NEW x \in Table, NEW map \in SUBSET Inodes,
           GoodTable(x, d.secmap), d.imap \subseteq map,
           ~tn => \A j \in Inodes \ map : x[j] = Empty
    PROVE  WithTable(d, map, x) \in Kept(tn, cl)
<1> DEFINE e == WithTable(d, map, x)
<1>0. d \in Disk /\ GoodDisk(d) /\ (~tn => Named(d)) /\ (~tn /\ ~cl => Unique(d))
  BY DEF Kept
<1>1. e \in Disk /\ e.super = d.super /\ e.secmap = d.secmap /\ e.imap = map /\ e.inodes = x
      /\ e.dir = d.dir
  BY <1>0 DEF Disk, WithTable
<1>2. GoodDisk(e)
  BY <1>0, <1>1 DEF GoodDisk
<1>3. ~tn => Named(e)
  BY <1>0, <1>1 DEF Named
<1>4. Unique(d) => Unique(e)
  BY <1>1 DEF Unique
<1> QED
  BY <1>0, <1>1, <1>2, <1>3, <1>4 DEF Kept

\* The inodes are written behind a map that has what the old one had.
LEMMA SyncKept ==
    ASSUME NEW tn, NEW cl, NEW d \in Kept(tn, cl), NEW table \in Table, NEW map \in SUBSET Inodes,
           GoodTable(table, d.secmap), Apart(d.inodes, table), d.imap \subseteq map,
           ~tn => \A j \in Inodes \ map : table[j] = Empty
    PROVE  SyncImages(d, table, map) \in Seq(Kept(tn, cl))
<1> DEFINE images == SyncImages(d, table, map)
<1>0. d \in Disk /\ GoodDisk(d) /\ (~tn => Named(d))
  BY DEF Kept
<1>1. /\ Len(images) \in Nat /\ DOMAIN images = 1 .. Len(images)
      /\ \A k \in 1 .. Len(images) :
            \E x : /\ Mixed(x, d.inodes, table)
                   /\ images[k] = WithTable(d, map, x)
  BY <1>0, SyncSteps
<1>2. ASSUME NEW k \in 1 .. Len(images) PROVE images[k] \in Kept(tn, cl)
  <2>1. PICK x : Mixed(x, d.inodes, table) /\ images[k] = WithTable(d, map, x)
    BY <1>1
  <2>2. d.inodes \in Table /\ GoodTable(d.inodes, d.secmap)
    BY <1>0 DEF Disk, GoodDisk
  <2>3. x \in Table /\ GoodTable(x, d.secmap)
    BY <2>1, <2>2, MixedGood
  <2>4. ~tn => \A j \in Inodes \ map : x[j] = Empty
    BY <1>0, <2>1 DEF Named, Mixed
  <2>5. WithTable(d, map, x) \in Kept(tn, cl)
    BY <2>3, <2>4, KeptByTable
  <2> QED
    BY <2>1, <2>5
<1>3. images = [k \in 1 .. Len(images) |-> images[k]]
  BY <1>1 DEF SyncImages
<1> HIDE DEF images
<1>4. images \in [1 .. Len(images) -> Kept(tn, cl)]
  BY <1>2, <1>3
<1> QED
  BY <1>1, <1>4, FunctionIsSeq DEF images

\* The sectors found are marked on the disk, one more in each image.
LEMMA AllocSteps ==
    ASSUME NEW tn, NEW cl, disk \in Kept(tn, cl), NEW got \in Seq(DataSectors)
    PROVE  /\ AllocImages(got) \in Seq(Kept(tn, cl)) /\ Len(AllocImages(got)) = Len(got)
           /\ Last(<<disk>> \o AllocImages(got)) = [disk EXCEPT !.secmap = @ \cup Range(got)]
           /\ [disk EXCEPT !.secmap = @ \cup Range(got)] \in Kept(tn, cl)
<1> DEFINE images == AllocImages(got)
           marked(k) == {got[m] : m \in 1 .. k}
           with(X) == [disk EXCEPT !.secmap = @ \cup X]
<1>0. disk \in Disk /\ GoodDisk(disk) /\ (~tn => Named(disk)) /\ (~tn /\ ~cl => Unique(disk))
  BY DEF Kept
<1>1. ASSUME NEW X \in SUBSET DataSectors PROVE with(X) \in Kept(tn, cl)
  <2>1. /\ with(X) \in Disk /\ with(X).super = disk.super /\ with(X).secmap = disk.secmap \cup X
        /\ with(X).imap = disk.imap /\ with(X).inodes = disk.inodes /\ with(X).dir = disk.dir
    BY <1>0 DEF Disk
  <2>2. GoodDisk(with(X))
    BY <1>0, <2>1 DEF GoodDisk, GoodTable
  <2>3. (Named(disk) => Named(with(X))) /\ (Unique(disk) => Unique(with(X)))
    BY <2>1 DEF Named, Unique
  <2> QED
    BY <1>0, <2>1, <2>2, <2>3 DEF Kept
<1>2. Len(got) \in Nat /\ \A m \in 1 .. Len(got) : got[m] \in DataSectors
  OBVIOUS
<1>3. images = [k \in 1 .. Len(got) |-> with(marked(k))]
  BY DEF AllocImages
<1>4. ASSUME NEW k \in 1 .. Len(got) PROVE marked(k) \in SUBSET DataSectors
  BY <1>2
<1>5. images \in [1 .. Len(got) -> Kept(tn, cl)]
  <2> HIDE DEF with, marked, images
  <2> QED
    BY <1>1, <1>3, <1>4
<1>6. images \in Seq(Kept(tn, cl)) /\ Len(images) = Len(got)
  <2> HIDE DEF images
  <2> QED
    BY <1>2, <1>5, FunctionIsSeq
<1>7. Range(got) = marked(Len(got)) /\ Range(got) \in SUBSET DataSectors
  BY <1>2 DEF Range
<1>8. <<disk>> \in Seq(Kept(tn, cl)) /\ Last(<<disk>>) = disk
  BY DEF Last
<1>9. Last(<<disk>> \o images) = with(Range(got))
  <2>1. CASE Len(got) = 0
    <3>1. Last(<<disk>> \o images) = disk
      <4> HIDE DEF images
      <4> QED
        BY <1>6, <1>8, <2>1, LastOfBoth
    <3>2. Range(got) = {}
      BY <2>1 DEF Range
    <3>3. disk.secmap \cup {} = disk.secmap
      OBVIOUS
    <3>4. with({}) = disk
      BY <1>0, <3>3 DEF Disk
    <3> QED
      BY <3>1, <3>2, <3>4
  <2>2. CASE Len(got) > 0
    <3>1. Last(<<disk>> \o images) = Last(images)
      <4> HIDE DEF images
      <4> QED
        BY <1>6, <1>8, <2>2, LastOfBoth
    <3>2. Last(images) = with(marked(Len(got)))
      BY <1>2, <1>3, <1>6, <2>2 DEF Last
    <3> QED
      BY <1>7, <3>1, <3>2
  <2> QED
    BY <1>2, <2>1, <2>2
<1>10. with(Range(got)) \in Kept(tn, cl)
  BY <1>1, <1>7
<1> QED
  BY <1>6, <1>9, <1>10

\* The blocks of a write get bytes of the file as it was and of the data.
LEMMA BlockTyped ==
    ASSUME NEW old \in [0 .. SECTOR - 1 -> Bytes], NEW pos \in Nat, NEW data \in Seq(Bytes),
           NEW b \in pos \div SECTOR .. (pos + Len(data)) \div SECTOR
    PROVE  BlockAfter(old, b, pos, data) \in [0 .. SECTOR - 1 -> Bytes]
<1> DEFINE n == Len(data)
           first == pos \div SECTOR
           end == (pos + n) \div SECTOR
           rem == (pos + n) % SECTOR
           base == b * SECTOR
           byte(k) == LET at == base + k IN
              CASE b = first -> IF at \in FirstPart(b, pos, n) THEN data[at - pos + 1] ELSE old[k]
                [] first < b /\ b < end -> data[at - pos + 1]
                [] first < b /\ b = end -> IF k < rem THEN data[k + 1] ELSE old[k]
<1>0. SECTOR \in Nat \ {0} /\ n \in Nat /\ pos + n \in Nat
  <2>1. n \in Nat
    OBVIOUS
  <2> HIDE DEF n
  <2>2. SECTOR \in Nat \ {0}
    BY Constants
  <2> QED
    BY <2>1, <2>2
<1>1. /\ first \in Nat /\ end \in Nat /\ rem \in 0 .. SECTOR - 1
      /\ SECTOR * first \in Nat /\ SECTOR * end \in Nat
      /\ pos < SECTOR * first + SECTOR /\ SECTOR * end + rem = pos + n
  <2> HIDE DEF n
  <2>1. first \in Nat /\ SECTOR * first \in Nat
        /\ \E r \in 0 .. SECTOR - 1 : pos = SECTOR * first + r
    BY <1>0, Division
  <2>2. end \in Nat /\ SECTOR * end \in Nat /\ rem \in 0 .. SECTOR - 1
        /\ pos + n = SECTOR * end + rem
    BY <1>0, Division
  <2> HIDE DEF first, end, rem
  <2> QED
    BY <1>0, <2>1, <2>2
<1>2. b \in Nat /\ first <= b /\ b <= end
  BY <1>1
<1>3. SECTOR * b \in Nat /\ b * SECTOR = SECTOR * b /\ (b + 1) * SECTOR = SECTOR * b + SECTOR
  BY <1>0, <1>2, Multiple
<1>4. \A k \in 1 .. n : data[k] \in Bytes
  BY <1>0
<1>5. ASSUME NEW k \in 0 .. SECTOR - 1 PROVE byte(k) \in Bytes
  <2>0. k \in Nat /\ k < SECTOR /\ old[k] \in Bytes
    BY <1>0
  <2>4. base \in Nat
    BY <1>3
  <2>1. CASE b = first
    <3>1. base + k \in FirstPart(b, pos, n) => (base + k) - pos + 1 \in 1 .. n
      <4> HIDE DEF n, first
      <4> QED
        BY <1>0, <1>3, <2>0 DEF FirstPart, Least
    <3>2. byte(k) = IF base + k \in FirstPart(b, pos, n) THEN data[(base + k) - pos + 1] ELSE old[k]
      <4>1. ~(first < b)
        BY <1>1, <1>2, <2>1
      <4> HIDE DEF base, first, end, rem, n
      <4> QED
        BY <2>1, <4>1, Zenon
    <3> HIDE DEF byte
    <3> QED
      BY <1>4, <2>0, <3>1, <3>2
  <2>2. CASE first < b /\ b < end
    <3>1. SECTOR * first + SECTOR <= SECTOR * b /\ SECTOR * b + SECTOR <= SECTOR * end
      BY <1>0, <1>1, <1>2, <2>2, Monotonic
    <3>2. (base + k) - pos + 1 \in 1 .. n
      <4> HIDE DEF n, first, end, rem
      <4> QED
        BY <1>0, <1>1, <1>3, <2>0, <3>1
    <3>3. byte(k) = data[(base + k) - pos + 1]
      <4>1. b # first /\ b # end /\ first < b /\ b < end
        BY <1>1, <1>2, <2>2
      <4> HIDE DEF base, first, end, rem, n
      <4> QED
        BY <4>1, Zenon
    <3> HIDE DEF byte
    <3> QED
      BY <1>4, <3>2, <3>3
  <2>3. CASE first < b /\ b = end
    <3>1. SECTOR * first + SECTOR <= SECTOR * end
      BY <1>0, <1>1, <1>2, <2>3, Monotonic
    <3>2. k < rem => k + 1 \in 1 .. n
      <4> HIDE DEF n, first, end, rem
      <4> QED
        BY <1>0, <1>1, <2>0, <3>1
    <3>3. byte(k) = IF k < rem THEN data[k + 1] ELSE old[k]
      BY <1>1, <1>2, <2>3
    <3> HIDE DEF byte
    <3> QED
      BY <1>4, <2>0, <3>2, <3>3
  <2> QED
    BY <1>1, <1>2, <2>1, <2>2, <2>3
<1>6. BlockAfter(old, b, pos, data) = [k \in 0 .. SECTOR - 1 |-> byte(k)]
  BY DEF BlockAfter
<1> HIDE DEF byte
<1> QED
  BY <1>5, <1>6

WithData(d, x) == [d EXCEPT !.data = x]

\* The data on the disk when k sectors are written.
FirstBlock(pos) == pos \div SECTOR
LastBlock(pos, data) == (pos + Len(data)) \div SECTOR
DataPart(d, ptr, pos, data, k) ==
    LET blocks == FirstBlock(pos) .. FirstBlock(pos) + k - 1 IN
    [s \in DataSectors |->
        IF \E b \in blocks : ptr[b + 1] = s
        THEN BlockAfter(d.data[s], CHOOSE b \in blocks : ptr[b + 1] = s, pos, data)
        ELSE d.data[s]]

LEMMA DataSteps ==
    ASSUME NEW d \in Disk, NEW ptr, NEW pos \in Nat, NEW data \in Seq(Bytes)
    PROVE  /\ Len(DataImages(d, ptr, pos, data)) \in Nat \ {0}
           /\ DOMAIN DataImages(d, ptr, pos, data) = 1 .. Len(DataImages(d, ptr, pos, data))
           /\ \A k \in 1 .. Len(DataImages(d, ptr, pos, data)) :
                /\ DataPart(d, ptr, pos, data, k) \in Content
                /\ DataImages(d, ptr, pos, data)[k] = WithData(d, DataPart(d, ptr, pos, data, k))
           /\ FirstBlock(pos) \in Nat /\ LastBlock(pos, data) \in Nat
           /\ FirstBlock(pos) <= LastBlock(pos, data)
           /\ Len(DataImages(d, ptr, pos, data)) = LastBlock(pos, data) - FirstBlock(pos) + 1
<1> DEFINE n == Len(data)
           first == pos \div SECTOR
           end == (pos + n) \div SECTOR
           blocks(k) == first .. first + k - 1
           at(k, s) == CHOOSE b \in blocks(k) : ptr[b + 1] = s
           content(k) == DataPart(d, ptr, pos, data, k)
           images == DataImages(d, ptr, pos, data)
<1>0. SECTOR \in Nat \ {0} /\ n \in Nat /\ pos + n \in Nat
  <2>1. n \in Nat
    OBVIOUS
  <2> HIDE DEF n
  <2>2. SECTOR \in Nat \ {0}
    BY Constants
  <2> QED
    BY <2>1, <2>2
<1>1. first \in Nat /\ end \in Nat /\ first <= end
  <2>1. /\ first \in Nat /\ end \in Nat /\ SECTOR * first \in Nat /\ SECTOR * end \in Nat
        /\ \E r \in 0 .. SECTOR - 1 : pos = SECTOR * first + r
        /\ \E r \in 0 .. SECTOR - 1 : pos + n = SECTOR * end + r
    BY <1>0, Division
  <2>2. ~(end < first)
    <3>1. end < first => SECTOR * end + SECTOR <= SECTOR * first
      BY <1>0, <2>1, Monotonic
    <3> HIDE DEF n, first, end
    <3> QED
      BY <1>0, <2>1, <3>1
  <2> QED
    BY <2>1, <2>2
<1> DEFINE m == end - first + 1
<1>2. m \in Nat \ {0}
  <2> HIDE DEF first, end
  <2> QED
    BY <1>1
<1>3. images = [k \in 1 .. m |-> WithData(d, content(k))]
  BY DEF DataImages, WithData, DataPart, FirstBlock
<1>4. Len(images) = m /\ DOMAIN images = 1 .. m
  <2>1. images = [k \in 1 .. m |-> images[k]]
    BY <1>3
  <2> HIDE DEF images, m
  <2> QED
    BY <1>2, <2>1, LengthOf
<1>5. ASSUME NEW k \in 1 .. m
      PROVE  content(k) \in Content
  <2>2. content(k) = [s \in DataSectors |->
                        IF \E b \in blocks(k) : ptr[b + 1] = s
                        THEN BlockAfter(d.data[s], at(k, s), pos, data)
                        ELSE d.data[s]]
    BY DEF DataPart, FirstBlock
  <2> HIDE DEF content
  <2>1. ASSUME NEW s \in DataSectors PROVE content(k)[s] \in [0 .. SECTOR - 1 -> Bytes]
    <3>0. d.data[s] \in [0 .. SECTOR - 1 -> Bytes]
      BY DEF Disk, Content
    <3>1. ASSUME \E b \in blocks(k) : ptr[b + 1] = s
          PROVE  BlockAfter(d.data[s], at(k, s), pos, data) \in [0 .. SECTOR - 1 -> Bytes]
      <4>1. at(k, s) \in blocks(k)
        BY <3>1
      <4>2. blocks(k) \subseteq first .. end
        <5> HIDE DEF first, end
        <5> QED
          BY <1>1
      <4> HIDE DEF at, blocks
      <4> QED
        BY <3>0, <4>1, <4>2, BlockTyped
    <3> HIDE DEF at, blocks
    <3> QED
      BY <2>2, <3>0, <3>1
  <2> QED
    BY <2>1, <2>2 DEF Content
<1>6. m = LastBlock(pos, data) - FirstBlock(pos) + 1 /\ first = FirstBlock(pos)
      /\ end = LastBlock(pos, data)
  BY DEF FirstBlock, LastBlock
<1> HIDE DEF images, m, content, first, end
<1>7. \A k \in 1 .. m : content(k) \in Content /\ images[k] = WithData(d, content(k))
  BY <1>3, <1>5
<1> QED
  BY <1>1, <1>2, <1>4, <1>6, <1>7 DEF images, content

LEMMA DataKept ==
    ASSUME NEW tn, NEW cl, NEW d \in Kept(tn, cl), NEW ptr, NEW pos \in Nat, NEW data \in Seq(Bytes)
    PROVE  /\ DataImages(d, ptr, pos, data) \in Seq(Kept(tn, cl))
           /\ Len(DataImages(d, ptr, pos, data)) > 0
           /\ \E x : Last(DataImages(d, ptr, pos, data)) = WithData(d, x)
<1> DEFINE images == DataImages(d, ptr, pos, data)
<1>0. d \in Disk /\ GoodDisk(d) /\ (~tn => Named(d)) /\ (~tn /\ ~cl => Unique(d))
  BY DEF Kept
<1>1. /\ Len(images) \in Nat \ {0} /\ DOMAIN images = 1 .. Len(images)
      /\ \A k \in 1 .. Len(images) :
            /\ DataPart(d, ptr, pos, data, k) \in Content
            /\ images[k] = WithData(d, DataPart(d, ptr, pos, data, k))
  BY <1>0, DataSteps
<1>2. ASSUME NEW x \in Content
      PROVE  WithData(d, x) \in Kept(tn, cl)
  <2> DEFINE e == WithData(d, x)
  <2>1. e \in Disk /\ e.super = d.super /\ e.secmap = d.secmap /\ e.imap = d.imap
        /\ e.inodes = d.inodes /\ e.dir = d.dir
    BY <1>0 DEF Disk, WithData
  <2> HIDE DEF e
  <2>2. GoodDisk(e)
    BY <1>0, <2>1 DEF GoodDisk
  <2>3. (Named(d) => Named(e)) /\ (Unique(d) => Unique(e))
    BY <2>1 DEF Named, Unique
  <2>4. e \in Kept(tn, cl)
    BY <1>0, <2>1, <2>2, <2>3 DEF Kept
  <2> QED
    BY <2>4 DEF e
<1>3. images = [k \in 1 .. Len(images) |-> images[k]]
  BY <1>1 DEF DataImages
<1> HIDE DEF images
<1>4. images \in [1 .. Len(images) -> Kept(tn, cl)]
  BY <1>1, <1>2, <1>3
<1>5. images \in Seq(Kept(tn, cl))
  BY <1>1, <1>4, FunctionIsSeq
<1>6. Last(images) = images[Len(images)] /\ Len(images) \in 1 .. Len(images)
  BY <1>1 DEF Last
<1> QED
  BY <1>1, <1>5, <1>6 DEF images

-----------------------------------------------------------------------------
(* What the calls make of the table of inodes.                             *)

\* An inode is emptied.
LEMMA EmptiedGood ==
    ASSUME NEW S, NEW t \in Table, GoodTable(t, S), NEW j \in Inodes \ {0}
    PROVE  /\ [t EXCEPT ![j] = Empty] \in Table /\ GoodTable([t EXCEPT ![j] = Empty], S)
           /\ \A u : Apart(u, t) => Apart(u, [t EXCEPT ![j] = Empty])
<1> DEFINE x == [t EXCEPT ![j] = Empty]
<1>0. t \in [Inodes -> Inode] /\ SECTOR * MAX_BLOCKS \in Nat /\ 0 \in Inodes
  BY Constants, Numbers, Multiple DEF Table
<1>1. Empty \in Inode /\ Len(Empty.ptr) = 0 /\ Range(Empty.ptr) = {} /\ Empty.size = 0
      /\ IsInjective(Empty.ptr)
  BY <1>0 DEF Empty, Inode, Range, IsInjective
<1>2. x \in [Inodes -> Inode] /\ \A m \in Inodes : x[m] = IF m = j THEN Empty ELSE t[m]
  BY <1>0, <1>1
<1> HIDE DEF x
<1>3. x \in Table
  <2>1. 0 <= MAX_BLOCKS
    BY Constants
  <2>2. ASSUME NEW m \in Inodes PROVE Len(x[m].ptr) <= MAX_BLOCKS /\ IsInjective(x[m].ptr)
    <3>1. Len(t[m].ptr) <= MAX_BLOCKS /\ IsInjective(t[m].ptr)
      BY DEF Table
    <3> QED
      BY <1>1, <1>2, <2>1, <3>1
  <2> QED
    BY <1>2, <2>2 DEF Table
<1>4. \A m \in Inodes : Range(x[m].ptr) \subseteq Range(t[m].ptr)
  BY <1>1, <1>2
<1>5. ASSUME NEW u, Apart(u, t) PROVE Apart(u, x)
  BY <1>4, <1>5 DEF Apart
<1>6. Apart(x, x) /\ Owned(x) \subseteq S
  BY <1>4 DEF GoodTable, Apart, Owned
<1>7. x[0] = Root /\ Roomy(x)
  BY <1>0, <1>1, <1>2 DEF GoodTable, Roomy
<1> QED
  BY <1>3, <1>5, <1>6, <1>7 DEF x, GoodTable

LEMMA JoinedRange ==
    ASSUME NEW s \in Seq(DataSectors), NEW t \in Seq(DataSectors)
    PROVE  /\ Range(s \o t) = Range(s) \cup Range(t)
           /\ IsInjective(s) /\ IsInjective(t) /\ Range(s) \cap Range(t) = {} => IsInjective(s \o t)
<1>0. Len(s) \in Nat /\ Len(t) \in Nat /\ DOMAIN s = 1 .. Len(s) /\ DOMAIN t = 1 .. Len(t)
  OBVIOUS
<1>1. /\ DOMAIN (s \o t) = 1 .. Len(s) + Len(t)
      /\ \A i \in 1 .. Len(s) + Len(t) : (s \o t)[i] = IF i <= Len(s) THEN s[i] ELSE t[i - Len(s)]
  BY <1>0, ConcatProperties
<1>2. \A i \in 1 .. Len(s) : i \in 1 .. Len(s) + Len(t) /\ (s \o t)[i] = s[i]
  BY <1>0, <1>1
<1>3. \A i \in 1 .. Len(t) : i + Len(s) \in 1 .. Len(s) + Len(t) /\ (s \o t)[i + Len(s)] = t[i]
  BY <1>0, <1>1
<1>4. \A i \in 1 .. Len(s) + Len(t) :
        \/ i \in 1 .. Len(s)
        \/ i - Len(s) \in 1 .. Len(t) /\ i = (i - Len(s)) + Len(s)
  BY <1>0
<1>5. Range(s \o t) = Range(s) \cup Range(t)
  <2>1. \A v \in Range(s \o t) : v \in Range(s) \cup Range(t)
    BY <1>0, <1>1, <1>2, <1>3, <1>4 DEF Range
  <2>2. \A v \in Range(s) : v \in Range(s \o t)
    BY <1>0, <1>1, <1>2 DEF Range
  <2>3. \A v \in Range(t) : v \in Range(s \o t)
    BY <1>0, <1>1, <1>3 DEF Range
  <2> QED
    BY <2>1, <2>2, <2>3
<1>6. ASSUME IsInjective(s), IsInjective(t), Range(s) \cap Range(t) = {},
             NEW i \in 1 .. Len(s) + Len(t), NEW k \in 1 .. Len(s) + Len(t), (s \o t)[i] = (s \o t)[k]
      PROVE  i = k
  <2>1. CASE i \in 1 .. Len(s) /\ k \in 1 .. Len(s)
    BY <1>0, <1>2, <1>6, <2>1 DEF IsInjective
  <2>2. CASE i \notin 1 .. Len(s) /\ k \notin 1 .. Len(s)
    <3>1. t[i - Len(s)] = t[k - Len(s)] /\ i - Len(s) \in 1 .. Len(t) /\ k - Len(s) \in 1 .. Len(t)
      BY <1>3, <1>4, <1>6, <2>2
    <3>2. i - Len(s) = k - Len(s)
      BY <1>0, <1>6, <3>1 DEF IsInjective
    <3> QED
      BY <1>0, <3>2
  <2>3. CASE i \in 1 .. Len(s) /\ k \notin 1 .. Len(s)
    <3>1. s[i] = t[k - Len(s)] /\ k - Len(s) \in 1 .. Len(t)
      BY <1>2, <1>3, <1>4, <1>6, <2>3
    <3> QED
      BY <1>0, <1>6, <2>3, <3>1 DEF Range
  <2>4. CASE i \notin 1 .. Len(s) /\ k \in 1 .. Len(s)
    <3>1. s[k] = t[i - Len(s)] /\ i - Len(s) \in 1 .. Len(t)
      BY <1>2, <1>3, <1>4, <1>6, <2>4
    <3> QED
      BY <1>0, <1>6, <2>4, <3>1 DEF Range
  <2> QED
    BY <2>1, <2>2, <2>3, <2>4
<1>7. IsInjective(s) /\ IsInjective(t) /\ Range(s) \cap Range(t) = {} => IsInjective(s \o t)
  BY <1>1, <1>6 DEF IsInjective
<1> QED
  BY <1>5, <1>7

\* An inode gets new sectors, and a size for which it has room.
GrownTable(t, j, size, got) == [t EXCEPT ![j] = [size |-> size, ptr |-> t[j].ptr \o got]]

CanGrow(S, t, u, j, size, got) ==
    /\ S \in SUBSET DataSectors /\ {0, 1} \subseteq S
    /\ t \in Table /\ GoodTable(t, S) /\ GoodTable(u, S) /\ Apart(t, u)
    /\ j \in Inodes \ {0} /\ got \in Seq(DataSectors)
    /\ IsInjective(got) /\ Range(got) \cap S = {} /\ Len(t[j].ptr) + Len(got) <= MAX_BLOCKS
    /\ size \in 0 .. SECTOR * MAX_BLOCKS
    /\ size > 0 => size < SECTOR * (Len(t[j].ptr) + Len(got))

LEMMA GrownOwned ==
    ASSUME NEW S, NEW t, NEW u, NEW j, NEW size, NEW got, CanGrow(S, t, u, j, size, got)
    PROVE  Owned(GrownTable(t, j, size, got)) = Owned(t) \cup Range(got)
<1> DEFINE x == GrownTable(t, j, size, got)
<1>1. t \in [Inodes -> Inode] /\ j \in Inodes \ {0} /\ t[j].ptr \in Seq(DataSectors)
      /\ got \in Seq(DataSectors)
  BY DEF CanGrow, Table, Inode
<1>2. x[j].ptr = t[j].ptr \o got /\ \A m \in Inodes \ {j} : x[m] = t[m]
  BY <1>1 DEF GrownTable
<1> HIDE DEF x
<1>3. Range(x[j].ptr) = Range(t[j].ptr) \cup Range(got)
  BY <1>1, <1>2, JoinedRange
<1>4. \A v : v \in Owned(x) <=> \E m \in Inodes \ {0} : v \in Range(x[m].ptr)
  BY DEF Owned
<1>5. \A v : v \in Owned(t) <=> \E m \in Inodes \ {0} : v \in Range(t[m].ptr)
  BY DEF Owned
<1>6. ASSUME NEW v \in Owned(x) PROVE v \in Owned(t) \cup Range(got)
  <2>1. PICK m \in Inodes \ {0} : v \in Range(x[m].ptr)
    BY <1>4
  <2>2. Range(x[m].ptr) \subseteq Range(t[m].ptr) \cup Range(got)
    BY <1>3, <1>2
  <2>3. v \in Range(t[m].ptr) \/ v \in Range(got)
    BY <2>1, <2>2
  <2> QED
    BY <1>5, <2>3
<1>7. ASSUME NEW v \in Owned(t) PROVE v \in Owned(x)
  <2>1. PICK m \in Inodes \ {0} : v \in Range(t[m].ptr)
    BY <1>5
  <2>2. Range(t[m].ptr) \subseteq Range(x[m].ptr)
    BY <1>3, <1>2
  <2>3. v \in Range(x[m].ptr)
    BY <2>1, <2>2
  <2> QED
    BY <1>4, <2>3
<1>8. ASSUME NEW v \in Range(got) PROVE v \in Owned(x)
  <2>1. v \in Range(x[j].ptr)
    BY <1>3
  <2> QED
    BY <1>4, <1>1, <2>1
<1> QED
  BY <1>6, <1>7, <1>8 DEF x

LEMMA GrownGood ==
    ASSUME NEW S, NEW t, NEW u, NEW j, NEW size, NEW got, CanGrow(S, t, u, j, size, got)
    PROVE  /\ GrownTable(t, j, size, got) \in Table
           /\ GoodTable(GrownTable(t, j, size, got), S \cup Range(got))
           /\ Apart(GrownTable(t, j, size, got), u)
<1> DEFINE old == t[j].ptr
           new == old \o got
           x == GrownTable(t, j, size, got)
<1> USE DEF CanGrow
<1>0. t \in [Inodes -> Inode] /\ 0 \in Inodes /\ SECTOR * MAX_BLOCKS \in Nat
  BY Constants, Numbers, Multiple DEF Table
<1>1. old \in Seq(DataSectors) /\ IsInjective(old) /\ Len(old) \in Nat
  BY <1>0 DEF Table, Inode
<1>2. Range(old) \subseteq S
  BY DEF GoodTable, Owned
<1>3. Range(new) = Range(old) \cup Range(got) /\ IsInjective(new)
  BY <1>1, <1>2, JoinedRange
<1>4. new \in Seq(DataSectors) /\ Len(new) = Len(old) + Len(got)
  BY <1>1, LastOfBoth
<1>5. /\ x \in [Inodes -> Inode]
      /\ \A m \in Inodes : x[m] = IF m = j THEN [size |-> size, ptr |-> new] ELSE t[m]
  BY <1>0, <1>4 DEF Inode, GrownTable
<1> HIDE DEF x
<1>6. x[j].ptr = new /\ x[j].size = size /\ \A m \in Inodes \ {j} : x[m] = t[m]
  BY <1>5
<1> HIDE DEF old, new
<1>7. x \in Table
  <2>1. \A m \in Inodes : Len(x[m].ptr) <= MAX_BLOCKS /\ IsInjective(x[m].ptr)
    BY <1>3, <1>4, <1>6 DEF Table, old
  <2> QED
    BY <1>5, <2>1 DEF Table
<1>8. ASSUME NEW m \in Inodes
      PROVE  Range(t[m].ptr) \subseteq S /\ Range(u[m].ptr) \subseteq S
  <2>1. CASE m = 0
    <3>1. Range(Root.ptr) \subseteq {0, 1}
      BY DEF Root, Range
    <3>2. t[m] = Root /\ u[m] = Root
      BY <2>1 DEF GoodTable
    <3> QED
      BY <3>1, <3>2
  <2>2. CASE m # 0
    <3>1. Range(t[m].ptr) \subseteq Owned(t) /\ Range(u[m].ptr) \subseteq Owned(u)
      BY <2>2 DEF Owned
    <3> QED
      BY <3>1 DEF GoodTable
  <2> QED
    BY <2>1, <2>2
<1>9. ASSUME NEW m \in Inodes
      PROVE  Range(x[m].ptr) = IF m = j THEN Range(t[m].ptr) \cup Range(got) ELSE Range(t[m].ptr)
  <2>1. CASE m = j
    BY <1>3, <1>6, <2>1 DEF old
  <2>2. CASE m # j
    BY <1>6, <2>2
  <2> QED
    BY <2>1, <2>2
<1>10. Apart(x, u) /\ Apart(x, x)
  <2>1. ASSUME NEW a \in Inodes, NEW b \in Inodes, a # b
        PROVE  /\ Range(x[a].ptr) \cap Range(u[b].ptr) = {}
               /\ Range(x[a].ptr) \cap Range(x[b].ptr) = {}
    <3>1. Range(t[a].ptr) \cap Range(u[b].ptr) = {} /\ Range(t[a].ptr) \cap Range(t[b].ptr) = {}
      BY <2>1 DEF Apart, GoodTable
    <3>2. Range(t[a].ptr) \subseteq S /\ Range(t[b].ptr) \subseteq S /\ Range(u[b].ptr) \subseteq S
      BY <1>8
    <3>3. /\ Range(x[a].ptr) = IF a = j THEN Range(t[a].ptr) \cup Range(got) ELSE Range(t[a].ptr)
          /\ Range(x[b].ptr) = IF b = j THEN Range(t[b].ptr) \cup Range(got) ELSE Range(t[b].ptr)
      BY <1>9
    <3> QED
      BY <2>1, <3>1, <3>2, <3>3
  <2> QED
    BY <2>1 DEF Apart
<1>13. Owned(x) = Owned(t) \cup Range(got)
  BY <1>1, GrownOwned DEF x
<1>11. Roomy(x) /\ x[0] = Root
  BY <1>0, <1>4, <1>6 DEF Roomy, GoodTable, old
<1>12. GoodTable(x, S \cup Range(got))
  BY <1>10, <1>11, <1>13 DEF GoodTable
<1> QED
  BY <1>7, <1>10, <1>12, <1>13 DEF x

-----------------------------------------------------------------------------
(* Power.                                                                  *)

LEMMA KeptMore ==
    ASSUME NEW tn, NEW cl, NEW un, NEW dl, tn => un, cl => dl, NEW d \in Kept(tn, cl)
    PROVE  d \in Kept(un, dl)
BY DEF Kept

LEMMA TablesTyped ==
    /\ NoInodes \in Table /\ RootTable \in Table
    /\ \A t \in {NoInodes, RootTable} : Owned(t) = {} /\ Apart(t, t)
    /\ \A S : GoodTable(RootTable, S)
<1>0. SECTOR * MAX_BLOCKS \in Nat /\ 2 * SECTOR \in 0 .. SECTOR * MAX_BLOCKS
  <2>1. SECTOR * 2 <= SECTOR * MAX_BLOCKS /\ SECTOR * MAX_BLOCKS \in Nat
    BY Constants, Monotonic, Multiple
  <2> QED
    BY <2>1, Constants
<1>1. Empty \in Inode /\ Empty.ptr = <<>> /\ Empty.size = 0 /\ Len(Empty.ptr) = 0
      /\ Range(Empty.ptr) = {} /\ IsInjective(Empty.ptr)
  BY <1>0 DEF Empty, Inode, Range, IsInjective
<1>2. Root \in Inode /\ Len(Root.ptr) = 2 /\ IsInjective(Root.ptr)
  <2>1. <<0, 1>> \in Seq(DataSectors)
    BY Numbers
  <2>2. IsInjective(<<0, 1>>)
    BY DEF IsInjective
  <2> QED
    BY <1>0, <2>1, <2>2 DEF Root, Inode
<1>3. 0 <= MAX_BLOCKS /\ 2 <= MAX_BLOCKS
  BY Constants
<1>4. NoInodes \in Table
  BY <1>1, <1>3 DEF NoInodes, Table
<1>5. RootTable \in Table
  BY <1>1, <1>2, <1>3 DEF RootTable, Table
<1>6. ASSUME NEW t \in {NoInodes, RootTable} PROVE Owned(t) = {} /\ Apart(t, t)
  <2>1. \A j \in Inodes \ {0} : t[j] = Empty
    BY DEF NoInodes, RootTable
  <2>2. \A j \in Inodes \ {0} : Range(t[j].ptr) = {}
    BY <1>1, <2>1
  <2> QED
    BY <2>2 DEF Owned, Apart
<1>7. RootTable[0] = Root /\ Roomy(RootTable)
  BY <1>1, Numbers DEF RootTable, Roomy
<1> QED
  BY <1>4, <1>5, <1>6, <1>7 DEF GoodTable

LEMMA BlankTyped == BlankDisk \in Disk /\ FreshDisk(BlankDisk)
<1>1. NoInodes \in Table
  BY TablesTyped
<1>2. [inode |-> 0, name |-> ""] \in Entry
  <2>1. 0 \in -1 .. INODES - 1
    BY Numbers, Constants DEF Inodes
  <2> QED
    BY <2>1 DEF Entry
<1>3. [s \in DataSectors |-> [b \in 0 .. SECTOR - 1 |-> NUL]] \in Content
  BY DEF Content, Bytes
<1> QED
  BY <1>1, <1>2, <1>3 DEF BlankDisk, Disk, FreshDisk

\* The images of formatting a blank disk: on the first five the directory is
\* still blank.
LEMMA FormatSteps ==
    ASSUME disk = BlankDisk
    PROVE  /\ Len(FormatImages) = 7
           /\ \A k \in 1 .. 5 : /\ FormatImages[k] \in Disk
                                /\ FormatImages[k].super /\ FreshDisk(FormatImages[k])
           /\ FormatImages[6] \in Kept(TRUE, FALSE)
           /\ Last(FormatImages) \in Kept(FALSE, FALSE)
           /\ Last(FormatImages).secmap = {0, 1}
           /\ Last(FormatImages).inodes = RootTable
           /\ FormatImages[6].inodes = RootTable
           /\ \A e \in Slots : /\ FormatImages[6].dir[e].inode \in {-1, 0}
                              /\ Last(FormatImages).dir[e].inode \in {-1, 0}
<1> DEFINE table(t) == [j \in Inodes |-> IF j = 0 THEN Root ELSE IF j < PER THEN Empty ELSE t[j]]
           d1 == [disk EXCEPT !.super = TRUE]
           d2 == [d1 EXCEPT !.secmap = {}, !.imap = {}]
           d3 == [d2 EXCEPT !.inodes = table(@)]
           d4 == [d3 EXCEPT !.imap = {0}]
           d5 == [d4 EXCEPT !.secmap = {0, 1}]
           cleared(d, b) == [e \in Slots |-> IF e[1] = b THEN FreeEntry ELSE d.dir[e]]
           d6 == [d5 EXCEPT !.dir = cleared(d5, 0)]
           d7 == [d6 EXCEPT !.dir = cleared(d6, 1)]
<1>1. FormatImages = <<d1, d2, d3, d4, d5, d6, d7>>
  BY DEF FormatImages
<1>0. disk \in Disk /\ table(NoInodes) = RootTable /\ disk.inodes = NoInodes /\ disk.dir = BlankDisk.dir
  BY BlankTyped DEF BlankDisk, NoInodes, RootTable
<1>17. d1 \in Disk /\ d1.inodes = NoInodes /\ d2 \in Disk /\ d2.inodes = NoInodes
       /\ d1.super /\ d2.super /\ FreshDisk(d1) /\ FreshDisk(d2) /\ d2.dir = BlankDisk.dir
  <2>1. d1 \in Disk /\ d1.inodes = NoInodes /\ d1.super /\ d1.dir = BlankDisk.dir /\ d1.imap = {}
    BY <1>0 DEF Disk, BlankDisk
  <2> HIDE DEF d1
  <2>2. d2 \in Disk /\ d2.inodes = NoInodes /\ d2.super /\ d2.dir = BlankDisk.dir /\ d2.imap = {}
    BY <2>1 DEF Disk
  <2> HIDE DEF d2
  <2> QED
    BY <2>1, <2>2 DEF FreshDisk
<1> HIDE DEF d1, d2
<1>18. d3 \in Disk /\ d3.inodes = RootTable /\ d3.super /\ FreshDisk(d3) /\ d3.dir = BlankDisk.dir
  <2>1. RootTable \in Table
    BY TablesTyped
  <2>2. d3 = [d2 EXCEPT !.inodes = RootTable]
    BY <1>0, <1>17
  <2> HIDE DEF d3
  <2> QED
    BY <1>17, <2>1, <2>2 DEF Disk, FreshDisk
<1> HIDE DEF d3
<1>2. d4 \in Disk /\ d4.inodes = RootTable /\ d4.super /\ FreshDisk(d4)
      /\ d5 \in Disk /\ d5.inodes = RootTable /\ d5.super /\ FreshDisk(d5)
      /\ d5.secmap = {0, 1} /\ d5.imap = {0} /\ d5.dir = BlankDisk.dir
  BY <1>17, <1>18, Numbers DEF Disk, FreshDisk
<1> HIDE DEF d4, d5
<1>5. FreeEntry \in Entry
  BY Numbers, Constants DEF FreeEntry, Entry
<1>6. d6 \in Disk /\ d7 \in Disk
  BY <1>2, <1>5 DEF Disk
<1>8. /\ d6.super /\ d6.secmap = {0, 1} /\ d6.imap = {0} /\ d6.inodes = RootTable
      /\ d7.super /\ d7.secmap = {0, 1} /\ d7.imap = {0} /\ d7.inodes = RootTable
  BY <1>2 DEF Disk
<1>9. \A e \in Slots : d6.dir[e].inode \in {-1, 0} /\ (d6.dir[e].inode = 0 => d6.dir[e].name = "")
  <2>1. \A e \in Slots : d6.dir[e] = IF e[1] = 0 THEN FreeEntry ELSE d5.dir[e]
    BY <1>2 DEF Disk
  <2>2. ASSUME NEW e \in Slots PROVE d5.dir[e].name = "" /\ d5.dir[e].inode = 0
    <3>1. BlankDisk.dir[e].name = "" /\ BlankDisk.dir[e].inode = 0
      BY DEF BlankDisk
    <3> QED
      BY <1>2, <3>1
  <2>3. FreeEntry.inode = -1
    BY DEF FreeEntry
  <2> HIDE DEF d6
  <2>4. ASSUME NEW e \in Slots
        PROVE  d6.dir[e].inode \in {-1, 0} /\ (d6.dir[e].inode = 0 => d6.dir[e].name = "")
    <3>1. CASE e[1] = 0
      <4>1. d6.dir[e] = FreeEntry
        BY <2>1, <3>1
      <4>2. d6.dir[e].inode = -1
        BY <2>3, <4>1
      <4>3. -1 # 0
        OBVIOUS
      <4> DEFINE i == d6.dir[e].inode
      <4>4. i = -1
        BY <4>2
      <4> HIDE DEF i
      <4>5. i \in {-1, 0} /\ i # 0
        BY <4>3, <4>4
      <4> QED
        BY <4>5 DEF i
    <3>2. CASE e[1] # 0
      <4>1. d6.dir[e] = d5.dir[e]
        BY <2>1, <3>2
      <4> QED
        BY <2>2, <4>1
    <3> QED
      BY <3>1, <3>2
  <2> QED
    BY <2>4
<1>10. \A e \in Slots : d7.dir[e] = FreeEntry
  <2>1. \A e \in Slots : e[1] = 0 \/ e[1] = 1
    BY DEF Slots
  <2> QED
    BY <1>2, <2>1 DEF Disk
<1> HIDE DEF d6, d7
<1>11. GoodDisk(d6)
  BY <1>8, <1>9, TablesTyped DEF GoodDisk
<1>12. GoodDisk(d7)
  <2>1. \A e \in Slots : d7.dir[e].inode # 0
    BY <1>10 DEF FreeEntry
  <2> QED
    BY <1>8, <2>1, TablesTyped DEF GoodDisk
<1>13. Named(d7) /\ Unique(d7)
  <2>1. \A j \in Inodes \ {0} : RootTable[j] = Empty
    BY DEF RootTable
  <2> QED
    BY <1>8, <1>10, <2>1 DEF Named, Unique, FreeEntry
<1>14. d6 \in Kept(TRUE, FALSE) /\ d7 \in Kept(FALSE, FALSE)
  BY <1>6, <1>11, <1>12, <1>13 DEF Kept
<1>15. /\ Len(FormatImages) = 7 /\ Last(FormatImages) = d7 /\ FormatImages[6] = d6
       /\ FormatImages[1] = d1 /\ FormatImages[2] = d2 /\ FormatImages[3] = d3
       /\ FormatImages[4] = d4 /\ FormatImages[5] = d5
  BY <1>1 DEF Last
<1>16. \A k \in 1 .. 5 : k = 1 \/ k = 2 \/ k = 3 \/ k = 4 \/ k = 5
  OBVIOUS
<1>19. \A e \in Slots : d7.dir[e].inode \in {-1, 0}
  BY <1>10 DEF FreeEntry
<1>20. \A k \in 1 .. 5 : /\ FormatImages[k] \in Disk
                        /\ FormatImages[k].super /\ FreshDisk(FormatImages[k])
  BY <1>2, <1>15, <1>16, <1>17, <1>18
<1> QED
  BY <1>8, <1>9, <1>14, <1>15, <1>19, <1>20

\* The power goes: what is on the disk is what counts.
LEMMA OffReady ==
    ASSUME Forget, disk' \in Kept(torn', clipped'), tainted' \in SUBSET Inodes,
           torn' \in BOOLEAN, clipped' \in BOOLEAN, lost' \in BOOLEAN, calls' \in 0 .. MaxCalls,
           ~torn' /\ ~lost' => disk'.secmap = {0, 1} \cup Owned(disk'.inodes)
    PROVE  IInv'
<1>1. Off' /\ on' = FALSE
  BY DEF Forget, Off
<1>2. Typed'
  <2>1. Closed \in Desc
    BY Numbers, Constants, Multiple DEF Closed, Desc
  <2>2. disk' \in Disk
    BY DEF Kept
  <2>3. on' \in BOOLEAN /\ inodes' \in Table /\ imap' \in SUBSET Inodes /\ fds' \in [Fds -> Desc]
    BY <2>1, TablesTyped DEF Forget
  <2> QED
    BY <2>2, <2>3 DEF Typed
<1>3. Ready'
  BY <1>1 DEF Ready, Exact
<1> QED
  BY <1>1, <1>2, <1>3 DEF IInv

LEMMA PowerOffInv == IInv /\ PowerOff => IInv'
<1> SUFFICES ASSUME IInv, PowerOff PROVE IInv'
  OBVIOUS
<1> USE DEF PowerOff
<1>1. tainted' \in SUBSET Inodes /\ torn' \in BOOLEAN /\ clipped' \in BOOLEAN /\ lost' \in BOOLEAN
      /\ calls' \in 0 .. MaxCalls
  BY DEF IInv, Typed
<1>2. CASE Ready
  <2>1. disk' \in Kept(torn', clipped')
    BY <1>2 DEF Ready
  <2>2. ~torn' /\ ~lost' => disk'.secmap = {0, 1} \cup Owned(disk'.inodes)
    BY <1>2 DEF Ready, Exact, IInv, Typed
  <2> QED
    BY <1>1, <2>1, <2>2, OffReady
<1>3. CASE Fresh
  <2>1. Typed' /\ Off'
    <3>1. Closed \in Desc
      BY Numbers, Constants, Multiple DEF Closed, Desc
    <3> QED
      BY <1>1, <3>1, TablesTyped DEF IInv, Typed, Off, Forget
  <2>2. Fresh'
    BY <1>3 DEF Fresh, FreshDisk, Forget
  <2> QED
    BY <2>1, <2>2 DEF IInv
<1> QED
  BY <1>2, <1>3 DEF IInv

LEMMA BootInv == IInv /\ Boot => IInv'
<1> SUFFICES ASSUME IInv, Boot PROVE IInv'
  OBVIOUS
<1> USE DEF Boot, history
<1>1. fds = [d \in Fds |-> Closed] /\ Typed /\ on = FALSE /\ on' = TRUE /\ fds' = fds
  BY DEF IInv, Off
<1>2. UNCHANGED <<tainted, torn, clipped, lost, calls>>
  OBVIOUS
<1>3. ASSUME disk' \in Kept(torn, clipped),
             ~torn /\ ~lost => disk'.secmap = {0, 1} \cup Owned(disk'.inodes)
      PROVE  IInv'
  <2>1. disk' \in Disk /\ GoodDisk(disk') /\ (~torn => Named(disk'))
    BY <1>3 DEF Kept
  <2>2. inodes' = disk'.inodes /\ imap' = disk'.imap /\ inodes' \in Table /\ imap' \in SUBSET Inodes
    BY <2>1 DEF Disk
  <2>3. Typed' /\ Off'
    BY <1>1, <1>2, <2>1, <2>2 DEF Typed, Off
  <2>4. GoodTable(inodes', disk'.secmap) /\ Apart(inodes', disk'.inodes) /\ 0 \in imap'
    BY <2>1, <2>2 DEF GoodDisk, GoodTable
  <2>5. \A d \in Fds : fds'[d] = Closed /\ fds'[d].inode = 0
    BY <1>1 DEF Closed
  <2>6. ~torn => \A j \in Inodes \ imap' : inodes'[j] = Empty
    BY <2>1, <2>2 DEF Named
  <2>7. Running'
    BY <1>2, <2>2, <2>4, <2>5, <2>6 DEF Running
  <2>8. Ready'
    BY <1>1, <1>2, <1>3, <2>2, <2>7 DEF Ready, Exact
  <2> QED
    BY <2>3, <2>8 DEF IInv
<1>4. CASE Ready
  <2>1. disk.super
    BY <1>4 DEF Ready, Kept, GoodDisk
  <2>2. disk' = disk
    BY <2>1
  <2> QED
    BY <1>1, <1>3, <1>4, <2>2 DEF Ready, Exact
<1>5. CASE Fresh /\ disk.super
  <2>1. disk' = disk /\ inodes' = disk.inodes /\ imap' = disk.imap /\ torn
    BY <1>5 DEF Fresh
  <2>2. inodes' \in Table /\ imap' \in SUBSET Inodes
    BY <1>1, <2>1 DEF Typed, Disk
  <2>3. Typed' /\ Off'
    BY <1>1, <1>2, <2>1, <2>2 DEF Typed, Off
  <2>4. Fresh'
    BY <1>1, <1>2, <1>5, <2>1 DEF Fresh, FreshDisk
  <2> QED
    BY <2>3, <2>4 DEF IInv
<1>6. CASE Fresh /\ ~disk.super
  <2>1. disk = BlankDisk /\ disk' = Last(FormatImages)
    BY <1>6 DEF Fresh
  <2>2. disk' \in Kept(FALSE, FALSE) /\ disk'.secmap = {0, 1} /\ disk'.inodes = RootTable
    BY <2>1, FormatSteps
  <2>3. disk' \in Kept(torn, clipped)
    BY <2>2, KeptMore
  <2>4. Owned(RootTable) = {}
    BY TablesTyped
  <2> QED
    BY <1>3, <2>2, <2>3, <2>4
<1> QED
  BY <1>4, <1>5, <1>6 DEF IInv

LEMMA BootCutInv == IInv /\ BootCut => IInv'
<1> SUFFICES ASSUME IInv, BootCut PROVE IInv'
  OBVIOUS
<1> USE DEF BootCut
<1>1. disk = BlankDisk
  <2>1. Ready => disk.super
    BY DEF Ready, Kept, GoodDisk
  <2> QED
    BY <2>1 DEF IInv, Fresh
<1>2. PICK k \in 1 .. 6 : disk' = FormatImages[k]
  <2>1. Len(FormatImages) - 1 = 6
    BY <1>1, FormatSteps
  <2> QED
    BY <2>1 DEF CutIn
<1>3. Forget /\ torn' = TRUE /\ tainted' \in SUBSET Inodes /\ clipped' \in BOOLEAN
      /\ lost' \in BOOLEAN /\ calls' \in 0 .. MaxCalls
  BY DEF CutIn, IInv, Typed
<1>4. CASE k = 6
  <2>1. disk' \in Kept(TRUE, FALSE)
    BY <1>1, <1>2, <1>4, FormatSteps
  <2>2. disk' \in Kept(torn', clipped')
    BY <1>3, <2>1, KeptMore
  <2> QED
    BY <1>3, <2>2, OffReady
<1>5. CASE k # 6
  <2>1. k \in 1 .. 5
    BY <1>5
  <2>2. disk' \in Disk /\ disk'.super /\ FreshDisk(disk')
    BY <1>1, <1>2, <2>1, FormatSteps
  <2>3. Typed' /\ Off'
    <3>1. Closed \in Desc
      BY Numbers, Constants, Multiple DEF Closed, Desc
    <3> QED
      BY <1>3, <2>2, <3>1, TablesTyped DEF Typed, Off, Forget
  <2>4. Fresh'
    BY <1>3, <2>2 DEF Fresh, FreshDisk, Forget
  <2> QED
    BY <2>3, <2>4 DEF IInv
<1> QED
  BY <1>4, <1>5

LEMMA Initially == Init => IInv
<1> SUFFICES ASSUME Init PROVE IInv
  OBVIOUS
<1>1. Closed \in Desc /\ 0 \in 0 .. MaxCalls
  <2>1. MaxCalls \in Nat
    BY SectorAssumption
  <2> QED
    BY <2>1, Numbers, Constants, Multiple DEF Closed, Desc
<1>2. Typed /\ Off
  BY <1>1, BlankTyped, TablesTyped DEF Init, Typed, Off
<1>3. Fresh
  <2>1. ~BlankDisk.super
    BY DEF BlankDisk
  <2> QED
    BY <2>1, BlankTyped DEF Fresh, Init
<1> QED
  BY <1>2, <1>3 DEF IInv

-----------------------------------------------------------------------------
(* System calls.                                                           *)

\* In a formatted directory the scans see every entry.
LEMMA DirectorySeen ==
    ASSUME inodes[0] = Root, NEW e \in Slots
    PROVE  InDir(e) /\ (Used(e) <=> disk.dir[e].inode # -1)
<1>1. e[1] < 2 /\ Len(Root.ptr) = 2
  BY DEF Slots, Root
<1> QED
  BY <1>1 DEF InDir, Used

\* In one that is not, none finds a name or a place for one.
LEMMA NothingFound ==
    ASSUME Fresh, on
    PROVE  FreeSlots = {} /\ \A name \in Names : Matches(name) = {}
<1>1. ASSUME NEW e \in Slots PROVE disk.dir[e].inode = 0 /\ disk.dir[e].name = ""
  <2>1. BlankDisk.dir[e] = [inode |-> 0, name |-> ""]
    BY DEF BlankDisk
  <2>2. disk.dir = BlankDisk.dir
    BY DEF Fresh, FreshDisk
  <2>3. disk.dir[e] = [inode |-> 0, name |-> ""]
    BY <2>1, <2>2
  <2>4. [inode |-> 0, name |-> ""].inode = 0 /\ [inode |-> 0, name |-> ""].name = ""
    OBVIOUS
  <2> QED
    BY <2>3, <2>4, Zenon
<1>2. FreeSlots = {}
  <2>1. ASSUME NEW e \in Slots PROVE ~(InDir(e) /\ ~Used(e))
    <3>1. disk.dir[e].inode = 0
      BY <1>1
    <3> QED
      BY <3>1 DEF Used
  <2> QED
    BY <2>1 DEF FreeSlots
<1>3. \A name \in Names : Matches(name) = {}
  BY <1>1, NameAssumption DEF Matches
<1> QED
  BY <1>2, <1>3

\* A name that is found has an inode other than the root's, one that is marked.
LEMMA FoundInode ==
    ASSUME Typed, Ready, on, NEW name \in Names, Matches(name) # {}
    PROVE  LET e == FirstOf(Matches(name)) IN
           /\ e \in Slots /\ disk.dir[e].inode # -1
           /\ disk.dir[e].inode \in Inodes \ {0}
           /\ ~torn => disk.dir[e].inode \in imap
<1> DEFINE e == FirstOf(Matches(name))
<1>1. e \in Matches(name)
  <2>1. Matches(name) \in SUBSET Slots
    BY DEF Matches
  <2> QED
    BY <2>1, FirstFound
<1> HIDE DEF e
<1>2. e \in Slots /\ disk.dir[e].inode # -1 /\ disk.dir[e].name = name
  BY <1>1 DEF Matches, Used
<1>3. disk.dir[e].inode \in -1 .. INODES - 1
  BY <1>2 DEF Typed, Disk, Entry
<1>4. disk.dir[e].inode # 0
  BY <1>2, NameAssumption DEF Ready, Kept, GoodDisk
<1>5. disk.dir[e].inode \in Inodes \ {0}
  BY <1>2, <1>3, <1>4, Constants DEF Inodes
<1>6. ~torn => disk.dir[e].inode \in imap
  BY <1>2 DEF Ready, Kept, Named, Running
<1> QED
  BY <1>2, <1>5, <1>6 DEF e

LEMMA OpenInv ==
    ASSUME NEW d \in Fds, NEW name \in Names, NEW append \in BOOLEAN, IInv, Open(d, name, append)
    PROVE  IInv'
<1> DEFINE j == disk.dir[FirstOf(Matches(name))].inode
<1>1. on /\ Matches(name) # {} /\ inodes' = inodes /\ Opened(d, j, append)
      /\ UNCHANGED <<disk, on, imap, tainted, torn, clipped, lost, calls>>
  BY DEF Open, history
<1>2. Typed /\ Off /\ Ready
  BY <1>1, NothingFound DEF IInv
<1>3. j \in Inodes \ {0} /\ (~torn => j \in imap)
  BY <1>1, <1>2, FoundInode
<1> HIDE DEF j
<1> DEFINE rw == IF append THEN inodes'[j].size ELSE 0
<1>4. rw \in 0 .. SECTOR * MAX_BLOCKS
  <2>1. inodes[j].size \in 0 .. SECTOR * MAX_BLOCKS
    BY <1>2, <1>3 DEF Typed, Table, Inode
  <2>2. 0 \in 0 .. SECTOR * MAX_BLOCKS
    BY Constants, Multiple
  <2> QED
    BY <1>1, <2>1, <2>2
<1> HIDE DEF rw
<1>5. fds' = [fds EXCEPT ![d] = [inode |-> j, rw |-> rw]]
  BY <1>1 DEF Opened, rw
<1>6. fds' \in [Fds -> Desc]
  BY <1>2, <1>3, <1>4, <1>5 DEF Typed, Desc
<1>7. \A x \in Fds : fds'[x].inode = IF x = d THEN j ELSE fds[x].inode
  BY <1>2, <1>5 DEF Typed
<1>8. \A x \in Fds : fds'[x].inode # 0 \/ fds'[x] = Closed
  BY <1>1, <1>2, <1>3, <1>5 DEF Typed, Ready, Running
<1>9. Running'
  BY <1>1, <1>2, <1>3, <1>7, <1>8 DEF Ready, Running
<1>10. Ready' /\ Typed' /\ Off'
  BY <1>1, <1>2, <1>6, <1>9 DEF Ready, Typed, Off, Exact
<1> QED
  BY <1>10 DEF IInv

LEMMA CloseInv == ASSUME NEW d \in Fds, IInv, Close(d) PROVE IInv'
<1>1. on /\ fds[d] # Closed /\ fds' = [fds EXCEPT ![d] = Closed]
      /\ UNCHANGED <<disk, on, inodes, imap, tainted, torn, clipped, lost, calls>>
  BY DEF Close, history
<1>2. Typed /\ Off /\ Ready
  BY <1>1 DEF IInv, Fresh
<1>3. Closed \in Desc /\ Closed.inode = 0
  BY Numbers, Constants, Multiple DEF Closed, Desc
<1>4. fds' \in [Fds -> Desc]
  BY <1>1, <1>2, <1>3 DEF Typed
<1>5. \A x \in Fds : fds'[x] = IF x = d THEN Closed ELSE fds[x]
  BY <1>1, <1>2 DEF Typed
<1>6. 0 \in imap
  BY <1>1, <1>2 DEF Ready, Running, Kept, GoodDisk
<1>7. Running'
  BY <1>1, <1>2, <1>3, <1>5, <1>6 DEF Ready, Running
<1>8. Ready' /\ Typed' /\ Off'
  BY <1>1, <1>2, <1>4, <1>7 DEF Ready, Typed, Off, Exact
<1> QED
  BY <1>8 DEF IInv

LEMMA CallCounted == ASSUME Typed, Call PROVE calls' \in 0 .. MaxCalls
<1>1. MaxCalls \in Nat
  BY SectorAssumption
<1> QED
  BY <1>1 DEF Typed, Call

LEMMA UnlinkInv == ASSUME NEW name \in Names, IInv, Unlink(name) PROVE IInv'
<1> DEFINE e == FirstOf(Matches(name))
<1>1. on /\ Matches(name) # {} /\ Call
      /\ disk' = [disk EXCEPT !.dir = [@ EXCEPT ![e] = FreeEntry]]
      /\ UNCHANGED <<on, inodes, imap, fds, tainted, torn, clipped, lost>>
  BY DEF Unlink, memory, history, Call
<1>2. Typed /\ Off /\ Ready
  BY <1>1, NothingFound DEF IInv
<1>3. e \in Slots
  BY <1>1, <1>2, FoundInode
<1> HIDE DEF e
<1>4. FreeEntry \in Entry /\ FreeEntry.inode = -1
  BY Numbers, Constants DEF FreeEntry, Entry
<1>5. /\ disk' \in Disk /\ disk'.super = disk.super /\ disk'.secmap = disk.secmap
      /\ disk'.imap = disk.imap /\ disk'.inodes = disk.inodes
      /\ \A x \in Slots : disk'.dir[x] = IF x = e THEN FreeEntry ELSE disk.dir[x]
  BY <1>1, <1>2, <1>3, <1>4 DEF Typed, Disk
<1>6. GoodDisk(disk) => GoodDisk(disk')
  <2>1. \A x \in Slots : disk'.dir[x].inode = 0 => disk'.dir[x] = disk.dir[x]
    BY <1>4, <1>5
  <2>2. \A x \in Slots : disk'.dir[x].inode = 0 => disk.dir[x].inode = 0
    BY <2>1
  <2> QED
    BY <1>5, <2>1, <2>2 DEF GoodDisk
<1>7. (Named(disk) => Named(disk')) /\ (Unique(disk) => Unique(disk'))
  BY <1>4, <1>5 DEF Named, Unique
<1>8. disk' \in Kept(torn, clipped)
  BY <1>2, <1>5, <1>6, <1>7 DEF Ready, Kept
<1>9. Ready'
  BY <1>1, <1>2, <1>5, <1>8 DEF Ready, Running, Exact
<1>10. Typed' /\ Off'
  BY <1>1, <1>2, <1>5, CallCounted DEF Typed, Off
<1> QED
  BY <1>9, <1>10 DEF IInv

NamedDisk(e, j, name) ==
    [disk EXCEPT !.dir = [@ EXCEPT ![e] = [inode |-> j, name |-> KeptName(name)]]]

\* What create_file finds, and the images that it gives the disk.
LEMMA CreateSteps ==
    ASSUME IInv, NEW d \in Fds, NEW name \in Names, CanCreate(d, name)
    PROVE  LET e == FirstOf(FreeSlots)
               j == NextInode
               table == [inodes EXCEPT ![j] = Empty]
               images == CreateImages(name, j)
           IN /\ Typed /\ Off /\ Ready /\ on
              /\ e \in Slots /\ disk.dir[e].inode = -1
              /\ j \in Inodes \ {0} /\ j \notin imap
              /\ table \in Table /\ GoodTable(table, disk.secmap) /\ Apart(disk.inodes, table)
              /\ NamedDisk(e, j, name) \in Disk
              /\ images \in Seq(Kept(TRUE, clipped'))
              /\ Last(images) = WithTable(NamedDisk(e, j, name), imap \cup {j}, table)
              /\ \A x \in Slots : NamedDisk(e, j, name).dir[x] =
                    IF x = e THEN [inode |-> j, name |-> KeptName(name)] ELSE disk.dir[x]
<1> DEFINE e == FirstOf(FreeSlots)
           j == NextInode
           table == [inodes EXCEPT ![j] = Empty]
           named == NamedDisk(e, j, name)
           images == CreateImages(name, j)
<1>1. on /\ FreeSlots # {} /\ FreeInodes # {}
  BY DEF CanCreate, Call
<1>2. Typed /\ Off /\ Ready
  BY <1>1, NothingFound DEF IInv
<1>3. Running /\ disk \in Disk /\ GoodDisk(disk)
  BY <1>1, <1>2 DEF Ready, Kept
<1>4. e \in Slots /\ disk.dir[e].inode = -1
  <2>1. FreeSlots \in SUBSET Slots
    BY DEF FreeSlots
  <2>2. e \in FreeSlots
    BY <1>1, <2>1, FirstFound
  <2> HIDE DEF e
  <2>3. e \in Slots /\ ~Used(e)
    BY <2>2 DEF FreeSlots
  <2>4. inodes[0] = Root
    BY <1>3 DEF Running, GoodTable
  <2> QED
    BY <2>3, <2>4, DirectorySeen DEF e
<1>5. j \in Inodes \ {0} /\ j \notin imap
  <2>1. 0 \in imap
    BY <1>3 DEF Running, GoodDisk
  <2>2. j \in Inodes /\ j \notin imap
    BY <1>1, NextInodeFree
  <2> QED
    BY <2>1, <2>2
<1> HIDE DEF e, j
<1>6. table \in Table /\ GoodTable(table, disk.secmap) /\ Apart(disk.inodes, table)
  <2>1. inodes \in Table /\ GoodTable(inodes, disk.secmap)
    BY <1>2, <1>3 DEF Typed, Running
  <2>2. Apart(disk.inodes, inodes)
    BY <1>3 DEF Running, Apart
  <2> QED
    BY <1>5, <2>1, <2>2, EmptiedGood
<1>7. KeptName(name) \in Names
  BY NameAssumption DEF KeptName
<1>8. [inode |-> j, name |-> KeptName(name)] \in Entry
  <2>1. j \in -1 .. INODES - 1
    BY <1>5, Constants DEF Inodes
  <2> QED
    BY <1>7, <2>1 DEF Entry
<1>9. /\ named \in Disk /\ named.super = disk.super /\ named.secmap = disk.secmap
      /\ named.imap = disk.imap /\ named.inodes = disk.inodes
      /\ \A x \in Slots : named.dir[x] =
            IF x = e THEN [inode |-> j, name |-> KeptName(name)] ELSE disk.dir[x]
  BY <1>3, <1>4, <1>8 DEF Disk, NamedDisk
<1> HIDE DEF named
<1>10. named \in Kept(TRUE, clipped')
  <2>1. \A x \in Slots : named.dir[x].inode = 0 => named.dir[x] = disk.dir[x]
    BY <1>5, <1>9
  <2>2. \A x \in Slots : named.dir[x].inode = 0 => disk.dir[x].inode = 0
    BY <2>1
  <2>3. GoodDisk(named)
    BY <1>3, <1>9, <2>1, <2>2 DEF GoodDisk
  <2> QED
    BY <1>9, <2>3 DEF Kept
<1>11. imap \cup {j} \in SUBSET Inodes /\ named.imap \subseteq imap \cup {j}
  BY <1>2, <1>3, <1>5, <1>9 DEF Typed, Running
<1> DEFINE sync == SyncImages(named, table, imap \cup {j})
<1> HIDE DEF table
<1>12. sync \in Seq(Kept(TRUE, clipped'))
  BY <1>6, <1>9, <1>10, <1>11, SyncKept
<1>13. Len(sync) \in Nat \ {0} /\ Last(sync) = WithTable(named, imap \cup {j}, table)
  BY <1>6, <1>9, <1>11, SyncSteps
<1>14. images = <<named>> \o sync
  BY DEF CreateImages, NamedDisk, named, table, e, j
<1>15. images \in Seq(Kept(TRUE, clipped')) /\ Last(images) = WithTable(named, imap \cup {j}, table)
  <2>1. <<named>> \in Seq(Kept(TRUE, clipped'))
    BY <1>10, OneImage
  <2> HIDE DEF sync, images
  <2>2. Len(sync) > 0
    BY <1>13
  <2> QED
    BY <1>12, <1>13, <1>14, <2>1, <2>2, LastOfBoth
<1> QED
  BY <1>1, <1>2, <1>4, <1>5, <1>6, <1>9, <1>15 DEF e, j, table, named

LEMMA CreateInv ==
    ASSUME IInv, NEW d \in Fds, NEW name \in Names, Create(d, name)
    PROVE  IInv'
<1> DEFINE e == FirstOf(FreeSlots)
           j == NextInode
           table == [inodes EXCEPT ![j] = Empty]
           named == NamedDisk(e, j, name)
           images == CreateImages(name, j)
<1>1. /\ CanCreate(d, name) /\ disk' = Last(images) /\ inodes' = table /\ imap' = imap \cup {j}
      /\ Opened(d, j, FALSE) /\ UNCHANGED <<on, tainted, torn, lost>>
  BY DEF Create
<1>2. /\ Typed /\ Off /\ Ready /\ on
      /\ e \in Slots /\ disk.dir[e].inode = -1
      /\ j \in Inodes \ {0} /\ j \notin imap
      /\ table \in Table /\ GoodTable(table, disk.secmap)
      /\ named \in Disk
      /\ Last(images) = WithTable(named, imap \cup {j}, table)
      /\ \A x \in Slots : named.dir[x] =
            IF x = e THEN [inode |-> j, name |-> KeptName(name)] ELSE disk.dir[x]
  BY <1>1, CreateSteps
<1>3. Running /\ disk \in Disk /\ GoodDisk(disk) /\ (~torn => Named(disk))
      /\ (~torn /\ ~clipped => Unique(disk))
  BY <1>2 DEF Ready, Kept
<1>4. named.super = disk.super /\ named.secmap = disk.secmap
  BY <1>3 DEF Disk, NamedDisk
<1>5. table[j] = Empty /\ \A m \in Inodes \ {j} : table[m] = inodes[m]
  BY <1>2 DEF Typed, Table
<1>6. Matches(name) = {} /\ clipped' = (clipped \/ KeptName(name) # name) /\ Call
  BY <1>1 DEF CanCreate
<1>7. fds' = [fds EXCEPT ![d] = [inode |-> j, rw |-> 0]]
  BY <1>1 DEF Opened
<1> HIDE DEF e, j, table, named, images
<1>8. /\ disk' \in Disk /\ disk'.super = disk.super /\ disk'.secmap = disk.secmap
      /\ disk'.imap = imap' /\ disk'.inodes = table /\ disk'.dir = named.dir
  <2>1. disk' = WithTable(named, imap', table) /\ imap' \in SUBSET Inodes
    BY <1>1, <1>2 DEF Typed
  <2>2. /\ disk' \in Disk /\ disk'.super = named.super /\ disk'.secmap = named.secmap
        /\ disk'.imap = imap' /\ disk'.inodes = table /\ disk'.dir = named.dir
    BY <1>2, <2>1 DEF WithTable, Disk
  <2> QED
    BY <1>4, <2>2
<1>9. GoodDisk(disk')
  <2>1. 0 \in disk'.imap
    BY <1>1, <1>3, <1>8 DEF Running, GoodDisk
  <2>2. \A x \in Slots : disk'.dir[x].inode = 0 => disk'.dir[x] = disk.dir[x]
    BY <1>2, <1>8
  <2>3. \A x \in Slots : disk'.dir[x].inode = 0 => disk.dir[x].inode = 0
    BY <2>2
  <2> QED
    BY <1>2, <1>3, <1>8, <2>1, <2>2, <2>3 DEF GoodDisk
<1>10. /\ disk'.dir[e].inode = j /\ disk'.dir[e].name = KeptName(name)
       /\ \A x \in Slots \ {e} : disk'.dir[x] = disk.dir[x]
  BY <1>2, <1>8
<1>11. ASSUME ~torn PROVE Named(disk')
  <2>1. \A x \in Slots : disk'.dir[x].inode # -1 => disk'.dir[x].inode \in disk'.imap \ {0}
    BY <1>1, <1>2, <1>3, <1>8, <1>10, <1>11 DEF Named, Running
  <2>2. \A x \in Slots \ {e} : disk.dir[x].inode # j
    BY <1>2, <1>3, <1>11, Numbers DEF Named, Running
  <2>3. \A x, y \in Slots :
          disk'.dir[x].inode # -1 /\ disk'.dir[x].inode = disk'.dir[y].inode => x = y
    BY <1>3, <1>10, <1>11, <2>2 DEF Named
  <2>4. \A m \in Inodes \ disk'.imap : disk'.inodes[m] = Empty
    BY <1>1, <1>3, <1>5, <1>8, <1>11 DEF Running
  <2> QED
    BY <2>1, <2>3, <2>4 DEF Named
<1>12. ASSUME ~torn, ~clipped' PROVE Unique(disk')
  <2>1. KeptName(name) = name /\ Unique(disk)
    BY <1>3, <1>6, <1>12
  <2>2. ASSUME NEW x \in Slots, disk.dir[x].inode # -1 PROVE disk.dir[x].name # name
    <3>1. inodes[0] = Root
      BY <1>3 DEF Running, GoodTable
    <3>2. Used(x)
      BY <2>2, <3>1, DirectorySeen
    <3> QED
      BY <1>6, <3>2 DEF Matches
  <2> QED
    BY <1>10, <2>1, <2>2 DEF Unique
<1>13. disk' \in Kept(torn', clipped')
  BY <1>1, <1>8, <1>9, <1>11, <1>12 DEF Kept
<1>14. fds' \in [Fds -> Desc]
  <2>1. [inode |-> j, rw |-> 0] \in Desc
    BY <1>2, Constants, Multiple DEF Desc
  <2> QED
    BY <1>2, <1>7, <2>1 DEF Typed
<1>15. \A x \in Fds : fds'[x].inode = IF x = d THEN j ELSE fds[x].inode
  BY <1>2, <1>7 DEF Typed
<1>16. Running'
  <2>1. \A x \in Fds : fds'[x].inode # 0 \/ fds'[x] = Closed
    <3>1. \A x \in Fds \ {d} : fds'[x] = fds[x]
      BY <1>2, <1>7 DEF Typed
    <3> QED
      BY <1>2, <1>3, <1>15, <3>1 DEF Running
  <2>2. ~torn => \A m \in Inodes \ imap' : inodes'[m] = Empty
    BY <1>1, <1>3, <1>5 DEF Running
  <2>3. ~torn => \A x \in Fds : fds'[x].inode \in imap'
    BY <1>1, <1>3, <1>15 DEF Running
  <2>4. GoodTable(inodes', disk'.secmap) /\ Apart(inodes', disk'.inodes)
    BY <1>1, <1>2, <1>8 DEF GoodTable
  <2>5. imap' = disk'.imap /\ torn' = torn
    BY <1>1, <1>8
  <2> QED
    BY <2>1, <2>2, <2>3, <2>4, <2>5 DEF Running
<1>17. ASSUME ~torn, ~lost PROVE disk'.secmap = {0, 1} \cup Owned(inodes')
  <2>1. inodes[j] = Empty
    BY <1>2, <1>3, <1>17 DEF Running
  <2>2. \A m \in Inodes \ {0} : table[m] = inodes[m]
    BY <1>5, <2>1
  <2>3. Owned(table) = Owned(inodes)
    BY <2>2 DEF Owned
  <2>4. disk.secmap = {0, 1} \cup Owned(inodes)
    BY <1>2, <1>17 DEF Ready, Exact
  <2> QED
    BY <1>1, <1>8, <2>3, <2>4
<1>18. Ready'
  BY <1>1, <1>2, <1>13, <1>16, <1>17 DEF Ready, Exact
<1>19. Typed' /\ Off'
  <2>1. calls' \in 0 .. MaxCalls
    BY <1>2, <1>6, CallCounted
  <2>2. disk' \in Disk /\ on' \in BOOLEAN /\ inodes' \in Table /\ imap' \in SUBSET Inodes
        /\ clipped' \in BOOLEAN
    BY <1>1, <1>2, <1>6, <1>8 DEF Typed
  <2> QED
    BY <1>1, <1>2, <1>14, <2>1, <2>2 DEF Typed, Off
<1> QED
  BY <1>18, <1>19 DEF IInv

LEMMA CreateCutInv ==
    ASSUME IInv, NEW d \in Fds, NEW name \in Names, CreateCut(d, name)
    PROVE  IInv'
<1> DEFINE images == CreateImages(name, NextInode)
<1>1. CanCreate(d, name) /\ Forget /\ torn' = TRUE
      /\ tainted' = tainted \cup {NextInode} /\ lost' = (lost \/ inodes # disk.inodes)
  BY DEF CreateCut, CutIn
<1>2. Typed /\ NextInode \in Inodes /\ images \in Seq(Kept(TRUE, clipped'))
  BY <1>1, CreateSteps
<1>3. PICK k \in 1 .. Len(images) - 1 : disk' = images[k]
  BY DEF CreateCut, CutIn
<1>4. disk' \in Kept(torn', clipped')
  <2> HIDE DEF images
  <2>1. images[k] \in Kept(TRUE, clipped')
    BY <1>2, CutImage
  <2> QED
    BY <1>1, <1>3, <2>1
<1>5. clipped' = (clipped \/ KeptName(name) # name) /\ Call
  BY <1>1 DEF CanCreate
<1>6. tainted' \in SUBSET Inodes /\ clipped' \in BOOLEAN /\ lost' \in BOOLEAN /\ torn' \in BOOLEAN
  BY <1>1, <1>2, <1>5 DEF Typed
<1>7. calls' \in 0 .. MaxCalls
  BY <1>2, <1>5, CallCounted
<1> QED
  BY <1>1, <1>4, <1>6, <1>7, OffReady

Marked(got) == [disk EXCEPT !.secmap = @ \cup Range(got)]

\* What the loop of a write has got when it ends.
LEMMA WriteGot ==
    ASSUME IInv, NEW d \in Fds, NEW n \in Sizes, CanWrite(d), NEW got \in Sectors(Grown(d, n))
    PROVE  LET j == fds[d].inode IN
           /\ Typed /\ Off /\ Ready /\ on
           /\ j \in Inodes \ {0} /\ (~torn => j \in imap)
           /\ fds[d].rw \in Nat /\ n \in Nat /\ WriteEnd(d, n) \in Nat
           /\ fds[d].rw + n < SECTOR * (WriteEnd(d, n) + 1)
           /\ got \in Seq(DataSectors) /\ Len(got) \in Nat /\ IsInjective(got)
           /\ Range(got) \in SUBSET DataSectors /\ Range(got) \cap disk.secmap = {}
           /\ Len(inodes[j].ptr) \in Nat
           /\ Len(inodes[j].ptr) + Len(got) <= MAX_BLOCKS
           /\ ~TooLong(d, n) => WriteEnd(d, n) + 1 <= Len(inodes[j].ptr) + Len(got)
<1> DEFINE j == fds[d].inode
           have == Len(inodes[j].ptr)
           rw == fds[d].rw
           end == WriteEnd(d, n)
<1>1. on /\ fds[d] # Closed
  BY DEF CanWrite, Call
<1>2. Typed /\ Off /\ Ready
  BY <1>1 DEF IInv, Fresh
<1>3. j \in Inodes \ {0} /\ (~torn => j \in imap)
  BY <1>1, <1>2 DEF Typed, Desc, Ready, Running
<1>4. have \in Nat /\ have <= MAX_BLOCKS /\ MAX_BLOCKS \in Nat
  <2>1. inodes[j] \in Inode /\ Len(inodes[j].ptr) <= MAX_BLOCKS
    BY <1>2, <1>3 DEF Typed, Table
  <2>2. MAX_BLOCKS \in Nat
    BY Constants
  <2> QED
    BY <2>1, <2>2 DEF Inode
<1>5. rw \in Nat /\ n \in Nat
  <2>1. fds[d] \in Desc
    BY <1>2 DEF Typed
  <2> QED
    BY <2>1, SectorAssumption, Constants, Multiple DEF Desc
<1>6. end \in Nat /\ rw + n < SECTOR * (end + 1)
  <2>1. SECTOR \in Nat \ {0} /\ rw + n \in Nat
    BY <1>5, Constants
  <2>2. end = (rw + n) \div SECTOR
    BY DEF WriteEnd
  <2> HIDE DEF rw, end
  <2>3. end \in Nat /\ SECTOR * end \in Nat
        /\ \E r \in 0 .. SECTOR - 1 : rw + n = SECTOR * end + r
    BY <2>1, <2>2, Division
  <2>4. SECTOR * (end + 1) = SECTOR * end + SECTOR
    BY <2>1, <2>3, Multiple
  <2> QED
    BY <2>1, <2>3, <2>4
<1>7. /\ Grown(d, n) \in Nat /\ have + Grown(d, n) <= MAX_BLOCKS
      /\ end < MAX_BLOCKS => end + 1 <= have + Grown(d, n)
  <2>1. Grown(d, n) = BlocksFor(end, have) - have
    BY DEF Grown
  <2> HIDE DEF end, have
  <2> QED
    BY <1>4, <1>6, <2>1 DEF BlocksFor, Most, Least
<1>8. /\ got \in Seq(DataSectors) /\ Len(got) = Grown(d, n) /\ IsInjective(got)
      /\ Range(got) \in SUBSET DataSectors /\ Range(got) \cap disk.secmap = {}
  BY <1>7, NewSectors
<1>9. ~TooLong(d, n) => end < MAX_BLOCKS
  <2> HIDE DEF end
  <2> QED
    BY <1>4, <1>6 DEF TooLong, end
<1> QED
  BY <1>1, <1>2, <1>3, <1>4, <1>5, <1>6, <1>7, <1>8, <1>9

\* The table of inodes after it, with the size that it then has.
LEMMA WriteTable ==
    ASSUME IInv, NEW d \in Fds, NEW n \in Sizes, CanWrite(d), NEW got \in Sectors(Grown(d, n)),
           NEW size \in 0 .. SECTOR * MAX_BLOCKS,
           size > 0 => size < SECTOR * (Len(inodes[fds[d].inode].ptr) + Len(got)),
           NEW table,
           table = [inodes EXCEPT ![fds[d].inode] = [size |-> size, ptr |-> GrownPtr(d, got)]]
    PROVE  /\ table \in Table /\ GoodTable(table, disk.secmap \cup Range(got))
           /\ Apart(table, disk.inodes) /\ Owned(table) = Owned(inodes) \cup Range(got)
           /\ ~torn => \A m \in Inodes \ imap : table[m] = Empty
<1> DEFINE j == fds[d].inode
<1>1. /\ Typed /\ Ready /\ on
      /\ j \in Inodes \ {0} /\ (~torn => j \in imap)
      /\ got \in Seq(DataSectors) /\ IsInjective(got)
      /\ Range(got) \cap disk.secmap = {}
      /\ Len(inodes[j].ptr) + Len(got) <= MAX_BLOCKS
  BY WriteGot
<1>2. /\ inodes \in Table /\ GoodTable(inodes, disk.secmap) /\ Apart(inodes, disk.inodes)
      /\ disk.secmap \in SUBSET DataSectors /\ {0, 1} \subseteq disk.secmap
      /\ GoodTable(disk.inodes, disk.secmap)
  BY <1>1 DEF Typed, Ready, Running, Kept, GoodDisk, Disk
<1>3. table = GrownTable(inodes, j, size, got)
  BY DEF GrownPtr, GrownTable
<1>6. size > 0 => size < SECTOR * (Len(inodes[j].ptr) + Len(got))
  OBVIOUS
<1> HIDE DEF j
<1>7. CanGrow(disk.secmap, inodes, disk.inodes, j, size, got)
  BY <1>1, <1>2, <1>6 DEF CanGrow
<1>4. /\ table \in Table /\ GoodTable(table, disk.secmap \cup Range(got))
      /\ Apart(table, disk.inodes) /\ Owned(table) = Owned(inodes) \cup Range(got)
  <2> DEFINE x == GrownTable(inodes, j, size, got)
  <2>1. Owned(x) = Owned(inodes) \cup Range(got)
    BY <1>7, GrownOwned
  <2>2. x \in Table /\ GoodTable(x, disk.secmap \cup Range(got)) /\ Apart(x, disk.inodes)
    BY <1>7, GrownGood
  <2> QED
    BY <1>3, <2>1, <2>2, Zenon
<1>5. ~torn => \A m \in Inodes \ imap : table[m] = Empty
  BY <1>1, <1>2, <1>3 DEF Ready, Running, Table, GrownTable
<1> QED
  BY <1>4, <1>5

\* The size that a write that is not too long gives the inode.
LEMMA WriteSize ==
    ASSUME IInv, NEW d \in Fds, NEW n \in Sizes, CanWrite(d), NEW got \in Sectors(Grown(d, n)),
           ~TooLong(d, n)
    PROVE  LET size == Most(inodes[fds[d].inode].size, fds[d].rw + n) IN
           /\ size \in 0 .. SECTOR * MAX_BLOCKS
           /\ size > 0 => size < SECTOR * (Len(inodes[fds[d].inode].ptr) + Len(got))
           /\ fds[d].rw + n < SECTOR * MAX_BLOCKS
<1> DEFINE j == fds[d].inode
           old == inodes[j].size
           have == Len(inodes[j].ptr)
           all == have + Len(got)
           new == fds[d].rw + n
           end == WriteEnd(d, n)
<1>1. /\ Typed /\ Ready /\ on /\ j \in Inodes \ {0}
      /\ new \in Nat /\ end \in Nat /\ new < SECTOR * (end + 1)
      /\ have \in Nat /\ Len(got) \in Nat /\ all <= MAX_BLOCKS /\ end + 1 <= all
  BY WriteGot
<1>2. old \in Nat /\ old <= SECTOR * MAX_BLOCKS /\ SECTOR \in Nat /\ MAX_BLOCKS \in Nat
      /\ SECTOR * MAX_BLOCKS \in Nat
  <2>1. inodes[j] \in Inode
    BY <1>1 DEF Typed, Table
  <2> QED
    BY <2>1, Constants, Multiple DEF Inode
<1>3. old > 0 => old < SECTOR * have
  BY <1>1 DEF Ready, Running, GoodTable, Roomy
<1> HIDE DEF old, have, new, end
<1>4. all \in Nat /\ end + 1 \in Nat /\ have <= all
  BY <1>1
<1> HIDE DEF all
<1>5. SECTOR * have <= SECTOR * all /\ SECTOR * (end + 1) <= SECTOR * all
      /\ SECTOR * all <= SECTOR * MAX_BLOCKS
      /\ SECTOR * have \in Nat /\ SECTOR * (end + 1) \in Nat /\ SECTOR * all \in Nat
  BY <1>1, <1>2, <1>4, Monotonic, Multiple
<1>6. new < SECTOR * all /\ (old > 0 => old < SECTOR * all)
  BY <1>1, <1>2, <1>3, <1>5
<1>7. new < SECTOR * MAX_BLOCKS
  BY <1>1, <1>2, <1>5, <1>6
<1>8. Most(old, new) \in 0 .. SECTOR * MAX_BLOCKS
  BY <1>1, <1>2, <1>7 DEF Most
<1>9. Most(old, new) > 0 => Most(old, new) < SECTOR * all
  BY <1>1, <1>2, <1>6 DEF Most
<1> QED
  BY <1>7, <1>8, <1>9 DEF old, new, all, have

LEMMA DataTyped ==
    ASSUME NEW d \in Fds, NEW n \in Nat, n <= SECTOR * MAX_BLOCKS
    PROVE  Data(d, n) \in Seq(Bytes) /\ Len(Data(d, n)) = n
<1>1. SECTOR * (MAX_BLOCKS + 1) = SECTOR * MAX_BLOCKS + SECTOR /\ SECTOR * MAX_BLOCKS \in Nat
      /\ SECTOR \in Nat
  BY Constants, Multiple
<1>2. \A k \in 1 .. n : k \in 1 .. SECTOR * (MAX_BLOCKS + 1)
  BY <1>1
<1>3. \A k \in 1 .. n : <<d, k>> \in Bytes
  BY <1>2 DEF Bytes
<1>4. Data(d, n) \in [1 .. n -> Bytes]
  BY <1>3 DEF Data
<1> QED
  BY <1>4, FunctionIsSeq

Written(d, n, got) == [inodes EXCEPT ![fds[d].inode] = WrittenInode(d, n, got)]

LEMMA WrittenTable ==
    ASSUME IInv, NEW d \in Fds, NEW n \in Sizes, CanWrite(d), NEW got \in Sectors(Grown(d, n)),
           ~TooLong(d, n), NEW table, table = Written(d, n, got)
    PROVE  /\ table \in Table /\ GoodTable(table, disk.secmap \cup Range(got))
           /\ Apart(table, disk.inodes) /\ Owned(table) = Owned(inodes) \cup Range(got)
           /\ ~torn => \A m \in Inodes \ imap : table[m] = Empty
<1> DEFINE size == Most(inodes[fds[d].inode].size, fds[d].rw + n)
<1>1. /\ size \in 0 .. SECTOR * MAX_BLOCKS
      /\ size > 0 => size < SECTOR * (Len(inodes[fds[d].inode].ptr) + Len(got))
  BY WriteSize
<1>2. table = [inodes EXCEPT ![fds[d].inode] = [size |-> size, ptr |-> GrownPtr(d, got)]]
  BY DEF Written, WrittenInode
<1> HIDE DEF size
<1> QED
  BY <1>1, <1>2, WriteTable

\* The images of a write that is not too long.
LEMMA WriteSteps ==
    ASSUME IInv, NEW d \in Fds, NEW n \in Sizes, CanWrite(d), NEW got \in Sectors(Grown(d, n)),
           ~TooLong(d, n)
    PROVE  /\ WriteImages(d, n, got) \in Seq(Kept(torn, clipped))
           /\ Last(WriteImages(d, n, got)) \in Kept(torn, clipped)
           /\ \E x \in Disk :
                 /\ x.secmap = disk.secmap \cup Range(got)
                 /\ Last(WriteImages(d, n, got)) = WithTable(x, imap, Written(d, n, got))
<1> DEFINE K == Kept(torn, clipped)
           pos == fds[d].rw
           table == Written(d, n, got)
           alloc == AllocImages(got)
           d1 == Last(<<disk>> \o alloc)
           data == DataImages(d1, GrownPtr(d, got), pos, Data(d, n))
           d2 == Last(data)
           sync == SyncImages(d2, table, imap)
           images == WriteImages(d, n, got)
<1>1. /\ Typed /\ Ready /\ on /\ pos \in Nat /\ n \in Nat
      /\ got \in Seq(DataSectors) /\ Len(got) \in Nat
  BY WriteGot
<1>2. pos + n < SECTOR * MAX_BLOCKS
  BY WriteSize
<1>4. /\ table \in Table /\ GoodTable(table, disk.secmap \cup Range(got))
      /\ Apart(table, disk.inodes)
      /\ ~torn => \A m \in Inodes \ imap : table[m] = Empty
  BY WrittenTable
<1>5. disk \in K /\ disk \in Disk /\ imap = disk.imap /\ imap \in SUBSET Inodes
  BY <1>1 DEF Ready, Running, Kept, Typed
<1>6. alloc \in Seq(K) /\ d1 = Marked(got) /\ d1 \in K
  BY <1>1, <1>5, AllocSteps DEF Marked
<1>7. d1.secmap = disk.secmap \cup Range(got) /\ d1.imap = imap /\ d1.inodes = disk.inodes
      /\ d1 \in Disk
  <2>1. d1 \in Disk
    BY <1>6 DEF Kept
  <2> HIDE DEF d1
  <2> QED
    BY <1>5, <1>6, <2>1 DEF Marked, Disk
<1>8. Data(d, n) \in Seq(Bytes)
  <2>1. n <= SECTOR * MAX_BLOCKS
    <3>1. SECTOR * MAX_BLOCKS \in Nat
      BY Constants, Multiple
    <3> HIDE DEF pos
    <3> QED
      BY <1>1, <1>2, <3>1
  <2> QED
    BY <1>1, <2>1, DataTyped
<1>9. data \in Seq(K) /\ Len(data) > 0 /\ \E x : d2 = WithData(d1, x)
  <2> HIDE DEF d1, pos
  <2> QED
    BY <1>1, <1>6, <1>8, DataKept
<1>10. d2 \in K
  <2> HIDE DEF data, K
  <2> QED
    BY <1>9, LastIn
<1>11. d2 \in Disk /\ d2.secmap = disk.secmap \cup Range(got) /\ d2.imap = imap
       /\ d2.inodes = disk.inodes
  <2>1. d2 \in Disk
    BY <1>10 DEF Kept
  <2> HIDE DEF d1, d2
  <2>2. PICK x : d2 = WithData(d1, x)
    BY <1>9
  <2> QED
    BY <1>7, <2>1, <2>2 DEF WithData, Disk
<1>12. sync \in Seq(K)
  <2>1. Apart(d2.inodes, table)
    BY <1>4, <1>11 DEF Apart
  <2>2. GoodTable(table, d2.secmap) /\ d2.imap \subseteq imap
    BY <1>4, <1>11
  <2> HIDE DEF d2, table
  <2> QED
    BY <1>4, <1>5, <1>10, <2>1, <2>2, SyncKept
<1>13. Len(sync) > 0 /\ Last(sync) = WithTable(d2, imap, table)
  <2> HIDE DEF d2, table
  <2>1. Len(sync) \in Nat \ {0} /\ Last(sync) = WithTable(d2, imap, table)
    BY <1>4, <1>5, <1>11, SyncSteps
  <2> QED
    BY <2>1
<1>14. images = (alloc \o data) \o sync
  BY DEF WriteImages, Written
<1>15. images \in Seq(K) /\ Last(images) = Last(sync)
  <2> HIDE DEF K, alloc, data, sync, images
  <2>1. alloc \o data \in Seq(K)
    BY <1>6, <1>9, LastOfBoth
  <2> QED
    BY <1>12, <1>13, <1>14, <2>1, LastOfBoth
<1>16. Last(images) \in K
  <2> HIDE DEF K, sync, images
  <2> QED
    BY <1>12, <1>13, <1>15, LastIn
<1>17. \E x \in Disk : x.secmap = disk.secmap \cup Range(got) /\ Last(images) = WithTable(x, imap, table)
  <2> HIDE DEF d2, table, sync, images
  <2> QED
    BY <1>11, <1>13, <1>15
<1> HIDE DEF table, images
<1> QED
  BY <1>15, <1>16, <1>17 DEF table, images

\* What a write that has not been cut leaves.
LEMMA WriteReady ==
    ASSUME IInv, NEW d \in Fds, NEW n \in Sizes, CanWrite(d), NEW got \in Sectors(Grown(d, n)),
           disk' \in Kept(torn, clipped), disk'.secmap = disk.secmap \cup Range(got),
           disk'.imap = imap,
           inodes' \in Table, GoodTable(inodes', disk.secmap \cup Range(got)),
           Apart(inodes', disk'.inodes), Owned(inodes') = Owned(inodes) \cup Range(got),
           ~torn => \A m \in Inodes \ imap : inodes'[m] = Empty,
           UNCHANGED <<on, imap, fds, torn, clipped, lost>>, tainted' \in SUBSET Inodes
    PROVE  IInv'
<1>1. Typed /\ Off /\ Ready /\ on
  BY WriteGot
<1>2. Running
  BY <1>1 DEF Ready
<1>3. Running'
  BY <1>2 DEF Running
<1>4. ~torn /\ ~lost => disk'.secmap = {0, 1} \cup Owned(inodes')
  <2>1. ~torn /\ ~lost => disk.secmap = {0, 1} \cup Owned(inodes)
    BY <1>1 DEF Ready, Exact
  <2>2. ASSUME ~torn, ~lost PROVE disk'.secmap = {0, 1} \cup Owned(inodes')
    <3>1. disk.secmap = {0, 1} \cup Owned(inodes)
      BY <2>1, <2>2
    <3> DEFINE A == Owned(inodes)
               B == Range(got)
    <3>2. disk'.secmap = ({0, 1} \cup A) \cup B /\ Owned(inodes') = A \cup B
      BY <3>1
    <3> HIDE DEF A, B
    <3>3. ({0, 1} \cup A) \cup B = {0, 1} \cup (A \cup B)
      OBVIOUS
    <3> QED
      BY <3>2, <3>3
  <2> QED
    BY <2>2
<1>5. Ready'
  BY <1>1, <1>3, <1>4 DEF Ready, Exact
<1>6. calls' \in 0 .. MaxCalls
  BY <1>1, CallCounted DEF CanWrite
<1>7. Typed' /\ Off'
  <2>1. disk' \in Disk
    BY DEF Kept
  <2> QED
    BY <1>1, <1>6, <2>1 DEF Typed, Off
<1> QED
  BY <1>5, <1>7 DEF IInv

LEMMA WriteInv ==
    ASSUME IInv, NEW d \in Fds, NEW n \in Sizes, NEW got \in Sectors(Grown(d, n)),
           Write(d, n, got)
    PROVE  IInv'
<1> DEFINE table == Written(d, n, got)
<1>1. /\ CanWrite(d) /\ ~TooLong(d, n) /\ disk' = Last(WriteImages(d, n, got)) /\ inodes' = table
      /\ tainted' = (IF WrongTail(d, n) THEN tainted \cup {fds[d].inode} ELSE tainted)
      /\ UNCHANGED <<on, imap, fds, torn, clipped, lost>>
  BY DEF Write, Written
<1>2. /\ disk' \in Kept(torn, clipped)
      /\ \E x \in Disk : x.secmap = disk.secmap \cup Range(got) /\ disk' = WithTable(x, imap, table)
  BY <1>1, WriteSteps
<1>6. /\ table \in Table /\ GoodTable(table, disk.secmap \cup Range(got))
      /\ Owned(table) = Owned(inodes) \cup Range(got)
      /\ ~torn => \A m \in Inodes \ imap : table[m] = Empty
  BY <1>1, WrittenTable
<1> HIDE DEF table
<1>3. disk'.secmap = disk.secmap \cup Range(got) /\ disk'.imap = imap /\ disk'.inodes = table
  <2>1. PICK x \in Disk : x.secmap = disk.secmap \cup Range(got) /\ disk' = WithTable(x, imap, table)
    BY <1>2
  <2> QED
    BY <2>1 DEF WithTable, Disk
<1>4. Apart(inodes', disk'.inodes)
  BY <1>1, <1>3, <1>6 DEF GoodTable
<1>5. tainted' \in SUBSET Inodes
  <2>1. Typed /\ fds[d].inode \in Inodes
    BY <1>1, WriteGot
  <2> QED
    BY <1>1, <2>1 DEF Typed
<1> QED
  BY <1>1, <1>2, <1>3, <1>4, <1>5, <1>6, WriteReady

\* What the loop of a write leaves in inode_table, whether it ends or fails.
LEMMA WithGotGood ==
    ASSUME IInv, NEW d \in Fds, NEW n \in Sizes, CanWrite(d), NEW got \in Sectors(Grown(d, n)),
           NEW table, table = WithGot(d, got)
    PROVE  /\ table \in Table /\ GoodTable(table, disk.secmap \cup Range(got))
           /\ Apart(table, disk.inodes) /\ Owned(table) = Owned(inodes) \cup Range(got)
           /\ ~torn => \A m \in Inodes \ imap : table[m] = Empty
<1> DEFINE j == fds[d].inode
           size == inodes[j].size
<1>1. table = [inodes EXCEPT ![j].ptr = GrownPtr(d, got)]
  BY DEF WithGot
<1>2. /\ Typed /\ Ready /\ on /\ j \in Inodes \ {0}
      /\ got \in Seq(DataSectors) /\ Len(got) \in Nat /\ Len(inodes[j].ptr) \in Nat
  BY WriteGot
<1>3. inodes[j] \in Inode /\ inodes \in Table
  BY <1>2 DEF Typed, Table
<1>4. size \in 0 .. SECTOR * MAX_BLOCKS
  BY <1>3 DEF Inode
<1>5. size > 0 => size < SECTOR * (Len(inodes[j].ptr) + Len(got))
  <2>1. size > 0 => size < SECTOR * Len(inodes[j].ptr)
    BY <1>2 DEF Ready, Running, GoodTable, Roomy
  <2> DEFINE have == Len(inodes[j].ptr)
             more == Len(got)
  <2>2. have \in Nat /\ more \in Nat
    BY <1>2
  <2>3. size \in Nat
    BY <1>4, Constants, Multiple
  <2> HIDE DEF size, have, more
  <2>4. SECTOR * have <= SECTOR * (have + more) /\ SECTOR * have \in Nat
        /\ SECTOR * (have + more) \in Nat
    <3>1. have + more \in Nat /\ have <= have + more /\ SECTOR \in Nat
      BY <2>2, Constants
    <3> QED
      BY <2>2, <3>1, Monotonic, Multiple
  <2> QED
    BY <2>1, <2>3, <2>4 DEF have, more
<1>6. table = [inodes EXCEPT ![j] = [size |-> size, ptr |-> GrownPtr(d, got)]]
  <2>1. [inodes[j] EXCEPT !.ptr = GrownPtr(d, got)] = [size |-> size, ptr |-> GrownPtr(d, got)]
    BY <1>3 DEF Inode
  <2>2. table = [inodes EXCEPT ![j] = [inodes[j] EXCEPT !.ptr = GrownPtr(d, got)]]
    BY <1>1
  <2> QED
    BY <2>1, <2>2
<1> HIDE DEF size
<1> QED
  BY <1>4, <1>5, <1>6, WriteTable

LEMMA WriteFailsInv ==
    ASSUME IInv, NEW d \in Fds, NEW n \in Sizes, NEW got \in Sectors(Grown(d, n)),
           WriteFails(d, n, got)
    PROVE  IInv'
<1>1. /\ CanWrite(d) /\ disk' = Last(<<disk>> \o AllocImages(got))
      /\ inodes' = WithGot(d, got)
      /\ UNCHANGED <<on, imap, fds, torn, clipped, lost, tainted>>
  BY DEF WriteFails, history
<1>2. Typed /\ Ready /\ on /\ got \in Seq(DataSectors)
  BY <1>1, WriteGot
<1>3. /\ inodes' \in Table /\ GoodTable(inodes', disk.secmap \cup Range(got))
      /\ Apart(inodes', disk.inodes) /\ Owned(inodes') = Owned(inodes) \cup Range(got)
      /\ ~torn => \A m \in Inodes \ imap : inodes'[m] = Empty
  <2> DEFINE t == inodes'
  <2>1. t = WithGot(d, got)
    BY <1>1
  <2> HIDE DEF t
  <2>2. /\ t \in Table /\ GoodTable(t, disk.secmap \cup Range(got))
        /\ Apart(t, disk.inodes) /\ Owned(t) = Owned(inodes) \cup Range(got)
        /\ ~torn => \A m \in Inodes \ imap : t[m] = Empty
    BY <1>1, <2>1, WithGotGood
  <2> QED
    BY <2>2 DEF t
<1>4. disk \in Kept(torn, clipped) /\ disk \in Disk /\ imap = disk.imap
  BY <1>2 DEF Ready, Running, Kept
<1>5. disk' = Marked(got) /\ disk' \in Kept(torn, clipped)
  BY <1>1, <1>2, <1>4, AllocSteps DEF Marked
<1>6. disk'.secmap = disk.secmap \cup Range(got) /\ disk'.imap = imap /\ disk'.inodes = disk.inodes
  BY <1>4, <1>5 DEF Marked, Disk
<1>7. tainted' \in SUBSET Inodes
  BY <1>1, <1>2 DEF Typed
<1>8. Apart(inodes', disk'.inodes)
  BY <1>3, <1>6
<1> QED
  BY <1>1, <1>3, <1>5, <1>6, <1>7, <1>8, WriteReady

\* No image of a write has a mark but on the disk's sectors and those found.
Marks(S) == {x \in Disk : x.secmap \subseteq S}

LEMMA AllocMarks ==
    ASSUME disk \in Disk, NEW got \in Seq(DataSectors)
    PROVE  AllocImages(got) \in Seq(Marks(disk.secmap \cup Range(got)))
<1> DEFINE S == Marks(disk.secmap \cup Range(got))
           marked(k) == {got[m] : m \in 1 .. k}
           with(X) == [disk EXCEPT !.secmap = @ \cup X]
           images == AllocImages(got)
<1>1. Len(got) \in Nat /\ \A m \in 1 .. Len(got) : got[m] \in Range(got)
  BY DEF Range
<1>2. Range(got) \in SUBSET DataSectors
  BY DEF Range
<1>3. ASSUME NEW X \in SUBSET Range(got) PROVE with(X) \in S
  BY <1>2 DEF Disk, Marks
<1>4. images = [k \in 1 .. Len(got) |-> with(marked(k))]
  BY DEF AllocImages
<1>5. ASSUME NEW k \in 1 .. Len(got) PROVE marked(k) \in SUBSET Range(got)
  BY <1>1
<1> HIDE DEF with, marked, images, S
<1>6. images \in [1 .. Len(got) -> S]
  BY <1>3, <1>4, <1>5
<1>7. images \in Seq(S)
  BY <1>1, <1>6, FunctionIsSeq
<1> QED
  BY <1>7 DEF images, S

LEMMA DataMarks ==
    ASSUME NEW S, NEW d \in Marks(S), NEW ptr, NEW pos \in Nat, NEW data \in Seq(Bytes)
    PROVE  /\ DataImages(d, ptr, pos, data) \in Seq(Marks(S))
           /\ Len(DataImages(d, ptr, pos, data)) > 0
<1> DEFINE images == DataImages(d, ptr, pos, data)
<1>1. d \in Disk /\ d.secmap \subseteq S
  BY DEF Marks
<1>2. /\ Len(images) \in Nat \ {0} /\ DOMAIN images = 1 .. Len(images)
      /\ \A k \in 1 .. Len(images) :
            /\ DataPart(d, ptr, pos, data, k) \in Content
            /\ images[k] = WithData(d, DataPart(d, ptr, pos, data, k))
  BY <1>1, DataSteps
<1>3. ASSUME NEW x \in Content PROVE WithData(d, x) \in Marks(S)
  BY <1>1 DEF WithData, Disk, Marks
<1>4. images = [k \in 1 .. Len(images) |-> images[k]]
  BY <1>2 DEF DataImages
<1> HIDE DEF images
<1>5. images \in [1 .. Len(images) -> Marks(S)]
  BY <1>2, <1>3, <1>4
<1>6. images \in Seq(Marks(S)) /\ Len(images) > 0
  BY <1>2, <1>5, FunctionIsSeq
<1> QED
  BY <1>6 DEF images

LEMMA SyncMarks ==
    ASSUME NEW S, NEW d \in Marks(S), NEW table \in Table, NEW map \in SUBSET Inodes
    PROVE  SyncImages(d, table, map) \in Seq(Marks(S))
<1> DEFINE images == SyncImages(d, table, map)
<1>1. d \in Disk /\ d.secmap \subseteq S /\ d.inodes \in Table
  BY DEF Marks, Disk
<1>2. /\ Len(images) \in Nat \ {0} /\ DOMAIN images = 1 .. Len(images)
      /\ \A k \in 1 .. Len(images) :
           \E x : Mixed(x, d.inodes, table) /\ images[k] = WithTable(d, map, x)
  BY <1>1, SyncSteps
<1>3. images = [k \in 1 .. Len(images) |-> images[k]]
  BY <1>2 DEF SyncImages
<1> HIDE DEF images
<1>4. ASSUME NEW k \in 1 .. Len(images) PROVE images[k] \in Marks(S)
  <2>1. PICK x : Mixed(x, d.inodes, table) /\ images[k] = WithTable(d, map, x)
    BY <1>2
  <2>2. x \in Table
    BY <1>1, <2>1 DEF Mixed, Table
  <2> QED
    BY <1>1, <2>1, <2>2 DEF WithTable, Disk, Marks
<1>5. images \in [1 .. Len(images) -> Marks(S)]
  BY <1>3, <1>4
<1>6. images \in Seq(Marks(S))
  BY <1>2, <1>5, FunctionIsSeq
<1> QED
  BY <1>6 DEF images

LEMMA WriteMarks ==
    ASSUME IInv, NEW d \in Fds, NEW n \in Sizes, CanWrite(d), NEW got \in Sectors(Grown(d, n)),
           ~TooLong(d, n)
    PROVE  WriteImages(d, n, got) \in Seq(Marks(disk.secmap \cup Range(got)))
<1> DEFINE M == Marks(disk.secmap \cup Range(got))
           pos == fds[d].rw
           table == Written(d, n, got)
           alloc == AllocImages(got)
           d1 == Last(<<disk>> \o alloc)
           data == DataImages(d1, GrownPtr(d, got), pos, Data(d, n))
           d2 == Last(data)
           sync == SyncImages(d2, table, imap)
           images == WriteImages(d, n, got)
<1>1. /\ Typed /\ pos \in Nat /\ n \in Nat /\ got \in Seq(DataSectors)
      /\ disk \in Disk /\ disk \in Kept(torn, clipped) /\ imap \in SUBSET Inodes
  BY WriteGot DEF Ready, Typed
<1>2. alloc \in Seq(M)
  BY <1>1, AllocMarks
<1>3. d1 \in M
  <2>1. d1 = Marked(got) /\ d1 \in Disk
    BY <1>1, AllocSteps DEF Marked, Kept
  <2> HIDE DEF d1
  <2> QED
    BY <1>1, <2>1 DEF Marked, Marks, Disk
<1>4. Data(d, n) \in Seq(Bytes)
  <2>1. pos + n < SECTOR * MAX_BLOCKS /\ SECTOR * MAX_BLOCKS \in Nat
    BY WriteSize, Constants, Multiple
  <2> HIDE DEF pos
  <2>2. n <= SECTOR * MAX_BLOCKS
    BY <1>1, <2>1
  <2> QED
    BY <1>1, <2>2, DataTyped
<1>5. data \in Seq(M) /\ Len(data) > 0
  <2> HIDE DEF d1, pos
  <2> QED
    BY <1>1, <1>3, <1>4, DataMarks
<1>6. d2 \in M
  <2> HIDE DEF data, M
  <2> QED
    BY <1>5, LastIn
<1>7. table \in Table
  BY WrittenTable
<1>8. sync \in Seq(M)
  <2> HIDE DEF d2, table
  <2> QED
    BY <1>1, <1>6, <1>7, SyncMarks
<1>9. images = (alloc \o data) \o sync
  BY DEF WriteImages, Written
<1>10. images \in Seq(M)
  <2> HIDE DEF M, alloc, data, sync, images
  <2>1. alloc \o data \in Seq(M)
    BY <1>2, <1>5, LastOfBoth
  <2> QED
    BY <1>8, <1>9, <2>1, LastOfBoth
<1> QED
  BY <1>10

LEMMA WriteCutInv ==
    ASSUME IInv, NEW d \in Fds, NEW n \in Sizes, NEW got \in Sectors(Grown(d, n)),
           WriteCut(d, n, got)
    PROVE  IInv'
<1> DEFINE table == WithGot(d, got)
<1>1. CanWrite(d) /\ Forget /\ UNCHANGED <<torn, clipped>>
      /\ tainted' \subseteq tainted \cup {fds[d].inode}
      /\ lost' = (lost \/ \E m \in Inodes : table[m].ptr # disk'.inodes[m].ptr)
  BY DEF WriteCut, CutIn
<1>2. /\ Typed /\ Ready /\ on /\ fds[d].inode \in Inodes /\ got \in Seq(DataSectors)
  BY <1>1, WriteGot
<1>3. disk \in Kept(torn, clipped)
  BY <1>2 DEF Ready
<1>4. disk' \in Kept(torn, clipped)
  <2>1. CASE TooLong(d, n)
    <3>1. PICK k \in 1 .. Len(AllocImages(got)) - 1 : disk' = AllocImages(got)[k]
      BY <2>1 DEF WriteCut, CutIn
    <3>2. AllocImages(got) \in Seq(Kept(torn, clipped))
      BY <1>2, <1>3, AllocSteps
    <3> QED
      BY <3>1, <3>2, CutImage
  <2>2. CASE ~TooLong(d, n)
    <3>1. PICK k \in 1 .. Len(WriteImages(d, n, got)) - 1 : disk' = WriteImages(d, n, got)[k]
      BY <2>2 DEF WriteCut, CutIn
    <3>2. WriteImages(d, n, got) \in Seq(Kept(torn, clipped))
      BY <1>1, <2>2, WriteSteps
    <3> QED
      BY <3>1, <3>2, CutImage
  <2> QED
    BY <2>1, <2>2
<1>5. disk' \in Marks(disk.secmap \cup Range(got))
  <2>1. CASE TooLong(d, n)
    <3>1. PICK k \in 1 .. Len(AllocImages(got)) - 1 : disk' = AllocImages(got)[k]
      BY <2>1 DEF WriteCut, CutIn
    <3>2. AllocImages(got) \in Seq(Marks(disk.secmap \cup Range(got)))
      BY <1>2, AllocMarks DEF Typed
    <3> QED
      BY <3>1, <3>2, CutImage
  <2>2. CASE ~TooLong(d, n)
    <3>1. PICK k \in 1 .. Len(WriteImages(d, n, got)) - 1 : disk' = WriteImages(d, n, got)[k]
      BY <2>2 DEF WriteCut, CutIn
    <3>2. WriteImages(d, n, got) \in Seq(Marks(disk.secmap \cup Range(got)))
      BY <1>1, <2>2, WriteMarks
    <3> QED
      BY <3>1, <3>2, CutImage
  <2> QED
    BY <2>1, <2>2
<1>6. Owned(table) = Owned(inodes) \cup Range(got)
  BY <1>1, WithGotGood
<1>7. ASSUME ~torn', ~lost'
      PROVE  disk'.secmap = {0, 1} \cup Owned(disk'.inodes)
  <2>1. ~lost /\ \A m \in Inodes : table[m].ptr = disk'.inodes[m].ptr
    BY <1>1, <1>7
  <2> HIDE DEF table
  <2>2. Owned(disk'.inodes) = Owned(table)
    BY <2>1 DEF Owned
  <2>3. disk.secmap = {0, 1} \cup Owned(inodes)
    BY <1>1, <1>2, <1>7, <2>1 DEF Ready, Exact
  <2>4. disk'.secmap \subseteq disk.secmap \cup Range(got)
    BY <1>5 DEF Marks
  <2>5. {0, 1} \subseteq disk'.secmap /\ Owned(disk'.inodes) \subseteq disk'.secmap
    BY <1>4 DEF Kept, GoodDisk, GoodTable
  <2> QED
    BY <1>6, <2>2, <2>3, <2>4, <2>5
<1>8. tainted' \in SUBSET Inodes /\ torn' \in BOOLEAN /\ clipped' \in BOOLEAN /\ lost' \in BOOLEAN
  BY <1>1, <1>2 DEF Typed
<1>9. calls' \in 0 .. MaxCalls
  BY <1>1, <1>2, CallCounted DEF CanWrite
<1> QED
  BY <1>1, <1>4, <1>7, <1>8, <1>9, OffReady

-----------------------------------------------------------------------------
(* The theorems.                                                           *)

LEMMA NextInv == IInv /\ [Next]_vars => IInv'
<1> SUFFICES ASSUME IInv, [Next]_vars PROVE IInv'
  OBVIOUS
<1>1. CASE UNCHANGED vars
  BY <1>1 DEF vars, memory, history, IInv, Typed, Off, Fresh, FreshDisk, Ready, Running, Exact
<1>2. CASE PowerOff \/ Boot \/ BootCut
  BY <1>2, PowerOffInv, BootInv, BootCutInv
<1>3. ASSUME NEW d \in Fds, NEW name \in Names,
             \/ \E append \in BOOLEAN : Open(d, name, append)
             \/ Create(d, name) \/ CreateCut(d, name)
      PROVE  IInv'
  BY <1>3, OpenInv, CreateInv, CreateCutInv
<1>4. ASSUME NEW d \in Fds, NEW n \in Sizes, NEW got \in Sectors(Grown(d, n)),
             Write(d, n, got) \/ WriteFails(d, n, got) \/ WriteCut(d, n, got)
      PROVE  IInv'
  BY <1>4, WriteInv, WriteFailsInv, WriteCutInv
<1>5. ASSUME NEW d \in Fds, Close(d) PROVE IInv'
  BY <1>5, CloseInv
<1>6. ASSUME NEW name \in Names, Unlink(name) PROVE IInv'
  BY <1>6, UnlinkInv
<1> QED
  BY <1>1, <1>2, <1>3, <1>4, <1>5, <1>6 DEF Next

\* The disk and the tables in memory are what IInv says, at every place where
\* the power can go.
THEOREM Invariance == Spec => []IInv
<1>1. Init => IInv
  BY Initially
<1>2. IInv /\ [Next]_vars => IInv'
  BY NextInv
<1> QED
  BY <1>1, <1>2, PTL DEF Spec

\* Of the tables that count, each is well typed; in those of a formatted disk
\* the inodes are apart and what they have is marked.
LEMMA TablesGood ==
    ASSUME IInv, NEW t \in Tables
    PROVE  t \in Table /\ Apart(t, t) /\ Owned(t) \subseteq disk.secmap
<1>0. t = disk.inodes \/ (on /\ t = inodes)
  BY DEF Tables
<1>1. t \in Table
  BY <1>0 DEF IInv, Typed, Disk
<1>2. CASE Fresh
  <2>1. t \in {NoInodes, RootTable}
    BY <1>0, <1>2 DEF Fresh, FreshDisk
  <2>2. Owned(t) = {} /\ Apart(t, t)
    BY <2>1, TablesTyped
  <2> QED
    BY <1>1, <2>2
<1>3. CASE Ready
  <2>1. GoodTable(t, disk.secmap)
    BY <1>0, <1>3 DEF Ready, Running, Kept, GoodDisk
  <2> QED
    BY <1>1, <2>1 DEF GoodTable
<1> QED
  BY <1>2, <1>3 DEF IInv

\* No two files share a sector, none has one twice or one of the directory, and
\* every sector of a file is marked, in memory and on the disk, wherever the
\* power goes: alloc_sector marks a sector before any inode gets it, and an
\* unlinked file keeps its sectors.
THEOREM NeverTwoOwners == Spec => []SectorsOwned
<1>1. IInv => SectorsOwned
  <2> SUFFICES ASSUME IInv PROVE SectorsOwned
    OBVIOUS
  <2>1. TypeOK
    <3>1. /\ disk.super \in BOOLEAN /\ disk.secmap \subseteq DataSectors
          /\ disk.imap \subseteq Inodes
          /\ \A s \in DataSectors : \A k \in 0 .. SECTOR - 1 : disk.data[s][k] \in Bytes
          /\ \A e \in Slots : disk.dir[e].inode \in -1 .. INODES - 1
      BY DEF IInv, Typed, Disk, Content, Entry
    <3>2. ASSUME NEW j \in Inodes, NEW t \in Tables
          PROVE  /\ t[j].size \in 0 .. SECTOR * MAX_BLOCKS
                 /\ Len(t[j].ptr) \in 0 .. MAX_BLOCKS
                 /\ \A b \in DOMAIN t[j].ptr : t[j].ptr[b] \in DataSectors
      <4>1. t[j] \in Inode /\ Len(t[j].ptr) <= MAX_BLOCKS
        BY TablesGood DEF Table
      <4>2. Len(t[j].ptr) \in Nat /\ MAX_BLOCKS \in Nat
        BY <4>1, Constants DEF Inode
      <4> QED
        BY <4>1, <4>2 DEF Inode
    <3>3. /\ on \in BOOLEAN /\ imap \subseteq Inodes
          /\ \A d \in Fds : fds[d].inode \in Inodes /\ fds[d].rw \in 0 .. SECTOR * MAX_BLOCKS
          /\ tainted \subseteq Inodes /\ {torn, clipped, lost} \subseteq BOOLEAN
          /\ calls \in 0 .. MaxCalls
      BY DEF IInv, Typed, Desc
    <3> QED
      BY <3>1, <3>2, <3>3 DEF TypeOK
  <2>2. ASSUME NEW t \in Tables
        PROVE  /\ \A j \in Inodes : IsInjective(t[j].ptr)
               /\ \A j, m \in Inodes : j # m => Range(t[j].ptr) \cap Range(t[m].ptr) = {}
               /\ Owned(t) \subseteq disk.secmap
    BY TablesGood DEF Table, Apart
  <2> QED
    BY <2>1, <2>2 DEF SectorsOwned
<1> QED
  BY <1>1, Invariance, PTL

\* While it runs and no create or format was cut, the disk is a formatted one.
LEMMA Formatted ==
    ASSUME IInv, on, ~torn
    PROVE  /\ Ready /\ Running /\ Named(disk) /\ inodes[0] = Root
           /\ \A e \in Slots : Used(e) <=> disk.dir[e].inode # -1
<1>1. Ready
  BY DEF IInv, Fresh
<1>2. Running /\ Named(disk) /\ inodes[0] = Root
  BY <1>1 DEF Ready, Running, Kept, GoodTable
<1>3. \A e \in Slots : Used(e) <=> disk.dir[e].inode # -1
  BY <1>2, DirectorySeen
<1> QED
  BY <1>1, <1>2, <1>3

\* Names have inodes of their own, marked in the map on the disk, unless a create
\* or a format was cut: create_file takes an inode that the map does not have,
\* and unlink never gives one back.
THEOREM NamesApart == Spec => []EntriesOwnInodes
<1>1. IInv => EntriesOwnInodes
  <2> SUFFICES ASSUME IInv, on, ~torn
               PROVE  /\ \A e \in Slots : Used(e) => disk.dir[e].inode \in disk.imap \ {0}
                      /\ \A e, f \in Slots : Used(e) /\ Used(f) /\ e # f =>
                            disk.dir[e].inode # disk.dir[f].inode
                      /\ imap = disk.imap
    BY DEF EntriesOwnInodes
  <2> QED
    BY Formatted DEF Named, Running
<1> QED
  BY <1>1, Invariance, PTL

\* The map of sectors has the sectors of the directory and of inodes and no
\* others, unless a boot forgot some: a write that fails leaves the sectors that
\* it has got with the inode.
THEOREM NoSectorStray == Spec => []MapExact
<1>1. IInv => MapExact
  BY Formatted DEF MapExact, Ready, Exact
<1> QED
  BY <1>1, Invariance, PTL

\* What listdir and getsize tell of a file is the same, a name is listed once,
\* and a file with a byte has more space than its size.
THEOREM DirectoryTrue == Spec => []DirectoryAgrees
<1>1. IInv => DirectoryAgrees
  <2> SUFFICES ASSUME IInv, on, ~torn, ~clipped, NEW e \in Slots, Used(e)
               PROVE  /\ Getsize(Listed(e).name) = Listed(e).size
                      /\ Listed(e).size > 0 => Listed(e).size < Listed(e).space
                      /\ Cardinality(Matches(Listed(e).name)) = 1
    BY DEF DirectoryAgrees
  <2>1. Ready /\ Running /\ Named(disk) /\ disk.dir[e].inode # -1
        /\ \A f \in Slots : Used(f) <=> disk.dir[f].inode # -1
    BY Formatted
  <2>2. Unique(disk)
    BY <2>1 DEF Ready, Kept
  <2> DEFINE name == disk.dir[e].name
             ino == inodes[disk.dir[e].inode]
  <2>3. Listed(e).name = name /\ Listed(e).size = ino.size
        /\ Listed(e).space = SECTOR * Len(ino.ptr)
    BY DEF Listed
  <2>4. Matches(name) = {e}
    BY <2>1, <2>2 DEF Matches, Unique
  <2>5. FirstOf({e}) = e
    <3>1. {e} \in SUBSET Slots
      OBVIOUS
    <3> QED
      BY <3>1, FirstFound
  <2>6. Getsize(name) = ino.size
    BY <2>4, <2>5 DEF Getsize
  <2>7. ino.size > 0 => ino.size < SECTOR * Len(ino.ptr)
    <3>1. disk.dir[e].inode \in Inodes \ {0}
      BY <2>1 DEF Named, IInv, Typed, Disk
    <3> QED
      BY <2>1, <3>1 DEF Running, GoodTable, Roomy
  <2>8. Cardinality({e}) = 1
    BY FS_Singleton
  <2> QED
    BY <2>3, <2>4, <2>6, <2>7, <2>8
<1> QED
  BY <1>1, Invariance, PTL

-----------------------------------------------------------------------------
(* What reads return.                                                      *)

\* The bytes of a file of this inode on this disk are x.
Told(ino, d, x) ==
    /\ Len(x) = ino.size
    /\ \A p \in 0 .. ino.size - 1 : d.data[ino.ptr[p \div SECTOR + 1]][p % SECTOR] = x[p + 1]

\* The second invariant, which holds of the contents on top of the first one.
TextInv ==
    /\ text \in [Inodes -> Seq(Bytes)]
    /\ \A t \in Tables : \A j \in Inodes \ ({0} \cup tainted) : Told(t[j], disk, text[j])
    \* No descriptor is behind the end of its file, and none has an unused inode.
    /\ \A d \in Fds : fds[d].inode \notin {0} \cup tainted =>
            fds[d].inode \in imap /\ fds[d].rw <= inodes[fds[d].inode].size
    /\ \A e \in Slots : disk.dir[e].inode \in disk.imap \cup tainted \cup {-1, 0}

\* The block of a byte of the file.
LEMMA BlockOf ==
    ASSUME NEW p \in Nat
    PROVE  /\ p \div SECTOR \in Nat /\ p % SECTOR \in 0 .. SECTOR - 1
           /\ SECTOR * (p \div SECTOR) \in Nat
           /\ p = SECTOR * (p \div SECTOR) + (p % SECTOR)
           /\ \A len \in Nat : p < SECTOR * len => p \div SECTOR < len
<1>1. SECTOR \in Nat \ {0}
  BY Constants
<1>2. /\ p \div SECTOR \in Nat /\ p % SECTOR \in 0 .. SECTOR - 1
      /\ SECTOR * (p \div SECTOR) \in Nat
      /\ p = SECTOR * (p \div SECTOR) + (p % SECTOR)
  BY <1>1, Division
<1>3. ASSUME NEW len \in Nat, p < SECTOR * len PROVE p \div SECTOR < len
  <2> DEFINE q == p \div SECTOR
             r == p % SECTOR
  <2>1. q \in Nat /\ r \in 0 .. SECTOR - 1 /\ SECTOR * q \in Nat /\ p = SECTOR * q + r
    BY <1>2
  <2> HIDE DEF q, r
  <2>2. len <= q => SECTOR * len <= SECTOR * q
    BY <1>1, <2>1, Monotonic
  <2>3. SECTOR * len \in Nat
    BY <1>1, Multiple
  <2>4. q < len
    BY <1>1, <1>3, <2>1, <2>2, <2>3
  <2> QED
    BY <2>4 DEF q
<1> QED
  BY <1>2, <1>3

\* The sector that the byte p of a file is in.
LEMMA SectorOf ==
    ASSUME NEW ino \in Inode, ino.size > 0 => ino.size < SECTOR * Len(ino.ptr),
           NEW p \in 0 .. ino.size - 1
    PROVE  /\ p \in Nat /\ p < ino.size /\ p \div SECTOR \in Nat
           /\ p \div SECTOR < Len(ino.ptr) /\ p \div SECTOR + 1 \in 1 .. Len(ino.ptr)
           /\ ino.ptr[p \div SECTOR + 1] \in Range(ino.ptr)
           /\ ino.ptr[p \div SECTOR + 1] \in DataSectors
<1>1. ino.size \in Nat /\ ino.ptr \in Seq(DataSectors) /\ Len(ino.ptr) \in Nat
  BY Constants, Multiple DEF Inode
<1>2. p \in Nat /\ p < ino.size /\ p < SECTOR * Len(ino.ptr)
  <2>1. SECTOR * Len(ino.ptr) \in Nat
    BY <1>1, Constants, Multiple
  <2> QED
    BY <1>1, <2>1
<1>3. p \div SECTOR \in Nat /\ p \div SECTOR < Len(ino.ptr)
  BY <1>1, <1>2, BlockOf
<1> DEFINE b == p \div SECTOR
<1>4. b \in Nat /\ b < Len(ino.ptr)
  BY <1>3
<1> HIDE DEF b
<1>5. b + 1 \in 1 .. Len(ino.ptr)
  BY <1>1, <1>4
<1>6. ino.ptr[b + 1] \in Range(ino.ptr) /\ ino.ptr[b + 1] \in DataSectors
  BY <1>1, <1>5 DEF Range
<1> QED
  BY <1>2, <1>4, <1>5, <1>6 DEF b

\* A file reads the same where its sectors have the same bytes.
LEMMA ToldStill ==
    ASSUME NEW ino \in Inode, ino.size > 0 => ino.size < SECTOR * Len(ino.ptr),
           NEW d, NEW e, NEW x, Told(ino, d, x),
           \A s \in Range(ino.ptr) : e.data[s] = d.data[s]
    PROVE  Told(ino, e, x)
<1>1. ASSUME NEW p \in 0 .. ino.size - 1
      PROVE  e.data[ino.ptr[p \div SECTOR + 1]][p % SECTOR] = x[p + 1]
  <2>1. ino.ptr[p \div SECTOR + 1] \in Range(ino.ptr)
    BY SectorOf
  <2>2. d.data[ino.ptr[p \div SECTOR + 1]][p % SECTOR] = x[p + 1]
    BY DEF Told
  <2> QED
    BY <2>1, <2>2
<1> QED
  BY <1>1 DEF Told

\* The bytes that a write leaves in a block, if it does not end inside the last
\* of several sectors.
LEMMA BlockByte ==
    ASSUME NEW old, NEW pos \in Nat, NEW data \in Seq(Bytes),
           NEW b \in FirstBlock(pos) .. LastBlock(pos, data), NEW k \in 0 .. SECTOR - 1,
           ~(LastBlock(pos, data) > FirstBlock(pos) /\ (pos + Len(data)) % SECTOR # 0)
    PROVE  BlockAfter(old, b, pos, data)[k] =
              IF pos <= SECTOR * b + k /\ SECTOR * b + k < pos + Len(data)
              THEN data[(SECTOR * b + k) - pos + 1] ELSE old[k]
<1> DEFINE n == Len(data)
           first == pos \div SECTOR
           end == (pos + n) \div SECTOR
           rem == (pos + n) % SECTOR
           base == b * SECTOR
           byte(i) == LET at == base + i IN
              CASE b = first -> IF at \in FirstPart(b, pos, n) THEN data[at - pos + 1] ELSE old[i]
                [] first < b /\ b < end -> data[at - pos + 1]
                [] first < b /\ b = end -> IF i < rem THEN data[i + 1] ELSE old[i]
           want == IF pos <= base + k /\ base + k < pos + n
                   THEN data[(base + k) - pos + 1] ELSE old[k]
<1>0. SECTOR \in Nat \ {0} /\ n \in Nat /\ pos + n \in Nat
  <2>1. n \in Nat
    OBVIOUS
  <2> HIDE DEF n
  <2>2. SECTOR \in Nat \ {0}
    BY Constants
  <2> QED
    BY <2>1, <2>2
<1>1. /\ first \in Nat /\ end \in Nat /\ rem \in 0 .. SECTOR - 1
      /\ SECTOR * first \in Nat /\ SECTOR * end \in Nat
      /\ SECTOR * first <= pos /\ pos < SECTOR * first + SECTOR /\ SECTOR * end + rem = pos + n
  <2> HIDE DEF n
  <2>1. first \in Nat /\ SECTOR * first \in Nat
        /\ \E r \in 0 .. SECTOR - 1 : pos = SECTOR * first + r
    BY <1>0, Division
  <2>2. end \in Nat /\ SECTOR * end \in Nat /\ rem \in 0 .. SECTOR - 1
        /\ pos + n = SECTOR * end + rem
    BY <1>0, Division
  <2> HIDE DEF first, end, rem
  <2> QED
    BY <1>0, <2>1, <2>2
<1>2. b \in Nat /\ first <= b /\ b <= end /\ k \in Nat /\ k < SECTOR
  BY <1>0, <1>1 DEF FirstBlock, LastBlock
<1>3. base = SECTOR * b /\ base \in Nat /\ (b + 1) * SECTOR = base + SECTOR
  BY <1>0, <1>2, Multiple
<1>4. BlockAfter(old, b, pos, data)[k] = byte(k)
  BY DEF BlockAfter
<1>5. ~(end > first /\ rem # 0)
  BY DEF FirstBlock, LastBlock
<1>6. byte(k) = want
  <2>1. CASE b = first
    <3>1. ~(first < b)
      BY <1>1, <1>2, <2>1
    <3>2. base + k \in FirstPart(b, pos, n) <=> pos <= base + k /\ base + k < pos + n
      <4> HIDE DEF n, first, end, rem, base
      <4> QED
        BY <1>0, <1>2, <1>3 DEF FirstPart, Least
    <3> HIDE DEF base, first, end, rem, n
    <3>3. byte(k) = IF base + k \in FirstPart(b, pos, n) THEN data[(base + k) - pos + 1] ELSE old[k]
      BY <2>1, <3>1, Zenon
    <3> QED
      BY <3>2, <3>3, Zenon
  <2>2. CASE first < b /\ b < end
    <3>1. SECTOR * first + SECTOR <= SECTOR * b /\ SECTOR * b + SECTOR <= SECTOR * end
      BY <1>0, <1>1, <1>2, <2>2, Monotonic
    <3>2. b # first /\ b # end
      BY <1>1, <1>2, <2>2
    <3> HIDE DEF base, first, end, rem, n
    <3>3. pos <= base + k /\ base + k < pos + n
      BY <1>0, <1>1, <1>2, <1>3, <3>1
    <3>4. byte(k) = data[(base + k) - pos + 1]
      BY <2>2, <3>2, Zenon
    <3> QED
      BY <3>3, <3>4, Zenon
  <2>3. CASE first < b /\ b = end
    <3>1. b # first /\ ~(b < end) /\ rem = 0 /\ ~(k < rem)
      BY <1>1, <1>2, <1>5, <2>3
    <3>2. base = SECTOR * end
      BY <1>3, <2>3
    <3> HIDE DEF base, first, end, rem, n
    <3>3. ~(base + k < pos + n)
      BY <1>0, <1>1, <1>2, <1>3, <3>1, <3>2
    <3>4. byte(k) = old[k]
      BY <2>3, <3>1, Zenon
    <3> QED
      BY <3>3, <3>4, Zenon
  <2> QED
    BY <1>1, <1>2, <2>1, <2>2, <2>3
<1> HIDE DEF byte, n
<1> QED
  BY <1>3, <1>4, <1>6 DEF n

LEMMA OverlayByte ==
    ASSUME NEW old \in Seq(Bytes), NEW data \in Seq(Bytes), NEW pos \in Nat, pos <= Len(old)
    PROVE  /\ Overlay(old, pos, data) \in Seq(Bytes)
           /\ Len(Overlay(old, pos, data)) = Most(Len(old), pos + Len(data))
           /\ \A p \in 0 .. Most(Len(old), pos + Len(data)) - 1 :
                Overlay(old, pos, data)[p + 1] =
                    IF pos <= p /\ p < pos + Len(data) THEN data[p - pos + 1] ELSE old[p + 1]
<1> DEFINE N == Len(old)
           n == Len(data)
           head == SubSeq(old, 1, pos)
           tail == SubSeq(old, pos + n + 1, N)
           left == IF pos + n + 1 <= N THEN N - (pos + n) ELSE 0
           over == Overlay(old, pos, data)
<1>1. N \in Nat /\ n \in Nat /\ pos <= N
  OBVIOUS
<1>2. \A i \in 1 .. N : old[i] \in Bytes
  OBVIOUS
<1>3. head \in Seq(Bytes) /\ Len(head) = pos /\ \A i \in 1 .. pos : head[i] = old[i]
  <2> HIDE DEF N
  <2>1. \A i \in 1 .. pos : old[i] \in Bytes
    BY <1>1, <1>2
  <2>2. /\ head \in Seq(Bytes) /\ Len(head) = (IF 1 <= pos THEN pos - 1 + 1 ELSE 0)
        /\ \A i \in 1 .. pos - 1 + 1 : head[i] = old[1 + i - 1]
    BY <2>1, SubSeqProperties
  <2> HIDE DEF head
  <2>3. \A i \in 1 .. pos : 1 + i - 1 = i /\ i \in 1 .. pos - 1 + 1
    OBVIOUS
  <2>4. Len(head) = pos
    BY <2>2
  <2> QED
    BY <2>2, <2>3, <2>4
<1>4. tail \in Seq(Bytes) /\ Len(tail) = left /\ \A i \in 1 .. left : tail[i] = old[pos + n + i]
  <2> HIDE DEF N, n
  <2> DEFINE m == pos + n + 1
  <2>0. m \in Int /\ m \in Nat /\ m >= 1
    BY <1>1
  <2>1. \A i \in m .. N : old[i] \in Bytes
    BY <1>1, <1>2
  <2> HIDE DEF m
  <2>2. /\ SubSeq(old, m, N) \in Seq(Bytes)
        /\ Len(SubSeq(old, m, N)) = (IF m <= N THEN N - m + 1 ELSE 0)
        /\ \A i \in 1 .. N - m + 1 : SubSeq(old, m, N)[i] = old[m + i - 1]
    BY <1>1, <2>0, <2>1, SubSeqProperties
  <2>3. tail = SubSeq(old, m, N) /\ m = pos + n + 1
    BY DEF m
  <2> HIDE DEF tail
  <2>4. Len(tail) = left
    BY <1>1, <2>2, <2>3
  <2>5. ASSUME NEW i \in 1 .. left PROVE tail[i] = old[pos + n + i]
    <3>1. i \in 1 .. N - m + 1 /\ m + i - 1 = pos + n + i
      BY <1>1, <2>3
    <3> QED
      BY <2>2, <2>3, <3>1
  <2> QED
    BY <2>2, <2>3, <2>4, <2>5
<1>5. over = (head \o data) \o tail
  BY DEF Overlay
<1> HIDE DEF N, n, head, tail, over
<1>6. data \in Seq(Bytes) /\ Len(data) = n
  BY DEF n
<1>7. /\ head \o data \in Seq(Bytes) /\ Len(head \o data) = pos + n
      /\ \A i \in 1 .. pos + n : (head \o data)[i] = IF i <= pos THEN head[i] ELSE data[i - pos]
  BY <1>1, <1>3, <1>6, ConcatProperties
<1> DEFINE front == head \o data
<1> HIDE DEF front
<1>8. /\ over \in Seq(Bytes) /\ Len(over) = pos + n + left
      /\ \A i \in 1 .. pos + n + left : over[i] = IF i <= pos + n THEN front[i] ELSE tail[i - (pos + n)]
  <2>1. front \in Seq(Bytes) /\ Len(front) = pos + n /\ over = front \o tail
    BY <1>5, <1>7 DEF front
  <2> HIDE DEF left
  <2>2. /\ over \in Seq(Bytes) /\ Len(over) = Len(front) + Len(tail)
        /\ \A i \in 1 .. Len(front) + Len(tail) :
              over[i] = IF i <= Len(front) THEN front[i] ELSE tail[i - Len(front)]
    BY <1>4, <2>1, ConcatProperties
  <2> QED
    BY <1>4, <2>1, <2>2, Zenon
<1>9. pos + n + left = Most(N, pos + n) /\ left \in Nat
  BY <1>1 DEF Most
<1>10. ASSUME NEW p \in 0 .. Most(N, pos + n) - 1
       PROVE  over[p + 1] = IF pos <= p /\ p < pos + n THEN data[p - pos + 1] ELSE old[p + 1]
  <2>0. p \in Nat /\ p + 1 \in 1 .. pos + n + left
    BY <1>1, <1>9
  <2>1. CASE p < pos
    <3>1. p + 1 <= pos /\ p + 1 \in 1 .. pos /\ p + 1 \in 1 .. pos + n /\ p + 1 <= pos + n
      BY <1>1, <2>0, <2>1
    <3>2. over[p + 1] = old[p + 1]
      BY <1>3, <1>7, <1>8, <2>0, <3>1 DEF front
    <3> QED
      BY <2>0, <2>1, <3>2
  <2>2. CASE pos <= p /\ p < pos + n
    <3>1. ~(p + 1 <= pos) /\ p + 1 \in 1 .. pos + n /\ p + 1 <= pos + n /\ (p + 1) - pos = p - pos + 1
      BY <1>1, <2>0, <2>2
    <3>2. over[p + 1] = data[(p + 1) - pos]
      BY <1>7, <1>8, <2>0, <3>1 DEF front
    <3> QED
      BY <2>2, <3>1, <3>2
  <2>3. CASE pos + n <= p
    <3>1. ~(p + 1 <= pos + n) /\ (p + 1) - (pos + n) \in 1 .. left
          /\ pos + n + ((p + 1) - (pos + n)) = p + 1
      BY <1>1, <1>9, <2>0, <2>3
    <3>2. over[p + 1] = tail[(p + 1) - (pos + n)]
      BY <1>8, <2>0, <3>1
    <3>3. tail[(p + 1) - (pos + n)] = old[p + 1]
      BY <1>4, <3>1
    <3>4. ~(p < pos + n)
      BY <1>1, <2>0, <2>3
    <3> QED
      BY <3>2, <3>3, <3>4
  <2> QED
    BY <1>1, <2>0, <2>1, <2>2, <2>3
<1>11. over \in Seq(Bytes) /\ Len(over) = Most(N, pos + n)
  BY <1>8, <1>9
<1> HIDE DEF left
<1> QED
  BY <1>10, <1>11 DEF over, N, n

\* The disks that an operation may leave between w and one with this table: the
\* inode table is a mixture, and no sectors have changed but those of ptr.
Near(w, table, ptr) ==
    {x \in Disk : /\ x.dir = w.dir /\ w.imap \subseteq x.imap
                  /\ Mixed(x.inodes, w.inodes, table)
                  /\ \A s \in DataSectors \ Range(ptr) : x.data[s] = w.data[s]}

LEMMA Itself ==
    ASSUME NEW w \in Disk, NEW table \in Table, NEW ptr
    PROVE  w \in Near(w, table, ptr)
BY DEF Near, Mixed, Disk, Table

LEMMA AllocNear ==
    ASSUME disk \in Disk, NEW table \in Table, NEW ptr, NEW got \in Seq(DataSectors)
    PROVE  AllocImages(got) \in Seq(Near(disk, table, ptr))
<1> DEFINE S == Near(disk, table, ptr)
           marked(k) == {got[m] : m \in 1 .. k}
           with(X) == [disk EXCEPT !.secmap = @ \cup X]
           images == AllocImages(got)
<1>1. Len(got) \in Nat /\ \A m \in 1 .. Len(got) : got[m] \in DataSectors
  OBVIOUS
<1>2. ASSUME NEW X \in SUBSET DataSectors PROVE with(X) \in S
  <2> DEFINE x == with(X)
  <2>1. x \in Disk /\ x.imap = disk.imap /\ x.inodes = disk.inodes /\ x.dir = disk.dir
        /\ x.data = disk.data
    BY DEF Disk
  <2> HIDE DEF x
  <2>2. x \in S
    BY <2>1, Itself DEF Near
  <2> QED
    BY <2>2 DEF x
<1>3. images = [k \in 1 .. Len(got) |-> with(marked(k))]
  BY DEF AllocImages
<1>4. ASSUME NEW k \in 1 .. Len(got) PROVE marked(k) \in SUBSET DataSectors
  BY <1>1
<1> HIDE DEF with, marked, images, S
<1>5. images \in [1 .. Len(got) -> S]
  BY <1>2, <1>3, <1>4
<1>6. images \in Seq(S)
  BY <1>1, <1>5, FunctionIsSeq
<1> QED
  BY <1>6 DEF images, S

\* The data goes to sectors of ptr.
LEMMA DataNear ==
    ASSUME NEW w \in Disk, NEW table \in Table, NEW ptr \in Seq(DataSectors), NEW d \in Near(w, table, ptr),
           NEW pos \in Nat, NEW data \in Seq(Bytes), LastBlock(pos, data) < Len(ptr)
    PROVE  /\ DataImages(d, ptr, pos, data) \in Seq(Near(w, table, ptr))
           /\ Len(DataImages(d, ptr, pos, data)) > 0
<1> DEFINE S == Near(w, table, ptr)
           images == DataImages(d, ptr, pos, data)
           first == FirstBlock(pos)
           last == LastBlock(pos, data)
<1>0. d \in Disk /\ d.dir = w.dir /\ w.imap \subseteq d.imap /\ Mixed(d.inodes, w.inodes, table)
      /\ \A s \in DataSectors \ Range(ptr) : d.data[s] = w.data[s]
  BY DEF Near
<1>1. /\ Len(images) \in Nat \ {0} /\ DOMAIN images = 1 .. Len(images)
      /\ \A k \in 1 .. Len(images) :
            /\ DataPart(d, ptr, pos, data, k) \in Content
            /\ images[k] = WithData(d, DataPart(d, ptr, pos, data, k))
      /\ first \in Nat /\ last \in Nat /\ first <= last /\ Len(images) = last - first + 1
  BY <1>0, DataSteps
<1>2. Len(ptr) \in Nat /\ last < Len(ptr)
  OBVIOUS
<1> HIDE DEF images, first, last
<1>3. ASSUME NEW k \in 1 .. Len(images), NEW s \in DataSectors \ Range(ptr)
      PROVE  DataPart(d, ptr, pos, data, k)[s] = w.data[s]
  <2>1. ASSUME NEW b \in first .. first + k - 1 PROVE ptr[b + 1] # s
    <3>1. b + 1 \in 1 .. Len(ptr)
      BY <1>1, <1>2
    <3> QED
      BY <3>1 DEF Range
  <2>2. ~\E b \in FirstBlock(pos) .. FirstBlock(pos) + k - 1 : ptr[b + 1] = s
    BY <2>1 DEF first
  <2>3. DataPart(d, ptr, pos, data, k)[s] = d.data[s]
    BY <2>2, Zenon DEF DataPart
  <2> QED
    BY <1>0, <2>3
<1>4. ASSUME NEW k \in 1 .. Len(images) PROVE images[k] \in S
  <2> DEFINE c == DataPart(d, ptr, pos, data, k)
             x == WithData(d, c)
  <2>1. c \in Content /\ images[k] = x /\ \A s \in DataSectors \ Range(ptr) : c[s] = w.data[s]
    BY <1>1, <1>3
  <2> HIDE DEF c
  <2>2. x \in Disk /\ x.dir = d.dir /\ x.imap = d.imap /\ x.inodes = d.inodes /\ x.data = c
    BY <1>0, <2>1 DEF WithData, Disk
  <2> HIDE DEF x
  <2>3. x \in S
    BY <1>0, <2>1, <2>2 DEF Near
  <2> QED
    BY <2>1, <2>3
<1>5. images = [k \in 1 .. Len(images) |-> images[k]]
  BY <1>1 DEF DataImages, images
<1> HIDE DEF S
<1>6. images \in [1 .. Len(images) -> S]
  BY <1>4, <1>5
<1>7. images \in Seq(S)
  BY <1>1, <1>6, FunctionIsSeq
<1>8. Len(images) > 0
  BY <1>1
<1> QED
  BY <1>7, <1>8 DEF images, S

LEMMA SyncNear ==
    ASSUME NEW w \in Disk, NEW table \in Table, NEW ptr, NEW d \in Near(w, table, ptr),
           d.inodes = w.inodes, NEW map \in SUBSET Inodes, w.imap \subseteq map
    PROVE  SyncImages(d, table, map) \in Seq(Near(w, table, ptr))
<1> DEFINE S == Near(w, table, ptr)
           images == SyncImages(d, table, map)
<1>0. d \in Disk /\ d.dir = w.dir
      /\ \A s \in DataSectors \ Range(ptr) : d.data[s] = w.data[s]
  BY DEF Near
<1>1. /\ Len(images) \in Nat \ {0} /\ DOMAIN images = 1 .. Len(images)
      /\ \A k \in 1 .. Len(images) :
           \E x : Mixed(x, d.inodes, table) /\ images[k] = WithTable(d, map, x)
  BY <1>0, SyncSteps
<1> HIDE DEF images
<1>2. ASSUME NEW k \in 1 .. Len(images) PROVE images[k] \in S
  <2>1. PICK y : Mixed(y, d.inodes, table) /\ images[k] = WithTable(d, map, y)
    BY <1>1
  <2> DEFINE x == WithTable(d, map, y)
  <2>2. y \in Table
    BY <1>0, <2>1 DEF Mixed, Table, Disk
  <2>3. x \in Disk /\ x.dir = d.dir /\ x.imap = map /\ x.inodes = y /\ x.data = d.data
    BY <1>0, <2>2 DEF WithTable, Disk
  <2> HIDE DEF x
  <2>4. x \in S
    BY <1>0, <2>1, <2>3 DEF Near
  <2> QED
    BY <2>1, <2>4 DEF x
<1>3. images = [k \in 1 .. Len(images) |-> images[k]]
  BY <1>1 DEF SyncImages, images
<1> HIDE DEF S
<1>4. images \in [1 .. Len(images) -> S]
  BY <1>2, <1>3
<1>5. images \in Seq(S)
  BY <1>1, <1>4, FunctionIsSeq
<1> QED
  BY <1>5 DEF images, S

\* A file that has none of the sectors reads the same on them.
LEMMA ToldNear ==
    ASSUME NEW w \in Disk, NEW table \in Table, NEW ptr, NEW x \in Near(w, table, ptr),
           NEW j \in Inodes \ {0}, NEW y, Roomy(w.inodes), Roomy(table),
           Told(w.inodes[j], w, y), Told(table[j], w, y),
           Range(w.inodes[j].ptr) \cap Range(ptr) = {}, Range(table[j].ptr) \cap Range(ptr) = {}
    PROVE  Told(x.inodes[j], x, y)
<1> DEFINE ino == x.inodes[j]
<1>1. ino \in {w.inodes[j], table[j]} /\ \A s \in DataSectors \ Range(ptr) : x.data[s] = w.data[s]
  BY DEF Near, Mixed
<1>2. ino \in Inode /\ Told(ino, w, y) /\ Range(ino.ptr) \cap Range(ptr) = {}
      /\ (ino.size > 0 => ino.size < SECTOR * Len(ino.ptr))
  BY <1>1 DEF Disk, Table, Roomy
<1> HIDE DEF ino
<1>3. Range(ino.ptr) \subseteq DataSectors
  BY <1>2 DEF Inode, Range
<1>4. \A s \in Range(ino.ptr) : x.data[s] = w.data[s]
  BY <1>1, <1>2, <1>3
<1>5. Told(ino, x, y)
  BY <1>2, <1>4, ToldStill
<1> QED
  BY <1>5 DEF ino

LEMMA ToldEmpty == ASSUME NEW d, NEW x PROVE Told(Empty, d, x) <=> Len(x) = 0
<1>1. \A p \in 0 .. 0 - 1 : FALSE
  OBVIOUS
<1> QED
  BY <1>1 DEF Told, Empty

\* Without power only the disk counts.
LEMMA OffTold ==
    ASSUME ~on', \A d \in Fds : fds'[d] = Closed, text' \in [Inodes -> Seq(Bytes)],
           \A j \in Inodes \ ({0} \cup tainted') : Told(disk'.inodes[j], disk', text'[j]),
           \A e \in Slots : disk'.dir[e].inode \in disk'.imap \cup tainted' \cup {-1, 0}
    PROVE  TextInv'
<1>1. Tables' = {disk'.inodes}
  BY DEF Tables
<1>2. \A d \in Fds : fds'[d].inode = 0
  BY DEF Closed
<1> QED
  BY <1>1, <1>2, Zenon DEF TextInv

LEMMA ToldOnDisk ==
    ASSUME TextInv, NEW j \in Inodes \ ({0} \cup tainted)
    PROVE  Told(disk.inodes[j], disk, text[j]) /\ (on => Told(inodes[j], disk, text[j]))
BY DEF TextInv, Tables

LEMMA InitTold == Init => TextInv
<1> SUFFICES ASSUME Init PROVE TextInv
  OBVIOUS
<1>1. text = [j \in Inodes |-> <<>>] /\ on = FALSE /\ fds = [d \in Fds |-> Closed] /\ disk = BlankDisk
  BY DEF Init
<1>2. <<>> \in Seq(Bytes) /\ Len(<<>>) = 0
  OBVIOUS
<1>3. text \in [Inodes -> Seq(Bytes)] /\ \A j \in Inodes : Len(text[j]) = 0
  BY <1>1, <1>2
<1>4. Tables = {NoInodes}
  BY <1>1 DEF Tables, BlankDisk
<1>5. \A t \in Tables : \A j \in Inodes : Told(t[j], disk, text[j])
  BY <1>3, <1>4, ToldEmpty DEF NoInodes
<1>6. \A d \in Fds : fds[d].inode = 0
  BY <1>1 DEF Closed
<1>7. \A e \in Slots : disk.dir[e].inode = 0
  BY <1>1 DEF BlankDisk
<1> QED
  BY <1>3, <1>5, <1>6, <1>7 DEF TextInv

LEMMA PowerOffTold == ASSUME IInv, TextInv, PowerOff PROVE TextInv'
<1>1. Forget /\ UNCHANGED <<disk, text, tainted>>
  BY DEF PowerOff
<1>2. \A j \in Inodes \ ({0} \cup tainted) : Told(disk.inodes[j], disk, text[j])
  BY ToldOnDisk
<1> QED
  BY <1>1, <1>2, OffTold DEF TextInv, Forget

\* On a disk that has not been formatted no file has a byte.
LEMMA BlankTold ==
    ASSUME IInv, TextInv, ~disk.super
    PROVE  /\ disk = BlankDisk
           /\ \A j \in Inodes \ ({0} \cup tainted) : Len(text[j]) = 0
<1>1. disk = BlankDisk
  BY DEF IInv, Fresh, Ready, Kept, GoodDisk
<1>2. ASSUME NEW j \in Inodes \ ({0} \cup tainted) PROVE Len(text[j]) = 0
  <2>1. Told(disk.inodes[j], disk, text[j])
    BY ToldOnDisk
  <2>2. disk.inodes[j] = Empty
    BY <1>1 DEF BlankDisk, NoInodes
  <2> QED
    BY <2>1, <2>2, ToldEmpty
<1> QED
  BY <1>1, <1>2

LEMMA FormattedTold ==
    ASSUME NEW d, NEW t \in {NoInodes, RootTable}, NEW x, Len(x) = 0, NEW j \in Inodes \ {0}
    PROVE  Told(t[j], d, x)
<1>1. t[j] = Empty
  BY DEF NoInodes, RootTable
<1> QED
  BY <1>1, ToldEmpty

LEMMA BootTold == ASSUME IInv, TextInv, Boot PROVE TextInv'
<1>1. /\ ~on /\ on' = TRUE /\ inodes' = disk'.inodes /\ imap' = disk'.imap
      /\ disk' = (IF disk.super THEN disk ELSE Last(FormatImages))
      /\ UNCHANGED <<fds, text, tainted>>
  BY DEF Boot, history
<1>2. Tables' = {disk'.inodes}
  BY <1>1 DEF Tables
<1>3. \A d \in Fds : fds'[d].inode = 0
  BY <1>1 DEF IInv, Off, Closed
<1>4. text' \in [Inodes -> Seq(Bytes)]
  BY <1>1 DEF TextInv
<1>5. /\ \A j \in Inodes \ ({0} \cup tainted) : Told(disk'.inodes[j], disk', text[j])
      /\ \A e \in Slots : disk'.dir[e].inode \in disk'.imap \cup tainted \cup {-1, 0}
  <2>1. CASE disk.super
    <3>1. disk' = disk
      BY <1>1, <2>1
    <3> QED
      BY <3>1, ToldOnDisk DEF TextInv
  <2>2. CASE ~disk.super
    <3>1. disk' = Last(FormatImages)
      BY <1>1, <2>2
    <3>2. disk = BlankDisk /\ \A j \in Inodes \ ({0} \cup tainted) : Len(text[j]) = 0
      BY <2>2, BlankTold
    <3>3. disk'.inodes = RootTable /\ \A e \in Slots : disk'.dir[e].inode \in {-1, 0}
      BY <3>1, <3>2, FormatSteps
    <3> QED
      BY <3>2, <3>3, FormattedTold
  <2> QED
    BY <2>1, <2>2
<1> QED
  BY <1>1, <1>2, <1>3, <1>4, <1>5, Zenon DEF TextInv

LEMMA BootCutTold == ASSUME IInv, TextInv, BootCut PROVE TextInv'
<1>1. /\ ~disk.super /\ Forget /\ UNCHANGED <<text, tainted>>
      /\ \E k \in 1 .. Len(FormatImages) - 1 : disk' = FormatImages[k]
  BY DEF BootCut, CutIn
<1>2. disk = BlankDisk /\ \A j \in Inodes \ ({0} \cup tainted) : Len(text[j]) = 0
  BY <1>1, BlankTold
<1>3. PICK k \in 1 .. 6 : disk' = FormatImages[k]
  <2>1. Len(FormatImages) = 7
    BY <1>2, FormatSteps
  <2> QED
    BY <1>1, <2>1
<1>4. disk'.inodes \in {NoInodes, RootTable} /\ \A e \in Slots : disk'.dir[e].inode \in {-1, 0}
  <2>1. CASE k \in 1 .. 5
    <3>1. FreshDisk(disk')
      BY <1>2, <1>3, <2>1, FormatSteps
    <3>2. disk'.dir = BlankDisk.dir /\ disk'.inodes \in {NoInodes, RootTable}
      BY <3>1 DEF FreshDisk
    <3>3. \A e \in Slots : BlankDisk.dir[e].inode = 0
      BY DEF BlankDisk
    <3> QED
      BY <3>2, <3>3
  <2>2. CASE k = 6
    BY <1>2, <1>3, <2>2, FormatSteps
  <2> QED
    BY <2>1, <2>2
<1>5. \A j \in Inodes \ ({0} \cup tainted) : Told(disk'.inodes[j], disk', text[j])
  BY <1>2, <1>4, FormattedTold
<1>6. text' \in [Inodes -> Seq(Bytes)]
  BY <1>1 DEF TextInv
<1> QED
  BY <1>1, <1>4, <1>5, <1>6, OffTold DEF Forget

LEMMA OpenTold ==
    ASSUME NEW d \in Fds, NEW name \in Names, NEW append \in BOOLEAN,
           IInv, TextInv, Open(d, name, append)
    PROVE  TextInv'
<1> DEFINE j == disk.dir[FirstOf(Matches(name))].inode
           fd == [inode |-> j, rw |-> IF append THEN inodes[j].size ELSE 0]
<1>1. /\ on /\ Matches(name) # {} /\ inodes' = inodes
      /\ fds' = [fds EXCEPT ![d] = fd]
      /\ UNCHANGED <<disk, on, imap, text, tainted>>
  BY DEF Open, Opened, history
<1>2. Typed /\ Ready /\ Running
  BY <1>1, NothingFound DEF IInv, Ready
<1>3. FirstOf(Matches(name)) \in Slots /\ j \in Inodes \ {0}
  BY <1>1, <1>2, FoundInode
<1>4. j \notin tainted => j \in imap
  <2>1. j \in disk.imap \cup tainted \cup {-1, 0}
    BY <1>3 DEF TextInv
  <2>2. j # -1
    BY <1>3, Numbers
  <2> QED
    BY <1>2, <1>3, <2>1, <2>2 DEF Running
<1>5. fd.inode = j /\ fd.rw <= inodes[j].size
  <2>1. inodes[j].size \in Nat
    BY <1>2, <1>3, Constants, Multiple DEF Typed, Table, Inode
  <2> QED
    BY <2>1
<1> HIDE DEF j, fd
<1>6. \A c \in Fds : fds'[c].inode \notin {0} \cup tainted =>
        fds'[c].inode \in imap /\ fds'[c].rw <= inodes[fds'[c].inode].size
  <2>1. \A c \in Fds : fds'[c] = IF c = d THEN fd ELSE fds[c]
    BY <1>1, <1>2 DEF Typed
  <2>2. \A c \in Fds : fds[c].inode \notin {0} \cup tainted =>
          fds[c].inode \in imap /\ fds[c].rw <= inodes[fds[c].inode].size
    BY DEF TextInv
  <2> QED
    BY <1>4, <1>5, <2>1, <2>2
<1>7. Tables' = Tables
  BY <1>1 DEF Tables
<1> QED
  BY <1>1, <1>6, <1>7 DEF TextInv

LEMMA CloseTold == ASSUME NEW d \in Fds, IInv, TextInv, Close(d) PROVE TextInv'
<1>1. fds' = [fds EXCEPT ![d] = Closed] /\ UNCHANGED <<disk, on, inodes, imap, text, tainted>>
  BY DEF Close, history
<1>2. \A c \in Fds : fds'[c].inode = 0 \/ fds'[c] = fds[c]
  BY <1>1 DEF Closed, IInv, Typed
<1>3. Tables' = Tables
  BY <1>1 DEF Tables
<1> QED
  BY <1>1, <1>2, <1>3 DEF TextInv

LEMMA UnlinkTold == ASSUME NEW name \in Names, IInv, TextInv, Unlink(name) PROVE TextInv'
<1> DEFINE e == FirstOf(Matches(name))
<1>1. /\ disk' = [disk EXCEPT !.dir = [@ EXCEPT ![e] = FreeEntry]]
      /\ UNCHANGED <<on, inodes, imap, fds, text, tainted>>
  BY DEF Unlink, memory, history
<1>2. disk \in Disk
  BY DEF IInv, Typed
<1>3. /\ disk'.imap = disk.imap /\ disk'.inodes = disk.inodes /\ disk'.data = disk.data
      /\ \A f \in Slots : disk'.dir[f] \in {disk.dir[f], FreeEntry}
  BY <1>1, <1>2 DEF Disk
<1>4. Tables' = Tables
  BY <1>1, <1>3 DEF Tables
<1>5. \A t \in Tables : \A j \in Inodes \ ({0} \cup tainted) : Told(t[j], disk', text[j])
  BY <1>3 DEF TextInv, Told
<1>6. \A f \in Slots : disk'.dir[f].inode \in disk'.imap \cup tainted \cup {-1, 0}
  BY <1>3 DEF TextInv, FreeEntry
<1> QED
  BY <1>1, <1>4, <1>5, <1>6 DEF TextInv

\* What a create leaves of the others: the new inode was nobody's.
LEMMA CreateTold ==
    ASSUME NEW d \in Fds, NEW name \in Names, IInv, TextInv, Create(d, name)
    PROVE  TextInv'
<1> DEFINE e == FirstOf(FreeSlots)
           j == NextInode
           table == [inodes EXCEPT ![j] = Empty]
           named == NamedDisk(e, j, name)
<1>1. /\ CanCreate(d, name) /\ disk' = Last(CreateImages(name, j))
      /\ inodes' = table /\ imap' = imap \cup {j}
      /\ fds' = [fds EXCEPT ![d] = [inode |-> j, rw |-> 0]]
      /\ text' = [text EXCEPT ![j] = <<>>] /\ on' = on /\ tainted' = tainted
  BY DEF Create, Opened
<1>2. /\ Typed /\ Ready /\ on /\ e \in Slots /\ j \in Inodes \ {0} /\ j \notin imap
      /\ table \in Table /\ named \in Disk
      /\ disk' = WithTable(named, imap \cup {j}, table)
      /\ \A x \in Slots : named.dir[x] =
            IF x = e THEN [inode |-> j, name |-> KeptName(name)] ELSE disk.dir[x]
  BY <1>1, CreateSteps
<1>3. inodes \in Table /\ text \in [Inodes -> Seq(Bytes)] /\ imap = disk.imap /\ disk \in Disk
      /\ fds \in [Fds -> Desc]
  BY <1>2 DEF Typed, TextInv, Ready, Running
<1>4. named.data = disk.data
  BY <1>3 DEF NamedDisk, Disk
<1> HIDE DEF named, e, j
<1>5. disk'.data = disk.data /\ disk'.inodes = table /\ disk'.imap = imap \cup {j}
      /\ disk'.dir = named.dir
  BY <1>2, <1>4 DEF WithTable, Disk
<1>6. table[j] = Empty /\ \A m \in Inodes \ {j} : table[m] = inodes[m]
  BY <1>2, <1>3 DEF Table
<1>7. text' \in [Inodes -> Seq(Bytes)] /\ text'[j] = <<>> /\ \A m \in Inodes \ {j} : text'[m] = text[m]
  <2>1. <<>> \in Seq(Bytes)
    OBVIOUS
  <2> QED
    BY <1>1, <1>2, <1>3, <2>1
<1> HIDE DEF table
<1>8. \A t \in Tables' : \A m \in Inodes \ ({0} \cup tainted) : Told(t[m], disk', text'[m])
  <2>1. Tables' = {table}
    BY <1>1, <1>5 DEF Tables
  <2>2. ASSUME NEW m \in Inodes \ ({0} \cup tainted) PROVE Told(table[m], disk', text'[m])
    <3>1. CASE m = j
      <4>1. Len(<<>>) = 0
        OBVIOUS
      <4> QED
        BY <1>6, <1>7, <3>1, <4>1, ToldEmpty
    <3>2. CASE m # j
      <4>1. Told(inodes[m], disk, text[m])
        BY <1>2, ToldOnDisk
      <4> QED
        BY <1>5, <1>6, <1>7, <3>2, <4>1 DEF Told
    <3> QED
      BY <3>1, <3>2
  <2> QED
    BY <2>1, <2>2
<1>9. ASSUME NEW c \in Fds, fds'[c].inode \notin {0} \cup tainted
      PROVE  fds'[c].inode \in imap' /\ fds'[c].rw <= inodes'[fds'[c].inode].size
  <2>1. CASE c = d
    <3>1. fds'[c].inode = j /\ fds'[c].rw = 0
      BY <1>1, <1>3, <2>1
    <3> QED
      BY <1>1, <1>6, <3>1 DEF Empty
  <2>2. CASE c # d
    <3>1. fds'[c] = fds[c]
      BY <1>1, <1>3, <2>2
    <3>2. fds[c].inode \in imap /\ fds[c].rw <= inodes[fds[c].inode].size
      BY <1>9, <3>1 DEF TextInv
    <3>3. fds[c].inode \in Inodes \ {j}
      BY <1>2, <1>3, <3>2 DEF Desc
    <3> QED
      BY <1>1, <1>6, <3>1, <3>2, <3>3
  <2> QED
    BY <2>1, <2>2
<1>10. ASSUME NEW x \in Slots PROVE disk'.dir[x].inode \in disk'.imap \cup tainted \cup {-1, 0}
  <2>1. disk.dir[x].inode \in disk.imap \cup tainted \cup {-1, 0}
    BY DEF TextInv
  <2>2. disk'.imap = disk.imap \cup {j} /\ disk'.dir[x] = named.dir[x]
    BY <1>3, <1>5
  <2>3. CASE x = e
    <3>1. disk'.dir[x].inode = j
      BY <1>2, <2>2, <2>3
    <3> QED
      BY <2>2, <3>1
  <2>4. CASE x # e
    <3>1. disk'.dir[x] = disk.dir[x]
      BY <1>2, <2>2, <2>4
    <3> QED
      BY <2>1, <2>2, <3>1
  <2> QED
    BY <2>3, <2>4
<1> QED
  BY <1>1, <1>7, <1>8, <1>9, <1>10 DEF TextInv

LEMMA CreateCutTold ==
    ASSUME NEW d \in Fds, NEW name \in Names, IInv, TextInv, CreateCut(d, name)
    PROVE  TextInv'
<1> DEFINE e == FirstOf(FreeSlots)
           j == NextInode
           table == [inodes EXCEPT ![j] = Empty]
           named == NamedDisk(e, j, name)
           near == Near(named, table, <<>>)
           sync == SyncImages(named, table, imap \cup {j})
           images == CreateImages(name, j)
<1>1. /\ CanCreate(d, name) /\ Forget
      /\ \E k \in 1 .. Len(images) - 1 : disk' = images[k]
      /\ text' = [text EXCEPT ![j] = <<>>] /\ tainted' = tainted \cup {j}
  BY DEF CreateCut, CutIn
<1>2. /\ Typed /\ Ready /\ on /\ e \in Slots /\ j \in Inodes \ {0} /\ j \notin imap
      /\ table \in Table /\ GoodTable(table, disk.secmap) /\ named \in Disk
      /\ \A x \in Slots : named.dir[x] =
            IF x = e THEN [inode |-> j, name |-> KeptName(name)] ELSE disk.dir[x]
  BY <1>1, CreateSteps
<1>3. inodes \in Table /\ text \in [Inodes -> Seq(Bytes)] /\ disk \in Disk /\ imap = disk.imap
      /\ imap \in SUBSET Inodes /\ GoodTable(disk.inodes, disk.secmap)
  BY <1>2 DEF Typed, TextInv, Ready, Running, Kept, GoodDisk
<1>4. named.data = disk.data /\ named.inodes = disk.inodes /\ named.imap = disk.imap
  BY <1>3 DEF NamedDisk, Disk
<1>5. images = <<named>> \o sync
  BY DEF CreateImages, NamedDisk
<1> HIDE DEF named, e, j
<1>6. table[j] = Empty /\ \A m \in Inodes \ {j} : table[m] = inodes[m]
  BY <1>2, <1>3 DEF Table
<1>7. text' \in [Inodes -> Seq(Bytes)] /\ \A m \in Inodes \ {j} : text'[m] = text[m]
  <2>1. <<>> \in Seq(Bytes)
    OBVIOUS
  <2> QED
    BY <1>1, <1>2, <1>3, <2>1
<1> HIDE DEF table, images, sync
<1>8. disk' \in near
  <2>1. named \in near
    BY <1>2, Itself
  <2> HIDE DEF near
  <2>2. sync \in Seq(near)
    <3>1. imap \cup {j} \in SUBSET Inodes /\ named.imap \subseteq imap \cup {j}
      BY <1>2, <1>3, <1>4
    <3> QED
      BY <1>2, <2>1, <3>1, SyncNear DEF sync, near
  <2>3. <<named>> \in Seq(near)
    BY <2>1, OneImage
  <2>4. images \in Seq(near)
    BY <1>5, <2>2, <2>3, LastOfBoth
  <2> QED
    BY <1>1, <2>4, CutImage
<1>9. disk'.dir = named.dir /\ named.imap \subseteq disk'.imap
  BY <1>8 DEF Near
<1>10. ASSUME NEW m \in Inodes \ ({0} \cup tainted') PROVE Told(disk'.inodes[m], disk', text'[m])
  <2>1. m \in Inodes \ ({0} \cup tainted) /\ m \in Inodes \ {j}
    BY <1>1
  <2>2. Told(disk.inodes[m], disk, text[m]) /\ Told(inodes[m], disk, text[m])
    BY <1>2, <2>1, ToldOnDisk
  <2>3. Told(named.inodes[m], named, text'[m]) /\ Told(table[m], named, text'[m])
    BY <1>4, <1>6, <1>7, <2>1, <2>2 DEF Told
  <2>4. Range(<<>>) = {}
    BY DEF Range
  <2>5. Roomy(table) /\ Roomy(named.inodes)
    BY <1>2, <1>3, <1>4 DEF GoodTable
  <2> QED
    BY <1>2, <1>8, <2>1, <2>3, <2>4, <2>5, ToldNear
<1>11. ASSUME NEW x \in Slots PROVE disk'.dir[x].inode \in disk'.imap \cup tainted' \cup {-1, 0}
  <2>1. disk.dir[x].inode \in disk.imap \cup tainted \cup {-1, 0}
    BY DEF TextInv
  <2> QED
    BY <1>1, <1>2, <1>4, <1>9, <2>1
<1> QED
  BY <1>1, <1>7, <1>10, <1>11, OffTold DEF Forget

\* The sectors of the file that is written, before and after, are not those of
\* another one.
LEMMA OthersApart ==
    ASSUME IInv, NEW d \in Fds, NEW n \in Sizes, CanWrite(d), NEW got \in Sectors(Grown(d, n)),
           ~TooLong(d, n), NEW m \in Inodes \ {fds[d].inode}
    PROVE  /\ Written(d, n, got)[m] = inodes[m]
           /\ Range(inodes[m].ptr) \cap Range(GrownPtr(d, got)) = {}
           /\ Range(disk.inodes[m].ptr) \cap Range(GrownPtr(d, got)) = {}
<1> DEFINE j == fds[d].inode
           table == Written(d, n, got)
<1>1. /\ Typed /\ j \in Inodes
  BY WriteGot
<1>2. GoodTable(table, disk.secmap \cup Range(got)) /\ Apart(table, disk.inodes)
  BY WrittenTable
<1>3. table[m] = inodes[m] /\ table[j].ptr = GrownPtr(d, got)
  BY <1>1 DEF Written, WrittenInode, Typed, Table
<1> HIDE DEF table
<1>4. Range(table[m].ptr) \cap Range(table[j].ptr) = {}
  BY <1>1, <1>2 DEF GoodTable, Apart
<1>5. Range(table[j].ptr) \cap Range(disk.inodes[m].ptr) = {}
  BY <1>1, <1>2 DEF Apart
<1> QED
  BY <1>3, <1>4, <1>5 DEF table

\* The disk after a write, and the images on the way to it.
LEMMA WriteNear ==
    ASSUME IInv, NEW d \in Fds, NEW n \in Sizes, CanWrite(d), NEW got \in Sectors(Grown(d, n)),
           ~TooLong(d, n)
    PROVE  LET near == Near(disk, Written(d, n, got), GrownPtr(d, got))
               last == LastBlock(fds[d].rw, Data(d, n))
               part == DataPart(Marked(got), GrownPtr(d, got), fds[d].rw, Data(d, n),
                                last - FirstBlock(fds[d].rw) + 1)
           IN /\ WriteImages(d, n, got) \in Seq(near)
              /\ Last(WriteImages(d, n, got)) \in near
              /\ Last(WriteImages(d, n, got)) =
                    WithTable(WithData(Marked(got), part), imap, Written(d, n, got))
              /\ part \in Content
              /\ Data(d, n) \in Seq(Bytes) /\ Len(Data(d, n)) = n
              /\ GrownPtr(d, got) \in Seq(DataSectors) /\ IsInjective(GrownPtr(d, got))
              /\ last \in Nat /\ last < Len(GrownPtr(d, got))
<1> DEFINE j == fds[d].inode
           pos == fds[d].rw
           bytes == Data(d, n)
           table == Written(d, n, got)
           ptr == GrownPtr(d, got)
           near == Near(disk, table, ptr)
           alloc == AllocImages(got)
           d1 == Last(<<disk>> \o alloc)
           data == DataImages(d1, ptr, pos, bytes)
           d2 == Last(data)
           sync == SyncImages(d2, table, imap)
           images == WriteImages(d, n, got)
           first == FirstBlock(pos)
           last == LastBlock(pos, bytes)
           part == DataPart(Marked(got), ptr, pos, bytes, last - first + 1)
<1>1. /\ Typed /\ Ready /\ on /\ j \in Inodes \ {0} /\ pos \in Nat /\ n \in Nat
      /\ got \in Seq(DataSectors) /\ Len(got) \in Nat /\ Len(inodes[j].ptr) \in Nat
      /\ WriteEnd(d, n) \in Nat /\ WriteEnd(d, n) + 1 <= Len(inodes[j].ptr) + Len(got)
  BY WriteGot
<1>2. table \in Table /\ table[j].ptr = ptr
  <2>1. table \in Table
    BY WrittenTable
  <2> QED
    BY <1>1, <2>1 DEF Written, WrittenInode, Typed, Table
<1>3. disk \in Disk /\ disk \in Kept(torn, clipped) /\ imap = disk.imap /\ imap \in SUBSET Inodes
  BY <1>1 DEF Ready, Running, Typed
<1>4. bytes \in Seq(Bytes) /\ Len(bytes) = n
  <2>1. pos + n < SECTOR * MAX_BLOCKS
    BY WriteSize
  <2>2. SECTOR * MAX_BLOCKS \in Nat
    BY Constants, Multiple
  <2>3. n <= SECTOR * MAX_BLOCKS
    <3> HIDE DEF pos
    <3> QED
      BY <1>1, <2>1, <2>2
  <2> QED
    BY <1>1, <2>3, DataTyped
<1>5. ptr \in Seq(DataSectors) /\ IsInjective(ptr) /\ Len(ptr) = Len(inodes[j].ptr) + Len(got)
  <2>1. ptr \in Seq(DataSectors) /\ IsInjective(ptr)
    <3>1. table[j] \in Inode /\ IsInjective(table[j].ptr)
      BY <1>1, <1>2 DEF Table
    <3> QED
      BY <1>2, <3>1 DEF Inode
  <2>2. inodes[j].ptr \in Seq(DataSectors)
    BY <1>1 DEF Typed, Table, Inode
  <2>3. ptr = inodes[j].ptr \o got
    BY DEF GrownPtr
  <2> QED
    BY <1>1, <2>1, <2>2, <2>3, ConcatProperties
<1>6. last \in Nat /\ last < Len(ptr)
  <2>1. last = WriteEnd(d, n)
    BY <1>4 DEF LastBlock, WriteEnd
  <2> QED
    BY <1>1, <1>5, <2>1
<1>7. d1 = Marked(got) /\ d1 \in Disk
  <2>1. d1 = Marked(got) /\ d1 \in Kept(torn, clipped)
    BY <1>1, <1>3, AllocSteps DEF Marked
  <2> QED
    BY <2>1 DEF Kept
<1>8. alloc \in Seq(near) /\ d1 \in near
  <2>1. alloc \in Seq(near)
    BY <1>1, <1>2, <1>3, AllocNear
  <2>2. disk \in near
    BY <1>2, <1>3, Itself
  <2>3. d1.dir = disk.dir /\ d1.imap = disk.imap /\ d1.inodes = disk.inodes /\ d1.data = disk.data
    <3> HIDE DEF d1
    <3> QED
      BY <1>3, <1>7 DEF Marked, Disk
  <2> HIDE DEF d1, table, ptr
  <2>4. d1 \in near
    BY <1>7, <2>2, <2>3 DEF Near
  <2> QED
    BY <2>1, <2>4
<1> HIDE DEF bytes, table, ptr, alloc, d1, pos
<1>9. data \in Seq(near) /\ Len(data) > 0
  BY <1>1, <1>2, <1>3, <1>4, <1>5, <1>6, <1>8, DataNear
<1>10. d2 = WithData(d1, part) /\ part \in Content
  <2>1. /\ Len(data) \in Nat \ {0}
        /\ \A k \in 1 .. Len(data) : /\ DataPart(d1, ptr, pos, bytes, k) \in Content
                                     /\ data[k] = WithData(d1, DataPart(d1, ptr, pos, bytes, k))
        /\ Len(data) = last - first + 1
    BY <1>1, <1>4, <1>7, DataSteps
  <2> HIDE DEF data, first, last
  <2>2. Len(data) \in 1 .. Len(data) /\ d2 = data[Len(data)]
    BY <2>1 DEF Last
  <2>3. part = DataPart(d1, ptr, pos, bytes, Len(data))
    BY <1>7, <2>1
  <2> HIDE DEF part, d2
  <2> QED
    BY <2>1, <2>2, <2>3
<1> HIDE DEF near, data, part
<1>11. d2 \in near
  BY <1>9, LastIn
<1>12. d2 \in Disk /\ d2.inodes = disk.inodes
  <2>1. d2 \in Disk
    BY <1>11 DEF near, Near
  <2>2. d1.inodes = disk.inodes
    BY <1>3, <1>7 DEF Marked, Disk
  <2> HIDE DEF d2
  <2> QED
    BY <1>7, <1>10, <2>1, <2>2 DEF WithData, Disk
<1> HIDE DEF d2
<1>13. sync \in Seq(near)
  BY <1>2, <1>3, <1>11, <1>12, SyncNear DEF near
<1>14. Len(sync) > 0 /\ Last(sync) = WithTable(d2, imap, table)
  <2>1. Len(sync) \in Nat \ {0} /\ Last(sync) = WithTable(d2, imap, table)
    BY <1>2, <1>3, <1>12, SyncSteps
  <2> QED
    BY <2>1
<1>15. images = (alloc \o data) \o sync
  BY DEF WriteImages, Written, alloc, data, d1, d2, table, ptr, pos, bytes
<1> HIDE DEF sync, images
<1>16. images \in Seq(near) /\ Last(images) = Last(sync)
  <2>1. alloc \o data \in Seq(near)
    BY <1>8, <1>9, LastOfBoth
  <2> QED
    BY <1>13, <1>14, <1>15, <2>1, LastOfBoth
<1>17. Last(images) \in near
  BY <1>13, <1>14, <1>16, LastIn
<1>18. Last(images) = WithTable(WithData(Marked(got), part), imap, table)
  BY <1>7, <1>10, <1>14, <1>16
<1> QED
  BY <1>4, <1>5, <1>6, <1>10, <1>16, <1>17, <1>18
     DEF images, near, part, table, ptr, pos, bytes, first, last

LEMMA WriteCutTold ==
    ASSUME NEW d \in Fds, NEW n \in Sizes, NEW got \in Sectors(Grown(d, n)),
           IInv, TextInv, WriteCut(d, n, got)
    PROVE  TextInv'
<1> DEFINE j == fds[d].inode
           table == IF TooLong(d, n) THEN disk.inodes ELSE Written(d, n, got)
           ptr == IF TooLong(d, n) THEN <<>> ELSE GrownPtr(d, got)
<1>1. CanWrite(d) /\ Forget
  BY DEF WriteCut, CutIn
<1>2. /\ Typed /\ Ready /\ on /\ j \in Inodes /\ got \in Seq(DataSectors)
  BY <1>1, WriteGot
<1>3. text \in [Inodes -> Seq(Bytes)] /\ disk \in Disk /\ disk.inodes \in Table
      /\ GoodTable(disk.inodes, disk.secmap)
  BY <1>2 DEF TextInv, Typed, Ready, Kept, GoodDisk, Disk
<1>4. table \in Table /\ Roomy(table)
  <2>1. CASE TooLong(d, n)
    BY <1>3, <2>1 DEF GoodTable
  <2>2. CASE ~TooLong(d, n)
    <3>1. Written(d, n, got) \in Table /\ Roomy(Written(d, n, got))
      BY <1>1, <2>2, WrittenTable DEF GoodTable
    <3> QED
      BY <2>2, <3>1
  <2> QED
    BY <2>1, <2>2
<1>5. disk' \in Near(disk, table, ptr)
  <2>1. CASE TooLong(d, n)
    <3>1. \E k \in 1 .. Len(AllocImages(got)) - 1 : disk' = AllocImages(got)[k]
      BY <2>1 DEF WriteCut, CutIn
    <3>2. AllocImages(got) \in Seq(Near(disk, table, ptr))
      BY <1>2, <1>3, <1>4, AllocNear
    <3> QED
      BY <3>1, <3>2, CutImage
  <2>2. CASE ~TooLong(d, n)
    <3>1. \E k \in 1 .. Len(WriteImages(d, n, got)) - 1 : disk' = WriteImages(d, n, got)[k]
      BY <2>2 DEF WriteCut, CutIn
    <3>2. WriteImages(d, n, got) \in Seq(Near(disk, Written(d, n, got), GrownPtr(d, got)))
      BY <1>1, <2>2, WriteNear
    <3>3. table = Written(d, n, got) /\ ptr = GrownPtr(d, got)
      BY <2>2
    <3> HIDE DEF table, ptr
    <3> QED
      BY <3>1, <3>2, <3>3, CutImage
  <2> QED
    BY <2>1, <2>2
<1>6. /\ text' \in [Inodes -> Seq(Bytes)] /\ tainted \subseteq tainted'
      /\ \A m \in Inodes \ tainted' : text'[m] = text[m]
      /\ ~TooLong(d, n) => j \in tainted'
  <2>1. CASE TooLong(d, n)
    BY <1>3, <2>1 DEF WriteCut
  <2>2. CASE ~TooLong(d, n)
    <3>1. tainted' = tainted \cup {j} /\ text' = [text EXCEPT ![j] = <<>>]
      BY <2>2 DEF WriteCut
    <3>2. <<>> \in Seq(Bytes)
      OBVIOUS
    <3> QED
      BY <1>2, <1>3, <3>1, <3>2
  <2> QED
    BY <2>1, <2>2
<1>7. ASSUME NEW m \in Inodes \ ({0} \cup tainted') PROVE Told(disk'.inodes[m], disk', text'[m])
  <2>1. m \in Inodes \ ({0} \cup tainted) /\ text'[m] = text[m]
    BY <1>6
  <2>2. Told(disk.inodes[m], disk, text'[m]) /\ Told(inodes[m], disk, text'[m])
    BY <1>2, <2>1, ToldOnDisk
  <2>3. /\ Told(table[m], disk, text'[m])
        /\ Range(disk.inodes[m].ptr) \cap Range(ptr) = {} /\ Range(table[m].ptr) \cap Range(ptr) = {}
    <3>1. CASE TooLong(d, n)
      <4>1. Range(<<>>) = {}
        BY DEF Range
      <4> QED
        BY <2>2, <3>1, <4>1
    <3>2. CASE ~TooLong(d, n)
      <4>1. m # j
        BY <1>6, <3>2
      <4>2. /\ Written(d, n, got)[m] = inodes[m]
            /\ Range(inodes[m].ptr) \cap Range(GrownPtr(d, got)) = {}
            /\ Range(disk.inodes[m].ptr) \cap Range(GrownPtr(d, got)) = {}
        BY <1>1, <2>1, <3>2, <4>1, OthersApart
      <4> QED
        BY <2>2, <3>2, <4>2
    <3> QED
      BY <3>1, <3>2
  <2> HIDE DEF table, ptr
  <2> QED
    BY <1>3, <1>4, <1>5, <2>1, <2>2, <2>3, ToldNear DEF GoodTable
<1>8. ASSUME NEW x \in Slots PROVE disk'.dir[x].inode \in disk'.imap \cup tainted' \cup {-1, 0}
  <2>1. disk'.dir = disk.dir /\ disk.imap \subseteq disk'.imap
    BY <1>5 DEF Near
  <2>2. disk.dir[x].inode \in disk.imap \cup tainted \cup {-1, 0}
    BY DEF TextInv
  <2> QED
    BY <1>6, <2>1, <2>2
<1> QED
  BY <1>1, <1>6, <1>7, <1>8, OffTold DEF Forget

\* A file that gets more sectors reads the same.
LEMMA ToldGrown ==
    ASSUME NEW ino \in Inode, ino.size > 0 => ino.size < SECTOR * Len(ino.ptr),
           NEW got \in Seq(DataSectors), NEW new, new.size = ino.size, new.ptr = ino.ptr \o got,
           NEW d, NEW e, e.data = d.data, NEW x, Told(ino, d, x)
    PROVE  Told(new, e, x)
<1>1. ASSUME NEW p \in 0 .. ino.size - 1
      PROVE  e.data[new.ptr[p \div SECTOR + 1]][p % SECTOR] = x[p + 1]
  <2> DEFINE b == p \div SECTOR
  <2>1. b + 1 \in 1 .. Len(ino.ptr)
    BY SectorOf
  <2>2. d.data[ino.ptr[b + 1]][p % SECTOR] = x[p + 1]
    BY DEF Told
  <2> HIDE DEF b
  <2>3. new.ptr[b + 1] = ino.ptr[b + 1]
    <3>1. ino.ptr \in Seq(DataSectors)
      BY DEF Inode
    <3>2. /\ Len(ino.ptr) \in Nat /\ Len(got) \in Nat
          /\ \A i \in 1 .. Len(ino.ptr) + Len(got) : new.ptr[i] =
                IF i <= Len(ino.ptr) THEN ino.ptr[i] ELSE got[i - Len(ino.ptr)]
      BY <3>1, ConcatProperties
    <3>3. b + 1 \in 1 .. Len(ino.ptr) + Len(got) /\ b + 1 <= Len(ino.ptr)
      BY <2>1, <3>2
    <3> QED
      BY <3>2, <3>3
  <2>4. e.data[new.ptr[b + 1]][p % SECTOR] = x[p + 1]
    BY <2>2, <2>3
  <2> QED
    BY <2>4 DEF b
<1> QED
  BY <1>1 DEF Told

\* The tables after a call that has grown inode j and made no file shorter.
LEMMA GrownTold ==
    ASSUME IInv, TextInv, on, NEW j \in Inodes,
           UNCHANGED <<on, imap, fds>>, disk'.dir = disk.dir, disk'.imap = disk.imap,
           tainted \subseteq tainted', text' \in [Inodes -> Seq(Bytes)],
           \A t \in Tables' : \A m \in Inodes \ ({0} \cup tainted') : Told(t[m], disk', text'[m]),
           \A m \in Inodes \ {j} : inodes'[m] = inodes[m],
           inodes'[j].size \in Nat, inodes[j].size <= inodes'[j].size
    PROVE  TextInv'
<1>1. fds \in [Fds -> Desc] /\ inodes \in Table
  BY DEF IInv, Typed
<1>2. ASSUME NEW c \in Fds, fds'[c].inode \notin {0} \cup tainted'
      PROVE  fds'[c].inode \in imap' /\ fds'[c].rw <= inodes'[fds'[c].inode].size
  <2> DEFINE m == fds[c].inode
             rw == fds[c].rw
  <2>1. m \in Inodes /\ rw \in Nat /\ m \notin {0} \cup tainted
    BY <1>1, <1>2, Constants, Multiple DEF Desc
  <2>2. m \in imap /\ rw <= inodes[m].size
    BY <2>1 DEF TextInv
  <2>3. inodes[m].size \in Nat /\ inodes[m].size <= inodes'[m].size /\ inodes'[m].size \in Nat
    <3>1. inodes[m].size \in Nat
      BY <1>1, <2>1, Constants, Multiple DEF Table, Inode
    <3> QED
      BY <2>1, <3>1
  <2> HIDE DEF m, rw
  <2>4. rw <= inodes'[m].size
    BY <2>1, <2>2, <2>3
  <2> QED
    BY <2>2, <2>4 DEF m, rw
<1>3. \A x \in Slots : disk'.dir[x].inode \in disk'.imap \cup tainted' \cup {-1, 0}
  BY DEF TextInv
<1> QED
  BY <1>2, <1>3 DEF TextInv

LEMMA WriteFailsTold ==
    ASSUME NEW d \in Fds, NEW n \in Sizes, NEW got \in Sectors(Grown(d, n)),
           IInv, TextInv, WriteFails(d, n, got)
    PROVE  TextInv'
<1> DEFINE j == fds[d].inode
<1>1. /\ CanWrite(d) /\ disk' = Last(<<disk>> \o AllocImages(got))
      /\ inodes' = [inodes EXCEPT ![j].ptr = GrownPtr(d, got)]
      /\ UNCHANGED <<on, imap, fds, text, tainted>>
  BY DEF WriteFails, WithGot, history
<1>2. Typed /\ Ready /\ on /\ j \in Inodes \ {0} /\ got \in Seq(DataSectors)
  BY <1>1, WriteGot
<1>3. inodes \in Table /\ disk \in Disk /\ Roomy(inodes) /\ disk \in Kept(torn, clipped)
  BY <1>2 DEF Typed, Ready, Running, GoodTable
<1>4. disk' = Marked(got)
  BY <1>1, <1>2, <1>3, AllocSteps DEF Marked
<1>5. disk'.data = disk.data /\ disk'.inodes = disk.inodes /\ disk'.dir = disk.dir
      /\ disk'.imap = disk.imap
  BY <1>3, <1>4 DEF Marked, Disk
<1>6. /\ inodes'[j].size = inodes[j].size /\ inodes'[j].ptr = inodes[j].ptr \o got
      /\ \A m \in Inodes \ {j} : inodes'[m] = inodes[m]
  <2>1. inodes[j] \in Inode
    BY <1>2, <1>3 DEF Table
  <2> QED
    BY <1>1, <1>2, <1>3, <2>1 DEF Table, Inode, GrownPtr
<1>7. inodes[j].size \in Nat
  BY <1>2, <1>3, Constants, Multiple DEF Table, Inode
<1>8. ASSUME NEW t \in Tables', NEW m \in Inodes \ ({0} \cup tainted)
      PROVE  Told(t[m], disk', text[m])
  <2>1. Told(disk.inodes[m], disk, text[m]) /\ Told(inodes[m], disk, text[m])
    BY <1>2, ToldOnDisk
  <2>2. CASE t = disk'.inodes
    BY <1>5, <2>1, <2>2 DEF Told
  <2>3. CASE t = inodes'
    <3>1. CASE m # j
      BY <1>5, <1>6, <2>1, <2>3, <3>1 DEF Told
    <3>2. CASE m = j
      <4>1. inodes[j] \in Inode /\ (inodes[j].size > 0 => inodes[j].size < SECTOR * Len(inodes[j].ptr))
        BY <1>2, <1>3 DEF Table, Roomy
      <4>2. Told(inodes[j], disk, text[j])
        BY <2>1, <3>2
      <4> DEFINE ino == inodes[j]
                 new == inodes'[j]
      <4>3. ino \in Inode /\ (ino.size > 0 => ino.size < SECTOR * Len(ino.ptr))
            /\ new.size = ino.size /\ new.ptr = ino.ptr \o got /\ Told(ino, disk, text[j])
        BY <1>6, <4>1, <4>2
      <4> HIDE DEF ino, new
      <4>4. Told(new, disk', text[j])
        BY <1>2, <1>5, <4>3, ToldGrown
      <4> QED
        BY <2>3, <3>2, <4>4 DEF new
    <3> QED
      BY <3>1, <3>2
  <2> QED
    BY <2>2, <2>3 DEF Tables
<1>9. inodes[j].size <= inodes'[j].size /\ inodes'[j].size \in Nat
  <2> DEFINE old == inodes[j].size
             new == inodes'[j].size
  <2>1. new = old /\ old \in Nat
    BY <1>6, <1>7
  <2> HIDE DEF old, new
  <2>2. old <= new /\ new \in Nat
    BY <2>1
  <2> QED
    BY <2>2 DEF old, new
<1>10. text' \in [Inodes -> Seq(Bytes)]
  BY <1>1 DEF TextInv
<1> QED
  BY <1>1, <1>2, <1>5, <1>6, <1>8, <1>9, <1>10, GrownTold

\* The byte at a position of the file after a write, and the writes that do not
\* end inside the last of several sectors.
ByteAfter(old, pos, data, at) ==
    IF pos <= at /\ at < pos + Len(data) THEN data[at - pos + 1] ELSE old
Whole(pos, data) == ~(LastBlock(pos, data) > FirstBlock(pos) /\ (pos + Len(data)) % SECTOR # 0)

\* The bytes of the sectors of a file after a write that does not end inside the
\* last of several sectors.
LEMMA DataByte ==
    ASSUME NEW d \in Disk, NEW ptr \in Seq(DataSectors), IsInjective(ptr), NEW pos \in Nat,
           NEW data \in Seq(Bytes), LastBlock(pos, data) < Len(ptr),
           Whole(pos, data),
           NEW b \in Nat, b < Len(ptr), NEW k \in 0 .. SECTOR - 1
    PROVE  DataPart(d, ptr, pos, data, LastBlock(pos, data) - FirstBlock(pos) + 1)[ptr[b + 1]][k] =
              ByteAfter(d.data[ptr[b + 1]][k], pos, data, SECTOR * b + k)
<1> DEFINE n == Len(data)
           first == FirstBlock(pos)
           last == LastBlock(pos, data)
           len == last - first + 1
           blocks == first .. first + len - 1
           s == ptr[b + 1]
           part == DataPart(d, ptr, pos, data, len)
           inside == pos <= SECTOR * b + k /\ SECTOR * b + k < pos + n
<1>1. Len(ptr) \in Nat /\ n \in Nat /\ SECTOR \in Nat \ {0}
  <2>1. Len(ptr) \in Nat /\ n \in Nat
    OBVIOUS
  <2> QED
    BY <2>1, Constants
<1> HIDE DEF n
<1>2. /\ first \in Nat /\ last \in Nat /\ SECTOR * first \in Nat /\ SECTOR * last \in Nat
      /\ SECTOR * first <= pos /\ pos + n < SECTOR * last + SECTOR /\ first <= last
  <2>1. pos + n \in Nat
    BY <1>1
  <2>2. first \in Nat /\ SECTOR * first \in Nat
        /\ \E r \in 0 .. SECTOR - 1 : pos = SECTOR * first + r
    BY <1>1, Division DEF FirstBlock
  <2>3. last \in Nat /\ SECTOR * last \in Nat
        /\ \E r \in 0 .. SECTOR - 1 : pos + n = SECTOR * last + r
    BY <1>1, <2>1, Division DEF LastBlock, n
  <2>4. first <= last
    BY DataSteps
  <2> HIDE DEF first, last
  <2> QED
    BY <1>1, <2>1, <2>2, <2>3, <2>4
<1> HIDE DEF first, last
<1>3. blocks = first .. last
  BY <1>2
<1> HIDE DEF len
<1>4. b + 1 \in 1 .. Len(ptr) /\ s \in DataSectors
  BY <1>1
<1>5. \A c \in blocks : ptr[c + 1] = s => c = b
  <2> SUFFICES ASSUME NEW c \in first .. last, ptr[c + 1] = s PROVE c = b
    BY <1>3
  <2>1. c \in Nat /\ c + 1 \in 1 .. Len(ptr)
    BY <1>1, <1>2 DEF last
  <2>2. c + 1 = b + 1
    BY <1>4, <2>1 DEF IsInjective
  <2> QED
    BY <2>1, <2>2
<1>6. part[s] = IF \E c \in blocks : ptr[c + 1] = s
                THEN BlockAfter(d.data[s], CHOOSE c \in blocks : ptr[c + 1] = s, pos, data)
                ELSE d.data[s]
  <2> HIDE DEF s
  <2> QED
    BY <1>4, Zenon DEF DataPart, first
<1>7. CASE b \in first .. last
  <2>1. b \in blocks
    BY <1>3, <1>7
  <2> HIDE DEF blocks
  <2>2. (CHOOSE c \in blocks : ptr[c + 1] = s) = b
    BY <1>5, <2>1
  <2>3. \E c \in blocks : ptr[c + 1] = s
    BY <2>1
  <2> HIDE DEF part, s
  <2>4. part[s] = BlockAfter(d.data[s], b, pos, data)
    BY <1>6, <2>2, <2>3, Zenon
  <2>5. BlockAfter(d.data[s], b, pos, data)[k] =
          IF pos <= SECTOR * b + k /\ SECTOR * b + k < pos + Len(data)
          THEN data[(SECTOR * b + k) - pos + 1] ELSE d.data[s][k]
    BY <1>7, BlockByte DEF first, last, Whole
  <2>6. part[s][k] = IF pos <= SECTOR * b + k /\ SECTOR * b + k < pos + Len(data)
                     THEN data[(SECTOR * b + k) - pos + 1] ELSE d.data[s][k]
    BY <2>4, <2>5, Zenon
  <2> QED
    BY <2>6, Zenon DEF part, s, len, first, last, ByteAfter
<1>8. CASE b \notin first .. last
  <2>1. ~\E c \in blocks : ptr[c + 1] = s
    BY <1>3, <1>5, <1>8
  <2>2. ~inside
    <3>1. k \in Nat /\ k < SECTOR /\ SECTOR * b \in Nat
      BY <1>1, Multiple
    <3>2. CASE b < first
      <4>1. SECTOR * b + SECTOR <= SECTOR * first
        BY <1>1, <1>2, <3>2, Monotonic
      <4> QED
        BY <1>1, <1>2, <3>1, <4>1
    <3>3. CASE last < b
      <4>1. SECTOR * last + SECTOR <= SECTOR * b
        BY <1>1, <1>2, <3>3, Monotonic
      <4> QED
        BY <1>1, <1>2, <3>1, <4>1
    <3> QED
      BY <1>2, <1>8, <3>2, <3>3
  <2> HIDE DEF part, s, blocks, inside
  <2>3. part[s][k] = d.data[s][k]
    BY <1>6, <2>1, Zenon
  <2>4. part[s][k] = IF inside THEN data[(SECTOR * b + k) - pos + 1] ELSE d.data[s][k]
    BY <2>2, <2>3, Zenon
  <2> QED
    BY <2>4, Zenon DEF part, s, len, first, last, inside, n, ByteAfter
<1> QED
  BY <1>7, <1>8

\* read returns what was written.
LEMMA ToldWritten ==
    ASSUME NEW d \in Disk, NEW ino \in Inode, ino.size > 0 => ino.size < SECTOR * Len(ino.ptr),
           NEW got \in Seq(DataSectors), NEW ptr \in Seq(DataSectors), IsInjective(ptr),
           ptr = ino.ptr \o got,
           NEW pos \in Nat, pos <= ino.size, NEW data \in Seq(Bytes), LastBlock(pos, data) < Len(ptr),
           Whole(pos, data),
           NEW x \in Seq(Bytes), Told(ino, d, x),
           NEW new, new.size = Most(ino.size, pos + Len(data)), new.ptr = ptr,
           NEW e, e.data = DataPart(d, ptr, pos, data, LastBlock(pos, data) - FirstBlock(pos) + 1)
    PROVE  Told(new, e, Overlay(x, pos, data))
<1> DEFINE n == Len(data)
           over == Overlay(x, pos, data)
<1>1. Len(x) = ino.size
  BY DEF Told
<1>2. /\ Len(over) = new.size
      /\ \A p \in 0 .. new.size - 1 :
            over[p + 1] = IF pos <= p /\ p < pos + n THEN data[p - pos + 1] ELSE x[p + 1]
  BY <1>1, OverlayByte
<1>3. ino.size \in Nat /\ n \in Nat /\ new.size \in Nat /\ ino.ptr \in Seq(DataSectors)
  <2>1. ino.size \in Nat /\ ino.ptr \in Seq(DataSectors)
    BY Constants, Multiple DEF Inode
  <2>2. n \in Nat
    OBVIOUS
  <2> HIDE DEF n
  <2>3. new.size \in Nat
    BY <2>1, <2>2 DEF Most, n
  <2> QED
    BY <2>1, <2>2, <2>3
<1> HIDE DEF over
<1>4. ASSUME NEW b \in Nat, b < Len(ptr), NEW k \in 0 .. SECTOR - 1
      PROVE  e.data[ptr[b + 1]][k] = ByteAfter(d.data[ptr[b + 1]][k], pos, data, SECTOR * b + k)
  <2> DEFINE part == DataPart(d, ptr, pos, data, LastBlock(pos, data) - FirstBlock(pos) + 1)
  <2>1. part[ptr[b + 1]][k] = ByteAfter(d.data[ptr[b + 1]][k], pos, data, SECTOR * b + k)
    <3>1. LastBlock(pos, data) < Len(ptr) /\ Whole(pos, data) /\ IsInjective(ptr) /\ b < Len(ptr)
      BY <1>4
    <3> QED
      BY <3>1, DataByte, Zenon
  <2>2. e.data = part
    OBVIOUS
  <2> QED
    BY <2>1, <2>2, Zenon
<1>5. ASSUME NEW p \in 0 .. new.size - 1
      PROVE  e.data[new.ptr[p \div SECTOR + 1]][p % SECTOR] = over[p + 1]
  <2> DEFINE b == p \div SECTOR
             k == p % SECTOR
             old == d.data[ptr[b + 1]][k]
             inside == pos <= p /\ p < pos + n
  <2>1. p \in Nat /\ p < new.size
    BY <1>3
  <2>2. b \in Nat /\ k \in 0 .. SECTOR - 1 /\ SECTOR * b \in Nat /\ p = SECTOR * b + k
    BY <2>1, BlockOf
  <2>3. ~inside => p < ino.size
    <3> HIDE DEF n
    <3> QED
      BY <1>3, <2>1 DEF Most, n
  <2>4. b < Len(ptr)
    <3>1. CASE inside
      <4>1. /\ LastBlock(pos, data) \in Nat /\ SECTOR * LastBlock(pos, data) \in Nat
            /\ \E r \in 0 .. SECTOR - 1 : pos + n = SECTOR * LastBlock(pos, data) + r
        <5>1. SECTOR \in Nat \ {0} /\ pos + n \in Nat
          BY <1>3, Constants
        <5> QED
          BY <5>1, Division DEF LastBlock
      <4> DEFINE last == LastBlock(pos, data)
      <4>2. last < b => SECTOR * last + SECTOR <= SECTOR * b
        BY <2>2, <4>1, Constants, Monotonic
      <4>3. last \in Nat /\ SECTOR * last \in Nat /\ pos + n < SECTOR * last + SECTOR
        <5> HIDE DEF last, n
        <5>1. SECTOR \in Nat
          BY Constants
        <5> QED
          BY <1>3, <4>1, <5>1 DEF last, n
      <4>4. last < Len(ptr) /\ Len(ptr) \in Nat /\ SECTOR \in Nat
        BY Constants
      <4>5. p < pos + n
        BY <3>1
      <4> DEFINE lower == SECTOR * b
                 upper == SECTOR * last
      <4>6. /\ lower \in Nat /\ upper \in Nat /\ p = lower + k /\ k \in Nat
            /\ last < b => upper + SECTOR <= lower
            /\ pos + n < upper + SECTOR
        <5> HIDE DEF b, k, last, n, inside
        <5> QED
          BY <2>2, <4>2, <4>3
      <4> HIDE DEF b, k, last, n, inside, lower, upper
      <4>7. ~(last < b)
        BY <1>3, <4>4, <4>5, <4>6
      <4> QED
        BY <2>2, <4>3, <4>4, <4>7
    <3>2. CASE ~inside
      <4>1. p \in 0 .. ino.size - 1
        BY <1>3, <2>1, <2>3, <3>2
      <4>2. b < Len(ino.ptr)
        BY <4>1, SectorOf
      <4>3. Len(ptr) = Len(ino.ptr) + Len(got) /\ Len(ino.ptr) \in Nat /\ Len(got) \in Nat
        BY <1>3, ConcatProperties
      <4> HIDE DEF b
      <4> QED
        BY <2>2, <4>2, <4>3
    <3> QED
      BY <3>1, <3>2
  <2>5. e.data[ptr[b + 1]][k] = IF inside THEN data[p - pos + 1] ELSE old
    <3>1. e.data[ptr[b + 1]][k] = ByteAfter(d.data[ptr[b + 1]][k], pos, data, SECTOR * b + k)
      <4> HIDE DEF b, k
      <4> QED
        BY <1>4, <2>2, <2>4
    <3>2. SECTOR * b + k = p
      BY <2>2
    <3> HIDE DEF b, k
    <3> QED
      BY <3>1, <3>2, Zenon DEF n, ByteAfter
  <2>6. ~inside => old = x[p + 1]
    <3> SUFFICES ASSUME ~inside PROVE old = x[p + 1]
      OBVIOUS
    <3>1. p \in 0 .. ino.size - 1
      BY <1>3, <2>1, <2>3
    <3>2. d.data[ino.ptr[b + 1]][k] = x[p + 1]
      BY <3>1 DEF Told
    <3>3. b + 1 \in 1 .. Len(ino.ptr)
      BY <3>1, SectorOf
    <3> HIDE DEF b, k
    <3>4. ptr[b + 1] = ino.ptr[b + 1]
      <4>1. /\ Len(ino.ptr) \in Nat /\ Len(got) \in Nat
            /\ \A i \in 1 .. Len(ino.ptr) + Len(got) : ptr[i] =
                  IF i <= Len(ino.ptr) THEN ino.ptr[i] ELSE got[i - Len(ino.ptr)]
        BY <1>3, ConcatProperties
      <4>2. b + 1 \in 1 .. Len(ino.ptr) + Len(got) /\ b + 1 <= Len(ino.ptr)
        BY <3>3, <4>1
      <4> QED
        BY <4>1, <4>2
    <3> QED
      BY <3>2, <3>4
  <2>7. over[p + 1] = IF inside THEN data[p - pos + 1] ELSE x[p + 1]
    BY <1>2
  <2> HIDE DEF inside, old, b, k
  <2>8. e.data[ptr[b + 1]][k] = over[p + 1]
    BY <2>5, <2>6, <2>7, Zenon
  <2> QED
    BY <2>8 DEF b, k
<1> QED
  BY <1>2, <1>5 DEF Told, over

LEMMA WriteTold ==
    ASSUME NEW d \in Fds, NEW n \in Sizes, NEW got \in Sectors(Grown(d, n)),
           IInv, TextInv, Write(d, n, got)
    PROVE  TextInv'
<1> DEFINE j == fds[d].inode
           pos == fds[d].rw
           bytes == Data(d, n)
           table == Written(d, n, got)
           ptr == GrownPtr(d, got)
           marked == Marked(got)
           part == DataPart(marked, ptr, pos, bytes, LastBlock(pos, bytes) - FirstBlock(pos) + 1)
<1>1. /\ CanWrite(d) /\ ~TooLong(d, n) /\ disk' = Last(WriteImages(d, n, got)) /\ inodes' = table
      /\ tainted' = (IF WrongTail(d, n) THEN tainted \cup {j} ELSE tainted)
      /\ text' = [text EXCEPT ![j] = IF j \in tainted' THEN <<>> ELSE Overlay(@, pos, bytes)]
      /\ UNCHANGED <<on, imap, fds>>
  BY DEF Write, Written
<1>2. /\ Typed /\ Ready /\ on /\ j \in Inodes \ {0} /\ pos \in Nat /\ n \in Nat
      /\ got \in Seq(DataSectors)
  BY <1>1, WriteGot
<1>3. /\ inodes \in Table /\ Roomy(inodes) /\ disk \in Disk /\ imap = disk.imap
      /\ disk \in Kept(torn, clipped) /\ text \in [Inodes -> Seq(Bytes)]
  BY <1>2 DEF Typed, Ready, Running, GoodTable, TextInv
<1>4. marked \in Disk /\ marked.data = disk.data /\ marked.dir = disk.dir /\ marked.imap = disk.imap
  <2>1. marked \in Kept(torn, clipped)
    BY <1>2, <1>3, AllocSteps DEF Marked
  <2> QED
    BY <1>3, <2>1 DEF Kept, Marked, Disk
<1>5. /\ disk' \in Near(disk, table, ptr)
      /\ disk' = WithTable(WithData(marked, part), imap, table)
      /\ bytes \in Seq(Bytes) /\ Len(bytes) = n
      /\ ptr \in Seq(DataSectors) /\ IsInjective(ptr)
      /\ LastBlock(pos, bytes) \in Nat /\ LastBlock(pos, bytes) < Len(ptr)
  BY <1>1, WriteNear
<1>6. table \in Table /\ Roomy(table)
  BY <1>1, WrittenTable DEF GoodTable
<1>7. table[j].size = Most(inodes[j].size, pos + n) /\ table[j].ptr = ptr /\ ptr = inodes[j].ptr \o got
  BY <1>2, <1>3 DEF Written, WrittenInode, Table, GrownPtr
<1>8. \A m \in Inodes \ {j} : table[m] = inodes[m]
  BY <1>2, <1>3 DEF Written, Table
<1>9. ~WrongTail(d, n) => Whole(pos, bytes)
  BY <1>5 DEF WrongTail, Whole, LastBlock, FirstBlock, WriteEnd
<1> HIDE DEF table, marked, part, bytes, ptr
<1>10. disk'.dir = disk.dir /\ disk'.imap = disk.imap /\ disk'.inodes = table /\ disk'.data = part
  <2> DEFINE x == WithData(marked, part)
  <2>1. x.dir = disk.dir /\ x = [marked EXCEPT !.data = part] /\ disk' = [x EXCEPT !.imap = imap, !.inodes = table]
    BY <1>4, <1>5 DEF WithData, WithTable, Disk
  <2> QED
    BY <1>3, <1>4, <2>1 DEF Disk
<1>11. inodes[j] \in Inode /\ inodes[j].size \in Nat /\ table[j].size \in Nat
       /\ (inodes[j].size > 0 => inodes[j].size < SECTOR * Len(inodes[j].ptr))
       /\ inodes[j].size <= table[j].size
  <2>1. inodes[j] \in Inode /\ (inodes[j].size > 0 => inodes[j].size < SECTOR * Len(inodes[j].ptr))
    BY <1>2, <1>3 DEF Table, Roomy
  <2>2. inodes[j].size \in Nat
    BY <2>1, Constants, Multiple DEF Inode
  <2> HIDE DEF j, pos
  <2> QED
    BY <1>2, <1>7, <2>1, <2>2 DEF Most
<1>12. j \notin tainted' => /\ j \notin tainted /\ Whole(pos, bytes) /\ pos <= inodes[j].size
                            /\ Told(inodes[j], disk, text[j]) /\ text'[j] = Overlay(text[j], pos, bytes)
  <2> SUFFICES ASSUME j \notin tainted'
               PROVE  /\ j \notin tainted /\ Whole(pos, bytes) /\ pos <= inodes[j].size
                      /\ Told(inodes[j], disk, text[j]) /\ text'[j] = Overlay(text[j], pos, bytes)
    OBVIOUS
  <2>1. j \notin tainted /\ ~WrongTail(d, n)
    BY <1>1
  <2>2. pos <= inodes[j].size
    BY <1>2, <2>1 DEF TextInv
  <2>3. Told(inodes[j], disk, text[j])
    BY <1>2, <2>1, ToldOnDisk
  <2>4. text'[j] = Overlay(text[j], pos, bytes)
    BY <1>1, <1>2, <1>3
  <2> QED
    BY <1>9, <2>1, <2>2, <2>3, <2>4
<1>13. text' \in [Inodes -> Seq(Bytes)] /\ \A m \in Inodes \ {j} : text'[m] = text[m]
  <2>1. (IF j \in tainted' THEN <<>> ELSE Overlay(text[j], pos, bytes)) \in Seq(Bytes)
    <3>1. <<>> \in Seq(Bytes)
      OBVIOUS
    <3>2. ASSUME j \notin tainted' PROVE Overlay(text[j], pos, bytes) \in Seq(Bytes)
      <4>1. text[j] \in Seq(Bytes) /\ pos <= Len(text[j])
        BY <1>2, <1>3, <1>12, <3>2 DEF Told
      <4> QED
        BY <1>2, <1>5, <4>1, OverlayByte
    <3> QED
      BY <3>1, <3>2
  <2> QED
    BY <1>1, <1>2, <1>3, <2>1
<1>14. ASSUME NEW m \in Inodes \ ({0} \cup tainted') PROVE Told(table[m], disk', text'[m])
  <2>1. CASE m # j
    <3>1. m \in Inodes \ ({0} \cup tainted) /\ text'[m] = text[m]
      BY <1>1, <1>13, <2>1
    <3>2. Told(inodes[m], disk, text'[m]) /\ Told(disk.inodes[m], disk, text'[m])
      BY <1>2, <3>1, ToldOnDisk
    <3>3. Range(inodes[m].ptr) \cap Range(ptr) = {} /\ Range(disk.inodes[m].ptr) \cap Range(ptr) = {}
      BY <1>1, <2>1, OthersApart DEF ptr
    <3>4. Roomy(disk.inodes)
      BY <1>3 DEF Kept, GoodDisk, GoodTable
    <3>5. Told(disk'.inodes[m], disk', text'[m])
      <4>1. table[m] = inodes[m]
        BY <1>8, <2>1
      <4> QED
        BY <1>3, <1>5, <1>6, <3>1, <3>2, <3>3, <3>4, <4>1, ToldNear
    <3> QED
      BY <1>10, <3>5
  <2>2. CASE m = j
    <3> DEFINE ino == inodes[j]
               x == text[j]
               new == table[j]
    <3>1. Whole(pos, bytes) /\ pos <= ino.size /\ Told(ino, disk, x) /\ text'[m] = Overlay(x, pos, bytes)
      BY <1>12, <2>2
    <3>2. x \in Seq(Bytes)
      BY <1>2, <1>3
    <3>3. ino \in Inode /\ (ino.size > 0 => ino.size < SECTOR * Len(ino.ptr))
          /\ new.size = Most(ino.size, pos + Len(bytes)) /\ new.ptr = ptr /\ ptr = ino.ptr \o got
      BY <1>5, <1>7, <1>11
    <3>4. Told(ino, marked, x)
      BY <1>4, <3>1 DEF Told
    <3>5. disk'.data = DataPart(marked, ptr, pos, bytes, LastBlock(pos, bytes) - FirstBlock(pos) + 1)
      BY <1>10 DEF part
    <3> HIDE DEF ino, x, new, pos
    <3>6. Told(new, disk', Overlay(x, pos, bytes))
      BY <1>2, <1>4, <1>5, <3>1, <3>2, <3>3, <3>4, <3>5, ToldWritten
    <3> QED
      BY <2>2, <3>1, <3>6 DEF new
  <2> QED
    BY <2>1, <2>2
<1>15. \A t \in Tables' : \A m \in Inodes \ ({0} \cup tainted') : Told(t[m], disk', text'[m])
  BY <1>1, <1>10, <1>14 DEF Tables
<1> QED
  BY <1>1, <1>2, <1>8, <1>10, <1>11, <1>13, <1>15, GrownTold

LEMMA NextTold == IInv /\ TextInv /\ [Next]_vars => TextInv'
<1> SUFFICES ASSUME IInv, TextInv, [Next]_vars PROVE TextInv'
  OBVIOUS
<1>1. CASE UNCHANGED vars
  BY <1>1 DEF vars, memory, history, TextInv, Tables
<1>2. CASE PowerOff \/ Boot \/ BootCut
  BY <1>2, PowerOffTold, BootTold, BootCutTold
<1>3. ASSUME NEW d \in Fds, NEW name \in Names,
             \/ \E append \in BOOLEAN : Open(d, name, append)
             \/ Create(d, name) \/ CreateCut(d, name)
      PROVE  TextInv'
  BY <1>3, OpenTold, CreateTold, CreateCutTold
<1>4. ASSUME NEW d \in Fds, NEW n \in Sizes, NEW got \in Sectors(Grown(d, n)),
             Write(d, n, got) \/ WriteFails(d, n, got) \/ WriteCut(d, n, got)
      PROVE  TextInv'
  BY <1>4, WriteTold, WriteFailsTold, WriteCutTold
<1>5. ASSUME NEW d \in Fds, Close(d) PROVE TextInv'
  BY <1>5, CloseTold
<1>6. ASSUME NEW name \in Names, Unlink(name) PROVE TextInv'
  BY <1>6, UnlinkTold
<1> QED
  BY <1>1, <1>2, <1>3, <1>4, <1>5, <1>6 DEF Next

\* read returns what was written, also after a boot, but for files with a write
\* that ended inside the last of several sectors or was cut: other writes go to
\* other sectors, and the inode table comes to the disk after the data.
THEOREM ReadsWhatWasWritten == Spec => []ReadBack
<1>1. Init => TextInv
  BY InitTold
<1>2. IInv /\ TextInv /\ [Next]_vars => TextInv'
  BY NextTold
<1>3. IInv /\ TextInv => ReadBack
  <2> SUFFICES ASSUME IInv, TextInv, NEW t \in Tables, NEW j \in Inodes \ ({0} \cup tainted)
               PROVE  ReadAt(t[j], disk, 0, t[j].size) = text[j]
    BY DEF ReadBack
  <2> DEFINE ino == t[j]
             x == text[j]
             byte(p) == disk.data[ino.ptr[p \div SECTOR + 1]][p % SECTOR]
  <2>1. Told(ino, disk, x) /\ x \in Seq(Bytes)
    BY DEF TextInv
  <2>2. ino.size \in Nat
    <3>1. ino \in Inode
      BY TablesGood DEF Table
    <3> QED
      BY <3>1, Constants, Multiple DEF Inode
  <2>3. Len(x) = ino.size /\ \A p \in 0 .. ino.size - 1 : byte(p) = x[p + 1]
    BY <2>1 DEF Told
  <2>4. Least(ino.size, ino.size - 0) = ino.size
    BY <2>2 DEF Least
  <2>5. ReadAt(ino, disk, 0, ino.size) = [k \in 1 .. ino.size |-> byte(0 + k - 1)]
    BY <2>4 DEF ReadAt
  <2> HIDE DEF ino, x, byte
  <2>6. ASSUME NEW k \in 1 .. ino.size PROVE byte(0 + k - 1) = x[k]
    <3>1. 0 + k - 1 \in 0 .. ino.size - 1 /\ 0 + k - 1 + 1 = k
      BY <2>2
    <3> QED
      BY <2>3, <3>1
  <2>7. x = [k \in 1 .. ino.size |-> x[k]]
    BY <2>1, <2>3
  <2>8. ReadAt(ino, disk, 0, ino.size) = x
    BY <2>5, <2>6, <2>7, Zenon
  <2> QED
    BY <2>8 DEF ino, x
<1> QED
  BY <1>1, <1>2, <1>3, Invariance, PTL DEF Spec
=============================================================================
