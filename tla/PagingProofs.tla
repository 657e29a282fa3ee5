---------------------------- MODULE PagingProofs ----------------------------
(***************************************************************************)
(* Proofs about module Paging, for any number of processes, user pages and *)
(* physical pages, and any sizes of frame_copy_map and its scanned part.   *)
(***************************************************************************)
EXTENDS Paging, FiniteSetTheorems, TLAPS

-----------------------------------------------------------------------------
(* The inductive invariant.                                                *)

\* Only live processes map pages.
Cleaned == \A p \in Procs \ live, v \in Pages : ~Present(p, v)

\* No process maps a physical page twice.
MappedOnce ==
    \A p \in Procs, v, w \in Pages :
        Present(p, v) /\ pte[p][v].frame = pte[p][w].frame => v = w

\* The allocator will not hand out a page that is mapped.
Taken == \A p \in Procs, v \in Pages : Present(p, v) => pte[p][v].frame \in mem_bitmap

\* An entry in use counts something.
Positive == \A i \in Slots : copy_map[i].key # None => copy_map[i].cnt >= 1

\* What SharersCounted says of frame_copy_map.
Counts ==
    /\ \A i \in Slots : copy_map[i].key # None =>
         /\ copy_map[i].cnt >= 1
         /\ copy_map[i].cnt = Cardinality(Mappings(copy_map[i].key))
         /\ \A j \in Slots : copy_map[j].key = copy_map[i].key => j = i
    /\ \A f \in Pool : Cardinality(Mappings(f)) > 1 => f \in Keys

\* What ExclusiveWritable says of the page tables.
Exclusive ==
    \A p \in Procs, v \in Pages :
        Present(p, v) /\ pte[p][v].rw => Mappings(pte[p][v].frame) = {<<p, v>>}

IInv ==
    /\ TypeOK
    /\ Cleaned
    /\ MappedOnce
    /\ Taken
    /\ Positive
    /\ InWindow => Counts /\ Exclusive

-----------------------------------------------------------------------------
(* Constants, types and ptes.                                              *)

LEMMA Constants ==
    /\ None \notin Pool /\ Pool \subseteq Nat /\ 0 \in Pool /\ IsFiniteSet(Pool)
    /\ Slots \subseteq Nat /\ IsFiniteSet(Slots) /\ DecSlots \in Nat
    /\ Pages \in SUBSET Int /\ Image \in SUBSET Pages /\ IsFiniteSet(Pages) /\ IsFiniteSet(Image)
<1>1. IsFiniteSet(Pool) /\ IsFiniteSet(Slots)
  BY PoolAssumption, SlotAssumption, FS_Interval DEF Pool, Slots
<1>2. IsFiniteSet(Image)
  BY PageAssumption, FS_Subset
<1> QED
  BY <1>1, <1>2, PoolAssumption, SlotAssumption, PageAssumption DEF Pool, Slots, None

LEMMA Types ==
    ASSUME TypeOK
    PROVE  /\ \A p \in Procs, v \in Pages :
                /\ pte[p][v] \in [frame : Pool \cup {None}, rw : BOOLEAN]
                /\ pte[p][v].frame \in Pool \cup {None} /\ pte[p][v].rw \in BOOLEAN
                /\ Present(p, v) => pte[p][v].frame \in Pool
           /\ \A i \in Slots : copy_map[i].key \in Pool \cup {None} /\ copy_map[i].cnt \in Nat
BY DEF TypeOK, Present

\* A physical page has finitely many ptes.
LEMMA MappingsFinite == \A f : IsFiniteSet(Mappings(f)) /\ Cardinality(Mappings(f)) \in Nat
<1> TAKE f
<1>1. IsFiniteSet(Procs \X Pages)
  BY PageAssumption, FS_Product
<1>2. Mappings(f) \in SUBSET (Procs \X Pages)
  BY DEF Mappings
<1> QED
  BY <1>1, <1>2, FS_Subset, FS_CardinalityType

\* The same in the next state.
LEMMA MappingsFiniteNext == (\A f : IsFiniteSet(Mappings(f)) /\ Cardinality(Mappings(f)) \in Nat)'
BY MappingsFinite, PTL

-----------------------------------------------------------------------------
(* What several searches find: different places, all of them free.         *)

LEMMA FoundApart ==
    ASSUME NEW R \in SUBSET Int, NEW S \in SUBSET Int, NEW got \in InOrder(R, S)
    PROVE  /\ \A r \in R : got[r] \in S
           /\ \A r, t \in R : got[r] = got[t] => r = t
<1>1. \A r \in R : got[r] \in S
  BY DEF InOrder
<1>2. ASSUME NEW r \in R, NEW t \in R, got[r] = got[t] PROVE r = t
  <2>1. r \in Int /\ t \in Int /\ got[r] \in Int
    BY <1>1
  <2>2. ~(r < t) /\ ~(t < r)
    BY <1>2, <2>1 DEF InOrder
  <2> QED
    BY <2>1, <2>2
<1> QED
  BY <1>1, <1>2

-----------------------------------------------------------------------------
(* frame_copy_map.                                                         *)

\* dec() leaves the entries behind its part of the table alone.
LEMMA DecOutside ==
    ASSUME TypeOK, NEW K \in SUBSET Pool, copy_map' = Dec(K)
    PROVE  InWindow' => InWindow
BY DEF InWindow, Dec, Scanned, TypeOK

\* What dec() does to an entry in its part of the table.
LEMMA DecEntry ==
    ASSUME TypeOK, InWindow, NEW K \in SUBSET Pool, copy_map' = Dec(K), NEW i \in Slots
    PROVE  /\ copy_map[i].key \notin K => copy_map'[i] = copy_map[i]
           /\ copy_map[i].key \in K /\ copy_map[i].cnt = 1 => copy_map'[i] = NoEntry
           /\ copy_map[i].key \in K /\ copy_map[i].cnt # 1 =>
                /\ copy_map'[i].key = copy_map[i].key
                /\ copy_map'[i].cnt = copy_map[i].cnt - 1
<1>1. i \in Scanned(K) <=> copy_map[i].key \in K
  BY Constants DEF Scanned, InWindow, TypeOK
<1>2. copy_map'[i] = IF i \notin Scanned(K) THEN copy_map[i]
                     ELSE IF copy_map[i].cnt = 1 THEN NoEntry
                     ELSE [copy_map[i] EXCEPT !.cnt = @ - 1]
  BY DEF Dec
<1>3. copy_map[i] \in [key : Pool \cup {None}, cnt : Nat]
  BY DEF TypeOK
<1> QED
  BY <1>1, <1>2, <1>3

\* The counts stay right when every page of K loses one pte and is given to dec(),
\* and no other page gets a second one.
LEMMA DecKeepsCounts ==
    ASSUME TypeOK, InWindow, Counts, NEW K \in SUBSET Pool, copy_map' = Dec(K),
           \A f \in K : Cardinality(Mappings(f))' = Cardinality(Mappings(f)) - 1,
           \A f \in Pool \ K : \/ Cardinality(Mappings(f))' = Cardinality(Mappings(f))
                               \/ Cardinality(Mappings(f)) = 0 /\ Cardinality(Mappings(f))' = 1
    PROVE  Counts'
<1>1. \A f \in Pool : Cardinality(Mappings(f)) \in Nat /\ Cardinality(Mappings(f))' \in Nat
  BY MappingsFinite, MappingsFiniteNext
<1>2. ASSUME NEW i \in Slots, copy_map'[i].key # None
      PROVE  /\ copy_map'[i].key = copy_map[i].key /\ copy_map[i].key \in Pool
             /\ copy_map'[i].cnt = IF copy_map[i].key \in K THEN copy_map[i].cnt - 1 ELSE copy_map[i].cnt
             /\ copy_map'[i].cnt >= 1
  <2>1. copy_map'[i] # NoEntry
    BY <1>2 DEF NoEntry
  <2>2. copy_map'[i].key = copy_map[i].key
    BY <2>1, DecEntry
  <2>3. copy_map[i].cnt \in Nat /\ copy_map[i].cnt >= 1 /\ copy_map[i].key \in Pool
    BY <1>2, <2>2, Types DEF Counts
  <2> QED
    BY <2>1, <2>2, <2>3, DecEntry
<1>3. ASSUME NEW i \in Slots, copy_map'[i].key # None
      PROVE  copy_map'[i].cnt = Cardinality(Mappings(copy_map[i].key))'
  <2>1. copy_map[i].cnt = Cardinality(Mappings(copy_map[i].key)) /\ copy_map[i].cnt >= 1
    BY <1>2, <1>3, Constants DEF Counts
  <2> QED
    BY <1>1, <1>2, <1>3, <2>1
<1>4. ASSUME NEW f \in Pool, Cardinality(Mappings(f))' > 1
      PROVE  \E i \in Slots : copy_map'[i].key = f
  <2>1. Cardinality(Mappings(f)) > 1
    BY <1>1, <1>4
  <2>2. PICK i \in Slots : copy_map[i].key = f
    BY <2>1 DEF Counts, Keys
  <2>3. copy_map[i].cnt = Cardinality(Mappings(f))
    BY <2>2, Constants DEF Counts
  <2>4. f \in K => copy_map[i].cnt # 1
    BY <1>1, <1>4, <2>3
  <2> QED
    BY <2>2, <2>4, DecEntry
<1>5. \A f \in Pool : Cardinality(Mappings(f))' > 1 => f \in Keys'
  BY <1>4, Constants DEF Keys
<1>6. ASSUME NEW i \in Slots, copy_map'[i].key # None
      PROVE  /\ copy_map'[i].cnt >= 1
             /\ (copy_map[i].cnt = Cardinality(Mappings(copy_map[i].key)))'
             /\ \A j \in Slots : copy_map'[j].key = copy_map'[i].key => j = i
  <2>1. \A j \in Slots : copy_map'[j].key = copy_map'[i].key => j = i
    BY <1>2, <1>6, Constants DEF Counts
  <2> QED
    BY <1>2, <1>3, <1>6, <2>1
<1> QED
  BY <1>5, <1>6 DEF Counts

-----------------------------------------------------------------------------
(* The page tables.                                                        *)

LEMMA MappingOf ==
    /\ \A f, r : r \in Mappings(f) <=> r \in Procs \X Pages /\ pte[r[1]][r[2]].frame = f
    /\ (\A f, r : r \in Mappings(f) <=> r \in Procs \X Pages /\ pte[r[1]][r[2]].frame = f)'
BY DEF Mappings

\* Process p gives up what it maps at the pages of V and gets free physical pages
\* there, or none: what a missing page, a copy, exec and exit have in common.
Remapped(p, V, fresh) ==
    /\ fresh \in [V -> Pool \cup {None}]
    /\ \A v \in V : fresh[v] # None => fresh[v] \notin mem_bitmap
    /\ \A v, w \in V : fresh[v] # None /\ fresh[v] = fresh[w] => v = w
    /\ \A v \in V : pte'[p][v].frame = fresh[v]
    /\ \A q \in Procs, w \in Pages : q # p \/ w \notin V => pte'[q][w] = pte[q][w]
    /\ copy_map' = Dec({pte[p][v].frame : v \in V} \ {None})

LEMMA RemapInv ==
    ASSUME IInv, NEW p \in Procs, NEW V \in SUBSET Pages, NEW fresh, Remapped(p, V, fresh)
    PROVE  MappedOnce' /\ (InWindow' => Counts' /\ Exclusive')
<1> USE DEF Remapped
<1> DEFINE K == {pte[p][v].frame : v \in V} \ {None}
           New == {fresh[v] : v \in V} \ {None}
<1>1. K \in SUBSET Pool /\ New \in SUBSET Pool
  BY Types DEF IInv
<1>2. \A f \in New : Mappings(f) = {}
  BY MappingOf DEF IInv, Taken, Present
<1>3. ASSUME NEW v \in V, NEW f, f = pte[p][v].frame, f # None
      PROVE  <<p, v>> \in Mappings(f) /\ Mappings(f)' = Mappings(f) \ {<<p, v>>}
  <2>1. <<p, v>> \in Mappings(f)
    BY <1>3, MappingOf
  <2>2. f \notin New
    BY <1>2, <2>1
  <2>3. ASSUME NEW r \in Mappings(f)' PROVE r \in Mappings(f) /\ r # <<p, v>>
    <3>1. r \in Procs \X Pages /\ pte'[r[1]][r[2]].frame = f
      BY <2>3, MappingOf
    <3>2. ~(r[1] = p /\ r[2] \in V)
      BY <1>3, <2>2, <3>1
    <3>3. pte'[r[1]][r[2]] = pte[r[1]][r[2]]
      BY <3>1, <3>2
    <3> QED
      BY <3>1, <3>2, <3>3, MappingOf
  <2>4. ASSUME NEW r \in Mappings(f), r # <<p, v>> PROVE r \in Mappings(f)'
    <3>1. r \in Procs \X Pages /\ pte[r[1]][r[2]].frame = f
      BY <2>4, MappingOf
    <3>2. r[1] # p
      <4>1. r = <<r[1], r[2]>> /\ r[2] \in Pages
        BY <3>1
      <4> QED
        BY <1>3, <2>4, <3>1, <4>1 DEF IInv, MappedOnce, Present
    <3> QED
      BY <3>1, <3>2, MappingOf
  <2> QED
    BY <2>1, <2>3, <2>4
<1>4. ASSUME NEW f \in Pool, f \notin K, f \notin New PROVE Mappings(f)' = Mappings(f)
  <2>1. \A r \in Procs \X Pages : pte'[r[1]][r[2]].frame = f <=> pte[r[1]][r[2]].frame = f
    <3> TAKE r \in Procs \X Pages
    <3>1. CASE r[1] = p /\ r[2] \in V
      <4>0. f # None
        BY Constants
      <4>1. r[2] \in V /\ \A v \in V : pte[p][v].frame # f /\ fresh[v] # f
        BY <1>4, <3>1, <4>0
      <4> QED
        BY <3>1, <4>1
    <3>2. CASE ~(r[1] = p /\ r[2] \in V)
      BY <3>2
    <3> QED
      BY <3>1, <3>2
  <2>2. \A r : r \in Mappings(f)' <=> r \in Mappings(f)
    BY <2>1, MappingOf
  <2> QED
    BY <2>2
<1>5. ASSUME NEW v \in V, fresh[v] # None PROVE Mappings(fresh[v])' = {<<p, v>>}
  <2>1. Mappings(fresh[v]) = {}
    BY <1>2, <1>5
  <2>2. ASSUME NEW r \in Procs \X Pages PROVE pte'[r[1]][r[2]].frame = fresh[v] <=> r = <<p, v>>
    <3>1. r = <<r[1], r[2]>> /\ r[1] \in Procs /\ r[2] \in Pages
      BY <2>2
    <3>2. CASE r[1] = p /\ r[2] \in V
      BY <1>5, <3>1, <3>2
    <3>3. CASE ~(r[1] = p /\ r[2] \in V)
      <4>1. pte'[r[1]][r[2]] = pte[r[1]][r[2]]
        BY <3>1, <3>3
      <4>2. pte[r[1]][r[2]].frame # fresh[v]
        BY <2>1, <3>1, MappingOf
      <4> QED
        BY <3>1, <3>3, <4>1, <4>2
    <3> QED
      BY <3>2, <3>3
  <2>3. <<p, v>> \in Procs \X Pages
    OBVIOUS
  <2> QED
    BY <2>2, <2>3, MappingOf
<1>6. MappedOnce'
  <2> SUFFICES ASSUME NEW q \in Procs, NEW v \in Pages, NEW w \in Pages,
                      pte'[q][v].frame # None, pte'[q][v].frame = pte'[q][w].frame
               PROVE  v = w
    BY DEF MappedOnce, Present
  <2>1. CASE q # p \/ (v \notin V /\ w \notin V)
    BY <2>1 DEF IInv, MappedOnce, Present
  <2>2. CASE q = p /\ v \in V /\ w \in V
    BY <2>2
  <2>3. ASSUME NEW x \in V, NEW y \in Pages \ V, q = p, pte'[p][x].frame = pte'[p][y].frame,
               pte'[p][x].frame # None
        PROVE  FALSE
    <3>1. pte[p][y].frame = fresh[x] /\ fresh[x] # None
      BY <2>3
    <3>2. fresh[x] \in mem_bitmap
      BY <3>1 DEF IInv, Taken, Present
    <3> QED
      BY <3>1, <3>2
  <2> QED
    BY <2>1, <2>2, <2>3
<1>7. ASSUME InWindow' PROVE Counts' /\ Exclusive'
  <2>1. InWindow /\ Counts /\ Exclusive
    BY <1>1, <1>7, DecOutside DEF IInv
  <2>2. \A f \in K : Cardinality(Mappings(f))' = Cardinality(Mappings(f)) - 1
    <3> TAKE f \in K
    <3>1. PICK v \in V : f = pte[p][v].frame /\ f # None
      OBVIOUS
    <3>2. <<p, v>> \in Mappings(f) /\ Mappings(f)' = Mappings(f) \ {<<p, v>>}
      BY <1>3, <3>1
    <3>3. Cardinality(Mappings(f) \ {<<p, v>>}) = Cardinality(Mappings(f)) - 1
      BY <3>2, MappingsFinite, FS_RemoveElement
    <3> QED
      BY <3>2, <3>3
  <2>3. \A f \in Pool \ K : \/ Cardinality(Mappings(f))' = Cardinality(Mappings(f))
                            \/ Cardinality(Mappings(f)) = 0 /\ Cardinality(Mappings(f))' = 1
    <3> TAKE f \in Pool \ K
    <3>1. CASE f \in New
      <4>1. PICK v \in V : f = fresh[v] /\ f # None
        BY <3>1
      <4>2. Mappings(f)' = {<<p, v>>} /\ Mappings(f) = {}
        BY <1>2, <1>5, <3>1, <4>1
      <4>3. Cardinality({<<p, v>>}) = 1 /\ Cardinality({}) = 0
        BY FS_Singleton, FS_EmptySet
      <4> QED
        BY <4>2, <4>3
    <3>2. CASE f \notin New
      BY <1>4, <3>2
    <3> QED
      BY <3>1, <3>2
  <2>4. Counts'
    BY <1>1, <2>1, <2>2, <2>3, DecKeepsCounts DEF IInv
  <2>5. Exclusive'
    <3> SUFFICES ASSUME NEW q \in Procs, NEW w \in Pages,
                        pte'[q][w].frame # None, pte'[q][w].rw
                 PROVE  (Mappings(pte[q][w].frame) = {<<q, w>>})'
      BY DEF Exclusive, Present
    <3>1. CASE q = p /\ w \in V
      BY <1>5, <3>1
    <3>2. CASE ~(q = p /\ w \in V)
      <4>1. pte'[q][w] = pte[q][w] /\ Mappings(pte[q][w].frame) = {<<q, w>>}
            /\ pte[q][w].frame \in Pool
        BY <2>1, <3>2, Types DEF IInv, Exclusive, Present
      <4>2. PICK f \in Pool : f = pte[q][w].frame
        BY <4>1
      <4>3. f \notin New
        BY <1>2, <4>1, <4>2
      <4>4. f \notin K
        BY <1>3, <3>2, <4>1, <4>2
      <4>5. Mappings(f)' = {<<q, w>>}
        BY <1>4, <4>1, <4>2, <4>3, <4>4
      <4> QED
        BY <4>1, <4>2, <4>5
    <3> QED
      BY <3>1, <3>2
  <2> QED
    BY <2>4, <2>5
<1> QED
  BY <1>6, <1>7

-----------------------------------------------------------------------------
(* fork.                                                                   *)

\* The entries that add() takes for the pages it did not find: unused, and one
\* for each page.
LEMMA NewEntries ==
    ASSUME NEW p \in Procs, NEW entry \in EntriesFor(p)
    PROVE  /\ \A v \in Untracked(p) : entry[v] \in UnusedEntries /\ entry[v] \in Slots
           /\ \A v, w \in Untracked(p) : entry[v] = entry[w] => v = w
<1>1. Untracked(p) \in SUBSET Pages /\ UnusedEntries \in SUBSET Slots
  BY DEF Untracked, PresentPages, UnusedEntries
<1>2. \A x \in Pages \cup Slots : x \in Int
  BY Constants
<1>3. Untracked(p) \in SUBSET Int /\ UnusedEntries \in SUBSET Int
  BY <1>1, <1>2
<1>4. /\ \A v \in Untracked(p) : entry[v] \in UnusedEntries
      /\ \A v, w \in Untracked(p) : entry[v] = entry[w] => v = w
  BY <1>3, FoundApart DEF EntriesFor
<1> QED
  BY <1>1, <1>4

LEMMA ForkTables ==
    ASSUME IInv, NEW p \in Procs, NEW c \in Procs, p \in live, c \notin live, pte' = ForkPtes(p, c)
    PROVE  /\ \A v \in Pages : /\ pte'[p][v].frame = pte[p][v].frame /\ pte'[p][v].rw = FALSE
                               /\ pte'[c][v].frame = pte[p][v].frame /\ pte'[c][v].rw = FALSE
           /\ \A q \in Procs \ {p, c} : pte'[q] = pte[q]
           /\ pte' \in [Procs -> [Pages -> [frame : Pool \cup {None}, rw : BOOLEAN]]]
<1> DEFINE shared == [v \in Pages |-> [pte[p][v] EXCEPT !.rw = FALSE]]
<1>1. \A v \in Pages : /\ shared[v] \in [frame : Pool \cup {None}, rw : BOOLEAN]
                      /\ shared[v].frame = pte[p][v].frame /\ shared[v].rw = FALSE
  BY Types DEF IInv
<1>2. shared \in [Pages -> [frame : Pool \cup {None}, rw : BOOLEAN]]
  BY <1>1
<1>3. pte' = [pte EXCEPT ![p] = shared, ![c] = shared] /\ p # c
  BY DEF ForkPtes
<1> HIDE DEF shared
<1>4. /\ pte'[p] = shared /\ pte'[c] = shared /\ \A q \in Procs \ {p, c} : pte'[q] = pte[q]
      /\ pte' \in [Procs -> [Pages -> [frame : Pool \cup {None}, rw : BOOLEAN]]]
  BY <1>2, <1>3 DEF IInv, TypeOK
<1> QED
  BY <1>1, <1>4

\* What add() does to an entry.
LEMMA AddedEntry ==
    ASSUME TypeOK, NEW p \in Procs, NEW entry \in EntriesFor(p), copy_map' = Added(p, entry),
           NEW i \in Slots
    PROVE  /\ copy_map[i].key # None =>
                 /\ copy_map'[i].key = copy_map[i].key
                 /\ copy_map'[i].cnt = IF copy_map[i].key \in Mapped(p)
                                       THEN copy_map[i].cnt + 1 ELSE copy_map[i].cnt
           /\ \A v \in Untracked(p) : entry[v] = i =>
                 copy_map'[i] = [key |-> pte[p][v].frame, cnt |-> 2]
           /\ i \in UnusedEntries /\ (\A v \in Untracked(p) : entry[v] # i) =>
                 copy_map'[i] = copy_map[i]
<1>1. copy_map'[i] =
        IF copy_map[i].key \in Mapped(p) THEN [copy_map[i] EXCEPT !.cnt = @ + 1]
        ELSE IF \E v \in Untracked(p) : entry[v] = i
        THEN [key |-> pte[p][CHOOSE v \in Untracked(p) : entry[v] = i].frame, cnt |-> 2]
        ELSE copy_map[i]
  BY DEF Added
<1>2. copy_map[i] \in [key : Pool \cup {None}, cnt : Nat]
  BY DEF TypeOK
<1>3. None \notin Mapped(p)
  BY DEF Mapped, PresentPages, Present
<1>4. i \in UnusedEntries <=> copy_map[i].key = None
  BY DEF UnusedEntries
<1>5. /\ \A v \in Untracked(p) : entry[v] \in UnusedEntries
      /\ \A v, w \in Untracked(p) : entry[v] = entry[w] => v = w
  BY NewEntries
<1>6. ASSUME NEW v \in Untracked(p), entry[v] = i
      PROVE  copy_map'[i] = [key |-> pte[p][v].frame, cnt |-> 2]
  <2>1. i \in UnusedEntries
    BY <1>5, <1>6
  <2>2. v = CHOOSE w \in Untracked(p) : entry[w] = i
    BY <1>5, <1>6
  <2>3. copy_map[i].key \notin Mapped(p)
    BY <1>3, <1>4, <2>1
  <2> QED
    BY <1>1, <1>6, <2>2, <2>3
<1>7. copy_map[i].key # None => ~ \E v \in Untracked(p) : entry[v] = i
  BY <1>4, <1>5
<1> QED
  BY <1>1, <1>2, <1>3, <1>4, <1>6, <1>7

LEMMA ForkInv ==
    ASSUME IInv, NEW p \in Procs, NEW c \in Procs, p \in live, c \notin live,
           NEW entry \in EntriesFor(p), pte' = ForkPtes(p, c), copy_map' = Added(p, entry)
    PROVE  MappedOnce' /\ (InWindow' => Counts' /\ Exclusive')
<1>1. /\ \A v \in Pages : /\ pte'[p][v].frame = pte[p][v].frame /\ pte'[p][v].rw = FALSE
                          /\ pte'[c][v].frame = pte[p][v].frame /\ pte'[c][v].rw = FALSE
      /\ \A q \in Procs \ {p, c} : pte'[q] = pte[q]
      /\ p # c /\ \A v \in Pages : pte[c][v].frame = None
  BY ForkTables DEF IInv, Cleaned, Present
<1>2. MappedOnce'
  BY <1>1 DEF IInv, MappedOnce, Present
<1>3. ASSUME NEW v \in Pages, NEW f \in Pool, f = pte[p][v].frame
      PROVE  /\ Mappings(f)' = Mappings(f) \cup {<<c, v>>}
             /\ Cardinality(Mappings(f))' = Cardinality(Mappings(f)) + 1
  <2>0. f # None
    BY Constants
  <2>1. \A r \in Procs \X Pages : pte'[r[1]][r[2]].frame = f <=> pte[r[1]][r[2]].frame = f \/ r = <<c, v>>
    <3> TAKE r \in Procs \X Pages
    <3>1. r = <<r[1], r[2]>> /\ r[1] \in Procs /\ r[2] \in Pages
      OBVIOUS
    <3>2. CASE r[1] = c
      <4>1. pte'[r[1]][r[2]].frame = pte[p][r[2]].frame /\ pte[r[1]][r[2]].frame # f
        BY <1>1, <2>0, <3>1, <3>2
      <4>2. pte[p][r[2]].frame = f <=> r[2] = v
        BY <1>3, <2>0, <3>1 DEF IInv, MappedOnce, Present
      <4> QED
        BY <3>1, <3>2, <4>1, <4>2
    <3>3. CASE r[1] # c
      BY <1>1, <3>1, <3>3
    <3> QED
      BY <3>2, <3>3
  <2>2. \A r : r \in Mappings(f)' <=> r \in Mappings(f) \cup {<<c, v>>}
    BY <2>1, MappingOf
  <2>3. Mappings(f)' = Mappings(f) \cup {<<c, v>>}
    BY <2>2
  <2>4. <<c, v>> \notin Mappings(f)
    BY <1>1, <2>0, MappingOf
  <2>5. Cardinality(Mappings(f) \cup {<<c, v>>}) = Cardinality(Mappings(f)) + 1
    BY <2>4, MappingsFinite, FS_AddElement
  <2> QED
    BY <2>3, <2>5
<1>4. ASSUME NEW f \in Pool, f \notin Mapped(p)
      PROVE  /\ Mappings(f)' = Mappings(f)
             /\ Cardinality(Mappings(f))' = Cardinality(Mappings(f))
  <2>1. f # None /\ \A v \in Pages : pte[p][v].frame # f
    BY <1>4, Constants DEF Mapped, PresentPages, Present
  <2>2. \A r \in Procs \X Pages : pte'[r[1]][r[2]].frame = f <=> pte[r[1]][r[2]].frame = f
    <3> TAKE r \in Procs \X Pages
    <3>1. r[1] \in Procs /\ r[2] \in Pages
      OBVIOUS
    <3> QED
      BY <1>1, <2>1, <3>1
  <2>3. \A r : r \in Mappings(f)' <=> r \in Mappings(f)
    BY <2>2, MappingOf
  <2> QED
    BY <2>3
<1>5. ASSUME NEW f \in Mapped(p)
      PROVE  f \in Pool /\ \E v \in Pages : v \in PresentPages(p) /\ f = pte[p][v].frame
  BY Types DEF IInv, Mapped, PresentPages
<1>6. ASSUME InWindow' PROVE Counts' /\ Exclusive'
  <2>1. InWindow
    BY <1>6, AddedEntry DEF IInv, InWindow
  <2>2. Counts /\ Exclusive
    BY <2>1 DEF IInv
  <2> DEFINE U == UnusedEntries
             T == Untracked(p)
             First(i) == \E v \in T : entry[v] = i
             page(i) == CHOOSE v \in T : entry[v] = i
  <2>3. \A i \in Slots :
          /\ i \in U <=> copy_map[i].key = None
          /\ First(i) => /\ page(i) \in T /\ page(i) \in Pages /\ entry[page(i)] = i
                         /\ copy_map'[i].key = pte[p][page(i)].frame /\ copy_map'[i].cnt = 2
          /\ i \in U /\ ~First(i) => copy_map'[i].key = None
    <3> TAKE i \in Slots
    <3>1. i \in U <=> copy_map[i].key = None
      BY DEF UnusedEntries
    <3>2. ASSUME First(i)
          PROVE  /\ page(i) \in T /\ page(i) \in Pages /\ entry[page(i)] = i
                 /\ copy_map'[i].key = pte[p][page(i)].frame /\ copy_map'[i].cnt = 2
      <4>1. page(i) \in T /\ entry[page(i)] = i
        BY <3>2
      <4>2. page(i) \in Pages
        BY <4>1 DEF Untracked, PresentPages
      <4>3. copy_map'[i] = [key |-> pte[p][page(i)].frame, cnt |-> 2]
        BY <4>1, AddedEntry DEF IInv
      <4> QED
        BY <4>1, <4>2, <4>3
    <3>3. ASSUME i \in U, ~First(i) PROVE copy_map'[i].key = None
      BY <3>1, <3>3, AddedEntry DEF IInv
    <3> QED
      BY <3>1, <3>2, <3>3
  <2>4. \A v \in T : /\ v \in Pages /\ pte[p][v].frame \in Pool /\ pte[p][v].frame \notin Keys
                     /\ Cardinality(Mappings(pte[p][v].frame)) = 1
    <3> TAKE v \in T
    <3>1. v \in Pages /\ pte[p][v].frame \in Pool /\ pte[p][v].frame \notin Keys
      BY Types DEF IInv, Untracked, PresentPages
    <3>2. ~(Cardinality(Mappings(pte[p][v].frame)) > 1)
      BY <2>2, <3>1 DEF Counts
    <3>3. <<p, v>> \in Mappings(pte[p][v].frame)
      BY <3>1, MappingOf
    <3>4. Cardinality(Mappings(pte[p][v].frame)) # 0
      BY <3>3, MappingsFinite, FS_EmptySet
    <3>5. Cardinality(Mappings(pte[p][v].frame)) \in Nat
      BY MappingsFinite
    <3> QED
      BY <3>1, <3>2, <3>4, <3>5
  <2>5. ASSUME NEW i \in Slots, copy_map[i].key # None
        PROVE  /\ copy_map'[i].key = copy_map[i].key /\ copy_map[i].key \in Pool
               /\ copy_map'[i].cnt >= 1
               /\ (copy_map[i].cnt = Cardinality(Mappings(copy_map[i].key)))'
    <3>1. /\ copy_map[i].cnt \in Nat /\ copy_map[i].cnt >= 1 /\ copy_map[i].key \in Pool
          /\ copy_map[i].cnt = Cardinality(Mappings(copy_map[i].key))
      BY <2>2, <2>5, Types DEF IInv, Counts
    <3>2. PICK f \in Pool : f = copy_map[i].key
      BY <3>1
    <3>3. /\ copy_map'[i].key = f
          /\ copy_map'[i].cnt = IF f \in Mapped(p) THEN copy_map[i].cnt + 1 ELSE copy_map[i].cnt
      BY <2>5, <3>2, AddedEntry DEF IInv
    <3>4. Cardinality(Mappings(f))' = IF f \in Mapped(p) THEN Cardinality(Mappings(f)) + 1
                                      ELSE Cardinality(Mappings(f))
      BY <1>3, <1>4, <1>5
    <3> QED
      BY <3>1, <3>2, <3>3, <3>4
  <2>6. ASSUME NEW i \in Slots, First(i)
        PROVE  /\ copy_map'[i].cnt >= 1
               /\ (copy_map[i].cnt = Cardinality(Mappings(copy_map[i].key)))'
    <3>1. page(i) \in T /\ copy_map'[i].key = pte[p][page(i)].frame /\ copy_map'[i].cnt = 2
      BY <2>3, <2>6
    <3>2. PICK v \in Pages, f \in Pool : /\ v = page(i) /\ f = pte[p][v].frame
                                         /\ Cardinality(Mappings(f)) = 1
      BY <2>4, <3>1
    <3>3. Cardinality(Mappings(f))' = 2
      BY <1>3, <3>2
    <3> QED
      BY <3>1, <3>2, <3>3
  <2>7. ASSUME NEW i \in Slots, copy_map'[i].key # None
        PROVE  copy_map[i].key # None \/ First(i)
    BY <2>3, <2>7
  <2>8. ASSUME NEW i \in Slots, NEW j \in Slots, copy_map'[i].key # None,
               copy_map'[j].key = copy_map'[i].key
        PROVE  j = i
    <3>1. CASE copy_map[i].key # None /\ copy_map[j].key # None
      BY <2>2, <2>5, <2>8, <3>1 DEF Counts
    <3>2. CASE First(i) /\ First(j)
      <4>1. pte[p][page(i)].frame = pte[p][page(j)].frame /\ Present(p, page(i))
        BY <2>3, <2>4, <2>8, <3>2, Constants DEF Present
      <4>2. page(i) = page(j)
        BY <2>3, <3>2, <4>1 DEF IInv, MappedOnce
      <4>3. entry[page(i)] = i /\ entry[page(j)] = j
        BY <2>3, <3>2
      <4> QED
        BY <4>2, <4>3
    <3>3. ASSUME NEW x \in Slots, NEW y \in Slots, copy_map[x].key # None, First(y),
                 copy_map'[x].key = copy_map'[y].key
          PROVE  FALSE
      <4>1. copy_map[x].key \in Keys
        BY <3>3 DEF Keys
      <4>2. copy_map'[y].key \notin Keys
        BY <2>3, <2>4, <3>3
      <4> QED
        BY <2>5, <3>3, <4>1, <4>2
    <3> QED
      BY <2>7, <2>8, <3>1, <3>2, <3>3
  <2>9. ASSUME NEW f \in Pool, Cardinality(Mappings(f))' > 1
        PROVE  \E i \in Slots : copy_map'[i].key = f
    <3>1. CASE f \in Keys
      BY <2>5, <3>1 DEF Keys
    <3>2. CASE f \notin Keys
      <4>1. f \in Mapped(p)
        BY <1>4, <2>2, <2>9, <3>2 DEF Counts
      <4>2. PICK v \in T : f = pte[p][v].frame
        BY <1>5, <3>2, <4>1 DEF Untracked
      <4>3. entry[v] \in Slots
        BY NewEntries
      <4>4. copy_map'[entry[v]].key = f
        <5>1. PICK i \in Slots : i = entry[v]
          BY <4>3
        <5>2. copy_map'[i] = [key |-> pte[p][v].frame, cnt |-> 2]
          BY <5>1, AddedEntry DEF IInv
        <5> QED
          BY <4>2, <5>1, <5>2
      <4> QED
        BY <4>3, <4>4
    <3> QED
      BY <3>1, <3>2
  <2>10. \A f \in Pool : Cardinality(Mappings(f))' > 1 => f \in Keys'
    BY <2>9, Constants DEF Keys
  <2>11. Counts'
    BY <2>5, <2>6, <2>7, <2>8, <2>10 DEF Counts
  <2>12. Exclusive'
    <3> SUFFICES ASSUME NEW q \in Procs, NEW w \in Pages, pte'[q][w].frame # None, pte'[q][w].rw
                 PROVE  (Mappings(pte[q][w].frame) = {<<q, w>>})'
      BY DEF Exclusive, Present
    <3>1. q \notin {p, c} /\ pte'[q][w] = pte[q][w]
      BY <1>1
    <3>2. PICK f \in Pool : f = pte[q][w].frame
      BY <3>1, Types DEF IInv, Present
    <3>3. Mappings(f) = {<<q, w>>}
      BY <2>2, <3>1, <3>2 DEF Exclusive, Present
    <3>4. f \notin Mapped(p)
      <4>1. ASSUME f \in Mapped(p) PROVE FALSE
        <5>1. PICK v \in Pages : f = pte[p][v].frame
          BY <1>5, <4>1
        <5>2. <<p, v>> \in Mappings(f)
          BY <5>1, MappingOf
        <5> QED
          BY <3>1, <3>3, <5>2
      <4> QED
        BY <4>1
    <3>5. Mappings(f)' = {<<q, w>>}
      BY <1>4, <3>3, <3>4
    <3> QED
      BY <3>1, <3>2, <3>5
  <2> QED
    BY <2>11, <2>12
<1> QED
  BY <1>2, <1>6

-----------------------------------------------------------------------------
(* The allocator.                                                          *)

LEMMA FreePagesType ==
    /\ FreePages \in SUBSET Pool /\ FreePages \in SUBSET Int
    /\ \A f \in FreePages : f \notin mem_bitmap
<1>1. FreePages \in SUBSET Pool /\ \A f \in FreePages : f \notin mem_bitmap
  BY DEF FreePages
<1>2. \A f \in FreePages : f \in Int
  BY <1>1, Constants
<1> QED
  BY <1>1, <1>2

LEMMA NextFree ==
    ASSUME NEW n \in NextPage
    PROVE  n \in FreePages /\ n \in Pool /\ n \notin mem_bitmap /\ n # None
BY FreePagesType, Constants DEF NextPage, LeastOf

\* The bits that sys_free_phy_page clears belong to no page.
LEMMA FreedNowhere ==
    ASSUME TypeOK, NEW p \in Procs
    PROVE  ReleasedBits(p) \cap Pool = {}
<1>1. \A f \in Mapped(p) : f \in Nat
  BY Types, Constants DEF Mapped, PresentPages
<1>2. \A f \in Mapped(p) : FreeBit(f) >= USER_SPACE_START - (USER_SPACE_START \div PAGE_SIZE)
  BY <1>1 DEF FreeBit, USER_SPACE_START, PAGE_SIZE
<1>3. \A f \in Mapped(p) : FreeBit(f) \notin Pool
  BY <1>1, <1>2, PoolAssumption DEF Pool, FreeBit, USER_SPACE_START, PAGE_SIZE
<1> QED
  BY <1>3 DEF ReleasedBits

LEMMA TakeType ==
    ASSUME TypeOK, NEW taken \in SUBSET FreePages, NEW freed, freed \cap Pool = {},
           TakePages(taken, freed)
    PROVE  /\ mp' \in Pool /\ mem_bitmap' \in SUBSET Pool /\ mem_bitmap \subseteq mem_bitmap'
           /\ taken \subseteq mem_bitmap'
BY FreePagesType DEF TakePages, TypeOK

-----------------------------------------------------------------------------
(* Every action preserves the invariant.                                   *)

LEMMA InitInv == Init => IInv
<1> SUFFICES ASSUME Init PROVE IInv
  OBVIOUS
<1>1. TypeOK
  BY Constants, DataAssumption DEF Init, TypeOK, NoPage, NoEntry
<1>2. \A p \in Procs, v \in Pages : pte[p][v].frame = None
  BY DEF Init, NoPage
<1>3. ASSUME NEW f \in Pool PROVE Cardinality(Mappings(f)) = 0
  <2>1. f # None
    BY Constants
  <2>2. \A r : r \notin Mappings(f)
    BY <1>2, <2>1, MappingOf
  <2> QED
    BY <2>2, FS_EmptySet
<1>4. \A i \in Slots : copy_map[i].key = None
  BY DEF Init, NoEntry
<1>5. Counts /\ Positive
  BY <1>3, <1>4 DEF Counts, Positive
<1> QED
  BY <1>1, <1>2, <1>5 DEF IInv, Cleaned, MappedOnce, Taken, Exclusive, Present

\* Stores, and the states where nothing goes on.
LEMMA KeptInv ==
    ASSUME IInv, UNCHANGED <<live, pte, physical, copy_map>>,
           mem' \in [Pool -> Data \cup {Blank}], stopped' \in {"no", "hung", "overrun"}
    PROVE  IInv'
<1>1. TypeOK'
  BY DEF IInv, TypeOK, physical
<1>2. (\A p \in Procs, v \in Pages : Present(p, v) <=> pte[p][v].frame # None)
      /\ (\A p \in Procs, v \in Pages : Present(p, v) <=> pte[p][v].frame # None)'
  BY DEF Present
<1>3. Cleaned' /\ MappedOnce' /\ Taken'
  BY <1>2 DEF IInv, Cleaned, MappedOnce, Taken, physical
<1>4. Positive' /\ (InWindow => Counts /\ Exclusive)'
  <2>1. Positive' /\ (InWindow' <=> InWindow)
    BY DEF IInv, Positive, InWindow
  <2>2. Counts' <=> Counts
    BY DEF Counts, Mappings, Keys
  <2>3. Exclusive' <=> Exclusive
    BY DEF Exclusive, Mappings, Present
  <2> QED
    BY <2>1, <2>2, <2>3 DEF IInv
<1> QED
  BY <1>1, <1>3, <1>4 DEF IInv

LEMMA StoreInv ==
    ASSUME IInv, NEW p \in Procs, NEW v \in Pages, NEW d \in Data,
           Store(p, v, d) \/ CopyOut(p, v, d)
    PROVE  IInv'
<1>1. pte[p][v].frame \in Pool /\ mem' = [mem EXCEPT ![pte[p][v].frame] = d]
      /\ UNCHANGED <<live, pte, physical, copy_map, stopped>>
  BY Types DEF IInv, Store, CopyOut
<1> QED
  BY <1>1, KeptInv DEF IInv, TypeOK

LEMMA StopInv ==
    ASSUME IInv, NEW why \in {"hung", "overrun"}, Stop(why)
    PROVE  IInv'
BY KeptInv DEF IInv, TypeOK, Stop

\* Two entries of the page tables at most.
Changed(p, v, e) ==
    /\ pte' \in [Procs -> [Pages -> [frame : Pool \cup {None}, rw : BOOLEAN]]]
    /\ pte'[p][v] = e
    /\ \A q \in Procs, w \in Pages : q # p \/ w # v => pte'[q][w] = pte[q][w]

LEMMA OneEntry ==
    ASSUME TypeOK, NEW p \in Procs, NEW v \in Pages,
           NEW e, e \in [frame : Pool \cup {None}, rw : BOOLEAN], pte' = [pte EXCEPT ![p][v] = e]
    PROVE  Changed(p, v, e)
BY DEF TypeOK, Changed

\* dec() keeps the types, and entries in use counting something.
LEMMA DecType ==
    ASSUME IInv, NEW K \in SUBSET Pool, copy_map' = Dec(K)
    PROVE  copy_map' \in [Slots -> [key : Pool \cup {None}, cnt : Nat]] /\ Positive'
<1>1. ASSUME NEW i \in Slots
      PROVE  /\ copy_map'[i] \in [key : Pool \cup {None}, cnt : Nat]
             /\ copy_map'[i].key # None => copy_map'[i].cnt >= 1
  <2>1. /\ copy_map[i] \in [key : Pool \cup {None}, cnt : Nat]
        /\ copy_map[i].key # None => copy_map[i].cnt >= 1
    BY DEF IInv, TypeOK, Positive
  <2>2. CASE i \notin Scanned(K)
    BY <2>1, <2>2 DEF Dec
  <2>3. CASE i \in Scanned(K) /\ copy_map[i].cnt = 1
    BY <2>3 DEF Dec, NoEntry
  <2>4. CASE i \in Scanned(K) /\ copy_map[i].cnt # 1
    <3>1. copy_map[i].key # None
      BY <2>4, Constants DEF Scanned
    <3>2. copy_map[i].cnt - 1 \in Nat /\ copy_map[i].cnt - 1 >= 1
      BY <2>1, <2>4, <3>1
    <3>3. copy_map'[i] = [copy_map[i] EXCEPT !.cnt = copy_map[i].cnt - 1]
      BY <2>4 DEF Dec
    <3> QED
      BY <2>1, <3>2, <3>3
  <2> QED
    BY <2>2, <2>3, <2>4
<1>2. copy_map' = [i \in Slots |-> copy_map'[i]]
  BY DEF Dec
<1> QED
  BY <1>1, <1>2 DEF Positive

LEMMA FaultMissingInv ==
    ASSUME IInv, NEW p \in Procs, NEW v \in Pages, FaultMissing(p, v)
    PROVE  IInv'
<1>1. CASE NextPage = {}
  BY <1>1, StopInv DEF FaultMissing
<1>2. CASE NextPage # {}
  <2>0. PICK n \in NextPage :
        /\ pte' = [pte EXCEPT ![p][v] = [frame |-> n, rw |-> TRUE]]
        /\ TakePages({n}, {})
        /\ UNCHANGED <<live, mem, copy_map, stopped>>
    BY <1>2 DEF FaultMissing
  <2> DEFINE e == [frame |-> n, rw |-> TRUE]
  <2>1. /\ p \in live /\ pte[p][v].frame = None
        /\ pte' = [pte EXCEPT ![p][v] = e]
        /\ UNCHANGED <<live, mem, copy_map, stopped>>
    BY <2>0 DEF FaultMissing, Running, Present
  <2>3. n \in FreePages /\ n \in Pool /\ n \notin mem_bitmap /\ n # None
    BY NextFree
  <2>4. mp' \in Pool /\ mem_bitmap' \in SUBSET Pool /\ mem_bitmap \subseteq mem_bitmap' /\ n \in mem_bitmap'
    <3>1. {n} \in SUBSET FreePages /\ {} \cap Pool = {}
      BY <2>3
    <3>2. mp' \in Pool /\ mem_bitmap' \in SUBSET Pool /\ mem_bitmap \subseteq mem_bitmap'
          /\ {n} \subseteq mem_bitmap'
      BY <2>0, <3>1, TakeType DEF IInv
    <3> QED
      BY <3>2
  <2>5. e \in [frame : Pool \cup {None}, rw : BOOLEAN] /\ e.frame = n
    BY <2>3
  <2> HIDE DEF e
  <2>6. /\ pte' \in [Procs -> [Pages -> [frame : Pool \cup {None}, rw : BOOLEAN]]]
        /\ pte'[p][v] = e
        /\ \A q \in Procs, w \in Pages : q # p \/ w # v => pte'[q][w] = pte[q][w]
    <3>1. Changed(p, v, e)
      BY <2>1, <2>5, OneEntry DEF IInv
    <3> QED
      BY <3>1 DEF Changed
  <2>7. TypeOK'
    BY <2>1, <2>4, <2>6 DEF IInv, TypeOK
  <2>8. Cleaned' /\ Taken' /\ Positive'
    BY <2>1, <2>4, <2>5, <2>6 DEF IInv, Cleaned, Taken, Positive, Present
  <2>9. MappedOnce' /\ (InWindow' => Counts' /\ Exclusive')
    <3> DEFINE fresh == [w \in {v} |-> n]
    <3>1. {pte[p][w].frame : w \in {v}} \ {None} = {}
      BY <2>1
    <3>2. copy_map' = Dec({})
      BY <2>1 DEF Dec, Scanned, IInv, TypeOK
    <3>3. Remapped(p, {v}, fresh)
      BY <2>3, <2>5, <2>6, <3>1, <3>2 DEF Remapped
    <3> HIDE DEF fresh
    <3>4. {v} \in SUBSET Pages
      OBVIOUS
    <3> QED
      BY ONLY IInv, p \in Procs, <3>3, <3>4, RemapInv
  <2> QED
    BY <2>7, <2>8, <2>9 DEF IInv
<1> QED
  BY <1>1, <1>2

LEMMA FaultWriteInv ==
    ASSUME IInv, NEW p \in Procs, NEW v \in Pages, FaultWrite(p, v)
    PROVE  IInv'
<1> DEFINE f == pte[p][v].frame
<1>1. p \in live /\ f \in Pool /\ f # None /\ {f} \in SUBSET Pool /\ ~pte[p][v].rw
  BY Types, Constants DEF IInv, FaultWrite, Running
<1>2. CASE DecLeft(f) = 0
  <2> DEFINE e == [pte[p][v] EXCEPT !.rw = TRUE]
  <2>1. /\ pte' = [pte EXCEPT ![p][v] = e]
        /\ copy_map' = Dec({f})
        /\ UNCHANGED <<live, mem, mp, mem_bitmap, stopped>>
    BY <1>2 DEF FaultWrite, physical, IInv, TypeOK
  <2>2. e \in [frame : Pool \cup {None}, rw : BOOLEAN] /\ e.frame = f
    BY Types DEF IInv
  <2> HIDE DEF e
  <2>3. /\ pte' \in [Procs -> [Pages -> [frame : Pool \cup {None}, rw : BOOLEAN]]]
        /\ pte'[p][v] = e
        /\ \A q \in Procs, w \in Pages : q # p \/ w # v => pte'[q][w] = pte[q][w]
    <3>1. Changed(p, v, e)
      BY <2>1, <2>2, OneEntry DEF IInv
    <3> QED
      BY <3>1 DEF Changed
  <2>4. copy_map' \in [Slots -> [key : Pool \cup {None}, cnt : Nat]] /\ Positive'
    BY <1>1, <2>1, DecType
  <2>5. TypeOK'
    BY <2>1, <2>3, <2>4 DEF IInv, TypeOK
  <2>6. \A q \in Procs, w \in Pages : pte'[q][w].frame = pte[q][w].frame
    BY <2>2, <2>3
  <2>7. Cleaned' /\ Taken' /\ MappedOnce'
    BY <2>1, <2>6 DEF IInv, Cleaned, Taken, MappedOnce, Present
  <2>8. \A g : Mappings(g)' = Mappings(g)
    BY <2>6 DEF Mappings
  <2>9. ASSUME InWindow' PROVE Counts' /\ Exclusive'
    <3>1. InWindow /\ Counts /\ Exclusive
      BY <1>1, <2>1, <2>9, DecOutside DEF IInv
    <3>2. /\ \A i \in Slots : copy_map[i].key = f => copy_map[i].cnt = 1
          /\ Cardinality(Mappings(f)) = 1
      <4>1. Scanned({f}) = {i \in Slots : copy_map[i].key = f}
        BY <1>1, <3>1 DEF Scanned, InWindow
      <4>2. <<p, v>> \in Mappings(f)
        BY MappingOf
      <4>3. Cardinality(Mappings(f)) # 0 /\ Cardinality(Mappings(f)) \in Nat
        BY <4>2, MappingsFinite, FS_EmptySet
      <4>4. CASE Scanned({f}) = {}
        <5>1. f \notin Keys
          BY <4>1, <4>4 DEF Keys
        <5>2. ~(Cardinality(Mappings(f)) > 1)
          BY <1>1, <3>1, <5>1 DEF Counts
        <5>3. \A i \in Slots : copy_map[i].key # f
          BY <4>1, <4>4
        <5> HIDE DEF f
        <5> QED
          BY <4>3, <5>2, <5>3
      <4>5. CASE Scanned({f}) # {}
        <5>1. PICK i \in Scanned({f}) : copy_map[i].cnt - 1 = 0
          BY <1>2, <4>5 DEF DecLeft
        <5>2. /\ i \in Slots /\ copy_map[i].key = f /\ copy_map[i].cnt \in Nat
              /\ copy_map[i].cnt = Cardinality(Mappings(f))
          BY <1>1, <3>1, <4>1, Types DEF IInv, Counts
        <5>3. copy_map[i].cnt = 1
          BY <5>1, <5>2
        <5>4. \A j \in Slots : copy_map[j].key = f => copy_map[j].cnt = Cardinality(Mappings(f))
          BY <1>1, <3>1 DEF Counts
        <5> QED
          BY <5>2, <5>3, <5>4
      <4> QED
        BY <4>4, <4>5
    <3>3. \A i \in Slots : /\ copy_map[i].key = f => copy_map'[i] = NoEntry
                           /\ copy_map[i].key # f => copy_map'[i] = copy_map[i]
      BY <1>1, <2>1, <3>1, <3>2, DecEntry DEF IInv
    <3>4. ASSUME NEW i \in Slots, copy_map'[i].key # None
          PROVE  /\ copy_map'[i].cnt >= 1
                 /\ (copy_map[i].cnt = Cardinality(Mappings(copy_map[i].key)))'
                 /\ \A j \in Slots : copy_map'[j].key = copy_map'[i].key => j = i
      <4>1. copy_map'[i] = copy_map[i] /\ copy_map[i].key \in Pool
        BY <3>3, <3>4, Types DEF IInv, NoEntry
      <4>2. PICK g \in Pool : g = copy_map[i].key
        BY <4>1
      <4>3. copy_map[i].cnt >= 1 /\ copy_map[i].cnt = Cardinality(Mappings(g))
        BY <3>1, <3>4, <4>1, <4>2 DEF Counts
      <4>4. Cardinality(Mappings(g))' = Cardinality(Mappings(g))
        BY <2>8
      <4>5. \A j \in Slots : copy_map'[j].key = copy_map'[i].key => j = i
        BY <3>1, <3>3, <3>4, <4>1 DEF Counts, NoEntry
      <4> QED
        BY <4>1, <4>2, <4>3, <4>4, <4>5
    <3>5. ASSUME NEW g \in Pool, Cardinality(Mappings(g))' > 1
          PROVE  g \in Keys'
      <4>1. Cardinality(Mappings(g)) > 1
        BY <2>8, <3>5
      <4>2. PICK i \in Slots : copy_map[i].key = g /\ g # f
        BY <3>1, <3>2, <4>1 DEF Counts, Keys
      <4> QED
        BY <3>3, <4>2, Constants DEF Keys
    <3>6. Counts'
      BY <3>4, <3>5 DEF Counts
    <3>7. Mappings(f) = {<<p, v>>}
      <4>1. \E x : Mappings(f) = {x}
        BY <3>2, MappingsFinite, FS_Singleton
      <4>2. <<p, v>> \in Mappings(f)
        BY MappingOf
      <4> QED
        BY <4>1, <4>2
    <3>8. Exclusive'
      <4> SUFFICES ASSUME NEW q \in Procs, NEW w \in Pages, pte'[q][w].frame # None, pte'[q][w].rw
                   PROVE  (Mappings(pte[q][w].frame) = {<<q, w>>})'
        BY DEF Exclusive, Present
      <4>1. PICK g \in Pool : g = pte[q][w].frame
        BY <2>6, Types DEF IInv, Present
      <4>2. Mappings(g) = {<<q, w>>}
        <5>1. CASE q = p /\ w = v
          BY <3>7, <4>1, <5>1
        <5>2. CASE q # p \/ w # v
          BY <2>3, <3>1, <4>1, <5>2 DEF Exclusive, Present
        <5> QED
          BY <5>1, <5>2
      <4>3. Mappings(g)' = {<<q, w>>}
        BY <2>8, <4>2
      <4>4. g = pte'[q][w].frame
        BY <2>6, <4>1
      <4> QED
        BY <4>3, <4>4
    <3> QED
      BY <3>6, <3>8
  <2> QED
    BY <2>4, <2>5, <2>7, <2>9 DEF IInv
<1>3. CASE DecLeft(f) # 0 /\ NextPage = {}
  BY <1>3, StopInv DEF FaultWrite
<1>4. CASE DecLeft(f) # 0 /\ NextPage # {}
  <2>0. PICK n \in NextPage :
        /\ pte' = [pte EXCEPT ![p][v] = [frame |-> n, rw |-> TRUE]]
        /\ copy_map' = Dec({f})
        /\ CopiedTo(f, n)
        /\ TakePages({n}, {})
        /\ UNCHANGED <<live, stopped>>
    BY <1>4 DEF FaultWrite
  <2> DEFINE e == [frame |-> n, rw |-> TRUE]
  <2>1. /\ pte' = [pte EXCEPT ![p][v] = e]
        /\ copy_map' = Dec({f})
        /\ CopiedTo(f, n)
        /\ UNCHANGED <<live, stopped>>
    BY <2>0
  <2>3. n \in FreePages /\ n \in Pool /\ n \notin mem_bitmap /\ n # None
    BY NextFree
  <2>4. mp' \in Pool /\ mem_bitmap' \in SUBSET Pool /\ mem_bitmap \subseteq mem_bitmap' /\ n \in mem_bitmap'
    <3>1. {n} \in SUBSET FreePages /\ {} \cap Pool = {}
      BY <2>3
    <3>2. mp' \in Pool /\ mem_bitmap' \in SUBSET Pool /\ mem_bitmap \subseteq mem_bitmap'
          /\ {n} \subseteq mem_bitmap'
      BY <2>0, <3>1, TakeType DEF IInv
    <3> QED
      BY <3>2
  <2>5. mem' \in [Pool -> Data \cup {Blank}]
    BY <1>1, <2>1, <2>3 DEF CopiedTo, IInv, TypeOK
  <2>6. e \in [frame : Pool \cup {None}, rw : BOOLEAN] /\ e.frame = n
    BY <2>3
  <2> HIDE DEF e
  <2>7. /\ pte' \in [Procs -> [Pages -> [frame : Pool \cup {None}, rw : BOOLEAN]]]
        /\ pte'[p][v] = e
        /\ \A q \in Procs, w \in Pages : q # p \/ w # v => pte'[q][w] = pte[q][w]
    <3>1. TypeOK /\ pte' = [pte EXCEPT ![p][v] = e]
      BY <2>1 DEF IInv
    <3>2. e \in [frame : Pool \cup {None}, rw : BOOLEAN]
      BY <2>6
    <3>3. Changed(p, v, e)
      BY ONLY <3>1, <3>2, p \in Procs, v \in Pages, OneEntry
    <3> QED
      BY <3>3 DEF Changed
  <2>8. copy_map' \in [Slots -> [key : Pool \cup {None}, cnt : Nat]] /\ Positive'
    BY <1>1, <2>1, DecType
  <2>9. TypeOK'
    BY <2>1, <2>4, <2>5, <2>7, <2>8 DEF IInv, TypeOK
  <2>10. Cleaned' /\ Taken'
    BY <1>1, <2>1, <2>4, <2>6, <2>7 DEF IInv, Cleaned, Taken, Present
  <2>11. MappedOnce' /\ (InWindow' => Counts' /\ Exclusive')
    <3> DEFINE fresh == [w \in {v} |-> n]
    <3>1. {pte[p][w].frame : w \in {v}} \ {None} = {f}
      BY <1>1
    <3>2. copy_map' = Dec({pte[p][w].frame : w \in {v}} \ {None})
      BY <2>1, <3>1
    <3>3. Remapped(p, {v}, fresh)
      BY <2>3, <2>6, <2>7, <3>2 DEF Remapped
    <3> HIDE DEF f, fresh
    <3>4. {v} \in SUBSET Pages
      OBVIOUS
    <3> QED
      BY ONLY IInv, p \in Procs, <3>3, <3>4, RemapInv
  <2> QED
    BY <2>8, <2>9, <2>10, <2>11 DEF IInv
<1> QED
  BY <1>2, <1>3, <1>4

LEMMA ForkActionInv ==
    ASSUME IInv, NEW p \in Procs, NEW c \in Procs, Fork(p, c)
    PROVE  IInv'
<1>1. p \in live /\ c \notin live
  BY DEF Fork, Running
<1>2. CASE EntriesFor(p) = {}
  BY <1>2, StopInv DEF Fork
<1>3. CASE EntriesFor(p) # {}
  <2>1. PICK entry \in EntriesFor(p) :
        /\ live' = live \cup {c} /\ pte' = ForkPtes(p, c) /\ copy_map' = Added(p, entry)
        /\ UNCHANGED <<mem, mp, mem_bitmap, stopped>>
    BY <1>3 DEF Fork, physical
  <2>3. MappedOnce' /\ (InWindow' => Counts' /\ Exclusive')
    BY <1>1, <2>1, ForkInv
  <2>4. /\ \A v \in Pages : pte'[p][v].frame = pte[p][v].frame /\ pte'[c][v].frame = pte[p][v].frame
        /\ \A q \in Procs \ {p, c} : pte'[q] = pte[q]
        /\ pte' \in [Procs -> [Pages -> [frame : Pool \cup {None}, rw : BOOLEAN]]]
    BY <1>1, <2>1, ForkTables
  <2>5. Cleaned'
    <3>1. ASSUME NEW q \in Procs \ live', NEW v \in Pages PROVE pte'[q][v].frame = None
      <4>1. q \notin live /\ q \in Procs \ {p, c}
        BY <1>1, <2>1
      <4> QED
        BY <2>4, <4>1 DEF IInv, Cleaned, Present
    <3> QED
      BY <3>1 DEF Cleaned, Present
  <2>9. Taken'
    <3>1. \A q \in Procs, v \in Pages :
              pte'[q][v].frame = pte[q][v].frame \/ pte'[q][v].frame = pte[p][v].frame
      BY <2>4
    <3> QED
      BY <2>1, <3>1 DEF IInv, Taken, Present
  <2>6. ASSUME NEW i \in Slots
        PROVE  /\ copy_map'[i] \in [key : Pool \cup {None}, cnt : Nat]
               /\ copy_map'[i].key # None => copy_map'[i].cnt >= 1
    <3>1. /\ copy_map[i] \in [key : Pool \cup {None}, cnt : Nat]
          /\ copy_map[i].key # None => copy_map[i].cnt >= 1
      BY DEF IInv, TypeOK, Positive
    <3>2. CASE copy_map[i].key \in Mapped(p)
      <4>1. copy_map'[i] = [copy_map[i] EXCEPT !.cnt = copy_map[i].cnt + 1]
        BY <2>1, <3>2 DEF Added
      <4>2. copy_map[i].cnt + 1 \in Nat /\ copy_map[i].cnt + 1 >= 1
        BY <3>1
      <4> QED
        BY <3>1, <4>1, <4>2
    <3>3. ASSUME NEW v \in Untracked(p), entry[v] = i
          PROVE  /\ copy_map'[i] \in [key : Pool \cup {None}, cnt : Nat]
                 /\ copy_map'[i].key # None => copy_map'[i].cnt >= 1
      <4>1. pte[p][v].frame \in Pool
        BY Types DEF IInv, Untracked, PresentPages
      <4>2. copy_map'[i] = [key |-> pte[p][v].frame, cnt |-> 2]
        BY <2>1, <3>3, AddedEntry DEF IInv
      <4> QED
        BY <4>1, <4>2
    <3>4. CASE copy_map[i].key \notin Mapped(p) /\ \A v \in Untracked(p) : entry[v] # i
      <4>1. copy_map'[i] = copy_map[i]
        BY <2>1, <3>4 DEF Added
      <4> QED
        BY <3>1, <4>1
    <3> QED
      BY <3>2, <3>3, <3>4
  <2>7. copy_map' \in [Slots -> [key : Pool \cup {None}, cnt : Nat]] /\ Positive'
    <3>1. copy_map' = [i \in Slots |-> copy_map'[i]]
      BY <2>1 DEF Added
    <3> QED
      BY <2>6, <3>1 DEF Positive
  <2>8. TypeOK'
    BY <2>1, <2>4, <2>7 DEF IInv, TypeOK
  <2> QED
    BY <2>3, <2>5, <2>7, <2>8, <2>9 DEF IInv
<1> QED
  BY <1>2, <1>3

\* The whole table of a process is replaced.
LEMMA ReplaceInv ==
    ASSUME IInv, NEW p \in Procs,
           NEW table \in [Pages -> [frame : Pool \cup {None}, rw : BOOLEAN]],
           pte' = [pte EXCEPT ![p] = table], copy_map' = Dec(Mapped(p)),
           \A v \in Pages : table[v].frame # None => table[v].frame \notin mem_bitmap,
           \A v, w \in Pages : table[v].frame # None /\ table[v].frame = table[w].frame => v = w,
           \A v \in Pages : table[v].frame # None => p \in live' /\ table[v].frame \in mem_bitmap',
           live' \in SUBSET Procs, live \ {p} \subseteq live',
           mem' \in [Pool -> Data \cup {Blank}], mp' \in Pool, UNCHANGED stopped,
           mem_bitmap' \in SUBSET Pool, mem_bitmap \subseteq mem_bitmap'
    PROVE  IInv'
<1>1. /\ pte' \in [Procs -> [Pages -> [frame : Pool \cup {None}, rw : BOOLEAN]]]
      /\ pte'[p] = table
      /\ \A q \in Procs : q # p => pte'[q] = pte[q]
  BY DEF IInv, TypeOK
<1>2. Mapped(p) = {pte[p][v].frame : v \in Pages} \ {None}
  BY DEF Mapped, PresentPages, Present
<1>3. Mapped(p) \in SUBSET Pool
  BY Types DEF IInv, Mapped, PresentPages
<1>4. copy_map' \in [Slots -> [key : Pool \cup {None}, cnt : Nat]] /\ Positive'
  BY <1>3, DecType
<1>5. TypeOK'
  BY <1>1, <1>4 DEF IInv, TypeOK
<1>6. Cleaned' /\ Taken'
  BY <1>1 DEF IInv, Cleaned, Taken, Present
<1>7. MappedOnce' /\ (InWindow' => Counts' /\ Exclusive')
  <2> DEFINE fresh == [v \in Pages |-> table[v].frame]
  <2>1. copy_map' = Dec({pte[p][v].frame : v \in Pages} \ {None})
    BY <1>2
  <2>2. Remapped(p, Pages, fresh)
    BY <1>1, <2>1 DEF Remapped
  <2>3. Pages \in SUBSET Pages
    OBVIOUS
  <2> HIDE DEF fresh
  <2> QED
    BY ONLY IInv, p \in Procs, <2>2, <2>3, RemapInv
<1> QED
  BY <1>4, <1>5, <1>6, <1>7 DEF IInv

\* The pages that the faults of exec find.
LEMMA FoundFree ==
    ASSUME NEW got \in InOrder(Image, FreePages)
    PROVE  /\ \A v \in Image : got[v] \in FreePages /\ got[v] \in Pool /\ got[v] \notin mem_bitmap
           /\ \A v, w \in Image : got[v] = got[w] => v = w
<1>1. Image \in SUBSET Int
  BY Constants
<1> QED
  BY <1>1, FoundApart, FreePagesType

LEMMA ExecInv ==
    ASSUME IInv, NEW p \in Procs, NEW d \in Data, Exec(p, d)
    PROVE  IInv'
<1>1. CASE InOrder(Image, FreePages) = {}
  BY <1>1, StopInv DEF Exec
<1>2. CASE InOrder(Image, FreePages) # {}
  <2>0. PICK got \in InOrder(Image, FreePages) :
        /\ copy_map' = Dec(Mapped(p))
        /\ pte' = [pte EXCEPT ![p] = [v \in Pages |->
                      IF v \in Image THEN [frame |-> got[v], rw |-> TRUE] ELSE NoPage]]
        /\ TakePages({got[v] : v \in Image}, ReleasedBits(p))
        /\ mem' = [f \in Pool |-> IF \E v \in Image : f = got[v] THEN d ELSE mem[f]]
        /\ UNCHANGED <<live, stopped>>
    BY <1>2 DEF Exec
  <2> DEFINE table == [v \in Pages |-> IF v \in Image THEN [frame |-> got[v], rw |-> TRUE] ELSE NoPage]
  <2>1. p \in live /\ pte' = [pte EXCEPT ![p] = table]
    BY <2>0 DEF Exec, Running
  <2>2. /\ \A v \in Image : got[v] \in FreePages /\ got[v] \in Pool /\ got[v] \notin mem_bitmap
        /\ \A v, w \in Image : got[v] = got[w] => v = w
    BY FoundFree
  <2>3. /\ mp' \in Pool /\ mem_bitmap' \in SUBSET Pool /\ mem_bitmap \subseteq mem_bitmap'
        /\ {got[v] : v \in Image} \subseteq mem_bitmap'
    <3>1. {got[v] : v \in Image} \in SUBSET FreePages
      BY <2>2
    <3> QED
      BY <2>0, <3>1, FreedNowhere, TakeType DEF IInv
  <2>9. mem' \in [Pool -> Data \cup {Blank}]
    BY <2>0 DEF IInv, TypeOK
  <2>10. /\ table \in [Pages -> [frame : Pool \cup {None}, rw : BOOLEAN]]
         /\ \A v \in Pages : /\ v \in Image => table[v].frame = got[v]
                             /\ v \notin Image => table[v].frame = None
    BY <2>2 DEF NoPage
  <2>11. /\ \A v \in Pages : table[v].frame # None => table[v].frame \notin mem_bitmap
         /\ \A v, w \in Pages : table[v].frame # None /\ table[v].frame = table[w].frame => v = w
         /\ \A v \in Pages : table[v].frame # None => p \in live' /\ table[v].frame \in mem_bitmap'
    BY <2>0, <2>1, <2>2, <2>3, <2>10
  <2>12. live' \in SUBSET Procs /\ live \ {p} \subseteq live'
    BY <2>0 DEF IInv, TypeOK
  <2> HIDE DEF table
  <2> QED
    BY <2>0, <2>1, <2>3, <2>9, <2>10, <2>11, <2>12, ReplaceInv
<1> QED
  BY <1>1, <1>2

LEMMA ExitInv ==
    ASSUME IInv, NEW p \in Procs, Exit(p)
    PROVE  IInv'
<1> DEFINE table == [v \in Pages |-> NoPage]
<1>1. /\ live' = live \ {p} /\ copy_map' = Dec(Mapped(p)) /\ pte' = [pte EXCEPT ![p] = table]
      /\ TakePages({}, ReleasedBits(p)) /\ UNCHANGED <<mem, stopped>>
  BY DEF Exit
<1>2. mp' \in Pool /\ mem_bitmap' \in SUBSET Pool /\ mem_bitmap \subseteq mem_bitmap'
  <2>1. {} \in SUBSET FreePages
    OBVIOUS
  <2> QED
    BY <1>1, <2>1, FreedNowhere, TakeType DEF IInv
<1>3. /\ table \in [Pages -> [frame : Pool \cup {None}, rw : BOOLEAN]]
      /\ \A v \in Pages : table[v].frame = None
  BY DEF NoPage
<1>4. /\ live' \in SUBSET Procs /\ live \ {p} \subseteq live'
      /\ mem' \in [Pool -> Data \cup {Blank}]
  BY <1>1 DEF IInv, TypeOK
<1> HIDE DEF table
<1> QED
  BY <1>1, <1>2, <1>3, <1>4, ReplaceInv

LEMMA StutterInv == IInv /\ UNCHANGED vars => IInv'
<1> SUFFICES ASSUME IInv, UNCHANGED vars PROVE IInv'
  OBVIOUS
<1>1. UNCHANGED <<live, pte, physical, copy_map>> /\ UNCHANGED <<mem, stopped>>
  BY DEF vars, physical
<1>2. mem' \in [Pool -> Data \cup {Blank}] /\ stopped' \in {"no", "hung", "overrun"}
  BY <1>1 DEF IInv, TypeOK
<1> QED
  BY <1>1, <1>2, KeptInv

LEMMA NextInv == IInv /\ [Next]_vars => IInv'
<1> SUFFICES ASSUME IInv, [Next]_vars PROVE IInv'
  OBVIOUS
<1>1. CASE UNCHANGED vars
  BY <1>1, StutterInv
<1>2. CASE Next
  <2> PICK p \in Procs :
        \/ \E v \in Pages, d \in Data : Store(p, v, d) \/ CopyOut(p, v, d)
        \/ \E v \in Pages : FaultMissing(p, v) \/ FaultWrite(p, v)
        \/ \E c \in Procs : Fork(p, c)
        \/ \E d \in Data : Exec(p, d)
        \/ Exit(p)
    BY <1>2 DEF Next
  <2> QED
    BY StoreInv, FaultMissingInv, FaultWriteInv, ForkActionInv, ExecInv, ExitInv
<1> QED
  BY <1>1, <1>2

LEMMA Invariance == Spec => []IInv
BY InitInv, NextInv, PTL DEF Spec

-----------------------------------------------------------------------------
(* Paging implements AddrSpace: a store is StoreWord, fork is Snapshot,    *)
(* exec is Load, exit is Leave, and copying a page leaves what everybody   *)
(* reads alone.                                                            *)

LEMMA InitImplements == Init => Space!SpaceInit
BY DataAssumption DEF Init, Seen, Present, NoPage, Space!SpaceInit

LEMMA SeenType ==
    TypeOK => /\ Seen \in [Procs -> [Pages -> Data \cup {Blank}]]
              /\ \A p \in Procs, v \in Pages :
                    /\ Present(p, v) => Seen[p][v] = mem[pte[p][v].frame]
                    /\ ~Present(p, v) => Seen[p][v] = Blank
<1> SUFFICES ASSUME TypeOK
             PROVE  \A p \in Procs, v \in Pages :
                       (IF Present(p, v) THEN mem[pte[p][v].frame] ELSE Blank) \in Data \cup {Blank}
  BY DEF Seen
<1> QED
  BY Types DEF TypeOK

LEMMA SeenTypeNext ==
    TypeOK' => /\ Seen' \in [Procs -> [Pages -> Data \cup {Blank}]]
               /\ \A p \in Procs, v \in Pages :
                    /\ pte'[p][v].frame # None => Seen'[p][v] = mem'[pte'[p][v].frame]
                    /\ pte'[p][v].frame = None => Seen'[p][v] = Blank
<1>1. (TypeOK => /\ Seen \in [Procs -> [Pages -> Data \cup {Blank}]]
                 /\ \A p \in Procs, v \in Pages :
                      /\ Present(p, v) => Seen[p][v] = mem[pte[p][v].frame]
                      /\ ~Present(p, v) => Seen[p][v] = Blank)'
  BY SeenType, PTL
<1> QED
  BY <1>1 DEF Present

\* Address spaces that agree in every page of every process are the same.
LEMMA SameSpace ==
    ASSUME NEW s \in [Procs -> [Pages -> Data \cup {Blank}]],
           NEW t \in [Procs -> [Pages -> Data \cup {Blank}]],
           \A p \in Procs, v \in Pages : s[p][v] = t[p][v]
    PROVE  s = t
<1>1. ASSUME NEW p \in Procs PROVE s[p] = t[p]
  <2>1. s[p] \in [Pages -> Data \cup {Blank}] /\ t[p] \in [Pages -> Data \cup {Blank}]
    OBVIOUS
  <2> QED
    BY <2>1
<1> QED
  BY <1>1

\* A page that keeps its entry reads as before, unless its physical page was stored to.
LEMMA SeenKept ==
    ASSUME TypeOK, TypeOK', NEW p \in Procs, NEW v \in Pages,
           pte'[p][v].frame = pte[p][v].frame,
           Present(p, v) => mem'[pte[p][v].frame] = mem[pte[p][v].frame]
    PROVE  Seen'[p][v] = Seen[p][v]
BY SeenType, SeenTypeNext DEF Present

LEMMA StoreImplements ==
    ASSUME IInv, IInv', InWindow', ~CopyOutReadOnly,
           NEW p \in Procs, NEW v \in Pages, NEW d \in Data,
           Store(p, v, d) \/ CopyOut(p, v, d)
    PROVE  Space!StoreWord(p, v, d)
<1> DEFINE f == pte[p][v].frame
<1>1. /\ p \in live /\ Present(p, v) /\ mem' = [mem EXCEPT ![f] = d]
      /\ UNCHANGED <<live, pte, copy_map>>
  BY DEF Store, CopyOut, Running
<1>2. pte[p][v].rw
  BY DEF CopyOutReadOnly, Store
<1>3. Exclusive /\ f \in Pool
  BY <1>1, Types DEF IInv, InWindow
<1>4. Mappings(f) = {<<p, v>>}
  BY <1>1, <1>2, <1>3 DEF Exclusive
<1>5. TypeOK /\ TypeOK' /\ mem \in [Pool -> Data \cup {Blank}]
  BY DEF IInv, TypeOK
<1>6. ASSUME NEW q \in Procs, NEW w \in Pages, q # p \/ w # v
      PROVE  Seen'[q][w] = Seen[q][w]
  <2>1. pte[q][w].frame # f
    <3>1. <<q, w>> \notin Mappings(f)
      BY <1>4, <1>6
    <3> QED
      BY <3>1, MappingOf
  <2>2. Present(q, w) => pte[q][w].frame \in Pool /\ mem'[pte[q][w].frame] = mem[pte[q][w].frame]
    BY <1>1, <1>5, <2>1, Types
  <2> QED
    BY <1>1, <1>5, <2>2, SeenKept
<1>7. Seen'[p][v] = d
  <2>1. mem'[f] = d /\ pte'[p][v].frame = f /\ f # None
    BY <1>1, <1>3, <1>5 DEF Present
  <2> QED
    BY <1>5, <2>1, SeenTypeNext
<1>8. Seen' = [Seen EXCEPT ![p][v] = d]
  <2> DEFINE t == [Seen EXCEPT ![p][v] = d]
  <2>1. Seen \in [Procs -> [Pages -> Data \cup {Blank}]] /\ Seen' \in [Procs -> [Pages -> Data \cup {Blank}]]
    BY <1>5, SeenType, SeenTypeNext
  <2>2. t \in [Procs -> [Pages -> Data \cup {Blank}]]
        /\ \A q \in Procs, w \in Pages : t[q][w] = IF q = p /\ w = v THEN d ELSE Seen[q][w]
    BY <2>1
  <2> HIDE DEF t
  <2>3. \A q \in Procs, w \in Pages : Seen'[q][w] = t[q][w]
    BY <1>6, <1>7, <2>2
  <2>4. Seen' = t
    BY <2>1, <2>2, <2>3, SameSpace
  <2> QED
    BY <2>4 DEF t
<1> QED
  BY <1>1, <1>8 DEF Space!StoreWord

\* One page of one process reads something else.
LEMMA OneWord ==
    ASSUME TypeOK, TypeOK', NEW p \in Procs, NEW v \in Pages, UNCHANGED live, p \in live,
           Seen'[p][v] \in Data \/ Seen'[p][v] = Seen[p][v],
           \A q \in Procs, w \in Pages : q # p \/ w # v => Seen'[q][w] = Seen[q][w]
    PROVE  \/ UNCHANGED <<live, Seen>>
           \/ Seen'[p][v] \in Data /\ Space!StoreWord(p, v, Seen'[p][v])
<1> DEFINE t == [Seen EXCEPT ![p][v] = Seen'[p][v]]
<1>1. Seen \in [Procs -> [Pages -> Data \cup {Blank}]] /\ Seen' \in [Procs -> [Pages -> Data \cup {Blank}]]
  BY SeenType, SeenTypeNext
<1>2. Seen'[p][v] \in Data \cup {Blank}
  BY <1>1
<1>3. t \in [Procs -> [Pages -> Data \cup {Blank}]]
      /\ \A q \in Procs, w \in Pages : t[q][w] = IF q = p /\ w = v THEN Seen'[p][v] ELSE Seen[q][w]
  BY <1>1, <1>2
<1> HIDE DEF t
<1>4. \A q \in Procs, w \in Pages : Seen'[q][w] = t[q][w]
  BY <1>3
<1>5. Seen' = t
  BY <1>1, <1>3, <1>4, SameSpace
<1>6. Seen'[p][v] = Seen[p][v] => Seen' = Seen
  <2>1. Seen'[p][v] = Seen[p][v] => \A q \in Procs, w \in Pages : Seen'[q][w] = Seen[q][w]
    OBVIOUS
  <2> QED
    BY <1>1, <2>1, SameSpace
<1>7. Seen' = [Seen EXCEPT ![p][v] = Seen'[p][v]]
  BY <1>5 DEF t
<1>8. CASE Seen'[p][v] = Seen[p][v]
  BY <1>6, <1>8
<1>9. CASE Seen'[p][v] \in Data
  BY <1>7, <1>9 DEF Space!StoreWord
<1> QED
  BY <1>8, <1>9

\* A page that is missing is given unused memory.
LEMMA FaultMissingImplements ==
    ASSUME IInv, IInv', NEW p \in Procs, NEW v \in Pages, FaultMissing(p, v)
    PROVE  UNCHANGED <<live, Seen>> \/ \E d \in Data : Space!StoreWord(p, v, d)
<1>1. CASE NextPage = {}
  BY <1>1 DEF FaultMissing, Stop, Seen, Present
<1>2. CASE NextPage # {}
  <2>1. PICK n \in NextPage :
        /\ p \in live /\ pte[p][v].frame = None
        /\ pte' = [pte EXCEPT ![p][v] = [frame |-> n, rw |-> TRUE]]
        /\ UNCHANGED <<live, mem>>
    BY <1>2 DEF FaultMissing, Running, Present
  <2>2. TypeOK /\ TypeOK'
    BY DEF IInv
  <2>3. \A q \in Procs, w \in Pages : q # p \/ w # v => Seen'[q][w] = Seen[q][w]
    <3> TAKE q \in Procs, w \in Pages
    <3> HAVE q # p \/ w # v
    <3>1. pte'[q][w] = pte[q][w]
      BY <2>1, <2>2 DEF TypeOK
    <3> QED
      BY <2>1, <2>2, <3>1, SeenKept
  <2>4. Seen[p][v] = Blank /\ Seen'[p][v] \in Data \cup {Blank}
    BY <2>1, <2>2, SeenType, SeenTypeNext DEF Present
  <2> QED
    BY <2>1, <2>2, <2>3, <2>4, OneWord
<1> QED
  BY <1>1, <1>2

\* Making a page writable, or copying it first, changes what nobody reads.
LEMMA FaultWriteImplements ==
    ASSUME IInv, IInv', NEW p \in Procs, NEW v \in Pages, FaultWrite(p, v)
    PROVE  UNCHANGED <<live, Seen>>
<1> DEFINE f == pte[p][v].frame
<1>1. TypeOK /\ TypeOK' /\ f \in Pool /\ f # None
  BY Types DEF IInv, FaultWrite, Present
<1>2. CASE DecLeft(f) = 0
  <2>1. pte' = [pte EXCEPT ![p][v].rw = TRUE] /\ UNCHANGED <<live, mem>>
    BY <1>2 DEF FaultWrite
  <2>2. \A q \in Procs, w \in Pages : pte'[q][w].frame = pte[q][w].frame
    BY <1>1, <2>1 DEF TypeOK
  <2>3. \A q \in Procs, w \in Pages : Seen'[q][w] = Seen[q][w]
    BY <1>1, <2>1, <2>2, SeenKept
  <2> QED
    BY <1>1, <2>1, <2>3, SeenType, SeenTypeNext, SameSpace
<1>3. CASE DecLeft(f) # 0 /\ NextPage = {}
  BY <1>3 DEF FaultWrite, Stop, Seen, Present
<1>4. CASE DecLeft(f) # 0 /\ NextPage # {}
  <2>1. PICK new \in NextPage :
        /\ pte' = [pte EXCEPT ![p][v] = [frame |-> new, rw |-> TRUE]]
        /\ mem' = [mem EXCEPT ![new] = mem[f]]
        /\ UNCHANGED live
    BY <1>4 DEF FaultWrite, CopiedTo
  <2>2. new \in Pool /\ new \notin mem_bitmap /\ new # None
    BY NextFree
  <2>3. ASSUME NEW q \in Procs, NEW w \in Pages, q # p \/ w # v
        PROVE  Seen'[q][w] = Seen[q][w]
    <3>1. pte'[q][w] = pte[q][w]
      BY <1>1, <2>1, <2>3 DEF TypeOK
    <3>2. Present(q, w) => pte[q][w].frame # new
      BY <2>2 DEF IInv, Taken
    <3>3. Present(q, w) => mem'[pte[q][w].frame] = mem[pte[q][w].frame]
      BY <1>1, <2>1, <3>2, Types DEF TypeOK
    <3> QED
      BY <1>1, <3>1, <3>3, SeenKept
  <2>4. Seen'[p][v] = Seen[p][v]
    <3>1. pte'[p][v].frame = new /\ mem'[new] = mem[f]
      BY <1>1, <2>1, <2>2 DEF TypeOK
    <3> QED
      BY <1>1, <2>2, <3>1, SeenType, SeenTypeNext DEF Present
  <2>5. \A q \in Procs, w \in Pages : Seen'[q][w] = Seen[q][w]
    BY <2>3, <2>4
  <2> QED
    BY <1>1, <2>1, <2>5, SeenType, SeenTypeNext, SameSpace
<1> QED
  BY <1>2, <1>3, <1>4

\* The child reads what its father reads.
LEMMA ForkImplements ==
    ASSUME IInv, IInv', NEW p \in Procs, NEW c \in Procs, Fork(p, c)
    PROVE  UNCHANGED <<live, Seen>> \/ Space!Snapshot(p, c)
<1>1. CASE EntriesFor(p) = {}
  BY <1>1 DEF Fork, Stop, Seen, Present
<1>2. CASE EntriesFor(p) # {}
  <2>1. /\ p \in live /\ c \notin live /\ live' = live \cup {c}
        /\ pte' = ForkPtes(p, c) /\ UNCHANGED mem
    BY <1>2 DEF Fork, Running
  <2>2. /\ \A v \in Pages : pte'[p][v].frame = pte[p][v].frame /\ pte'[c][v].frame = pte[p][v].frame
        /\ \A q \in Procs \ {p, c} : pte'[q] = pte[q]
    BY <2>1, ForkTables DEF IInv
  <2>3. TypeOK /\ TypeOK'
    BY DEF IInv
  <2>4. ASSUME NEW q \in Procs, NEW w \in Pages, q # c PROVE Seen'[q][w] = Seen[q][w]
    <3>1. pte'[q][w].frame = pte[q][w].frame
      BY <2>2, <2>4
    <3> QED
      BY <2>1, <2>3, <3>1, SeenKept
  <2>5. \A w \in Pages : Seen'[c][w] = Seen[p][w]
    BY <2>1, <2>2, <2>3, SeenType, SeenTypeNext DEF Present
  <2>6. Seen' = [Seen EXCEPT ![c] = Seen[p]]
    <3> DEFINE t == [Seen EXCEPT ![c] = Seen[p]]
    <3>1. Seen \in [Procs -> [Pages -> Data \cup {Blank}]] /\ Seen' \in [Procs -> [Pages -> Data \cup {Blank}]]
      BY <2>3, SeenType, SeenTypeNext
    <3>2. t \in [Procs -> [Pages -> Data \cup {Blank}]]
          /\ \A q \in Procs, w \in Pages : t[q][w] = IF q = c THEN Seen[p][w] ELSE Seen[q][w]
      BY <3>1
    <3> HIDE DEF t
    <3>3. \A q \in Procs, w \in Pages : Seen'[q][w] = t[q][w]
      BY <2>4, <2>5, <3>2
    <3>4. Seen' = t
      BY <3>1, <3>2, <3>3, SameSpace
    <3> QED
      BY <3>4 DEF t
  <2> QED
    BY <2>1, <2>6 DEF Space!Snapshot
<1> QED
  BY <1>1, <1>2

\* The whole space of a process is replaced.
LEMMA ReplaceImplements ==
    ASSUME TypeOK, TypeOK', Taken, NEW p \in Procs,
           NEW table \in [Pages -> [frame : Pool \cup {None}, rw : BOOLEAN]],
           pte' = [pte EXCEPT ![p] = table],
           \A f \in mem_bitmap \cap Pool : mem'[f] = mem[f],
           NEW space \in [Pages -> Data \cup {Blank}],
           \A v \in Pages : table[v].frame # None => mem'[table[v].frame] = space[v],
           \A v \in Pages : table[v].frame = None => space[v] = Blank
    PROVE  Seen' = [Seen EXCEPT ![p] = space]
<1> DEFINE t == [Seen EXCEPT ![p] = space]
<1>1. ASSUME NEW q \in Procs, NEW w \in Pages, q # p PROVE Seen'[q][w] = Seen[q][w]
  <2>1. pte'[q][w] = pte[q][w]
    BY <1>1 DEF TypeOK
  <2>2. Present(q, w) => mem'[pte[q][w].frame] = mem[pte[q][w].frame]
    BY Types DEF Taken
  <2> QED
    BY <2>1, <2>2, SeenKept
<1>2. ASSUME NEW w \in Pages PROVE Seen'[p][w] = space[w]
  <2>1. pte'[p][w] = table[w]
    BY DEF TypeOK
  <2> QED
    BY <2>1, SeenTypeNext
<1>3. Seen \in [Procs -> [Pages -> Data \cup {Blank}]] /\ Seen' \in [Procs -> [Pages -> Data \cup {Blank}]]
  BY SeenType, SeenTypeNext
<1>4. t \in [Procs -> [Pages -> Data \cup {Blank}]]
      /\ \A q \in Procs, w \in Pages : t[q][w] = IF q = p THEN space[w] ELSE Seen[q][w]
  BY <1>3
<1> HIDE DEF t
<1>5. \A q \in Procs, w \in Pages : Seen'[q][w] = t[q][w]
  BY <1>1, <1>2, <1>4
<1>6. Seen' = t
  BY <1>3, <1>4, <1>5, SameSpace
<1> QED
  BY <1>6 DEF t

LEMMA ExecImplements ==
    ASSUME IInv, IInv', NEW p \in Procs, NEW d \in Data, Exec(p, d)
    PROVE  UNCHANGED <<live, Seen>> \/ Space!Load(p, d)
<1>1. CASE InOrder(Image, FreePages) = {}
  BY <1>1 DEF Exec, Stop, Seen, Present
<1>2. CASE InOrder(Image, FreePages) # {}
  <2>0. PICK got \in InOrder(Image, FreePages) :
        /\ pte' = [pte EXCEPT ![p] = [v \in Pages |->
                      IF v \in Image THEN [frame |-> got[v], rw |-> TRUE] ELSE NoPage]]
        /\ mem' = [f \in Pool |-> IF \E v \in Image : f = got[v] THEN d ELSE mem[f]]
        /\ UNCHANGED live
    BY <1>2 DEF Exec
  <2> DEFINE table == [v \in Pages |-> IF v \in Image THEN [frame |-> got[v], rw |-> TRUE] ELSE NoPage]
             space == [v \in Pages |-> IF v \in Image THEN d ELSE Blank]
  <2>1. /\ p \in live /\ pte' = [pte EXCEPT ![p] = table]
        /\ mem' = [f \in Pool |-> IF \E v \in Image : f = got[v] THEN d ELSE mem[f]]
        /\ UNCHANGED live
    BY <2>0 DEF Exec, Running
  <2>3. \A v \in Image : got[v] \in Pool /\ got[v] \notin mem_bitmap
    BY FoundFree
  <2>4. \A f \in mem_bitmap \cap Pool : mem'[f] = mem[f]
    BY <2>1, <2>3
  <2>5. \A v \in Image : mem'[got[v]] = d
    BY <2>1, <2>3
  <2>6. /\ table \in [Pages -> [frame : Pool \cup {None}, rw : BOOLEAN]]
        /\ \A v \in Pages : /\ v \in Image => table[v].frame = got[v]
                            /\ v \notin Image => table[v].frame = None
        /\ \A v \in Image : got[v] # None
    BY <2>3, Constants DEF NoPage
  <2>7. space \in [Pages -> Data \cup {Blank}]
        /\ \A v \in Pages : space[v] = IF v \in Image THEN d ELSE Blank
    OBVIOUS
  <2> HIDE DEF table, space
  <2>8. /\ \A v \in Pages : table[v].frame # None => mem'[table[v].frame] = space[v]
        /\ \A v \in Pages : table[v].frame = None => space[v] = Blank
    BY <2>5, <2>6, <2>7
  <2>9. Seen' = [Seen EXCEPT ![p] = space]
    <3>1. TypeOK /\ TypeOK' /\ Taken
      BY DEF IInv
    <3>2. pte' = [pte EXCEPT ![p] = table]
      BY <2>1
    <3>3. space \in [Pages -> Data \cup {Blank}]
          /\ table \in [Pages -> [frame : Pool \cup {None}, rw : BOOLEAN]]
      BY <2>6, <2>7
    <3> QED
      BY ONLY <3>1, <3>2, <3>3, <2>4, <2>8, p \in Procs, ReplaceImplements
  <2> QED
    BY <2>1, <2>9 DEF space, Space!Load
<1> QED
  BY <1>1, <1>2

LEMMA ExitImplements ==
    ASSUME IInv, IInv', NEW p \in Procs, Exit(p)
    PROVE  Space!Leave(p)
<1> DEFINE table == [v \in Pages |-> NoPage]
           space == [v \in Pages |-> Blank]
<1>1. p \in live /\ live' = live \ {p} /\ pte' = [pte EXCEPT ![p] = table] /\ UNCHANGED mem
  BY DEF Exit, Running
<1>2. /\ table \in [Pages -> [frame : Pool \cup {None}, rw : BOOLEAN]]
      /\ \A v \in Pages : table[v].frame = None
      /\ space \in [Pages -> Data \cup {Blank}] /\ \A v \in Pages : space[v] = Blank
  BY DEF NoPage
<1> HIDE DEF table, space
<1>3. Seen' = [Seen EXCEPT ![p] = space]
  BY <1>1, <1>2, ReplaceImplements DEF IInv
<1> QED
  BY <1>1, <1>3 DEF space, Space!Leave

LEMMA StepImplements ==
    ASSUME IInv, IInv', [Next]_vars
    PROVE  [InWindow' /\ ~CopyOutReadOnly => Space!SpaceNext]_<<live, Seen>>
<1>1. CASE UNCHANGED vars
  BY <1>1 DEF vars, Seen, Present
<1>2. CASE Next
  <2> PICK p \in Procs :
        \/ \E v \in Pages, d \in Data : Store(p, v, d) \/ CopyOut(p, v, d)
        \/ \E v \in Pages : FaultMissing(p, v) \/ FaultWrite(p, v)
        \/ \E c \in Procs : Fork(p, c)
        \/ \E d \in Data : Exec(p, d)
        \/ Exit(p)
    BY <1>2 DEF Next
  <2>1. CASE \E v \in Pages, d \in Data : Store(p, v, d) \/ CopyOut(p, v, d)
    BY <2>1, StoreImplements DEF Space!SpaceNext
  <2>2. CASE \E v \in Pages : FaultMissing(p, v) \/ FaultWrite(p, v)
    BY <2>2, FaultMissingImplements, FaultWriteImplements DEF Space!SpaceNext
  <2>3. CASE \E c \in Procs : Fork(p, c)
    BY <2>3, ForkImplements DEF Space!SpaceNext
  <2>4. CASE \E d \in Data : Exec(p, d)
    BY <2>4, ExecImplements DEF Space!SpaceNext
  <2>5. CASE Exit(p)
    BY <2>5, ExitImplements DEF Space!SpaceNext
  <2> QED
    BY <2>1, <2>2, <2>3, <2>4, <2>5
<1> QED
  BY <1>1, <1>2

-----------------------------------------------------------------------------
(* The theorems.                                                           *)

\* Copy-on-write (page_fault_handler, sys_copy_pages): after any forks, faults,
\* execs and exits, a page that a process may write to without a fault is mapped
\* nowhere else, until add() uses an entry that dec() does not scan.
THEOREM WritesAreExclusive == Spec => []ExclusiveWritable
<1>1. IInv => ExclusiveWritable
  BY DEF IInv, ExclusiveWritable, Exclusive
<1> QED
  BY <1>1, Invariance, PTL

\* frame_copy_map (add and dec of src/mem/paging.c) holds every shared page once, with
\* the number of its ptes, until add() uses an entry that dec() does not scan.
THEOREM SharersAreCounted == Spec => []SharersCounted
<1>1. IInv => SharersCounted
  BY DEF IInv, SharersCounted, Counts
<1> QED
  BY <1>1, Invariance, PTL

\* Every process has an address space of its own (module AddrSpace): fork, the faults,
\* exec and exit of any processes are steps of it or change nothing that is read, until
\* add() uses an entry that dec() does not scan, and but for system calls that store
\* into a page their caller may not write to.
THEOREM SpacesAreSeparate == Spec => ImplementsSpace
<1>1. Init => Space!SpaceInit
  BY InitImplements
<1>2. IInv /\ IInv' /\ [Next]_vars =>
        [InWindow' /\ ~CopyOutReadOnly => Space!SpaceNext]_<<live, Seen>>
  BY StepImplements
<1> QED
  BY <1>1, <1>2, Invariance, PTL DEF Spec, ImplementsSpace
=============================================================================
