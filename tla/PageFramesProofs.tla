-------------------------- MODULE PageFramesProofs --------------------------
(***************************************************************************)
(* Proofs about module PageFrames, for any number of processes, of regions *)
(* and of frames: no page directory or table is shared, freed too early or *)
(* kept for ever, whatever the order of faults, forks, execs and exits.    *)
(***************************************************************************)
EXTENDS PageFrames, TLAPS

-----------------------------------------------------------------------------
(* The inductive invariant.                                                *)

\* What a slot has in each phase.
Phases ==
    \A p \in Procs :
        /\ phase[p] = "free" => pde[p] = None /\ stray[p] = None
        /\ phase[p] # "free" => pde[p] # None
        /\ phase[p] # "live" => \A r \in Regions : table[p][r] = None

\* A frame is the table of one region, the directory of one process, or a table
\* that unlink made, which father and child may share, but not two of these,
\* and frame 0 is none.
Separate ==
    /\ \A p, q \in Procs, r, s \in Regions :
          table[p][r] # None /\ table[p][r] = table[q][s] => p = q /\ r = s
    /\ \A p, q \in Procs : pde[p] # None /\ pde[p] = pde[q] => p = q
    /\ \A p, q \in Procs, r \in Regions : table[p][r] # None => table[p][r] # pde[q]
    /\ \A p, q \in Procs : stray[p] # None => stray[p] # pde[q]
    /\ \A p, q \in Procs, r \in Regions : stray[p] # None => stray[p] # table[q][r]
    /\ \A p \in Procs : pde[p] # 0 /\ stray[p] # 0 /\ \A r \in Regions : table[p][r] # 0

\* All of them are marked as handed out.
Held ==
    /\ 0 \in page_bitmap
    /\ \A p \in Procs : pde[p] \in page_bitmap \cup {None}
    /\ \A p \in Procs : stray[p] \in page_bitmap \cup {None}
    /\ \A p \in Procs, r \in Regions : table[p][r] \in page_bitmap \cup {None}

\* No other frame is.
Accounted ==
    \A f \in page_bitmap :
        \/ f = 0 \/ f \in leaked
        \/ \E p \in Procs : f = pde[p] \/ f = stray[p] \/ \E r \in Regions : f = table[p][r]

\* What is handed out again must not be in use: that nothing is freed too early
\* rests on the separation of what is freed from everything else.
IInv == TypeOK /\ Phases /\ Separate /\ Held /\ Accounted

-----------------------------------------------------------------------------
(* The allocator.                                                          *)

LEMMA NoneIsNoFrame ==
    ASSUME TypeOK
    PROVE  None \notin page_bitmap
BY FrameAssumption DEF TypeOK, Frames, None

\* Places found in one search are in the set that was searched, and different.
LEMMA FoundApart ==
    ASSUME NEW R \in SUBSET Int, NEW S \in SUBSET Int, NEW got \in InOrder(R, S)
    PROVE  /\ \A r \in R : got[r] \in S
           /\ \A r, t \in R : got[r] = got[t] => r = t
<1>1. \A r \in R : got[r] \in S
  BY DEF InOrder
<1>2. ASSUME NEW r \in R, NEW t \in R, got[r] = got[t] PROVE r = t
  <2>1. r \in Int /\ t \in Int /\ got[r] \in Int
    BY <1>1
  <2>2. ~(r < t) /\ ~(t < r)
    BY <1>2, <2>1 DEF InOrder
  <2> QED
    BY <2>1, <2>2
<1> QED
  BY <1>1, <1>2

\* So are the frames that sys_alloc_page_frame finds.
LEMMA FoundFree ==
    ASSUME IInv, NEW R \in SUBSET Int, NEW got \in Found(R)
    PROVE  /\ \A r \in R : /\ got[r] \in Frames /\ got[r] \notin page_bitmap
                           /\ got[r] # None /\ got[r] # 0
           /\ \A r, t \in R : got[r] = got[t] => r = t
<1>1. FreeFrames \in SUBSET Frames /\ Frames \in SUBSET Int /\ None \notin Frames
  BY FrameAssumption DEF FreeFrames, Frames, None
<1>2. /\ \A r \in R : got[r] \in FreeFrames
      /\ \A r, t \in R : got[r] = got[t] => r = t
  BY <1>1, FoundApart DEF Found
<1> QED
  BY <1>1, <1>2 DEF IInv, Held, FreeFrames

-----------------------------------------------------------------------------
(* Every action preserves the invariant.                                   *)

LEMMA InitInv == Init => IInv
<1> SUFFICES ASSUME Init PROVE IInv
  OBVIOUS
<1>1. TypeOK
  <2>1. 0 \in Frames /\ 1 \in Frames
    BY FrameAssumption DEF Frames
  <2> QED
    BY <2>1 DEF Init, TypeOK
<1>2. Phases /\ Separate /\ Held
  BY ProcAssumption DEF Init, Phases, Separate, Held, None
<1>3. Accounted
  BY ProcAssumption DEF Init, Accounted, None
<1> QED
  BY <1>1, <1>2, <1>3 DEF IInv

\* The kernel hangs: nothing else changes.
LEMMA HangInv == IInv /\ Hang => IInv'
BY DEF IInv, Hang, TypeOK, Phases, Separate, Held, Accounted

LEMMA StutterInv == IInv /\ UNCHANGED vars => IInv'
BY DEF IInv, vars, TypeOK, Phases, Separate, Held, Accounted

LEMMA FaultTableInv ==
    ASSUME IInv, NEW p \in Procs, NEW r \in Regions, FaultTable(p, r)
    PROVE  IInv'
<1>1. CASE Found({r}) = {}
  BY <1>1, HangInv DEF FaultTable
<1>2. CASE Found({r}) # {}
  <2>0. PICK got \in Found({r}) :
        /\ table' = [table EXCEPT ![p][r] = got[r]]
        /\ page_bitmap' = page_bitmap \cup {got[r]}
        /\ UNCHANGED <<phase, pde, stray, leaked, hung>>
    BY <1>2 DEF FaultTable
  <2> DEFINE f == got[r]
  <2>1. f \in Frames \ page_bitmap /\ f # None /\ f # 0
    BY <2>0, FoundFree, RegionAssumption
  <2>2. /\ table' = [table EXCEPT ![p][r] = f]
        /\ page_bitmap' = page_bitmap \cup {f}
        /\ UNCHANGED <<phase, pde, stray, leaked, hung>>
        /\ phase[p] = "live" /\ table[p][r] = None
    BY <2>0 DEF FaultTable, Live
  <2> HIDE DEF f
  <2>3. \A q \in Procs, s \in Regions :
          table'[q][s] = IF q = p /\ s = r THEN f ELSE table[q][s]
    BY <2>2 DEF IInv, TypeOK
  <2>4. f # None /\ f # 0
    BY <2>1
  <2>5. TypeOK'
    BY <2>1, <2>2 DEF IInv, TypeOK
  <2>6. Phases'
    BY <2>2, <2>3 DEF IInv, Phases
  <2>7. Separate'
    BY <2>1, <2>2, <2>3, <2>4 DEF IInv, Separate, Held
  <2>8. Held'
    BY <2>2, <2>3 DEF IInv, Held
  <2>9. Accounted'
    <3>1. table'[p][r] = f
      BY <2>3
    <3>2. \A g \in page_bitmap, q \in Procs, s \in Regions :
            g = table[q][s] => g = table'[q][s]
      BY <2>2, <2>3, NoneIsNoFrame DEF IInv
    <3> QED
      BY <2>2, <3>1, <3>2 DEF IInv, Accounted
  <2> QED
    BY <2>5, <2>6, <2>7, <2>8, <2>9 DEF IInv
<1> QED
  BY <1>1, <1>2

LEMMA UnlinkInv ==
    ASSUME IInv, NEW p \in Procs, Unlink(p)
    PROVE  IInv'
<1>1. CASE Found({0}) = {}
  BY <1>1, HangInv DEF Unlink
<1>2. CASE Found({0}) # {}
  <2>0. PICK got \in Found({0}) :
        /\ stray' = [stray EXCEPT ![p] = got[0]]
        /\ page_bitmap' = page_bitmap \cup {got[0]}
        /\ UNCHANGED <<phase, pde, table, leaked, hung>>
    BY <1>2 DEF Unlink
  <2> DEFINE f == got[0]
  <2>1. f \in Frames \ page_bitmap /\ f # None /\ f # 0
    BY <2>0, FoundFree
  <2>2. /\ stray' = [stray EXCEPT ![p] = f]
        /\ page_bitmap' = page_bitmap \cup {f}
        /\ UNCHANGED <<phase, pde, table, leaked, hung>>
        /\ phase[p] = "live" /\ stray[p] = None
    BY <2>0 DEF Unlink, Live
  <2> HIDE DEF f
  <2>3. \A q \in Procs : stray'[q] = IF q = p THEN f ELSE stray[q]
    BY <2>2 DEF IInv, TypeOK
  <2>4. f # None /\ f # 0
    BY <2>1
  <2>5. TypeOK'
    BY <2>1, <2>2 DEF IInv, TypeOK
  <2>6. Phases'
    BY <2>2, <2>3 DEF IInv, Phases
  <2>7. Separate'
    BY <2>1, <2>2, <2>3, <2>4 DEF IInv, Separate, Held
  <2>8. Held'
    BY <2>2, <2>3 DEF IInv, Held
  <2>9. Accounted'
    <3>1. stray'[p] = f
      BY <2>3
    <3>2. \A g \in page_bitmap, q \in Procs : g = stray[q] => g = stray'[q]
      BY <2>2, <2>3, NoneIsNoFrame DEF IInv
    <3> QED
      BY <2>2, <3>1, <3>2 DEF IInv, Accounted
  <2> QED
    BY <2>5, <2>6, <2>7, <2>8, <2>9 DEF IInv
<1> QED
  BY <1>1, <1>2

LEMMA ForkInv ==
    ASSUME IInv, NEW p \in Procs, NEW c \in Procs, Fork(p, c)
    PROVE  IInv'
<1> DEFINE keys == {Directory} \cup RegionsOf(p)
<1>1. CASE Found(keys) = {}
  BY <1>1, HangInv DEF Fork
<1>2. CASE Found(keys) # {}
  <2>0. PICK got \in Found(keys) :
        /\ phase' = [phase EXCEPT ![c] = "live"]
        /\ pde' = [pde EXCEPT ![c] = got[Directory]]
        /\ table' = [table EXCEPT ![c] = CopiedTables(p, got)]
        /\ stray' = [stray EXCEPT ![c] = stray[p]]
        /\ page_bitmap' = page_bitmap \cup {got[r] : r \in keys}
        /\ UNCHANGED <<leaked, hung>>
    BY <1>2 DEF Fork
  <2> DEFINE dir == got[Directory]
             new == CopiedTables(p, got)
  <2>1. keys \in SUBSET Int /\ RegionsOf(p) \in SUBSET Regions /\ Directory \notin RegionsOf(p)
    <3>1. RegionsOf(p) \in SUBSET Regions
      BY DEF RegionsOf
    <3>2. \A r \in RegionsOf(p) : r \in Nat
      BY <3>1, RegionAssumption
    <3>3. Directory \in Int /\ Directory \notin Nat
      BY DEF Directory
    <3> QED
      BY <3>1, <3>2, <3>3
  <2>2. /\ \A r \in keys : /\ got[r] \in Frames /\ got[r] \notin page_bitmap
                           /\ got[r] # None /\ got[r] # 0
        /\ \A r, t \in keys : got[r] = got[t] => r = t
    BY <2>0, <2>1, FoundFree
  <2>3. \A r \in RegionsOf(p) : new[r] = got[r]
    BY <2>1 DEF CopiedTables
  <2>4. \A r \in Regions : r \notin RegionsOf(p) => new[r] = None
    BY DEF CopiedTables
  <2>5. new = [r \in Regions |-> new[r]]
    BY DEF CopiedTables
  <2>6. /\ phase[p] = "live" /\ phase[c] = "free"
        /\ phase' = [phase EXCEPT ![c] = "live"]
        /\ pde' = [pde EXCEPT ![c] = dir]
        /\ table' = [table EXCEPT ![c] = new]
        /\ stray' = [stray EXCEPT ![c] = stray[p]]
        /\ UNCHANGED <<leaked, hung>>
    BY <2>0 DEF Fork, Live
  <2>7. \A f \in page_bitmap' :
          f \in page_bitmap \/ f = dir \/ \E r \in RegionsOf(p) : f = new[r]
    BY <2>0, <2>3
  <2>8. page_bitmap \subseteq page_bitmap' /\ dir \in page_bitmap'
    BY <2>0
  <2>9. \A r \in RegionsOf(p) : new[r] \in page_bitmap'
    BY <2>0, <2>3
  <2>10. /\ dir \in Frames /\ dir \notin page_bitmap /\ dir # 0 /\ dir # None
         /\ \A r \in Regions :
               new[r] # None => /\ new[r] \in Frames /\ new[r] \notin page_bitmap
                                /\ new[r] # 0 /\ new[r] # dir
         /\ \A r, s \in Regions : new[r] # None /\ new[r] = new[s] => r = s
    BY <2>1, <2>2, <2>3, <2>4
  <2> HIDE DEF new, dir
  <2>11. c # p /\ pde[c] = None /\ stray[c] = None /\ \A r \in Regions : table[c][r] = None
    BY <2>6 DEF IInv, Phases
  <2>12. \A q \in Procs, r \in Regions :
           table'[q][r] = IF q = c THEN new[r] ELSE table[q][r]
    BY <2>6 DEF IInv, TypeOK
  <2>13. \A q \in Procs : /\ pde'[q] = IF q = c THEN dir ELSE pde[q]
                          /\ stray'[q] = IF q = c THEN stray[p] ELSE stray[q]
                          /\ phase'[q] = IF q = c THEN "live" ELSE phase[q]
    BY <2>6 DEF IInv, TypeOK
  <2>14. TypeOK'
    <3>1. page_bitmap' \subseteq Frames
      BY <2>2, <2>3, <2>7, <2>10 DEF IInv, TypeOK
    <3> QED
      BY <2>5, <2>6, <2>10, <3>1 DEF IInv, TypeOK
  <2>15. Phases'
    BY <2>11, <2>12, <2>13, <2>10 DEF IInv, Phases
  <2>16. Separate'
    BY <2>11, <2>12, <2>13, <2>10 DEF IInv, Separate, Held
  <2>17. Held'
    BY <2>4, <2>8, <2>9, <2>12, <2>13 DEF IInv, Held
  <2>18. Accounted'
    <3>1. None \notin page_bitmap
      BY NoneIsNoFrame DEF IInv
    <3>2. \A g \in page_bitmap, q \in Procs :
            g = pde[q] \/ g = stray[q] \/ (\E r \in Regions : g = table[q][r])
              => g = pde'[q] \/ g = stray'[q] \/ \E r \in Regions : g = table'[q][r]
      BY <2>11, <2>12, <2>13, <3>1
    <3>3. dir = pde'[c] /\ \A r \in RegionsOf(p) : r \in Regions /\ new[r] = table'[c][r]
      BY <2>12, <2>13 DEF RegionsOf
    <3>4. leaked' = leaked
      BY <2>6
    <3> QED
      BY <2>7, <3>2, <3>3, <3>4 DEF IInv, Accounted
  <2> QED
    BY <2>14, <2>15, <2>16, <2>17, <2>18 DEF IInv
<1> QED
  BY <1>1, <1>2

LEMMA ExecInv ==
    ASSUME IInv, NEW p \in Procs, Exec(p)
    PROVE  IInv'
<1> DEFINE free == FreeFrames \cup Released(p)
<1>1. CASE InOrder(Image, free) = {}
  BY <1>1, HangInv DEF Exec
<1>2. CASE InOrder(Image, free) # {}
  <2>0. PICK got \in InOrder(Image, free) :
        /\ table' = [table EXCEPT ![p] = [r \in Regions |-> IF r \in Image THEN got[r] ELSE None]]
        /\ page_bitmap' = (page_bitmap \ Released(p)) \cup {got[r] : r \in Image}
        /\ UNCHANGED <<phase, pde, stray, leaked, hung>>
    BY <1>2 DEF Exec
  <2> DEFINE loaded == [r \in Regions |-> IF r \in Image THEN got[r] ELSE None]
  <2>1. \A f : f \in Released(p) <=> f # None /\ \E r \in Regions : f = table[p][r]
    BY DEF Released, RegionsOf
  <2>2. free \in SUBSET Frames
    BY <2>1 DEF IInv, TypeOK, FreeFrames
  <2>3. free \in SUBSET Int /\ Image \in SUBSET Int
    BY <2>2, RegionAssumption DEF Frames
  <2>4. /\ \A r \in Image : loaded[r] \in free
        /\ \A r, t \in Image : loaded[r] = loaded[t] => r = t
    <3>1. \A r \in Image : loaded[r] = got[r]
      BY RegionAssumption
    <3> HIDE DEF free, loaded
    <3> QED
      BY <2>0, <2>3, <3>1, FoundApart
  <2>5. \A r \in Regions : r \notin Image => loaded[r] = None
    OBVIOUS
  <2>6. loaded = [r \in Regions |-> loaded[r]]
    OBVIOUS
  <2>7. /\ phase[p] = "live"
        /\ table' = [table EXCEPT ![p] = loaded]
        /\ page_bitmap' = (page_bitmap \ Released(p)) \cup {loaded[r] : r \in Image}
        /\ UNCHANGED <<phase, pde, stray, leaked, hung>>
    BY <2>0, RegionAssumption DEF Exec, Live
  <2>8. \A f \in free : f \in Frames /\ f # None /\ f # 0
                        /\ (f \notin page_bitmap \/ f \in Released(p))
    BY <2>1, <2>2 DEF IInv, Held, Separate, FreeFrames, Frames, None
  <2> HIDE DEF free, loaded
  <2>9. \A q \in Procs, r \in Regions :
           table'[q][r] = IF q = p THEN loaded[r] ELSE table[q][r]
    BY <2>7 DEF IInv, TypeOK
  <2>10. \A r \in Image : r \in Regions
    BY RegionAssumption
  <2>11. TypeOK'
    BY <2>4, <2>5, <2>6, <2>7, <2>8, <2>10 DEF IInv, TypeOK
  <2>12. Phases'
    BY <2>7, <2>9 DEF IInv, Phases
  <2>13. Separate'
    <3>1. \A r \in Regions : loaded[r] # None => /\ r \in Image
                                               /\ loaded[r] # 0
                                               /\ \/ loaded[r] \notin page_bitmap
                                                  \/ loaded[r] \in Released(p)
      BY <2>4, <2>5, <2>8
    <3>2. \A r \in Regions, q \in Procs :
             loaded[r] # None => /\ loaded[r] # pde[q]
                                 /\ loaded[r] # stray[q]
                                 /\ q # p => \A t \in Regions : loaded[r] # table[q][t]
      BY <2>1, <3>1 DEF IInv, Held, Separate
    <3>3. \A r \in Regions : loaded[r] # 0
      BY <2>5, <3>1 DEF None
    <3> QED
      BY <2>4, <2>7, <2>9, <3>1, <3>2, <3>3 DEF IInv, Separate
  <2>14. Held'
    <3>1. \A q \in Procs : pde[q] \notin Released(p) /\ stray[q] \notin Released(p)
      BY <2>1 DEF IInv, Separate
    <3>2. \A q \in Procs, r \in Regions : q # p => table[q][r] \notin Released(p)
      BY <2>1 DEF IInv, Separate
    <3>3. 0 \notin Released(p)
      BY <2>1 DEF IInv, Separate
    <3> QED
      BY <2>5, <2>7, <2>9, <3>1, <3>2, <3>3 DEF IInv, Held
  <2>15. Accounted'
    <3>1. \A r \in Image : loaded[r] = table'[p][r]
      BY <2>9, <2>10
    <3>2. \A f \in page_bitmap \ Released(p), q \in Procs, r \in Regions :
             f = table[q][r] => f = table'[q][r]
      BY <2>1, <2>9, NoneIsNoFrame DEF IInv
    <3> QED
      BY <2>7, <2>10, <3>1, <3>2 DEF IInv, Accounted
  <2> QED
    BY <2>11, <2>12, <2>13, <2>14, <2>15 DEF IInv
<1> QED
  BY <1>1, <1>2

LEMMA ExitInv ==
    ASSUME IInv, NEW p \in Procs, Exit(p)
    PROVE  IInv'
<1>1. /\ phase[p] = "live"
      /\ phase' = [phase EXCEPT ![p] = "exited"]
      /\ table' = [table EXCEPT ![p] = [r \in Regions |-> None]]
      /\ page_bitmap' = page_bitmap \ Released(p)
      /\ UNCHANGED <<pde, stray, leaked, hung>>
  BY DEF Exit, Live
<1>2. \A q \in Procs, r \in Regions :
        table'[q][r] = IF q = p THEN None ELSE table[q][r]
  BY <1>1 DEF IInv, TypeOK
<1>3. \A q \in Procs : phase'[q] = IF q = p THEN "exited" ELSE phase[q]
  BY <1>1 DEF IInv, TypeOK
<1>4. \A f : f \in Released(p) <=> f # None /\ \E r \in Regions : f = table[p][r]
  BY DEF Released, RegionsOf
<1>5. TypeOK'
  BY <1>1 DEF IInv, TypeOK
<1>6. Phases'
  BY <1>1, <1>2, <1>3 DEF IInv, Phases
<1>7. Separate'
  BY <1>1, <1>2 DEF IInv, Separate, None
<1>8. Held'
  BY <1>1, <1>2, <1>4 DEF IInv, Held, Separate
<1>9. Accounted'
  BY <1>1, <1>2, <1>4, NoneIsNoFrame DEF IInv, Accounted
<1> QED
  BY <1>5, <1>6, <1>7, <1>8, <1>9 DEF IInv

LEMMA ReclaimInv ==
    ASSUME IInv, NEW p \in Procs, Reclaim(p)
    PROVE  IInv'
<1>1. /\ phase[p] = "exited"
      /\ phase' = [phase EXCEPT ![p] = "free"]
      /\ page_bitmap' = page_bitmap \ {pde[p]}
      /\ pde' = [pde EXCEPT ![p] = None]
      /\ stray' = [stray EXCEPT ![p] = None]
      /\ leaked' = leaked \cup ({stray[p]} \ ({stray[q] : q \in Procs \ {p}} \cup {None}))
      /\ UNCHANGED <<table, hung>>
  BY DEF Reclaim
<1>2. \A q \in Procs : /\ pde'[q] = IF q = p THEN None ELSE pde[q]
                       /\ stray'[q] = IF q = p THEN None ELSE stray[q]
                       /\ phase'[q] = IF q = p THEN "free" ELSE phase[q]
  BY <1>1 DEF IInv, TypeOK
<1>3. TypeOK'
  BY <1>1 DEF IInv, TypeOK
<1>4. Phases'
  BY <1>1, <1>2 DEF IInv, Phases
<1>5. Separate'
  BY <1>1, <1>2 DEF IInv, Separate, None
<1>6. Held'
  BY <1>1, <1>2 DEF IInv, Held, Separate, Phases
<1>7. Accounted'
  <2> SUFFICES ASSUME NEW f \in page_bitmap', f # 0, f \notin leaked'
               PROVE  \E q \in Procs : f = pde'[q] \/ f = stray'[q]
                                       \/ \E r \in Regions : f = table'[q][r]
    BY DEF Accounted
  <2>1. f \in page_bitmap /\ f # pde[p] /\ f # None /\ f \notin leaked
    BY <1>1, NoneIsNoFrame DEF IInv
  <2>2. PICK q \in Procs : f = pde[q] \/ f = stray[q] \/ \E r \in Regions : f = table[q][r]
    BY <2>1 DEF IInv, Accounted
  <2>3. CASE f = stray[q] /\ q = p
    <3>1. PICK o \in Procs \ {p} : f = stray[o]
      BY <1>1, <2>1, <2>3
    <3> QED
      BY <1>2, <3>1
  <2> QED
    BY <1>1, <1>2, <2>1, <2>2, <2>3
<1> QED
  BY <1>3, <1>4, <1>5, <1>6, <1>7 DEF IInv

LEMMA NextInv == IInv /\ [Next]_vars => IInv'
BY FaultTableInv, UnlinkInv, ForkInv, ExecInv, ExitInv, ReclaimInv, StutterInv DEF Next

LEMMA Invariance == Spec => []IInv
BY InitInv, NextInv, PTL DEF Spec

-----------------------------------------------------------------------------
(* The properties.                                                         *)

\* The variables of PageFrames keep their types (page_bitmap and the page
\* directories of paging.c and proc.c).
THEOREM TypeCorrect == Spec => []TypeOK
<1>1. IInv => TypeOK
  BY DEF IInv
<1> QED
  BY <1>1, Invariance, PTL

\* No two page directories or page tables are in one frame, after whatever
\* faults, forks, execs and exits (sys_alloc_page_frame, sys_free_page_frame).
THEOREM NeverShared == Spec => []FramesNotShared
<1>1. IInv => FramesNotShared
  <2> SUFFICES ASSUME IInv, NEW u \in Uses, NEW w \in Uses,
                      FrameOf(u) = FrameOf(w), FrameOf(u) # None
               PROVE  u = w
    BY DEF FramesNotShared
  <2> DEFINE IsKernel(x) == x = <<"kernel", 0>> /\ FrameOf(x) = 0
             IsPde(x) == \E p \in Procs : x = <<"pde", p>> /\ FrameOf(x) = pde[p]
             IsTable(x) == \E p \in Procs, r \in Regions :
                              x = <<"table", p, r>> /\ FrameOf(x) = table[p][r]
  <2>1. \A x \in Uses : IsKernel(x) \/ IsPde(x) \/ IsTable(x)
    BY DEF Uses, FrameOf
  <2>2. CASE IsKernel(u)
    <3>1. FrameOf(w) = 0
      BY <2>2
    <3>2. ~IsPde(w) /\ ~IsTable(w)
      BY <3>1 DEF IInv, Separate
    <3> QED
      BY <2>1, <2>2, <3>2
  <2>3. CASE IsPde(u)
    BY <2>1, <2>3 DEF IInv, Separate
  <2>4. CASE IsTable(u)
    BY <2>1, <2>4 DEF IInv, Separate
  <2> QED
    BY <2>1, <2>2, <2>3, <2>4
<1> QED
  BY <1>1, Invariance, PTL

\* Nothing that a process can still run on is freed too early: every directory
\* and table in use is marked in page_bitmap (sys_cleanup_memory, schedule).
THEOREM NeverFreedEarly == Spec => []FramesHeld
<1>1. IInv => FramesHeld
  <2> SUFFICES ASSUME IInv, NEW f \in InUse PROVE f \in page_bitmap
    BY DEF FramesHeld, IInv
  <2>1. f # None
    BY DEF InUse
  <2>2. \A u \in Uses : \/ FrameOf(u) = 0
                        \/ \E p \in Procs : FrameOf(u) = pde[p]
                        \/ \E p \in Procs, r \in Regions : FrameOf(u) = table[p][r]
    BY DEF Uses, FrameOf
  <2> QED
    BY <2>1, <2>2 DEF InUse, IInv, Held
<1> QED
  BY <1>1, Invariance, PTL

\* What exit and the scheduler leave behind can be used again: a frame that is
\* marked is in use, but for the tables of unlink whose directory is gone.
THEOREM AllReturned == Spec => []FramesReturned
<1>1. IInv => FramesReturned
  <2> SUFFICES ASSUME IInv, NEW f \in page_bitmap, f \notin leaked PROVE f \in InUse
    BY DEF FramesReturned
  <2>1. f # None
    BY NoneIsNoFrame DEF IInv
  <2>2. CASE f = 0
    <3>1. <<"kernel", 0>> \in Uses /\ FrameOf(<<"kernel", 0>>) = 0
      BY DEF Uses, FrameOf
    <3> QED
      BY <2>1, <2>2, <3>1 DEF InUse
  <2>3. ASSUME NEW p \in Procs, f = pde[p]
        PROVE  f \in InUse
    <3>1. phase[p] # "free"
      BY <2>1, <2>3 DEF IInv, Phases
    <3>2. <<"pde", p>> \in Uses /\ FrameOf(<<"pde", p>>) = pde[p]
      BY <3>1 DEF Uses, FrameOf
    <3> QED
      BY <2>1, <2>3, <3>2 DEF InUse
  <2>4. ASSUME NEW p \in Procs, f = stray[p]
        PROVE  f \in InUse
    BY <2>1, <2>4 DEF InUse
  <2>5. ASSUME NEW p \in Procs, NEW r \in Regions, f = table[p][r]
        PROVE  f \in InUse
    <3>1. <<"table", p, r>> \in Uses /\ FrameOf(<<"table", p, r>>) = table[p][r]
      BY DEF Uses, FrameOf
    <3> QED
      BY <2>1, <2>5, <3>1 DEF InUse
  <2> QED
    BY <2>2, <2>3, <2>4, <2>5 DEF IInv, Accounted
<1> QED
  BY <1>1, Invariance, PTL
=============================================================================
