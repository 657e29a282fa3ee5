-------------------------- MODULE FileTableProofs --------------------------
(***************************************************************************)
(* Proofs about module FileTable, for any number of processes, slots,      *)
(* descriptors and forks: the bound of the runs on copied descriptors      *)
(* plays no part.                                                          *)
(***************************************************************************)
EXTENDS FileTable, FiniteSetTheorems, TLAPS

-----------------------------------------------------------------------------
(* The inductive invariant.                                                *)

\* A process that is gone has no open slot.
DeadClosed == \A p \in Procs \ live, i \in Fds : fds[p][i] = 0

\* A descriptor that no fork has copied is free, without a reference ...
Unused(d) ==
    /\ inode[d] = 0 /\ rwcount[d] = 0
    /\ \A p \in Procs, i \in Fds : fds[p][i] # d

\* ... or it has the one reference that its open made.
UsedOnce(d) ==
    /\ rwcount[d] = 1 /\ inode[d] # 0
    /\ \E p \in live, i \in Fds :
          /\ fds[p][i] = d
          /\ inode[d] = opened[p][i]
          /\ \A q \in Procs, j \in Fds : fds[q][j] = d => q = p /\ j = i

IInv ==
    /\ TypeOK
    /\ DeadClosed
    /\ \A d \in Descs \ forked : Unused(d) \/ UsedOnce(d)

-----------------------------------------------------------------------------
(* Facts about the operators.                                              *)

\* What open finds is free.
LEMMA FreeFound ==
    ASSUME NEW p \in Procs
    PROVE  /\ \A i \in LeastOf(FreeFds(p)) : i \in Fds /\ fds[p][i] = 0
           /\ \A d \in LeastOf(FreeDescs) : d \in Descs /\ inode[d] = 0
BY DEF LeastOf, FreeFds, FreeDescs

\* Counts stay in their word, and the counts 0 and 1 do not wrap.
LEMMA PlusType ==
    ASSUME NEW n \in Int, NEW k \in Int
    PROVE  Plus(n, k) \in 0 .. WORD - 1
BY SizeAssumption DEF Plus

LEMMA PlusSmall ==
    /\ Plus(0, 1) = 1 /\ Plus(1, -1) = 0
    /\ Plus(0, 0) = 0 /\ Plus(1, 0) = 1
BY SizeAssumption DEF Plus

\* The calls of sys_do_close that closing slots S of p makes on descriptor d.
Calls(p, S, d) == Cardinality({i \in S : fds[p][i] = d})

LEMMA CallsType ==
    ASSUME NEW p, NEW S \in SUBSET Fds, NEW d
    PROVE  Calls(p, S, d) \in Nat
<1>1. IsFiniteSet(Fds)
  BY SizeAssumption, FS_Interval DEF Fds
<1>2. {i \in S : fds[p][i] = d} \in SUBSET Fds
  OBVIOUS
<1>3. IsFiniteSet({i \in S : fds[p][i] = d})
  BY <1>1, <1>2, FS_Subset
<1> QED
  BY <1>3, FS_CardinalityType DEF Calls

LEMMA CallsNone ==
    ASSUME NEW p, NEW S, NEW d, \A i \in S : fds[p][i] # d
    PROVE  Calls(p, S, d) = 0
<1>1. {i \in S : fds[p][i] = d} = {}
  OBVIOUS
<1> QED
  BY <1>1, FS_EmptySet DEF Calls

LEMMA CallsOne ==
    ASSUME NEW p, NEW S, NEW d, NEW j \in S, fds[p][j] = d,
           \A i \in S : fds[p][i] = d => i = j
    PROVE  Calls(p, S, d) = 1
<1>1. {i \in S : fds[p][i] = d} = {j}
  OBVIOUS
<1> QED
  BY <1>1, FS_Singleton DEF Calls

-----------------------------------------------------------------------------
(* Every action preserves the invariant.                                   *)

LEMMA InitInv == Init => IInv
<1> SUFFICES ASSUME Init PROVE IInv
  OBVIOUS
<1>1. TypeOK
  <2>1. NoFds \in [Fds -> Descs \cup {0}] /\ NoFds \in [Fds -> Files \cup {0}]
    BY DEF NoFds
  <2>2. 0 \in 0 .. WORD - 1
    BY SizeAssumption
  <2> QED
    BY <2>1, <2>2, FileAssumption DEF Init, TypeOK
<1>2. DeadClosed
  BY DEF Init, DeadClosed, NoFds
<1>3. \A d \in Descs : Unused(d)
  BY SizeAssumption DEF Init, Unused, NoFds, Descs
<1> QED
  BY <1>1, <1>2, <1>3 DEF IInv

LEMMA HangInv == IInv /\ Hang => IInv'
BY DEF IInv, Hang, TypeOK, DeadClosed, Unused, UsedOnce

LEMMA StutterInv == IInv /\ UNCHANGED vars => IInv'
BY DEF IInv, vars, TypeOK, DeadClosed, Unused, UsedOnce

LEMMA OpenInv ==
    ASSUME IInv, NEW p \in Procs, NEW f \in Files, Open(p, f)
    PROVE  IInv'
<1>1. CASE LeastOf(FreeFds(p)) = {} \/ LeastOf(FreeDescs) = {}
  BY <1>1, HangInv DEF Open
<1>2. CASE ~(LeastOf(FreeFds(p)) = {} \/ LeastOf(FreeDescs) = {})
  <2>1. PICK i \in LeastOf(FreeFds(p)), d \in LeastOf(FreeDescs) :
        /\ fds' = [fds EXCEPT ![p][i] = d]
        /\ inode' = [inode EXCEPT ![d] = f]
        /\ rwcount' = [rwcount EXCEPT ![d] = Plus(@, 1)]
        /\ opened' = [opened EXCEPT ![p][i] = f]
        /\ UNCHANGED <<live, forked, hung>>
        /\ p \in live
    BY <1>2 DEF Open, Running
  <2>2. i \in Fds /\ fds[p][i] = 0 /\ d \in Descs /\ inode[d] = 0
    BY FreeFound
  <2>3. /\ \A q \in Procs, j \in Fds :
              /\ fds'[q][j] = IF q = p /\ j = i THEN d ELSE fds[q][j]
              /\ opened'[q][j] = IF q = p /\ j = i THEN f ELSE opened[q][j]
        /\ \A e \in Descs : inode'[e] = IF e = d THEN f ELSE inode[e]
        /\ \A e \in Descs : rwcount'[e] = IF e = d THEN Plus(rwcount[d], 1) ELSE rwcount[e]
    BY <2>2, <2>1 DEF IInv, TypeOK
  <2>4. f # 0 /\ d # 0 /\ 0 \notin Descs
    BY <2>2, FileAssumption DEF Descs
  <2>5. TypeOK'
    <3>1. rwcount[d] \in Int
      BY <2>2, SizeAssumption DEF IInv, TypeOK
    <3>2. Plus(rwcount[d], 1) \in 0 .. WORD - 1
      BY <3>1, PlusType, 1 \in Int
    <3> QED
      BY <2>2, <2>1, <3>2 DEF IInv, TypeOK
  <2>6. DeadClosed'
    BY <2>1, <2>3 DEF IInv, DeadClosed
  <2>7. ASSUME NEW e \in Descs \ forked
        PROVE  Unused(e)' \/ UsedOnce(e)'
    <3>1. CASE e = d
      <4>1. Unused(d)
        BY <2>2, <2>7, <3>1 DEF IInv, UsedOnce
      <4>2. rwcount'[d] = 1 /\ inode'[d] = f
        BY <2>2, <2>3, <4>1, PlusSmall DEF Unused
      <4>3. /\ fds'[p][i] = d /\ opened'[p][i] = f
            /\ \A q \in Procs, j \in Fds : fds'[q][j] = d => q = p /\ j = i
        BY <2>2, <2>3, <4>1 DEF Unused
      <4> QED
        BY <2>2, <2>1, <2>4, <3>1, <4>2, <4>3 DEF UsedOnce
    <3>2. CASE e # d /\ Unused(e)
      BY <2>3, <3>2 DEF Unused
    <3>3. CASE e # d /\ UsedOnce(e)
      <4>1. PICK q \in live, j \in Fds :
              /\ fds[q][j] = e
              /\ inode[e] = opened[q][j]
              /\ \A r \in Procs, k \in Fds : fds[r][k] = e => r = q /\ k = j
        BY <3>3 DEF UsedOnce
      <4>2. q \in Procs /\ ~(q = p /\ j = i)
        BY <2>2, <2>4, <4>1 DEF IInv, TypeOK
      <4>3. /\ fds'[q][j] = e
            /\ inode'[e] = opened'[q][j]
            /\ \A r \in Procs, k \in Fds : fds'[r][k] = e => r = q /\ k = j
        BY <2>3, <3>3, <4>1, <4>2
      <4> QED
        BY <2>1, <2>3, <3>3, <4>1, <4>3 DEF UsedOnce
    <3> QED
      BY <3>1, <3>2, <3>3 DEF IInv
  <2> QED
    BY <2>1, <2>5, <2>6, <2>7 DEF IInv
<1> QED
  BY <1>1, <1>2

\* What the calls of sys_do_close for slots S of p do to a descriptor without
\* copies: it loses its only reference and is free, or is not touched.
LEMMA CloseEffect ==
    ASSUME IInv, NEW p \in live, NEW S \in SUBSET Fds, Close(p, S)
    PROVE  /\ \A q \in Procs, j \in Fds :
                /\ fds'[q][j] = IF q = p /\ j \in S THEN 0 ELSE fds[q][j]
                /\ opened'[q][j] = IF q = p /\ j \in S THEN 0 ELSE opened[q][j]
           /\ fds' \in [Procs -> [Fds -> Descs \cup {0}]]
           /\ opened' \in [Procs -> [Fds -> Files \cup {0}]]
           /\ inode' \in [Descs -> Files \cup {0}]
           /\ rwcount' \in [Descs -> 0 .. WORD - 1]
           /\ \A e \in Descs \ forked :
                \/ Unused(e)'
                \/ /\ UsedOnce(e)
                   /\ inode'[e] = inode[e] /\ rwcount'[e] = 1
                   /\ \A j \in S : fds[p][j] # e
<1>0. p \in Procs
  BY DEF IInv, TypeOK
<1>1. /\ fds' = [fds EXCEPT ![p] = [i \in Fds |-> IF i \in S THEN 0 ELSE @[i]]]
      /\ opened' = [opened EXCEPT ![p] = [i \in Fds |-> IF i \in S THEN 0 ELSE @[i]]]
      /\ inode' = [d \in Descs |-> Dropped(d, Calls(p, S, d))]
      /\ rwcount' = [d \in Descs |-> Plus(rwcount[d], -Calls(p, S, d))]
  BY DEF Close, Calls
<1>2. \A q \in Procs, j \in Fds :
        /\ fds'[q][j] = IF q = p /\ j \in S THEN 0 ELSE fds[q][j]
        /\ opened'[q][j] = IF q = p /\ j \in S THEN 0 ELSE opened[q][j]
  BY <1>0, <1>1 DEF IInv, TypeOK
<1>3. fds' \in [Procs -> [Fds -> Descs \cup {0}]]
  BY <1>0, <1>1 DEF IInv, TypeOK
<1>4. opened' \in [Procs -> [Fds -> Files \cup {0}]]
  BY <1>0, <1>1 DEF IInv, TypeOK
<1>5. inode' \in [Descs -> Files \cup {0}]
  BY <1>1 DEF IInv, TypeOK, Dropped
<1>6. rwcount' \in [Descs -> 0 .. WORD - 1]
  <2> SUFFICES ASSUME NEW d \in Descs
               PROVE  Plus(rwcount[d], -Calls(p, S, d)) \in 0 .. WORD - 1
    BY <1>1
  <2>1. rwcount[d] \in Int
    BY SizeAssumption DEF IInv, TypeOK
  <2>2. -Calls(p, S, d) \in Int
    BY CallsType
  <2> QED
    BY <2>1, <2>2, PlusType
<1>7. ASSUME NEW e \in Descs \ forked
      PROVE  \/ Unused(e)'
             \/ /\ UsedOnce(e)
                /\ inode'[e] = inode[e] /\ rwcount'[e] = 1
                /\ \A j \in S : fds[p][j] # e
  <2>1. inode'[e] = Dropped(e, Calls(p, S, e)) /\ rwcount'[e] = Plus(rwcount[e], -Calls(p, S, e))
    BY <1>1
  <2>2. e # 0
    BY SizeAssumption DEF Descs
  <2>3. CASE Unused(e)
    <3>1. Calls(p, S, e) = 0
      BY <1>0, <2>3, CallsNone DEF Unused
    <3>2. inode'[e] = 0 /\ rwcount'[e] = 0
      BY <2>1, <2>3, <3>1, PlusSmall DEF Unused, Dropped
    <3> QED
      BY <1>2, <2>2, <2>3, <3>2 DEF Unused
  <2>4. CASE UsedOnce(e) /\ \A j \in S : fds[p][j] # e
    <3>1. Calls(p, S, e) = 0
      BY <2>4, CallsNone
    <3>2. inode'[e] = inode[e] /\ rwcount'[e] = 1
      BY <2>1, <2>4, <3>1, PlusSmall DEF UsedOnce, Dropped
    <3> QED
      BY <2>4, <3>2
  <2>5. ASSUME UsedOnce(e), NEW j \in S, fds[p][j] = e
        PROVE  Unused(e)'
    <3>1. \A q \in Procs, i \in Fds : fds[q][i] = e => q = p /\ i = j
      BY <1>0, <2>5 DEF UsedOnce, IInv, TypeOK
    <3>2. Calls(p, S, e) = 1
      BY <1>0, <2>5, <3>1, CallsOne
    <3>3. inode'[e] = 0 /\ rwcount'[e] = 0
      BY <2>1, <2>5, <3>2, PlusSmall DEF UsedOnce, Dropped
    <3> QED
      BY <1>2, <2>2, <3>1, <3>3 DEF Unused
  <2> QED
    BY <2>3, <2>4, <2>5 DEF IInv
<1> QED
  BY <1>2, <1>3, <1>4, <1>5, <1>6, <1>7

\* A descriptor that keeps its reference through Close(p, S) keeps all of UsedOnce,
\* when the process that holds it stays.
LEMMA UsedOnceKept ==
    ASSUME IInv, NEW p \in live, NEW S \in SUBSET Fds, Close(p, S),
           NEW e \in Descs \ forked, UsedOnce(e), inode'[e] = inode[e], rwcount'[e] = 1,
           \A j \in S : fds[p][j] # e,
           live' = live \/ (live' = live \ {p} /\ S = Fds)
    PROVE  UsedOnce(e)'
<1>1. \A q \in Procs, j \in Fds :
        /\ fds'[q][j] = IF q = p /\ j \in S THEN 0 ELSE fds[q][j]
        /\ opened'[q][j] = IF q = p /\ j \in S THEN 0 ELSE opened[q][j]
  BY CloseEffect
<1>2. PICK q \in live, j \in Fds :
        /\ fds[q][j] = e
        /\ inode[e] = opened[q][j]
        /\ \A r \in Procs, k \in Fds : fds[r][k] = e => r = q /\ k = j
  BY DEF UsedOnce
<1>3. q \in Procs /\ ~(q = p /\ j \in S) /\ e # 0
  BY <1>2, SizeAssumption DEF IInv, TypeOK, Descs
<1>4. q \in live'
  BY <1>2, <1>3
<1>5. /\ fds'[q][j] = e
      /\ inode'[e] = opened'[q][j]
      /\ \A r \in Procs, k \in Fds : fds'[r][k] = e => r = q /\ k = j
  BY <1>1, <1>2, <1>3
<1>6. rwcount'[e] = 1 /\ inode'[e] # 0
  BY DEF UsedOnce
<1> QED
  BY <1>4, <1>5, <1>6 DEF UsedOnce

LEMMA SysCloseInv ==
    ASSUME IInv, NEW p \in Procs, NEW i \in Fds \cup {FD_CNT}, SysClose(p, i)
    PROVE  IInv'
<1>1. CASE i \notin Fds
  BY <1>1, HangInv DEF SysClose
<1>2. CASE i \in Fds
  <2>1. p \in live /\ Close(p, {i}) /\ UNCHANGED <<live, forked, hung>>
    BY <1>2 DEF SysClose, Running
  <2>2. {i} \in SUBSET Fds
    BY <1>2
  <2>3. TypeOK'
    BY <2>1, <2>2, CloseEffect DEF IInv, TypeOK
  <2>4. DeadClosed'
    BY <2>1, <2>2, CloseEffect DEF IInv, DeadClosed
  <2>5. \A e \in Descs \ forked : Unused(e)' \/ UsedOnce(e)'
    BY <2>1, <2>2, CloseEffect, UsedOnceKept
  <2> QED
    BY <2>1, <2>3, <2>4, <2>5 DEF IInv
<1> QED
  BY <1>1, <1>2

LEMMA ExitInv ==
    ASSUME IInv, NEW p \in Procs, Exit(p)
    PROVE  IInv'
<1>1. p \in live /\ Close(p, Fds) /\ live' = live \ {p} /\ UNCHANGED <<forked, hung>>
  BY DEF Exit, Running, ExitCloses
<1>2. TypeOK'
  BY <1>1, CloseEffect DEF IInv, TypeOK
<1>3. DeadClosed'
  BY <1>1, CloseEffect DEF IInv, DeadClosed
<1>4. \A e \in Descs \ forked : Unused(e)' \/ UsedOnce(e)'
  BY <1>1, CloseEffect, UsedOnceKept
<1> QED
  BY <1>1, <1>2, <1>3, <1>4 DEF IInv

LEMMA ForkInv ==
    ASSUME IInv, NEW p \in Procs, NEW c \in Procs, Fork(p, c)
    PROVE  IInv'
<1>1. /\ p \in live /\ c \notin live
      /\ live' = live \cup {c}
      /\ fds' = [fds EXCEPT ![c] = fds[p]]
      /\ opened' = [opened EXCEPT ![c] = opened[p]]
      /\ forked' = forked \cup ({fds[p][i] : i \in Fds} \ {0})
      /\ UNCHANGED <<inode, rwcount, hung>>
  BY DEF Fork, Running
<1>2. \A q \in Procs, j \in Fds :
        /\ fds'[q][j] = IF q = c THEN fds[p][j] ELSE fds[q][j]
        /\ opened'[q][j] = IF q = c THEN opened[p][j] ELSE opened[q][j]
  BY <1>1 DEF IInv, TypeOK
<1>3. TypeOK'
  BY <1>1 DEF IInv, TypeOK
<1>4. DeadClosed'
  BY <1>1, <1>2 DEF IInv, DeadClosed
<1>5. ASSUME NEW e \in Descs \ forked'
      PROVE  Unused(e)' \/ UsedOnce(e)'
  <2>1. e # 0 /\ e \notin forked /\ \A i \in Fds : fds[p][i] # e
    BY <1>1, SizeAssumption DEF Descs
  <2>2. CASE Unused(e)
    BY <1>1, <1>2, <2>2 DEF Unused
  <2>3. CASE UsedOnce(e)
    <3>1. PICK q \in live, j \in Fds :
            /\ fds[q][j] = e
            /\ inode[e] = opened[q][j]
            /\ \A r \in Procs, k \in Fds : fds[r][k] = e => r = q /\ k = j
      BY <2>3 DEF UsedOnce
    <3>2. q \in Procs /\ q # c
      BY <1>1 DEF IInv, TypeOK
    <3>3. /\ fds'[q][j] = e
          /\ inode'[e] = opened'[q][j]
          /\ \A r \in Procs, k \in Fds : fds'[r][k] = e => r = q /\ k = j
      BY <1>1, <1>2, <2>1, <3>1, <3>2
    <3> QED
      BY <1>1, <2>3, <3>3 DEF UsedOnce
  <2> QED
    BY <2>1, <2>2, <2>3 DEF IInv
<1> QED
  BY <1>3, <1>4, <1>5 DEF IInv

LEMMA ExecInv ==
    ASSUME IInv, NEW p \in Procs, NEW f \in Files, Exec(p, f)
    PROVE  IInv'
<1>1. CASE LeastOf(FreeFds(p)) = {} \/ LeastOf(FreeDescs) = {}
  BY <1>1, HangInv DEF Exec
<1>2. CASE ~(LeastOf(FreeFds(p)) = {} \/ LeastOf(FreeDescs) = {})
  <2>1. PICK d \in LeastOf(FreeDescs) :
        /\ inode' = [inode EXCEPT ![d] = IF rwcount[d] = 0 THEN 0 ELSE f]
        /\ UNCHANGED <<live, fds, rwcount, opened, forked, hung>>
    BY <1>2 DEF Exec
  <2>2. d \in Descs /\ inode[d] = 0
    BY FreeFound
  <2>3. TypeOK'
    BY <2>2, <2>1 DEF IInv, TypeOK
  <2>4. DeadClosed'
    BY <2>1 DEF IInv, DeadClosed
  <2>5. ASSUME NEW e \in Descs \ forked
        PROVE  inode'[e] = inode[e]
    BY <2>2, <2>1 DEF IInv, TypeOK, Unused, UsedOnce
  <2>6. \A e \in Descs \ forked : Unused(e)' \/ UsedOnce(e)'
    BY <2>1, <2>5 DEF IInv, Unused, UsedOnce
  <2> QED
    BY <2>1, <2>3, <2>4, <2>6 DEF IInv
<1> QED
  BY <1>1, <1>2

LEMMA NextInv == IInv /\ [Next]_vars => IInv'
BY OpenInv, ExecInv, SysCloseInv, ForkInv, ExitInv, StutterInv DEF Next

LEMMA Invariance == Spec => []IInv
BY InitInv, NextInv, PTL DEF Spec

-----------------------------------------------------------------------------
(* The properties.                                                         *)

\* An open slot stays on the file it was opened on, whatever any process opens,
\* closes, forks, executes or ends, as long as no fork has copied its descriptor
\* (sys_do_open, sys_do_close).
THEOREM KeepsItsFile == Spec => []FdKeepsItsFile
<1>1. IInv => FdKeepsItsFile
  <2> SUFFICES ASSUME IInv, NEW p \in live, NEW i \in Fds,
                      fds[p][i] \notin forked \cup {0}
               PROVE  inode[fds[p][i]] = opened[p][i]
    BY DEF FdKeepsItsFile
  <2>1. p \in Procs /\ fds[p][i] \in Descs \ forked
    BY DEF IInv, TypeOK
  <2>2. UsedOnce(fds[p][i])
    BY <2>1 DEF IInv, Unused
  <2> QED
    BY <2>1, <2>2 DEF UsedOnce
<1> QED
  BY <1>1, Invariance, PTL

\* The count of a descriptor that no fork has copied is the number of slots that
\* point at it, and without one it is free (rwcount of file_desc_table).
THEOREM CountsExact == Spec => []CountsReferences
<1>1. IInv => CountsReferences
  <2> SUFFICES ASSUME IInv, NEW d \in Descs \ forked
               PROVE  /\ rwcount[d] = Cardinality(References(d))
                      /\ References(d) = {} => inode[d] = 0
    BY DEF CountsReferences, IInv
  <2>1. live \in SUBSET Procs
    BY DEF IInv, TypeOK
  <2>2. CASE Unused(d)
    <3>1. References(d) = {}
      BY <2>1, <2>2 DEF Unused, References
    <3> QED
      BY <2>2, <3>1, FS_EmptySet DEF Unused
  <2>3. CASE UsedOnce(d)
    <3>1. PICK q \in live, j \in Fds :
            /\ fds[q][j] = d
            /\ \A r \in Procs, k \in Fds : fds[r][k] = d => r = q /\ k = j
      BY <2>3 DEF UsedOnce
    <3>2. References(d) = {<<q, j>>}
      BY <2>1, <3>1 DEF References
    <3> QED
      BY <2>3, <3>2, FS_Singleton DEF UsedOnce
  <2> QED
    BY <2>2, <2>3 DEF IInv
<1> QED
  BY <1>1, Invariance, PTL
=============================================================================
