---------------------------- MODULE KStackProofs ----------------------------
(***************************************************************************)
(* Proofs about module KStack, for any number of slots and generations and *)
(* every place where a process can yield or be interrupted.                *)
(***************************************************************************)
EXTENDS KStack, TLAPS

-----------------------------------------------------------------------------
(* The inductive invariant.                                                *)

\* Every process has its frames on its own page, and the processor is told to
\* enter the kernel on the page of the running process.
OwnPages ==
    /\ Alive(current)
    /\ esp0[1] = current
    /\ \A p \in Pids : Alive(p) => kstktop[p][1] = p

\* In user mode the next frame goes where it always went.
EntryKept == at[current] = "user" => esp0[2] = entry[current]

\* A process that does not run is resumed from the frame of its last interrupt.
FrameSaved ==
    \A p \in Pids \ {current} :
        /\ at[p] = "user" => kstktop[p][2] = entry[p] - Full
        /\ at[p] = "call" => \E d \in Depths : kstktop[p][2] = param[p] - d
        /\ at[p] \in Fresh => kstktop[p][2] = param[p] + popped[p] - Inner
        /\ at[p] \in BootPlaces =>
              kstktop[p][2] = 0 \/ \E s \in BootSps : kstktop[p][2] = s - Inner
        /\ at[p] = "driver" =>
              kstktop[p][2] = 0 \/ \E s \in DriverSps : kstktop[p][2] = s - Inner

\* What the next system call or first return relies on.
CallFrames ==
    \A p \in Pids :
        /\ at[p] = "call" => param[p] = entry[p] - Full
        /\ at[p] \notin Fresh => popped[p] = 0

\* The highest stack pointer that generation g may enter the kernel with is 17
\* words per generation below that of the boot code.
Top(g) == LowSp + 2 - Inner * g

\* How far each generation goes down.
Levels ==
    /\ \A p \in Pids :
          /\ Alive(p) => kstktop[p][2] >= Top(gen[p]) - Full - DEPTH
          /\ at[p] \in {"user", "call"} => entry[p] >= Top(gen[p])
          /\ at[p] \in Fresh => param[p] + 2 >= Top(gen[p])
    /\ at[current] \in BootPlaces => esp0[2] >= Top(gen[current])
    /\ at[current] \in Fresh => esp0[2] >= Top(gen[current])

\* The child of the n-th fork of init_start, up to its life as a shell.
FirstChild(p) == p # 0 /\ (at[p] \in {"fresh1", "store1", "test1", "shell1"} \/ role[p] = "shell1")
SecondChild(p) == p # 0 /\ (at[p] \in {"fresh2", "store2", "test2", "shell2"} \/ role[p] = "shell2")

\* While nobody lost the processor between storing and testing pid, what is
\* tested is what fork returned, so pid 0 takes the father's way and every other
\* process of init_start the child's, one for each fork.
BootOrder ==
    /\ \A p \in Pids \ {current} : at[p] \notin {"test1", "test2"}
    /\ at[current] \in {"test1", "test2"} => pid[bp[current]] = eax[current]
    /\ \/ role[0] = "boot" /\ at[0] \in {"fork1", "store1", "test1", "fork2", "store2", "test2", "init"}
       \/ role[0] = "init" /\ at[0] \in {"user", "call"}
    /\ at[0] \in {"store1", "test1", "store2", "test2"} => eax[0] # 0
    /\ \A p \in Pids \ {0} :
          /\ at[p] \notin {"fork1", "fork2", "init"} /\ role[p] # "init"
          /\ at[p] \in {"fresh1", "store1", "test1", "fresh2", "store2", "test2"} => eax[p] = 0
          /\ at[0] = "fork1" => ~FirstChild(p)
          /\ at[0] \in {"fork1", "store1", "test1", "fork2"} => ~SecondChild(p)
    /\ \A p, q \in Pids :
          /\ FirstChild(p) /\ FirstChild(q) => p = q
          /\ SecondChild(p) /\ SecondChild(q) => p = q

IInv ==
    /\ TypeOK
    /\ OwnPages
    /\ EntryKept
    /\ FrameSaved
    /\ CallFrames
    /\ Levels
    /\ cut \/ BootOrder

-----------------------------------------------------------------------------
(* Every action preserves the invariant.                                   *)

LEMMA Constants ==
    /\ 0 \in Pids /\ 1 \in Pids /\ Pids \subseteq Nat
    /\ LowSp \in Int /\ LowSp <= Inner /\ DEPTH \in Nat /\ MaxGen \in Nat
    /\ StubSp \in Int /\ LowSp <= StubSp
    /\ \A s \in BootSps : s \in Int /\ LowSp <= s /\ s <= Inner
    /\ \A s \in DriverSps : s \in Int /\ LowSp - DEPTH <= s /\ s <= Inner
    /\ \A d \in Depths : d \in Int /\ Inner <= d /\ d <= DEPTH
    /\ \A k \in Pops : k \in 1 .. 14
BY SlotAssumption, StackAssumption, DepthAssumption, BootAssumption, DriverAssumption, PopAssumption
   DEF Pids, Inner

\* Addresses are pairs of a page and a number of words.
LEMMA PlusAddress ==
    ASSUME NEW a \in Addresses, NEW n \in Int
    PROVE  Plus(a, n) \in Addresses /\ Plus(a, n)[1] = a[1] /\ Plus(a, n)[2] = a[2] + n
BY DEF Addresses, Plus

LEMMA PairAddress ==
    ASSUME NEW p \in Pids, NEW n \in Int
    PROVE  <<p, n>> \in Addresses /\ <<p, n>>[1] = p /\ <<p, n>>[2] = n
BY DEF Addresses

LEMMA Types ==
    ASSUME TypeOK
    PROVE  /\ current \in Pids
           /\ esp0 \in Addresses /\ esp0[1] \in Pids /\ esp0[2] \in Int
           /\ \A p \in Pids :
                /\ kstktop[p] \in Addresses
                /\ kstktop[p][1] \in Pids /\ kstktop[p][2] \in Int
                /\ param[p] \in Int /\ popped[p] \in 0 .. 14
                /\ entry[p] \in Int /\ gen[p] \in 0 .. MaxGen
BY DEF TypeOK, Addresses

LEMMA InitInv == Init => IInv
<1> SUFFICES ASSUME Init PROVE IInv
  OBVIOUS
<1> USE Constants
<1>1. TypeOK
  <2>1. esp0 \in Addresses /\ kstktop \in [Pids -> Addresses]
    BY PairAddress DEF Init, Full
  <2>2. current \in Pids /\ at \in [Pids -> Places]
    BY DEF Init, Places, BootPlaces
  <2>3. 0 \in Int /\ 0 \in 0 .. 14 /\ 0 \in 0 .. MaxGen
    OBVIOUS
  <2>4. /\ param \in [Pids -> Int] /\ popped \in [Pids -> 0 .. 14]
        /\ entry \in [Pids -> Int] /\ gen \in [Pids -> 0 .. MaxGen]
    BY <2>3 DEF Init
  <2>5. /\ eax \in [Pids -> Pids \cup {None}] /\ pid \in [Pids -> Pids \cup {None}]
        /\ bp \in [Pids -> Pids] /\ cut \in BOOLEAN
    BY DEF Init
  <2>6. role \in [Pids -> {"boot", "init", "shell1", "shell2", "program"}]
    BY DEF Init
  <2> QED
    BY <2>1, <2>2, <2>4, <2>5, <2>6 DEF TypeOK
<1>2. OwnPages /\ EntryKept /\ FrameSaved /\ CallFrames
  BY <1>1 DEF Init, OwnPages, EntryKept, FrameSaved, CallFrames, Alive, Fresh
<1>3. Levels
  BY DEF Init, Levels, Alive, Fresh, BootPlaces, Top, Full, Inner
<1>4. BootOrder
  BY DEF Init, BootOrder, FirstChild, SecondChild
<1> QED
  BY <1>1, <1>2, <1>3, <1>4 DEF IInv

LEMMA StutterInv == IInv /\ UNCHANGED vars => IInv'
BY DEF IInv, vars, boot, TypeOK, OwnPages, EntryKept, FrameSaved, CallFrames, Levels, BootOrder,
       FirstChild, SecondChild, Alive

\* The place where an interrupt puts its frame.
LEMMA FrameOfInterrupt ==
    ASSUME IInv, at[current] # "call", NEW frame \in Frames(current)
    PROVE  /\ frame \in Addresses /\ frame[1] = current
           /\ at[current] = "user" => frame[2] = entry[current] - Full
           /\ at[current] \in Fresh => frame[2] = param[current] + popped[current] - Inner
           /\ at[current] \in BootPlaces => \E s \in BootSps : frame[2] = s - Inner
           /\ at[current] = "driver" => \E s \in DriverSps : frame[2] = s - Inner
<1> USE Constants
<1>0. /\ Full \in Int /\ Inner \in Int /\ "user" \notin Fresh
      /\ \A x \in BootPlaces \cup {"driver"} : x \notin Fresh \cup {"user"}
  BY DEF Full, Inner, Fresh, BootPlaces
<1>1. CASE at[current] = "user"
  <2>1. frame = Plus(esp0, -Full)
    <3>1. Frames(current) = {Plus(esp0, -Full)}
      BY <1>0, <1>1 DEF Frames
    <3> QED
      BY <3>1
  <2>2. -Full \in Int /\ esp0 \in Addresses /\ esp0[2] \in Int
    BY Types DEF IInv, Full
  <2>3. frame \in Addresses /\ frame[1] = esp0[1] /\ frame[2] = esp0[2] + (-Full)
    BY <2>1, <2>2, PlusAddress
  <2>4. frame[2] = esp0[2] - Full
    BY <1>0, <2>2, <2>3
  <2> QED
    BY <1>0, <1>1, <2>3, <2>4 DEF IInv, OwnPages, EntryKept
<1>2. CASE at[current] \in Fresh
  <2>1. frame = <<current, param[current] + popped[current] - Inner>>
    <3>1. Frames(current) = {<<current, param[current] + popped[current] - Inner>>}
      BY <1>0, <1>2 DEF Frames
    <3> QED
      BY <3>1
  <2>2. param[current] \in Int /\ popped[current] \in 0 .. 14 /\ current \in Pids
    BY Types DEF IInv
  <2> QED
    <3>1. param[current] + popped[current] - Inner \in Int
      BY <1>0, <2>2
    <3> QED
      BY <1>0, <1>2, <2>1, <2>2, <3>1, PairAddress
<1>3. CASE at[current] \notin Fresh \cup {"user"}
  <2>1. PICK s \in Sps(current) : frame = <<current, s - Inner>>
    BY <1>3 DEF Frames
  <2>2. s \in IF at[current] = "driver" THEN DriverSps ELSE BootSps
    BY <2>1 DEF Sps
  <2>3. s - Inner \in Int /\ current \in Pids
    BY <1>0, <2>2, Types DEF IInv
  <2>4. frame \in Addresses /\ frame[1] = current /\ frame[2] = s - Inner
    BY <2>1, <2>3, PairAddress
  <2>5. "driver" \notin BootPlaces
    BY DEF BootPlaces
  <2> QED
    BY <1>3, <2>2, <2>4, <2>5
<1> QED
  BY <1>1, <1>2, <1>3

\* schedule() tells the processor to enter the kernel at the end of the frame that
\* it resumes.
LEMMA ScheduleEffect ==
    ASSUME TypeOK, NEW q \in Pids, NEW tops \in [Pids -> Addresses], schedule(q, tops)
    PROVE  /\ current' = q
           /\ esp0' \in Addresses
           /\ esp0'[1] = tops[q][1] /\ esp0'[2] = tops[q][2] + Full
BY PlusAddress DEF schedule, Full

\* Whatever is saved for a process that is resumed, the processor enters the
\* kernel where it should.
LEMMA ResumedEntry ==
    ASSUME IInv, NEW q \in Pids, q # current, Alive(q)
    PROVE  /\ at[q] = "user" => kstktop[q][2] + Full = entry[q]
           /\ at[q] \in BootPlaces \cup Fresh => kstktop[q][2] + Full >= Top(gen[q])
<1> USE Constants
<1>0. /\ entry[q] \in Int /\ param[q] \in Int /\ popped[q] \in 0 .. 14
      /\ gen[q] \in Nat /\ kstktop[q][2] \in Int
  BY Types DEF IInv
<1>1. at[q] = "user" => kstktop[q][2] + Full = entry[q]
  BY <1>0 DEF IInv, FrameSaved, Full
<1>2. at[q] \in Fresh => kstktop[q][2] + Full >= Top(gen[q])
  BY <1>0 DEF IInv, FrameSaved, Levels, Top, Full, Inner
<1>3. at[q] \in BootPlaces => kstktop[q][2] + Full >= Top(gen[q])
  BY <1>0 DEF IInv, FrameSaved, Top, Full, Inner
<1> QED
  BY <1>1, <1>2, <1>3

LEMMA InterruptInv ==
    ASSUME IInv, Interrupt
    PROVE  IInv'
<1> USE Constants
<1>1. PICK frame \in Frames(current) :
        /\ at[current] # "call"
        /\ kstktop' = [kstktop EXCEPT ![current] = frame]
        /\ \/ UNCHANGED <<current, esp0, cut>>
           \/ \E q \in Pids : Alive(q) /\ schedule(q, kstktop')
                /\ cut' = (cut \/ (at[current] \in {"test1", "test2"} /\ q # current))
        /\ UNCHANGED <<at, param, popped, boot, entry, gen>>
  BY DEF Interrupt
<1>2. /\ frame \in Addresses /\ frame[1] = current
      /\ at[current] = "user" => frame[2] = entry[current] - Full
      /\ at[current] \in Fresh => frame[2] = param[current] + popped[current] - Inner
      /\ at[current] \in BootPlaces => \E s \in BootSps : frame[2] = s - Inner
      /\ at[current] = "driver" => \E s \in DriverSps : frame[2] = s - Inner
  BY <1>1, FrameOfInterrupt
<1>3. /\ kstktop' \in [Pids -> Addresses]
      /\ \A p \in Pids : kstktop'[p] = IF p = current THEN frame ELSE kstktop[p]
  BY <1>1, <1>2 DEF IInv, TypeOK
<1>4. /\ \A p \in Pids : at'[p] = at[p] /\ param'[p] = param[p] /\ popped'[p] = popped[p]
                          /\ entry'[p] = entry[p] /\ gen'[p] = gen[p]
      /\ \A p \in Pids : Alive(p)' <=> Alive(p)
  BY <1>1 DEF Alive
<1>5. /\ current' \in Pids /\ Alive(current') /\ esp0' \in Addresses
      /\ \/ current' = current /\ esp0' = esp0
         \/ esp0'[1] = kstktop'[current'][1] /\ esp0'[2] = kstktop'[current'][2] + Full
      /\ cut' \in BOOLEAN
  <2>1. TypeOK /\ current \in Pids /\ Alive(current) /\ esp0 \in Addresses /\ cut \in BOOLEAN
    BY DEF IInv, TypeOK, OwnPages
  <2>2. CASE UNCHANGED <<current, esp0, cut>>
    BY <1>4, <2>1, <2>2
  <2>3. ASSUME NEW q \in Pids, Alive(q), schedule(q, kstktop'),
               cut' = (cut \/ (at[current] \in {"test1", "test2"} /\ q # current))
        PROVE  /\ current' = q /\ esp0' \in Addresses
               /\ esp0'[1] = kstktop'[q][1] /\ esp0'[2] = kstktop'[q][2] + Full
               /\ cut' \in BOOLEAN
    <3>1. /\ current' = q /\ esp0' \in Addresses
          /\ esp0'[1] = kstktop'[q][1] /\ esp0'[2] = kstktop'[q][2] + Full
      BY <1>3, <2>1, <2>3, ScheduleEffect
    <3>2. cut' \in BOOLEAN
      BY <2>1, <2>3
    <3> QED
      BY <3>1, <3>2
  <2> QED
    BY <1>1, <2>1, <2>2, <2>3
<1>6. Full = 19 /\ Inner = 17
  BY DEF Full, Inner
<1>7. TypeOK'
  BY <1>1, <1>3, <1>5 DEF IInv, TypeOK, boot
<1>8. OwnPages'
  BY <1>2, <1>3, <1>4, <1>5 DEF IInv, OwnPages
<1>9. EntryKept'
  BY <1>2, <1>3, <1>4, <1>5, <1>6, Types, ResumedEntry DEF IInv, EntryKept
<1>10. FrameSaved'
  <2>1. \A p \in Pids : p # current => kstktop'[p] = kstktop[p]
    BY <1>3
  <2>2. /\ kstktop'[current][2] = frame[2]
        /\ "user" \notin Fresh \cup BootPlaces \cup {"driver"}
        /\ \A x \in BootPlaces \cup {"driver"} : x \notin Fresh \cup {"user"}
    BY <1>3 DEF IInv, TypeOK, Fresh, BootPlaces
  <2>3. ASSUME NEW p \in Pids, p # current'
        PROVE  /\ at[p] = "user" => kstktop'[p][2] = entry[p] - Full
               /\ at[p] = "call" => \E d \in Depths : kstktop'[p][2] = param[p] - d
               /\ at[p] \in Fresh => kstktop'[p][2] = param[p] + popped[p] - Inner
               /\ at[p] \in BootPlaces =>
                     kstktop'[p][2] = 0 \/ \E s \in BootSps : kstktop'[p][2] = s - Inner
               /\ at[p] = "driver" =>
                     kstktop'[p][2] = 0 \/ \E s \in DriverSps : kstktop'[p][2] = s - Inner
    <3>1. CASE p = current
      BY <1>1, <1>2, <2>2, <3>1
    <3>2. CASE p # current
      BY <2>1, <3>2 DEF IInv, FrameSaved
    <3> QED
      BY <3>1, <3>2
  <2> QED
    BY <1>4, <2>3 DEF FrameSaved
<1>11. CallFrames'
  BY <1>4 DEF IInv, CallFrames
<1>12. Levels'
  <2>1. /\ gen[current] \in Nat /\ entry[current] \in Int /\ param[current] \in Int
        /\ popped[current] \in 0 .. 14 /\ frame[2] \in Int /\ esp0[2] \in Int
    <3>1. TypeOK
      BY DEF IInv
    <3>2. frame[2] \in Int
      BY <1>2 DEF Addresses
    <3>3. gen[current] \in 0 .. MaxGen /\ entry[current] \in Int /\ param[current] \in Int
          /\ popped[current] \in 0 .. 14 /\ esp0[2] \in Int
      BY <3>1, Types
    <3> QED
      BY <3>2, <3>3
  <2>2. /\ frame[2] >= Top(gen[current]) - Full - DEPTH
        /\ at[current] \in BootPlaces \cup Fresh => frame[2] + Full >= Top(gen[current])
    <3>1. CASE at[current] = "user"
      <4>1. "user" \notin BootPlaces \cup Fresh
        BY DEF BootPlaces, Fresh
      <4>2. current \in Pids /\ at[current] \in {"user", "call"}
        BY <3>1, Types DEF IInv
      <4>3. entry[current] >= Top(gen[current])
        BY <4>2 DEF IInv, Levels
      <4>4. Top(gen[current]) \in Int
        BY <1>6, <2>1 DEF Top
      <4> QED
        BY <1>2, <1>6, <2>1, <3>1, <4>1, <4>3, <4>4
    <3>2. CASE at[current] \in Fresh
      <4>1. param[current] + 2 >= Top(gen[current])
        BY <3>2, Types DEF IInv, Levels
      <4>2. Top(gen[current]) \in Int
        BY <1>6, <2>1 DEF Top
      <4> QED
        BY <1>2, <1>6, <2>1, <3>2, <4>1, <4>2
    <3>3. CASE at[current] \notin Fresh \cup {"user"}
      <4>1. at[current] \in BootPlaces \cup {"driver"}
        <5>1. at[current] \in Places /\ at[current] # "free" /\ at[current] # "call"
          BY <1>1 DEF IInv, TypeOK, OwnPages, Alive
        <5> QED
          BY <3>3, <5>1 DEF Places, Fresh
      <4>2. Top(gen[current]) = LowSp + 2 - 17 * gen[current]
        BY <1>6 DEF Top
      <4>3. CASE at[current] \in BootPlaces
        <5>1. PICK s \in BootSps : frame[2] = s - Inner
          BY <1>2, <4>3
        <5> QED
          BY <1>6, <2>1, <4>2, <5>1
      <4>4. CASE at[current] = "driver"
        <5>1. PICK s \in DriverSps : frame[2] = s - Inner
          BY <1>2, <4>4
        <5>2. at[current] \notin BootPlaces \cup Fresh
          BY <4>4 DEF BootPlaces, Fresh
        <5> QED
          BY <1>6, <2>1, <4>2, <5>1, <5>2
      <4> QED
        BY <4>1, <4>3, <4>4
    <3> QED
      BY <3>1, <3>2, <3>3
  <2>3. \A p \in Pids : Alive(p) => kstktop'[p][2] >= Top(gen[p]) - Full - DEPTH
    BY <1>3, <2>2 DEF IInv, Levels
  <2>4. at[current'] \in BootPlaces \cup Fresh => esp0'[2] >= Top(gen[current'])
    <3>1. CASE current' = current /\ esp0' = esp0
      BY <3>1 DEF IInv, Levels
    <3>2. CASE current' = current /\ esp0'[2] = kstktop'[current'][2] + Full
      BY <1>3, <2>2, <3>2 DEF IInv, TypeOK
    <3>3. CASE current' # current
      BY <1>3, <1>5, <3>3, ResumedEntry
    <3> QED
      BY <1>5, <3>1, <3>2, <3>3
  <2>5. \A p \in Pids : Top(gen'[p]) = Top(gen[p])
    BY <1>4 DEF Top
  <2> QED
    BY <1>4, <1>5, <2>3, <2>4, <2>5 DEF IInv, Levels
<1>13. cut' \/ BootOrder'
  <2>1. CASE UNCHANGED <<current, esp0, cut>>
    BY <1>1, <2>1 DEF IInv, BootOrder, FirstChild, SecondChild, boot
  <2>2. CASE ~cut' /\ at[current] \notin {"test1", "test2"}
    <3>1. ~cut
      BY <1>1, <2>2
    <3>2. \A p \in Pids : at[p] \notin {"test1", "test2"}
      BY <2>2, <3>1 DEF IInv, BootOrder
    <3> QED
      BY <1>1, <1>5, <3>1, <3>2 DEF IInv, BootOrder, FirstChild, SecondChild, boot
  <2>3. CASE ~cut' /\ at[current] \in {"test1", "test2"}
    <3>1. ~cut /\ current' = current
      <4>1. CASE UNCHANGED <<current, esp0, cut>>
        BY <2>3, <4>1
      <4>2. ASSUME NEW q \in Pids, schedule(q, kstktop'),
                   cut' = (cut \/ (at[current] \in {"test1", "test2"} /\ q # current))
            PROVE  ~cut /\ current' = current
        BY <2>3, <4>2 DEF schedule
      <4> QED
        BY <1>1, <4>1, <4>2
    <3> QED
      BY <1>1, <3>1 DEF IInv, BootOrder, FirstChild, SecondChild, boot
  <2> QED
    BY <2>1, <2>2, <2>3
<1> QED
  BY <1>7, <1>8, <1>9, <1>10, <1>11, <1>12, <1>13 DEF IInv

LEMMA ReturnInv ==
    ASSUME IInv, Return
    PROVE  IInv'
<1> USE Constants DEF Full, Inner
<1>1. TypeOK'
  <2>1. at' \in [Pids -> Places]
    BY DEF IInv, Return, AfterCall, TypeOK, Places, BootPlaces
  <2>2. esp0' \in Addresses
    BY Types, PairAddress DEF IInv, Return, AfterCall, TypeOK
  <2>3. param' \in [Pids -> Int]
    BY Types DEF IInv, Return, AfterCall, TypeOK
  <2> QED
    BY <2>1, <2>2, <2>3 DEF IInv, Return, AfterCall, TypeOK, boot
<1>2. OwnPages'
  BY Types, PairAddress DEF IInv, Return, AfterCall, TypeOK, OwnPages, Alive
<1>3. EntryKept'
  BY Types DEF IInv, Return, AfterCall, TypeOK, EntryKept, CallFrames
<1>4. FrameSaved'
  BY Types DEF IInv, Return, AfterCall, TypeOK, FrameSaved, Fresh, BootPlaces
<1>5. CallFrames'
  BY Types DEF IInv, Return, AfterCall, TypeOK, CallFrames, EntryKept, Fresh
<1>6. Levels'
  BY Types, PairAddress DEF IInv, Return, AfterCall, TypeOK, Levels, Top, EntryKept, CallFrames, Fresh, BootPlaces, Alive
<1>7. cut' \/ BootOrder'
  BY SMTT(30) DEF IInv, Return, AfterCall, TypeOK, boot, BootOrder, FirstChild, SecondChild, Fresh, None
<1> QED
  BY <1>1, <1>2, <1>3, <1>4, <1>5, <1>6, <1>7 DEF IInv

LEMMA BootForkFailsInv ==
    ASSUME IInv, BootForkFails
    PROVE  IInv'
<1> USE Constants DEF Full, Inner
<1>1. TypeOK'
  <2>1. at' \in [Pids -> Places]
    BY DEF IInv, BootForkFails, AfterCall, TypeOK, Places, BootPlaces
  <2>2. eax' \in [Pids -> Pids \cup {None}]
    BY DEF IInv, BootForkFails, AfterCall, TypeOK
  <2>3. esp0' \in Addresses
    BY Types, PairAddress DEF IInv, BootForkFails, AfterCall, TypeOK
  <2> QED
    BY <2>1, <2>2, <2>3 DEF IInv, BootForkFails, AfterCall, TypeOK, boot
<1>2. OwnPages'
  BY Types, PairAddress DEF IInv, BootForkFails, AfterCall, TypeOK, OwnPages, Alive
<1>3. EntryKept'
  BY Types DEF IInv, BootForkFails, AfterCall, TypeOK, EntryKept, CallFrames
<1>4. FrameSaved'
  BY Types DEF IInv, BootForkFails, AfterCall, TypeOK, FrameSaved, Fresh, BootPlaces
<1>5. CallFrames'
  BY Types DEF IInv, BootForkFails, AfterCall, TypeOK, CallFrames, EntryKept, Fresh
<1>6. Levels'
  BY Types, PairAddress DEF IInv, BootForkFails, AfterCall, TypeOK, Levels, Top, EntryKept, CallFrames, Fresh, BootPlaces, Alive
<1>7. cut' \/ BootOrder'
  BY SMTT(30) DEF IInv, BootForkFails, AfterCall, TypeOK, boot, BootOrder, FirstChild, SecondChild, Fresh, None
<1> QED
  BY <1>1, <1>2, <1>3, <1>4, <1>5, <1>6, <1>7 DEF IInv

LEMMA PopInv ==
    ASSUME IInv, NEW k \in Pops, Pop(k)
    PROVE  IInv'
<1> USE Constants DEF Full, Inner
<1>1. TypeOK'
  <2>1. popped' \in [Pids -> 0 .. 14]
    BY Types DEF IInv, Pop, TypeOK
  <2> QED
    BY <2>1 DEF IInv, Pop, TypeOK, boot
<1>2. OwnPages'
  BY Types, PairAddress DEF IInv, Pop, TypeOK, OwnPages, Alive
<1>3. EntryKept'
  BY Types DEF IInv, Pop, TypeOK, EntryKept, CallFrames
<1>4. FrameSaved'
  BY Types DEF IInv, Pop, TypeOK, FrameSaved, Fresh, BootPlaces
<1>5. CallFrames'
  BY Types DEF IInv, Pop, TypeOK, CallFrames, EntryKept, Fresh
<1>6. Levels'
  BY Types, PairAddress DEF IInv, Pop, TypeOK, Levels, Top, EntryKept, CallFrames, Fresh, BootPlaces, Alive
<1>7. cut' \/ BootOrder'
  BY SMTT(30) DEF IInv, Pop, TypeOK, boot, BootOrder, FirstChild, SecondChild, Fresh, None
<1> QED
  BY <1>1, <1>2, <1>3, <1>4, <1>5, <1>6, <1>7 DEF IInv

LEMMA FirstReturnInv ==
    ASSUME IInv, FirstReturn
    PROVE  IInv'
<1> USE Constants DEF Full, Inner
<1>1. TypeOK'
  <2>1. at' \in [Pids -> Places]
    <3>1. \A p \in Pids : at'[p] \in Places
      BY DEF IInv, FirstReturn, TypeOK, Fresh, Places, BootPlaces
    <3> QED
      BY <3>1 DEF IInv, FirstReturn, TypeOK
  <2>2. entry' \in [Pids -> Int]
    BY Types DEF IInv, FirstReturn, TypeOK
  <2>3. param' \in [Pids -> Int]
    BY Types DEF IInv, FirstReturn, TypeOK
  <2>4. popped' \in [Pids -> 0 .. 14]
    BY Types DEF IInv, FirstReturn, TypeOK
  <2> QED
    BY <2>1, <2>2, <2>3, <2>4 DEF IInv, FirstReturn, TypeOK, boot
<1>2. OwnPages'
  <2>1. \A p \in Pids : Alive(p)' => Alive(p)
    BY DEF IInv, FirstReturn, TypeOK, OwnPages, Alive, BootPlaces
  <2>2. Alive(current)'
    BY DEF IInv, FirstReturn, TypeOK, Alive, Fresh
  <2>3. \A p \in Pids : Alive(p)' => kstktop'[p][1] = p
    BY <2>1 DEF IInv, FirstReturn, TypeOK, OwnPages
  <2> QED
    BY <2>2, <2>3 DEF IInv, FirstReturn, TypeOK, OwnPages
<1>3. EntryKept'
  BY Types DEF IInv, FirstReturn, TypeOK, EntryKept, CallFrames
<1>4. FrameSaved'
  BY Types DEF IInv, FirstReturn, TypeOK, FrameSaved, Fresh, BootPlaces
<1>5. CallFrames'
  BY Types DEF IInv, FirstReturn, TypeOK, CallFrames, EntryKept, Fresh
<1>6. Levels'
  BY Types, PairAddress DEF IInv, FirstReturn, TypeOK, Levels, Top, EntryKept, CallFrames, Fresh, BootPlaces, Alive
<1>7. cut' \/ BootOrder'
  BY SMTT(30) DEF IInv, FirstReturn, TypeOK, boot, BootOrder, FirstChild, SecondChild, Fresh, None
<1> QED
  BY <1>1, <1>2, <1>3, <1>4, <1>5, <1>6, <1>7 DEF IInv

LEMMA BootStoreInv ==
    ASSUME IInv, BootStore
    PROVE  IInv'
<1> USE Constants DEF Full, Inner
<1>1. TypeOK'
  <2>1. at' \in [Pids -> Places]
    BY DEF IInv, BootStore, TypeOK, Places, BootPlaces
  <2>2. pid' \in [Pids -> Pids \cup {None}]
    BY DEF IInv, BootStore, TypeOK
  <2> QED
    BY <2>1, <2>2 DEF IInv, BootStore, TypeOK, boot
<1>2. OwnPages'
  BY Types, PairAddress DEF IInv, BootStore, TypeOK, OwnPages, Alive
<1>3. EntryKept'
  BY Types DEF IInv, BootStore, TypeOK, EntryKept, CallFrames
<1>4. FrameSaved'
  BY Types DEF IInv, BootStore, TypeOK, FrameSaved, Fresh, BootPlaces
<1>5. CallFrames'
  BY Types DEF IInv, BootStore, TypeOK, CallFrames, EntryKept, Fresh
<1>6. Levels'
  BY Types, PairAddress DEF IInv, BootStore, TypeOK, Levels, Top, EntryKept, CallFrames, Fresh, BootPlaces, Alive
<1>7. cut' \/ BootOrder'
  BY SMTT(30) DEF IInv, BootStore, TypeOK, boot, BootOrder, FirstChild, SecondChild, Fresh, None
<1> QED
  BY <1>1, <1>2, <1>3, <1>4, <1>5, <1>6, <1>7 DEF IInv

LEMMA BootTestInv ==
    ASSUME IInv, BootTest
    PROVE  IInv'
<1> USE Constants DEF Full, Inner
<1>1. TypeOK'
  <2>1. at' \in [Pids -> Places]
    BY DEF IInv, BootTest, TypeOK, Places, BootPlaces
  <2>2. eax' \in [Pids -> Pids \cup {None}]
    BY DEF IInv, BootTest, TypeOK
  <2> QED
    BY <2>1, <2>2 DEF IInv, BootTest, TypeOK, boot
<1>2. OwnPages'
  BY Types, PairAddress DEF IInv, BootTest, TypeOK, OwnPages, Alive
<1>3. EntryKept'
  BY Types DEF IInv, BootTest, TypeOK, EntryKept, CallFrames
<1>4. FrameSaved'
  BY Types DEF IInv, BootTest, TypeOK, FrameSaved, Fresh, BootPlaces
<1>5. CallFrames'
  BY Types DEF IInv, BootTest, TypeOK, CallFrames, EntryKept, Fresh
<1>6. Levels'
  BY Types, PairAddress DEF IInv, BootTest, TypeOK, Levels, Top, EntryKept, CallFrames, Fresh, BootPlaces, Alive
<1>7. cut' \/ BootOrder'
  BY SMTT(30) DEF IInv, BootTest, TypeOK, boot, BootOrder, FirstChild, SecondChild, Fresh, None
<1> QED
  BY <1>1, <1>2, <1>3, <1>4, <1>5, <1>6, <1>7 DEF IInv

LEMMA BootExecInv ==
    ASSUME IInv, BootExec
    PROVE  IInv'
<1> USE Constants DEF Full, Inner
<1>1. TypeOK'
  <2>1. role' \in [Pids -> {"boot", "init", "shell1", "shell2", "program"}]
    BY DEF IInv, BootExec, TypeOK
  <2>2. at' \in [Pids -> Places]
    BY DEF IInv, BootExec, TypeOK, Places, BootPlaces
  <2>3. kstktop' \in [Pids -> Addresses]
    BY Types, PairAddress DEF IInv, BootExec, TypeOK
  <2>4. entry' \in [Pids -> Int]
    BY Types DEF IInv, BootExec, TypeOK
  <2> QED
    BY <2>1, <2>2, <2>3, <2>4 DEF IInv, BootExec, TypeOK, boot
<1>2. OwnPages'
  <2>1. \A p \in Pids : Alive(p)' => Alive(p)
    BY DEF IInv, BootExec, TypeOK, OwnPages, Alive, BootPlaces
  <2>2. Alive(current)'
    BY DEF IInv, BootExec, TypeOK, Alive, Fresh
  <2>3. \A p \in Pids : Alive(p)' => kstktop'[p][1] = p
    BY <2>1 DEF IInv, BootExec, TypeOK, OwnPages
  <2> QED
    BY <2>2, <2>3 DEF IInv, BootExec, TypeOK, OwnPages
<1>3. EntryKept'
  BY Types DEF IInv, BootExec, TypeOK, EntryKept, CallFrames
<1>4. FrameSaved'
  BY Types DEF IInv, BootExec, TypeOK, FrameSaved, Fresh, BootPlaces
<1>5. CallFrames'
  BY Types DEF IInv, BootExec, TypeOK, CallFrames, EntryKept, Fresh
<1>6. Levels'
  BY Types, PairAddress DEF IInv, BootExec, TypeOK, Levels, Top, EntryKept, CallFrames, Fresh, BootPlaces, Alive
<1>7. cut' \/ BootOrder'
  BY SMTT(30) DEF IInv, BootExec, TypeOK, boot, BootOrder, FirstChild, SecondChild, Fresh, None
<1> QED
  BY <1>1, <1>2, <1>3, <1>4, <1>5, <1>6, <1>7 DEF IInv

LEMMA ExecInv ==
    ASSUME IInv, Exec
    PROVE  IInv'
<1> USE Constants DEF Full, Inner
<1>1. TypeOK'
  <2>1. kstktop' \in [Pids -> Addresses]
    BY Types, PairAddress DEF IInv, Exec, TypeOK
  <2> QED
    BY <2>1 DEF IInv, Exec, TypeOK, boot
<1>2. OwnPages'
  BY Types, PairAddress DEF IInv, Exec, TypeOK, OwnPages, Alive
<1>3. EntryKept'
  BY Types DEF IInv, Exec, TypeOK, EntryKept, CallFrames
<1>4. FrameSaved'
  BY Types DEF IInv, Exec, TypeOK, FrameSaved, Fresh, BootPlaces
<1>5. CallFrames'
  BY Types DEF IInv, Exec, TypeOK, CallFrames, EntryKept, Fresh
<1>6. Levels'
  BY Types, PairAddress DEF IInv, Exec, TypeOK, Levels, Top, EntryKept, CallFrames, Fresh, BootPlaces, Alive
<1>7. cut' \/ BootOrder'
  BY SMTT(30) DEF IInv, Exec, TypeOK, boot, BootOrder, FirstChild, SecondChild, Fresh, None
<1> QED
  BY <1>1, <1>2, <1>3, <1>4, <1>5, <1>6, <1>7 DEF IInv

\* The current process leaves a frame on its page, and schedule() goes to another.
LEMMA Switch ==
    ASSUME IInv, NEW q \in Pids, Alive(q), q # current, NEW words \in Int,
           kstktop' = [kstktop EXCEPT ![current] = <<current, words>>],
           schedule(q, kstktop')
    PROVE  /\ kstktop' \in [Pids -> Addresses]
           /\ kstktop'[current][1] = current /\ kstktop'[current][2] = words
           /\ \A p \in Pids : p # current => kstktop'[p] = kstktop[p]
           /\ current' = q /\ esp0' \in Addresses
           /\ esp0'[1] = q /\ esp0'[2] = kstktop[q][2] + Full
<1>1. current \in Pids /\ <<current, words>> \in Addresses
  BY PairAddress DEF IInv, TypeOK
<1>2. kstktop' \in [Pids -> Addresses]
  BY <1>1 DEF IInv, TypeOK
<1>3. kstktop'[current] = <<current, words>> /\ \A p \in Pids : p # current => kstktop'[p] = kstktop[p]
  BY <1>1 DEF IInv, TypeOK
<1>4. current' = q /\ esp0' \in Addresses /\ esp0'[1] = kstktop'[q][1] /\ esp0'[2] = kstktop'[q][2] + Full
  BY <1>2, ScheduleEffect DEF IInv
<1>5. kstktop[q][1] = q
  BY DEF IInv, OwnPages
<1> QED
  BY <1>2, <1>3, <1>4, <1>5

LEMMA YieldInv ==
    ASSUME IInv, NEW q \in Pids, Yield(q)
    PROVE  IInv'
<1> DEFINE frame == IF at[current] = "user" THEN esp0[2] - Full ELSE param[current]
<1> USE Constants
<1>1. /\ at[current] \in {"user", "call"} /\ current \in Pids
      /\ frame = entry[current] - Full
      /\ frame \in Int /\ entry[current] \in Int /\ gen[current] \in Nat
      /\ Full = 19 /\ Inner = 17
  <2>1. at[current] \in {"user", "call"} /\ current \in Pids
    BY Types DEF Yield, IInv
  <2>2. entry[current] \in Int /\ gen[current] \in Nat
    BY <2>1, Types DEF IInv
  <2>3. frame = entry[current] - Full
    BY <2>1, Types DEF IInv, EntryKept, CallFrames
  <2> QED
    BY <2>1, <2>2, <2>3 DEF Full, Inner
<1>2. PICK d \in Depths : kstktop' = [kstktop EXCEPT ![current] = <<current, frame - d>>]
  BY DEF Yield, IInv, OwnPages
<1>3. /\ Alive(q) /\ q # current /\ schedule(q, kstktop')
      /\ at' = [at EXCEPT ![current] = "call"]
      /\ param' = [param EXCEPT ![current] = frame]
      /\ UNCHANGED <<popped, boot, entry, gen, cut>>
  BY DEF Yield
<1> HIDE DEF frame
<1>4. /\ kstktop' \in [Pids -> Addresses]
      /\ kstktop'[current][1] = current /\ kstktop'[current][2] = frame - d
      /\ \A p \in Pids : p # current => kstktop'[p] = kstktop[p]
      /\ current' = q /\ esp0' \in Addresses
      /\ esp0'[1] = q /\ esp0'[2] = kstktop[q][2] + Full
  <2>1. frame - d \in Int
    BY <1>1
  <2> QED
    BY <1>2, <1>3, <2>1, Switch
<1>5. /\ at'[current] = "call" /\ param'[current] = frame
      /\ \A p \in Pids : p # current => at'[p] = at[p] /\ param'[p] = param[p]
  BY <1>1, <1>3 DEF IInv, TypeOK
<1>6. TypeOK'
  <2>1. at' \in [Pids -> Places]
    BY <1>3 DEF IInv, TypeOK, Places
  <2>2. param' \in [Pids -> Int]
    BY <1>1, <1>3 DEF IInv, TypeOK
  <2> QED
    BY <1>3, <1>4, <2>1, <2>2 DEF IInv, TypeOK, boot
<1>7. OwnPages'
  BY <1>3, <1>4, <1>5 DEF IInv, OwnPages, Alive
<1>8. EntryKept'
  BY <1>3, <1>4, <1>5, ResumedEntry DEF EntryKept
<1>9. FrameSaved'
  <2>1. "call" \notin Fresh \cup BootPlaces \cup {"driver", "user"}
    BY DEF Fresh, BootPlaces
  <2>2. /\ at'[current] = "call"
        /\ \E e \in Depths : kstktop'[current][2] = param'[current] - e
    BY <1>4, <1>5
  <2>3. \A p \in Pids \ {current} : /\ at'[p] = at[p] /\ param'[p] = param[p]
                                     /\ popped'[p] = popped[p] /\ entry'[p] = entry[p]
                                     /\ kstktop'[p] = kstktop[p]
    BY <1>3, <1>4, <1>5
  <2> QED
    BY <2>1, <2>2, <2>3 DEF IInv, FrameSaved
<1>10. CallFrames'
  <2>1. \A p \in Pids : popped'[p] = popped[p] /\ entry'[p] = entry[p]
    BY <1>3
  <2>2. at[current] \notin Fresh
    BY <1>1 DEF Fresh
  <2>3. popped[current] = 0 /\ param'[current] = entry[current] - Full
    BY <1>1, <1>5, <2>2 DEF IInv, CallFrames
  <2> QED
    BY <1>1, <1>5, <2>1, <2>3 DEF IInv, CallFrames
<1>11. Levels'
  <2>1. entry[current] >= Top(gen[current]) /\ Top(gen[current]) \in Int
    BY <1>1 DEF IInv, Levels, Top
  <2>2. frame - d >= Top(gen[current]) - Full - DEPTH
    BY <1>1, <2>1
  <2>3. \A p \in Pids : Alive(p)' => kstktop'[p][2] >= Top(gen[p]) - Full - DEPTH
    <3>1. Alive(current)
      BY <1>1 DEF Alive
    <3>2. ASSUME NEW p \in Pids, p # current, Alive(p)'
          PROVE  kstktop'[p][2] >= Top(gen[p]) - Full - DEPTH
      BY <1>4, <1>5, <3>2 DEF IInv, Levels, Alive
    <3> QED
      BY <1>4, <2>2, <3>2
  <2>4. at[q] \in BootPlaces \cup Fresh => esp0'[2] >= Top(gen[q])
    BY <1>3, <1>4, ResumedEntry
  <2>5. \A p \in Pids : Top(gen'[p]) = Top(gen[p]) /\ entry'[p] = entry[p]
    BY <1>3 DEF Top
  <2>6. "call" \notin Fresh
    BY DEF Fresh
  <2> QED
    BY <1>3, <1>4, <1>5, <2>1, <2>3, <2>4, <2>5, <2>6 DEF IInv, Levels
<1>12. cut' \/ BootOrder'
  BY SMTT(30), <1>1, <1>3, <1>4, <1>5 DEF IInv, BootOrder, FirstChild, SecondChild, boot
<1> QED
  BY <1>6, <1>7, <1>8, <1>9, <1>10, <1>11, <1>12 DEF IInv

LEMMA ExitInv ==
    ASSUME IInv, NEW q \in Pids, Exit(q)
    PROVE  IInv'
<1> USE Constants
<1>1. /\ at[current] = "user" /\ current \in Pids /\ current \notin {0, 1}
      /\ Alive(q) /\ q # current /\ schedule(q, kstktop')
      /\ at' = [at EXCEPT ![current] = "free"]
      /\ role' = [role EXCEPT ![current] = "program"]
      /\ entry' = [entry EXCEPT ![current] = 0]
      /\ gen' = [gen EXCEPT ![current] = 0]
      /\ UNCHANGED <<param, popped, eax, bp, pid, cut>>
  BY Types DEF Exit, IInv
<1>2. PICK d \in Depths : kstktop' = [kstktop EXCEPT ![current] = <<current, esp0[2] - Full - d>>]
  BY DEF Exit, IInv, OwnPages
<1>3. /\ kstktop' \in [Pids -> Addresses]
      /\ \A p \in Pids : p # current => kstktop'[p] = kstktop[p]
      /\ current' = q /\ esp0' \in Addresses
      /\ esp0'[1] = q /\ esp0'[2] = kstktop[q][2] + Full
  <2>1. esp0[2] - Full - d \in Int
    BY Types DEF IInv, Full
  <2> QED
    BY <1>1, <1>2, <2>1, Switch
<1>4. /\ at'[current] = "free" /\ role'[current] = "program"
      /\ \A p \in Pids : p # current =>
            at'[p] = at[p] /\ role'[p] = role[p] /\ entry'[p] = entry[p] /\ gen'[p] = gen[p]
  BY <1>1 DEF IInv, TypeOK
<1>5. TypeOK'
  <2>1. at' \in [Pids -> Places]
    BY <1>1 DEF IInv, TypeOK, Places
  <2>2. entry' \in [Pids -> Int] /\ gen' \in [Pids -> 0 .. MaxGen]
    BY <1>1 DEF IInv, TypeOK
  <2>3. role' \in [Pids -> {"boot", "init", "shell1", "shell2", "program"}]
    BY <1>1 DEF IInv, TypeOK
  <2> QED
    BY <1>1, <1>3, <2>1, <2>2, <2>3 DEF IInv, TypeOK
<1>6. OwnPages'
  BY <1>1, <1>3, <1>4 DEF IInv, OwnPages, Alive
<1>7. EntryKept'
  BY <1>1, <1>3, <1>4, ResumedEntry DEF EntryKept
<1>8. FrameSaved'
  <2>1. at'[current] \notin Fresh \cup BootPlaces \cup {"driver", "user", "call"}
    BY <1>4 DEF Fresh, BootPlaces
  <2>2. \A p \in Pids \ {current} : /\ at'[p] = at[p] /\ param'[p] = param[p]
                                     /\ popped'[p] = popped[p] /\ entry'[p] = entry[p]
                                     /\ kstktop'[p] = kstktop[p]
    BY <1>1, <1>3, <1>4
  <2>3. ASSUME NEW p \in Pids, p # current'
        PROVE  /\ at'[p] = "user" => kstktop'[p][2] = entry'[p] - Full
               /\ at'[p] = "call" => \E e \in Depths : kstktop'[p][2] = param'[p] - e
               /\ at'[p] \in Fresh => kstktop'[p][2] = param'[p] + popped'[p] - Inner
               /\ at'[p] \in BootPlaces =>
                     kstktop'[p][2] = 0 \/ \E s \in BootSps : kstktop'[p][2] = s - Inner
               /\ at'[p] = "driver" =>
                     kstktop'[p][2] = 0 \/ \E s \in DriverSps : kstktop'[p][2] = s - Inner
    <3>1. CASE p = current
      BY <2>1, <3>1
    <3>2. CASE p # current
      BY <2>2, <3>2 DEF IInv, FrameSaved
    <3> QED
      BY <3>1, <3>2
  <2> QED
    BY <2>3 DEF FrameSaved
<1>9. CallFrames'
  BY <1>1, <1>4 DEF IInv, CallFrames, Fresh
<1>10. Levels'
  <2>1. \A p \in Pids \ {current} : gen'[p] = gen[p] /\ Top(gen'[p]) = Top(gen[p])
    BY <1>4 DEF Top
  <2>2. \A p \in Pids : Alive(p)' => p # current /\ Alive(p)
    BY <1>1, <1>4 DEF Alive
  <2>3. \A p \in Pids : at'[p] \in {"user", "call"} \cup Fresh => Alive(p)'
    BY DEF Alive, Fresh
  <2>4. at[q] \in BootPlaces \cup Fresh => esp0'[2] >= Top(gen[q])
    BY <1>1, <1>3, ResumedEntry
  <2> QED
    BY <1>1, <1>3, <1>4, <2>1, <2>2, <2>3, <2>4 DEF IInv, Levels
<1>11. cut' \/ BootOrder'
  <2>1. \A p \in Pids : at[p] \notin {"test1", "test2"} \/ cut
    BY <1>1 DEF IInv, BootOrder
  <2>2. /\ \A p \in Pids : (FirstChild(p)' => FirstChild(p)) /\ (SecondChild(p)' => SecondChild(p))
        /\ at'[0] = at[0] /\ role'[0] = role[0]
        /\ \A p \in Pids : p # current => at'[p] = at[p] /\ role'[p] = role[p]
    BY <1>1, <1>4 DEF FirstChild, SecondChild
  <2> QED
    BY <1>1, <1>3, <1>4, <2>1, <2>2 DEF IInv, BootOrder
<1> QED
  BY <1>5, <1>6, <1>7, <1>8, <1>9, <1>10, <1>11 DEF IInv

\* What fork changes, besides where the two processes are.
LEMMA ChildEffect ==
    ASSUME IInv, NEW c \in Pids, NEW words \in Int, Child(c, <<current, words>>)
    PROVE  /\ c # current /\ at[c] = "free" /\ gen[current] < MaxGen
           /\ kstktop' \in [Pids -> Addresses]
           /\ kstktop'[c][1] = c /\ kstktop'[c][2] = words - Inner
           /\ param' \in [Pids -> Int] /\ param'[c] = words
           /\ gen' \in [Pids -> 0 .. MaxGen] /\ gen'[c] = gen[current] + 1
           /\ \A p \in Pids : p # c =>
                 kstktop'[p] = kstktop[p] /\ param'[p] = param[p] /\ gen'[p] = gen[p]
           /\ esp0' \in Addresses /\ esp0'[1] = current /\ esp0'[2] = words + Full
<1> USE Constants
<1> DEFINE a == <<current, words>>
<1>1. /\ current \in Pids /\ a[1] = current /\ a[2] = words
      /\ gen[current] \in Nat /\ Full \in Int /\ Inner \in Int
  BY Types DEF IInv, Full, Inner
<1>2. a[1] + c - current = c
  BY <1>1
<1>3. /\ c # current /\ at[c] = "free" /\ gen[current] < MaxGen
      /\ kstktop' = [kstktop EXCEPT ![c] = ChildFrame(<<a[1] + c - current, a[2]>>)]
      /\ param' = [param EXCEPT ![c] = a[2]]
      /\ gen' = [gen EXCEPT ![c] = gen[current] + 1]
      /\ esp0' = AfterCall(current, a[2])
  BY DEF Child
<1> HIDE DEF a
<1>4. ChildFrame(<<a[1] + c - current, a[2]>>) = <<c, words - Inner>>
  BY <1>1, <1>2 DEF ChildFrame, Plus
<1>5. /\ <<c, words - Inner>> \in Addresses
      /\ <<c, words - Inner>>[1] = c /\ <<c, words - Inner>>[2] = words - Inner
  BY <1>1, PairAddress
<1>6. /\ kstktop' \in [Pids -> Addresses] /\ kstktop'[c] = <<c, words - Inner>>
      /\ \A p \in Pids : p # c => kstktop'[p] = kstktop[p]
  BY <1>3, <1>4, <1>5 DEF IInv, TypeOK
<1>7. /\ param' \in [Pids -> Int] /\ param'[c] = words
      /\ \A p \in Pids : p # c => param'[p] = param[p]
  BY <1>1, <1>3 DEF IInv, TypeOK
<1>8. /\ gen' \in [Pids -> 0 .. MaxGen] /\ gen'[c] = gen[current] + 1
      /\ \A p \in Pids : p # c => gen'[p] = gen[p]
  <2>1. gen[current] + 1 \in 0 .. MaxGen
    BY <1>1, <1>3
  <2> QED
    BY <1>3, <2>1 DEF IInv, TypeOK
<1>9. esp0' \in Addresses /\ esp0'[1] = current /\ esp0'[2] = words + Full
  BY <1>1, <1>3, PairAddress DEF AfterCall
<1> QED
  BY <1>3, <1>5, <1>6, <1>7, <1>8, <1>9

LEMMA ForkInv ==
    ASSUME IInv, NEW c \in Pids, Fork(c)
    PROVE  IInv'
<1> USE Constants
<1> DEFINE words == esp0[2] - Full
<1>1. /\ at[current] = "user" /\ current \in Pids
      /\ at' = [at EXCEPT ![c] = "fresh"]
      /\ role' = [role EXCEPT ![c] = "program"]
      /\ UNCHANGED <<current, popped, eax, bp, pid, entry, cut>>
  BY Types DEF Fork, IInv
<1>2. words \in Int /\ esp0[2] \in Int /\ words = entry[current] - Full
  BY <1>1, Types DEF IInv, EntryKept, Full
<1>3. Plus(esp0, -Full) = <<current, words>>
  BY <1>2 DEF Plus, IInv, OwnPages, Full
<1>4. Child(c, <<current, words>>)
  BY <1>3 DEF Fork
<1> HIDE DEF words
<1>5. /\ c # current /\ at[c] = "free"
      /\ kstktop' \in [Pids -> Addresses]
      /\ kstktop'[c][1] = c /\ kstktop'[c][2] = words - Inner
      /\ param' \in [Pids -> Int] /\ param'[c] = words
      /\ gen' \in [Pids -> 0 .. MaxGen] /\ gen'[c] = gen[current] + 1
      /\ \A p \in Pids : p # c =>
            kstktop'[p] = kstktop[p] /\ param'[p] = param[p] /\ gen'[p] = gen[p]
      /\ esp0' \in Addresses /\ esp0'[1] = current /\ esp0'[2] = words + Full
  BY <1>2, <1>4, ChildEffect
<1>6. /\ at'[c] = "fresh" /\ role'[c] = "program"
      /\ \A p \in Pids : p # c => at'[p] = at[p] /\ role'[p] = role[p]
  BY <1>1 DEF IInv, TypeOK
<1>7. /\ "fresh" \in Fresh /\ "fresh" \notin BootPlaces \cup {"driver", "user", "call", "free"}
      /\ "user" \notin Fresh \cup BootPlaces
  BY DEF Fresh, BootPlaces
<1>8. TypeOK'
  <2>1. at' \in [Pids -> Places]
    BY <1>1 DEF IInv, TypeOK, Places
  <2>2. role' \in [Pids -> {"boot", "init", "shell1", "shell2", "program"}]
    BY <1>1 DEF IInv, TypeOK
  <2> QED
    BY <1>1, <1>5, <2>1, <2>2 DEF IInv, TypeOK
<1>9. OwnPages'
  BY <1>1, <1>5, <1>6 DEF IInv, OwnPages, Alive
<1>10. EntryKept'
  BY <1>1, <1>2, <1>5, Types DEF IInv, EntryKept, Full
<1>11. popped[c] = 0
  BY <1>5 DEF IInv, CallFrames, Fresh
<1>12. FrameSaved'
  <2>1. kstktop'[c][2] = param'[c] + popped'[c] - Inner
    BY <1>1, <1>2, <1>5, <1>11 DEF Inner
  <2>2. \A p \in Pids \ {current} : p # c =>
            /\ at'[p] = at[p] /\ param'[p] = param[p] /\ popped'[p] = popped[p]
            /\ entry'[p] = entry[p] /\ kstktop'[p] = kstktop[p]
    BY <1>1, <1>5, <1>6
  <2>3. ASSUME NEW p \in Pids, p # current'
        PROVE  /\ at'[p] = "user" => kstktop'[p][2] = entry'[p] - Full
               /\ at'[p] = "call" => \E d \in Depths : kstktop'[p][2] = param'[p] - d
               /\ at'[p] \in Fresh => kstktop'[p][2] = param'[p] + popped'[p] - Inner
               /\ at'[p] \in BootPlaces =>
                     kstktop'[p][2] = 0 \/ \E s \in BootSps : kstktop'[p][2] = s - Inner
               /\ at'[p] = "driver" =>
                     kstktop'[p][2] = 0 \/ \E s \in DriverSps : kstktop'[p][2] = s - Inner
    <3>1. CASE p = c
      BY <1>6, <1>7, <2>1, <3>1
    <3>2. CASE p # c
      <4>1. p # current /\ FrameSaved
        BY <1>1, <2>3 DEF IInv
      <4> QED
        BY <2>3, <3>2, <4>1, <2>2 DEF FrameSaved
    <3> QED
      BY <3>1, <3>2
  <2> QED
    BY <2>3 DEF FrameSaved
<1>13. CallFrames'
  <2>1. \A p \in Pids : p # c =>
            /\ at'[p] = at[p] /\ param'[p] = param[p]
            /\ popped'[p] = popped[p] /\ entry'[p] = entry[p]
    BY <1>1, <1>5, <1>6
  <2> QED
    BY <1>6, <1>7, <2>1 DEF IInv, CallFrames
<1>14. Levels'
  <2>1. /\ gen[current] \in Nat /\ entry[current] >= Top(gen[current])
        /\ entry[current] \in Int
    <3>1. current \in Pids /\ at[current] \in {"user", "call"}
      BY <1>1
    <3>2. entry[current] >= Top(gen[current])
      BY <3>1 DEF IInv, Levels
    <3>3. gen[current] \in 0 .. MaxGen /\ entry[current] \in Int
      BY <3>1, Types DEF IInv
    <3> QED
      BY <3>2, <3>3
  <2>2. Top(gen'[c]) = Top(gen[current]) - Inner /\ Top(gen[current]) \in Int
    BY <1>5, <2>1 DEF Top, Inner
  <2>3. words - Inner >= Top(gen'[c]) - Full - DEPTH /\ words + 2 >= Top(gen'[c])
    BY <1>2, <2>1, <2>2 DEF Full, Inner
  <2>4. \A p \in Pids : p # c =>
            /\ Top(gen'[p]) = Top(gen[p])
            /\ at'[p] = at[p] /\ param'[p] = param[p]
            /\ entry'[p] = entry[p] /\ kstktop'[p] = kstktop[p]
    BY <1>1, <1>5, <1>6
  <2> QED
    BY <1>1, <1>5, <1>6, <1>7, <2>3, <2>4 DEF IInv, Levels, Alive
<1>15. cut' \/ BootOrder'
  <2> SUFFICES ASSUME ~cut PROVE BootOrder'
    BY <1>1
  <2>1. BootOrder /\ c # 0
    BY <1>5 DEF IInv, BootOrder
  <2>2. \A p \in Pids : (FirstChild(p)' => FirstChild(p)) /\ (SecondChild(p)' => SecondChild(p))
    BY <1>6 DEF FirstChild, SecondChild
  <2>3. /\ UNCHANGED <<current, eax, bp, pid>> /\ at'[0] = at[0] /\ role'[0] = role[0]
        /\ at'[current] = at[current]
    BY <1>1, <1>5, <1>6, <2>1
  <2>4. \A p \in Pids : /\ at'[p] \in {at[p], "fresh"} /\ role'[p] \in {role[p], "program"}
    BY <1>6
  <2>5. /\ \A p \in Pids \ {current'} : at'[p] \notin {"test1", "test2"}
        /\ at'[current'] \in {"test1", "test2"} => pid'[bp'[current']] = eax'[current']
    BY <2>1, <2>3, <2>4 DEF BootOrder
  <2>6. /\ \/ role'[0] = "boot" /\ at'[0] \in {"fork1", "store1", "test1", "fork2", "store2", "test2", "init"}
           \/ role'[0] = "init" /\ at'[0] \in {"user", "call"}
        /\ at'[0] \in {"store1", "test1", "store2", "test2"} => eax'[0] # 0
    BY <2>1, <2>3 DEF BootOrder
  <2>7. \A p \in Pids \ {0} :
          /\ at'[p] \notin {"fork1", "fork2", "init"} /\ role'[p] # "init"
          /\ at'[p] \in {"fresh1", "store1", "test1", "fresh2", "store2", "test2"} => eax'[p] = 0
          /\ at'[0] = "fork1" => ~FirstChild(p)'
          /\ at'[0] \in {"fork1", "store1", "test1", "fork2"} => ~SecondChild(p)'
    BY <2>1, <2>2, <2>3, <2>4 DEF BootOrder
  <2>8. \A p, q \in Pids :
          /\ FirstChild(p)' /\ FirstChild(q)' => p = q
          /\ SecondChild(p)' /\ SecondChild(q)' => p = q
    BY <2>1, <2>2 DEF BootOrder
  <2> QED
    BY <2>5, <2>6, <2>7, <2>8 DEF BootOrder
<1> QED
  BY <1>8, <1>9, <1>10, <1>12, <1>13, <1>14, <1>15 DEF IInv

LEMMA BootForkInv ==
    ASSUME IInv, NEW c \in Pids, NEW n \in {1, 2}, BootFork(c, n)
    PROVE  IInv'
<1> USE Constants
<1> DEFINE words == StubSp - Inner
           first == n = 1
<1>1. /\ at[current] = (IF first THEN "fork1" ELSE "fork2") /\ current \in Pids
      /\ Child(c, <<current, words>>)
      /\ at' = [at EXCEPT ![current] = IF first THEN "store1" ELSE "store2",
                          ![c] = IF first THEN "fresh1" ELSE "fresh2"]
      /\ eax' = [eax EXCEPT ![current] = c, ![c] = 0]
      /\ bp' = [bp EXCEPT ![c] = bp[current]]
      /\ pid' = [pid EXCEPT ![c] = pid[current]]
      /\ role' = [role EXCEPT ![c] = "boot"]
      /\ UNCHANGED <<current, popped, entry, cut>>
  BY Types DEF BootFork, IInv, ChildEax, FramePointer
<1>2. words \in Int /\ Full = 19 /\ Inner = 17 /\ words = StubSp - 17
  BY DEF Full, Inner
<1> HIDE DEF words
<1>3. /\ c # current /\ at[c] = "free"
      /\ kstktop' \in [Pids -> Addresses]
      /\ kstktop'[c][1] = c /\ kstktop'[c][2] = words - Inner
      /\ param' \in [Pids -> Int] /\ param'[c] = words
      /\ gen' \in [Pids -> 0 .. MaxGen] /\ gen'[c] = gen[current] + 1
      /\ \A p \in Pids : p # c =>
            kstktop'[p] = kstktop[p] /\ param'[p] = param[p] /\ gen'[p] = gen[p]
      /\ esp0' \in Addresses /\ esp0'[1] = current /\ esp0'[2] = words + Full
  BY <1>1, <1>2, ChildEffect
<1>4. /\ at'[current] = IF first THEN "store1" ELSE "store2"
      /\ at'[c] = IF first THEN "fresh1" ELSE "fresh2"
      /\ \A p \in Pids : p \notin {c, current} => at'[p] = at[p]
  BY <1>1, <1>3 DEF IInv, TypeOK
<1>5. /\ at'[c] \in Fresh /\ at'[c] \notin BootPlaces \cup {"driver", "user", "call", "free"}
      /\ at'[current] \in BootPlaces
      /\ at'[current] \notin Fresh \cup {"driver", "user", "call", "free"}
      /\ at[current] \notin Fresh
  BY <1>1, <1>4 DEF Fresh, BootPlaces
<1>6. TypeOK'
  <2>1. at' \in [Pids -> Places]
    BY <1>1 DEF IInv, TypeOK, Places, BootPlaces
  <2>2. /\ eax' \in [Pids -> Pids \cup {None}] /\ pid' \in [Pids -> Pids \cup {None}]
        /\ bp' \in [Pids -> Pids]
    BY <1>1 DEF IInv, TypeOK
  <2>3. role' \in [Pids -> {"boot", "init", "shell1", "shell2", "program"}]
    BY <1>1 DEF IInv, TypeOK
  <2> QED
    BY <1>1, <1>3, <2>1, <2>2, <2>3 DEF IInv, TypeOK
<1>7. OwnPages'
  <2>1. Alive(current)' /\ current' = current
    BY <1>1, <1>5 DEF Alive
  <2>2. \A p \in Pids : p # c => kstktop'[p] = kstktop[p] /\ (Alive(p)' => Alive(p))
    BY <1>3, <1>4 DEF IInv, OwnPages, Alive
  <2> QED
    BY <1>3, <2>1, <2>2 DEF IInv, OwnPages
<1>8. EntryKept'
  BY <1>1, <1>5 DEF EntryKept
<1>9. popped[c] = 0
  BY <1>3 DEF IInv, CallFrames, Fresh
<1>10. FrameSaved'
  <2>1. kstktop'[c][2] = param'[c] + popped'[c] - Inner
    BY <1>1, <1>2, <1>3, <1>9
  <2>2. ASSUME NEW p \in Pids \ {current}, p # c
        PROVE  /\ at'[p] = at[p] /\ param'[p] = param[p] /\ popped'[p] = popped[p]
               /\ entry'[p] = entry[p] /\ kstktop'[p] = kstktop[p]
    BY <1>1, <1>3, <1>4, <2>2
  <2>3. /\ current' = current
        /\ at'[c] # "user" /\ at'[c] # "call" /\ at'[c] \notin BootPlaces \cup {"driver"}
    BY <1>1, <1>5
  <2>4. ASSUME NEW p \in Pids, p # current'
        PROVE  /\ at'[p] = "user" => kstktop'[p][2] = entry'[p] - Full
               /\ at'[p] = "call" => \E d \in Depths : kstktop'[p][2] = param'[p] - d
               /\ at'[p] \in Fresh => kstktop'[p][2] = param'[p] + popped'[p] - Inner
               /\ at'[p] \in BootPlaces =>
                     kstktop'[p][2] = 0 \/ \E s \in BootSps : kstktop'[p][2] = s - Inner
               /\ at'[p] = "driver" =>
                     kstktop'[p][2] = 0 \/ \E s \in DriverSps : kstktop'[p][2] = s - Inner
    <3>1. CASE p = c
      BY <1>5, <2>1, <2>3, <3>1
    <3>2. CASE p # c
      <4>1. p # current /\ FrameSaved
        BY <2>3, <2>4 DEF IInv
      <4> QED
        BY <2>4, <3>2, <4>1, <2>2 DEF FrameSaved
    <3> QED
      BY <3>1, <3>2
  <2> QED
    BY <2>4 DEF FrameSaved
<1>11. CallFrames'
  <2>1. popped[current] = 0
    BY <1>1, <1>5 DEF IInv, CallFrames
  <2>2. \A p \in Pids : p \notin {c, current} =>
            /\ at'[p] = at[p] /\ param'[p] = param[p]
            /\ popped'[p] = popped[p] /\ entry'[p] = entry[p]
    BY <1>1, <1>3, <1>4
  <2>3. /\ at'[c] # "call" /\ at'[c] \in Fresh
        /\ at'[current] # "call" /\ popped'[current] = 0
    BY <1>1, <1>5, <2>1
  <2> QED
    BY <2>2, <2>3 DEF IInv, CallFrames
<1>12. Levels'
  <2>1. gen[current] \in Nat /\ gen'[current] = gen[current]
    BY <1>1, <1>3, Types DEF IInv
  <2>2. /\ words - Inner >= Top(gen'[c]) - Full - DEPTH /\ words + 2 >= Top(gen'[c])
        /\ words + Full >= Top(gen'[current])
    BY <1>2, <1>3, <2>1 DEF Top
  <2>3. \A p \in Pids : p # c =>
            /\ Top(gen'[p]) = Top(gen[p])
            /\ param'[p] = param[p] /\ entry'[p] = entry[p] /\ kstktop'[p] = kstktop[p]
    BY <1>1, <1>3
  <2>4. \A p \in Pids : p # c =>
            /\ Alive(p)' => Alive(p)
            /\ at'[p] \in {"user", "call"} => at[p] \in {"user", "call"}
            /\ at'[p] \in Fresh => at[p] \in Fresh
    BY <1>4, <1>5 DEF IInv, OwnPages, Alive
  <2>5. /\ at'[c] \notin {"user", "call"} /\ current' = current
        /\ at'[current] \notin Fresh \cup {"user", "call"}
    BY <1>1, <1>5
  <2>6. \A p \in Pids : p # c =>
            /\ Alive(p)' => kstktop'[p][2] >= Top(gen'[p]) - Full - DEPTH
            /\ at'[p] \in {"user", "call"} => entry'[p] >= Top(gen'[p])
            /\ at'[p] \in Fresh => param'[p] + 2 >= Top(gen'[p])
    BY <2>3, <2>4 DEF IInv, Levels
  <2> QED
    BY <1>3, <2>2, <2>5, <2>6 DEF Levels
<1>13. cut' \/ BootOrder'
  BY SMTT(30), <1>1, <1>3 DEF IInv, TypeOK, BootOrder, FirstChild, SecondChild, None
<1> QED
  BY <1>6, <1>7, <1>8, <1>10, <1>11, <1>12, <1>13 DEF IInv

LEMMA NextInv == IInv /\ [Next]_vars => IInv'
<1> SUFFICES ASSUME IInv, [Next]_vars PROVE IInv'
  OBVIOUS
<1> QED
  BY StutterInv, InterruptInv, YieldInv, ExitInv, ReturnInv, ForkInv, BootForkInv,
     BootForkFailsInv, PopInv, FirstReturnInv, BootStoreInv, BootTestInv, BootExecInv, ExecInv
     DEF Next

LEMMA Invariance == Spec => []IInv
BY InitInv, NextInv, PTL DEF Spec

-----------------------------------------------------------------------------
(* The theorems.                                                           *)

\* A process in user mode enters the kernel (tss.esp0) on its own page and always
\* at the same place, after any calls, yields, interrupts, forks and execs.
THEOREM EntersOnOwnStack == Spec => []OwnStack
<1>1. IInv => OwnStack
  <2> SUFFICES ASSUME IInv, at[current] = "user" PROVE esp0 = <<current, entry[current]>>
    BY DEF IInv, OwnStack
  <2>1. esp0 \in Addresses /\ esp0[1] = current /\ esp0[2] = entry[current]
    BY DEF IInv, TypeOK, OwnPages, EntryKept
  <2> QED
    BY <2>1 DEF Addresses
<1> QED
  BY <1>1, Invariance, PTL

\* Every process that does not run is resumed (kstktop) from the frame of its last
\* interrupt, on its own page, wherever it was interrupted.
THEOREM ResumesItsContext == Spec => []ContextSaved
<1>1. IInv => ContextSaved
  <2> SUFFICES ASSUME IInv, NEW p \in Pids \ {current}, Alive(p)
               PROVE  CASE at[p] = "user" -> kstktop[p] = <<p, entry[p] - Full>>
                        [] at[p] = "call" -> /\ param[p] = entry[p] - Full
                                             /\ kstktop[p] \in {p} \X {param[p] - d : d \in Depths}
                        [] at[p] \in Fresh -> kstktop[p] = <<p, param[p] + popped[p] - Inner>>
                        [] OTHER -> kstktop[p] \in {p} \X ({0} \cup {s - Inner : s \in Sps(p)})
    BY DEF ContextSaved
  <2>1. kstktop[p] = <<kstktop[p][1], kstktop[p][2]>> /\ kstktop[p][1] = p
    BY DEF IInv, TypeOK, OwnPages, Addresses
  <2>2. "user" \notin Fresh /\ "call" \notin Fresh
    BY DEF Fresh
  <2>3. CASE at[p] = "user"
    BY <2>1, <2>2, <2>3 DEF IInv, FrameSaved
  <2>4. CASE at[p] = "call"
    BY <2>1, <2>2, <2>4 DEF IInv, FrameSaved, CallFrames
  <2>5. CASE at[p] \in Fresh
    BY <2>1, <2>2, <2>5 DEF IInv, FrameSaved
  <2>6. CASE at[p] \notin Fresh \cup {"user", "call"}
    <3>1. at[p] \in BootPlaces \cup {"driver"}
      BY <2>6 DEF IInv, TypeOK, Places, Alive, Fresh
    <3>2. kstktop[p][2] \in {0} \cup {s - Inner : s \in Sps(p)}
      BY <3>1 DEF IInv, FrameSaved, Sps, BootPlaces
    <3> QED
      BY <2>1, <2>6, <3>2
  <2> QED
    BY <2>3, <2>4, <2>5, <2>6
<1> QED
  BY <1>1, Invariance, PTL

\* No frame of a process reaches below its page, for as many generations of forks
\* as Fit: each enters the kernel at most 17 words lower than its father.
THEOREM StackSuffices == Spec => []StackFits
<1>1. IInv => StackFits
  <2> SUFFICES ASSUME IInv, NEW p \in Pids, Alive(p), gen[p] <= Fit
               PROVE  kstktop[p][2] >= -STACK
    BY DEF StackFits
  <2> DEFINE room == STACK + LowSp + 2 - Full - DEPTH
             g    == gen[p]
             top  == kstktop[p][2]
  <2>1. room \in Int /\ g \in Nat /\ top \in Int /\ STACK \in Nat
    BY Constants, StackAssumption, Types DEF IInv, Full
  <2>2. g <= room \div 17
    BY DEF Fit, Inner
  <2>3. 17 * g <= room
    <3> HIDE DEF room, g
    <3> QED
      BY <2>1, <2>2
  <2>4. top >= LowSp + 2 - 17 * g - Full - DEPTH
    <3>1. top >= Top(g) - Full - DEPTH
      BY DEF IInv, Levels
    <3>2. Top(g) = LowSp + 2 - 17 * g
      BY DEF Top, Inner
    <3> QED
      BY <2>1, <3>1, <3>2, Constants DEF Full
  <2> QED
    BY <2>1, <2>3, <2>4, Constants DEF Full
<1> QED
  BY <1>1, Invariance, PTL

\* pid 0 becomes init and at most one process each the shell of a terminal, unless
\* a process of init_start lost the processor between storing pid and testing it.
THEOREM BootRolesTaken == Spec => []BootRoles
<1>1. IInv => BootRoles
  BY Constants DEF IInv, BootRoles, InitRoles, BootOrder, FirstChild, SecondChild
<1> QED
  BY <1>1, Invariance, PTL
=============================================================================
