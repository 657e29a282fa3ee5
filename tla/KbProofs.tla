------------------------------ MODULE KbProofs ------------------------------
(***************************************************************************)
(* Proofs about module Kb, for a ring and an 8042 of any size and any      *)
(* number of bytes: wherever interrupts come but at the places that        *)
(* Exposed names, the ring holds what was stored and not yet taken.  And   *)
(* about module Scancode, for any keys of the keyboard and a ring of any   *)
(* size: each stroke is taken for the key that was struck.                 *)
(***************************************************************************)
EXTENDS Kb, Scancode, TLAPS

-----------------------------------------------------------------------------
(* The inductive invariant.                                                *)

\* The bytes in the ring: the driver changes cnt before it stores a byte, and
\* before it reads one.
Held == CASE pc \in {"slot", "put"} -> cnt - 1
          [] pc = "take" -> cnt + 1
          [] OTHER -> cnt

\* The slot k places behind tail, and what it holds.
Place(k) == IF tail + k < RING THEN tail + k ELSE tail + k - RING
Cell(k) == buffer[Place(k)]

\* What the driver has loaded is of the right type, also after a race.
Loaded ==
    /\ pc # "wrap" => head < RING
    /\ pc \in {"put", "headstore"} => reg \in Slots
    /\ pc = "declo" => cnt >= 1
    /\ pc = "decst" => reg >= 1
    /\ pc = "data" => port # <<>> \/ latch # 0
    /\ pc \in {"full", "incload", "incstore", "slot", "put"} => byte # 0

\* The 8042 gives out bytes in the order they were sent.
PortInOrder ==
    \A i \in 1 .. Len(port) :
        /\ port[i] <= sent
        /\ \A j \in 1 .. Len(port) : i < j => port[i] < port[j]

\* head, cnt and what the driver has loaded fit together.
Pointers ==
    /\ ~smashed
    /\ Held \in 0 .. RING
    /\ pc \in {"incload", "incstore", "slot", "put"} => Held < RING
    /\ pc \in {"incstore", "decst"} => reg = cnt
    /\ pc \in {"put", "headstore"} => reg = head
    /\ pc \in {"headload", "headstore", "wrap"} => Held >= 1
    /\ pc \in {"headload", "headstore"} => head = Place(Held - 1)
    /\ pc = "wrap" => head = Place(Held - 1) + 1
    /\ pc \notin {"headload", "headstore", "wrap"} => head = Place(Held)
    /\ pc = "data" => port # <<>>

\* The ring holds what was stored and not taken, in the order of sending.
Ring ==
    /\ \A k \in 0 .. Held - 1 : Cell(k) \in stored
    /\ \A j, k \in 0 .. Held - 1 : j < k => Cell(j) < Cell(k)
    /\ \A i \in 1 .. Len(taken) : taken[i] \in stored
    /\ \A i, j \in 1 .. Len(taken) : i < j => taken[i] < taken[j]
    /\ \A i \in 1 .. Len(taken), k \in 0 .. Held - 1 : taken[i] < Cell(k)
    /\ \A b \in stored : (\E i \in 1 .. Len(taken) : taken[i] = b) \/ \E k \in 0 .. Held - 1 : Cell(k) = b

\* What comes is later than what is stored: the byte the driver polled, then
\* those of the 8042.
Later ==
    /\ \A b \in stored : b <= sent /\ \A i \in 1 .. Len(port) : b < port[i]
    /\ pc \in {"full", "incload", "incstore", "slot", "put"} =>
         /\ byte <= sent
         /\ \A b \in stored : b < byte
         /\ \A i \in 1 .. Len(port) : byte < port[i]

Base == TypeOK /\ Loaded /\ PortInOrder

IInv == Base /\ (~raced => Pointers /\ Ring /\ Later)

-----------------------------------------------------------------------------
(* Lemmas about the ring.                                                  *)

LEMMA Wraps ==
    \A i \in Nat : i < RING + RING => i % RING = IF i < RING THEN i ELSE i - RING
<1>1. RING \in Nat \ {0}
  BY RingAssumption
<1> QED
  BY <1>1

\* The places of a ring are different, and After goes from one to the next.
LEMMA Places ==
    ASSUME TypeOK
    PROVE  /\ \A k \in 0 .. RING : Place(k) \in Slots
           /\ \A j, k \in 0 .. RING - 1 : Place(j) = Place(k) => j = k
           /\ \A k \in 0 .. RING - 1 : After(Place(k)) = Place(k + 1)
           /\ \A k \in 0 .. RING - 1 : (tail + k) % RING = Place(k)
           /\ Place(0) = tail
<1>1. RING \in Nat \ {0} /\ tail \in 0 .. RING - 1
  BY RingAssumption DEF TypeOK, Slots
<1>2. \A k \in 0 .. RING : Place(k) \in Slots
  BY <1>1 DEF Place, Slots
<1>3. \A j, k \in 0 .. RING - 1 : Place(j) = Place(k) => j = k
  BY <1>1 DEF Place
<1>4. \A k \in 0 .. RING - 1 : After(Place(k)) = Place(k + 1)
  BY <1>1 DEF Place, After
<1>5. \A k \in 0 .. RING - 1 : (tail + k) % RING = Place(k)
  <2> TAKE k \in 0 .. RING - 1
  <2>1. tail + k \in Nat /\ tail + k < RING + RING
    BY <1>1
  <2>2. (tail + k) % RING = IF tail + k < RING THEN tail + k ELSE tail + k - RING
    BY <1>1, <2>1, Wraps
  <2> QED
    BY <2>2 DEF Place
<1> QED
  BY <1>1, <1>2, <1>3, <1>4, <1>5 DEF Place

\* Steps that leave the ring alone.
LEMMA RingKept ==
    ASSUME Ring, Held' = Held, UNCHANGED <<buffer, tail, stored, taken>>
    PROVE  Ring'
BY DEF Ring, Cell, Place

\* A byte is stored behind the last one.
LEMMA RingStore ==
    ASSUME TypeOK, Ring, NEW h \in 0 .. RING - 1, Held = h, Held' = h + 1,
           NEW b \in Bytes, \A c \in stored : c < b,
           buffer' = [buffer EXCEPT ![Place(h)] = b], stored' = stored \cup {b},
           UNCHANGED <<tail, taken>>
    PROVE  Ring'
<1>1. h \in Nat /\ h < RING /\ RING \in Nat
  BY RingAssumption
<1>2. \A k \in 0 .. h - 1 : Cell(k)' = Cell(k)
  <2> TAKE k \in 0 .. h - 1
  <2>1. Place(k)' = Place(k)
    BY DEF Place
  <2>2. Place(k) # Place(h) /\ Place(k) \in Slots
    BY <1>1, Places
  <2> QED
    BY <2>1, <2>2 DEF Cell, TypeOK
<1>3. Cell(h)' = b
  <2>1. Place(h) \in Slots /\ Place(h)' = Place(h)
    BY <1>1, Places DEF Place
  <2> QED
    BY <2>1 DEF Cell, TypeOK
<1>4. \A k \in 0 .. h - 1 : Cell(k) \in stored
  BY DEF Ring
<1>5. \A k \in 0 .. h : k = h \/ k \in 0 .. h - 1
  BY <1>1
<1>6. \A k \in 0 .. Held' - 1 : k \in 0 .. h
  BY <1>1
<1>7. \A k \in 0 .. Held' - 1 : Cell(k)' \in stored'
  BY <1>2, <1>3, <1>4, <1>5, <1>6
<1>8. \A j, k \in 0 .. Held' - 1 : j < k => Cell(j)' < Cell(k)'
  <2> TAKE j, k \in 0 .. Held' - 1
  <2> HAVE j < k
  <2>1. j \in 0 .. h - 1 /\ (k = h \/ k \in 0 .. h - 1)
    BY <1>1, <1>5, <1>6
  <2> QED
    BY <1>2, <1>3, <1>4, <2>1 DEF Ring
<1>9. \A i \in 1 .. Len(taken), k \in 0 .. Held' - 1 : taken[i] < Cell(k)'
  <2> TAKE i \in 1 .. Len(taken), k \in 0 .. Held' - 1
  <2>1. k = h \/ k \in 0 .. h - 1
    BY <1>5, <1>6
  <2>2. taken[i] \in stored
    BY DEF Ring
  <2> QED
    BY <1>2, <1>3, <2>1, <2>2 DEF Ring
<1>10. \A c \in stored' :
          (\E i \in 1 .. Len(taken) : taken[i] = c) \/ \E k \in 0 .. Held' - 1 : Cell(k)' = c
  <2> TAKE c \in stored'
  <2>1. CASE c = b
    BY <1>1, <1>3, <2>1
  <2>2. CASE c \in stored
    <3>1. (\E i \in 1 .. Len(taken) : taken[i] = c) \/ \E k \in 0 .. h - 1 : Cell(k) = c
      BY <2>2 DEF Ring
    <3>2. \A k \in 0 .. h - 1 : k \in 0 .. Held' - 1
      BY <1>1
    <3> QED
      BY <1>2, <3>1, <3>2
  <2> QED
    BY <2>1, <2>2
<1> QED
  BY <1>7, <1>8, <1>9, <1>10 DEF Ring

\* The first byte is taken.
LEMMA RingTake ==
    ASSUME TypeOK, Ring, NEW h \in 1 .. RING, Held = h, Held' = h - 1,
           taken' = Append(taken, buffer[tail]), tail' = After(tail),
           UNCHANGED <<buffer, stored>>
    PROVE  Ring'
<1>1. h \in Nat /\ h <= RING /\ h >= 1 /\ RING \in Nat
  BY RingAssumption
<1>2. \A k \in 0 .. h - 2 : Cell(k)' = Cell(k + 1)
  <2> TAKE k \in 0 .. h - 2
  <2>1. Place(k)' = IF tail' + k < RING THEN tail' + k ELSE tail' + k - RING
    BY DEF Place
  <2>2. tail \in 0 .. RING - 1 /\ k \in 0 .. RING - 2
    BY <1>1 DEF TypeOK, Slots
  <2>3. Place(k)' = Place(k + 1)
    BY <1>1, <2>1, <2>2 DEF Place, After
  <2> QED
    BY <2>3 DEF Cell
<1>3. Cell(0) = buffer[tail] /\ 0 \in 0 .. h - 1
  BY <1>1, Places DEF Cell
<1>4. /\ Len(taken') = Len(taken) + 1 /\ taken'[Len(taken) + 1] = Cell(0)
      /\ \A i \in 1 .. Len(taken) : taken'[i] = taken[i]
      /\ Len(taken) \in Nat
  BY <1>3 DEF TypeOK
<1>5. \A k \in 0 .. Held' - 1 : k + 1 \in 0 .. h - 1 /\ Cell(k)' = Cell(k + 1) /\ 0 < k + 1
  BY <1>1, <1>2
<1>6. \A i \in 1 .. Len(taken') : i = Len(taken) + 1 \/ i \in 1 .. Len(taken)
  BY <1>4
<1>7. \A k \in 0 .. Held' - 1 : Cell(k)' \in stored
  BY <1>5 DEF Ring
<1>8. \A j, k \in 0 .. Held' - 1 : j < k => Cell(j)' < Cell(k)'
  <2> TAKE j, k \in 0 .. Held' - 1
  <2> HAVE j < k
  <2>1. j + 1 < k + 1
    BY <1>1
  <2> QED
    BY <1>5, <2>1 DEF Ring
<1>9. \A i \in 1 .. Len(taken') : taken'[i] \in stored
  BY <1>3, <1>4, <1>6 DEF Ring
<1>10. \A i, j \in 1 .. Len(taken') : i < j => taken'[i] < taken'[j]
  <2> TAKE i, j \in 1 .. Len(taken')
  <2> HAVE i < j
  <2>1. i \in 1 .. Len(taken) /\ (j = Len(taken) + 1 \/ j \in 1 .. Len(taken))
    BY <1>4, <1>6
  <2> QED
    BY <1>3, <1>4, <2>1 DEF Ring
<1>11. \A i \in 1 .. Len(taken'), k \in 0 .. Held' - 1 : taken'[i] < Cell(k)'
  <2> TAKE i \in 1 .. Len(taken'), k \in 0 .. Held' - 1
  <2>1. taken'[i] = Cell(0) \/ (i \in 1 .. Len(taken) /\ taken'[i] = taken[i])
    BY <1>4, <1>6
  <2> QED
    BY <1>3, <1>5, <2>1 DEF Ring
<1>12. \A c \in stored :
          (\E i \in 1 .. Len(taken') : taken'[i] = c) \/ \E k \in 0 .. Held' - 1 : Cell(k)' = c
  <2> TAKE c \in stored
  <2>1. CASE \E i \in 1 .. Len(taken) : taken[i] = c
    <3>1. \A i \in 1 .. Len(taken) : i \in 1 .. Len(taken')
      BY <1>4
    <3> QED
      BY <1>4, <2>1, <3>1
  <2>2. CASE Cell(0) = c
    <3>1. Len(taken) + 1 \in 1 .. Len(taken')
      BY <1>4
    <3> QED
      BY <1>4, <2>2, <3>1
  <2>3. ASSUME NEW k \in 0 .. h - 1, k # 0, Cell(k) = c
        PROVE  \E j \in 0 .. Held' - 1 : Cell(j)' = c
    <3>1. k - 1 \in 0 .. Held' - 1 /\ (k - 1) + 1 = k
      BY <1>1, <2>3
    <3> QED
      BY <1>5, <2>3, <3>1
  <2> QED
    BY <2>1, <2>2, <2>3 DEF Ring
<1> QED
  BY <1>7, <1>8, <1>9, <1>10, <1>11, <1>12 DEF Ring

-----------------------------------------------------------------------------
(* Types, what the driver has loaded, and the bytes in the 8042.           *)

LEMMA InitBase == Init => Base
<1> SUFFICES ASSUME Init PROVE Base
  OBVIOUS
<1>1. port \in Seq(Bytes) /\ Len(port) = 0 /\ taken \in Seq(Bytes \cup {0})
  BY DEF Init
<1>2. buffer \in [Slots -> Bytes \cup {0}] /\ head = 0 /\ tail \in Slots /\ cnt = 0
  BY RingAssumption DEF Init, Slots
<1>3. TypeOK
  BY <1>1, <1>2, RingAssumption DEF Init, TypeOK, Steps
<1>4. Loaded /\ PortInOrder
  BY <1>1, <1>2, RingAssumption DEF Init, Loaded, PortInOrder
<1> QED
  BY <1>3, <1>4 DEF Base

LEMMA SendBase ==
    ASSUME Base, Send
    PROVE  Base'
<1>1. /\ sent \in 0 .. MaxBytes /\ sent + 1 \in Bytes /\ port \in Seq(Bytes) /\ sent' = sent + 1
      /\ port' = Append(port, sent + 1) /\ Len(port) < PORT
      /\ UNCHANGED <<latch, buffer, head, tail, cnt, pc, reg, byte, raced, smashed, stored, taken>>
  BY RingAssumption DEF Base, TypeOK, Send, ring, history, Bytes
<1>2. /\ port' \in Seq(Bytes) /\ Len(port') = Len(port) + 1 /\ port'[Len(port) + 1] = sent + 1
      /\ \A i \in 1 .. Len(port) : port'[i] = port[i] /\ port[i] <= sent /\ port[i] \in Int
      /\ Len(port) \in Nat
  <2>1. \A i \in 1 .. Len(port) : port[i] \in Bytes /\ port[i] <= sent
    BY <1>1 DEF Base, PortInOrder
  <2>2. Len(port) \in Nat /\ \A b \in Bytes : b \in Int
    BY <1>1 DEF Bytes
  <2>3. port' \in Seq(Bytes) /\ Len(port') = Len(port) + 1 /\ port'[Len(port) + 1] = sent + 1
        /\ \A i \in 1 .. Len(port) : port'[i] = port[i]
    BY <1>1, <2>2
  <2> QED
    BY <2>1, <2>2, <2>3
<1>3. \A i \in 1 .. Len(port') : i \in 1 .. Len(port) \/ i = Len(port) + 1
  BY <1>2
<1>4. TypeOK'
  <2>1. Len(port') <= PORT /\ sent' \in 0 .. MaxBytes
    BY <1>1, <1>2, RingAssumption DEF Bytes
  <2> QED
    BY <1>1, <1>2, <2>1 DEF Base, TypeOK
<1>5. PortInOrder'
  <2>1. \A i \in 1 .. Len(port') : port'[i] <= sent'
    BY <1>1, <1>2, <1>3
  <2>2. \A i, j \in 1 .. Len(port') : i < j => port'[i] < port'[j]
    <3> TAKE i, j \in 1 .. Len(port')
    <3> HAVE i < j
    <3>1. i \in 1 .. Len(port)
      BY <1>2, <1>3
    <3> QED
      BY <1>1, <1>2, <1>3, <3>1 DEF Base, PortInOrder
  <2> QED
    BY <2>1, <2>2 DEF PortInOrder
<1>6. Loaded'
  BY <1>1, <1>2 DEF Base, Loaded
<1> QED
  BY <1>4, <1>5, <1>6 DEF Base

\* The 8042 gives out its first byte.
LEMMA PortTaken ==
    ASSUME Base, port # <<>>, port' = Tail(port), UNCHANGED sent
    PROVE  /\ Head(port) \in Bytes /\ Head(port) = port[1] /\ 1 \in 1 .. Len(port)
           /\ port' \in Seq(Bytes) /\ Len(port') = Len(port) - 1 /\ Len(port') <= PORT
           /\ \A i \in 1 .. Len(port') : i + 1 \in 1 .. Len(port) /\ port'[i] = port[i + 1]
           /\ \A i \in 1 .. Len(port') : Head(port) < port'[i]
           /\ PortInOrder'
<1>1. port \in Seq(Bytes) /\ Len(port) \in Nat /\ Len(port) >= 1 /\ Len(port) <= PORT
  BY DEF Base, TypeOK
<1>2. /\ Head(port) \in Bytes /\ Head(port) = port[1] /\ 1 \in 1 .. Len(port)
      /\ port' \in Seq(Bytes) /\ Len(port') = Len(port) - 1 /\ Len(port') <= PORT
  BY <1>1, RingAssumption
<1>3. \A i \in 1 .. Len(port') : i + 1 \in 1 .. Len(port) /\ port'[i] = port[i + 1]
  BY <1>1, <1>2
<1>4. \A i \in 1 .. Len(port') : Head(port) < port'[i]
  <2> TAKE i \in 1 .. Len(port')
  <2>1. 1 < i + 1
    BY <1>2
  <2> QED
    BY <1>2, <1>3, <2>1 DEF Base, PortInOrder
<1>5. PortInOrder'
  <2>1. \A i \in 1 .. Len(port') : port'[i] <= sent'
    BY <1>3 DEF Base, PortInOrder
  <2>2. \A i, j \in 1 .. Len(port') : i < j => port'[i] < port'[j]
    <3> TAKE i, j \in 1 .. Len(port')
    <3> HAVE i < j
    <3>1. i + 1 < j + 1
      BY <1>2
    <3> QED
      BY <1>3, <3>1 DEF Base, PortInOrder
  <2> QED
    BY <2>1, <2>2 DEF PortInOrder
<1> QED
  BY <1>2, <1>3, <1>4, <1>5

LEMMA InterruptBase ==
    ASSUME Base, Interrupt
    PROVE  Base'
<1>1. /\ port # <<>> /\ port' = Tail(port) /\ latch' = Head(port) /\ raced' \in BOOLEAN
      /\ UNCHANGED <<sent, pc, reg, byte, taken>>
  BY DEF Interrupt, Base, TypeOK, Exposed
<1>2. Head(port) \in Bytes /\ port' \in Seq(Bytes) /\ Len(port') <= PORT /\ PortInOrder'
  BY <1>1, PortTaken
<1>3. /\ buffer' \in [Slots -> Bytes \cup {0}] /\ head' \in 0 .. RING /\ cnt' \in Nat /\ cnt' >= cnt
      /\ head # RING => head' < RING
      /\ head = RING => head' = head
      /\ tail' = tail /\ smashed' \in BOOLEAN /\ stored' \subseteq Bytes
  <2>1. CASE ~Room \/ head = RING
    <3>1. UNCHANGED <<buffer, head, tail, cnt, stored>> /\ (smashed' = smashed \/ smashed' = TRUE)
      BY <2>1 DEF Interrupt, ring, Room
    <3>2. smashed' \in BOOLEAN
      BY <3>1 DEF Base, TypeOK
    <3>3. /\ buffer' \in [Slots -> Bytes \cup {0}] /\ head' \in 0 .. RING /\ cnt' \in Nat /\ cnt' >= cnt
          /\ tail' = tail /\ stored' \subseteq Bytes /\ head' = head
      BY <3>1 DEF Base, TypeOK
    <3>4. head # RING => head' < RING
      BY <3>3, RingAssumption
    <3> QED
      BY <3>2, <3>3, <3>4
  <2>2. CASE Room /\ head # RING
    <3>1. head \in Slots /\ After(head) \in Slots
      BY <2>2, RingAssumption DEF Base, TypeOK, Slots, After
    <3>2. /\ cnt' = cnt + 1 /\ head' = After(head) /\ UNCHANGED <<tail, smashed>>
          /\ buffer' = [buffer EXCEPT ![head] = Head(port)]
          /\ stored' = stored \cup {Head(port)}
      BY <2>2 DEF Interrupt
    <3>3. head' \in 0 .. RING /\ head' < RING /\ cnt' \in Nat /\ cnt' >= cnt
      BY <3>1, <3>2, RingAssumption DEF Base, TypeOK, Slots
    <3>4. buffer' \in [Slots -> Bytes \cup {0}] /\ stored' \subseteq Bytes /\ smashed' \in BOOLEAN
      BY <1>2, <3>2 DEF Base, TypeOK
    <3> QED
      BY <2>2, <3>2, <3>3, <3>4
  <2> QED
    BY <2>1, <2>2
<1>4. TypeOK'
  BY <1>1, <1>2, <1>3 DEF Base, TypeOK
<1>5. Loaded'
  BY <1>1, <1>2, <1>3, RingAssumption DEF Base, TypeOK, Loaded, Bytes
<1> QED
  BY <1>2, <1>4, <1>5 DEF Base

LEMMA DriverBase ==
    ASSUME Base, Driver
    PROVE  Base'
<1> USE RingAssumption
<1>1. UNCHANGED sent
  BY DEF Driver, Test, Status, Data, Full, IncLoad, IncStore, Slot, Put, HeadLoad, HeadStore,
         Wrap, DecLoad, DecStore, Take, device
<1>2. CASE Data
  <2>1. /\ port' \in Seq(Bytes) /\ Len(port') <= PORT /\ latch' \in Bytes \cup {0}
        /\ byte' \in Bytes /\ PortInOrder'
    <3>1. CASE port = <<>>
      BY <1>1, <1>2, <3>1 DEF Data, At, Base, TypeOK, Loaded, PortInOrder
    <3>2. CASE port # <<>>
      BY <1>1, <1>2, <3>2, PortTaken DEF Data
    <3> QED
      BY <3>1, <3>2
  <2>2. /\ pc = "data" /\ pc' = "full"
        /\ UNCHANGED <<sent, buffer, head, tail, cnt, reg, raced, smashed, stored, taken>>
    BY <1>2 DEF Data, At, GoTo, ring, history
  <2>3. TypeOK'
    BY <2>1, <2>2 DEF Base, TypeOK, Steps
  <2>4. Loaded'
    BY <2>1, <2>2 DEF Base, Loaded, Bytes
  <2> QED
    BY <2>1, <2>3, <2>4 DEF Base
<1>3. CASE ~Data
  <2>1. UNCHANGED <<port, latch, sent, raced, smashed>> /\ PortInOrder'
    BY <1>3 DEF Driver, Test, Status, Full, IncLoad, IncStore, Slot, Put, HeadLoad, HeadStore,
         Wrap, DecLoad, DecStore, Take, device, history, Base, PortInOrder
  <2>2. CASE Test \/ Status \/ Full
    BY <2>1, <2>2 DEF Test, Status, Full, Some, At, GoTo, ring, history, Base, TypeOK, Loaded, Steps
  <2>3. CASE IncLoad \/ IncStore
    BY <2>1, <2>3 DEF IncLoad, IncStore, At, GoTo, ring, history, Base, TypeOK, Loaded, Steps
  <2>4. CASE Slot \/ HeadLoad
    BY <2>1, <2>4 DEF Slot, HeadLoad, At, GoTo, ring, history, Base, TypeOK, Loaded, Steps, Slots
  <2>5. CASE Put
    BY <2>1, <2>5 DEF Put, At, GoTo, Base, TypeOK, Loaded, Steps
  <2>6. CASE HeadStore \/ Wrap
    BY <2>1, <2>6 DEF HeadStore, Wrap, At, GoTo, history, Base, TypeOK, Loaded, Steps, Slots
  <2>7. CASE DecLoad \/ DecStore
    BY <2>1, <2>7 DEF DecLoad, DecStore, At, GoTo, ring, history, Base, TypeOK, Loaded, Steps
  <2>8. CASE Take
    BY <2>1, <2>8 DEF Take, At, GoTo, After, Base, TypeOK, Loaded, Steps, Slots
  <2> QED
    BY <1>3, <2>2, <2>3, <2>4, <2>5, <2>6, <2>7, <2>8 DEF Driver
<1> QED
  BY <1>2, <1>3

LEMMA NextBase == Base /\ [Next]_vars => Base'
<1>1. Base /\ UNCHANGED vars => Base'
  BY DEF vars, device, ring, history, Base, TypeOK, Loaded, PortInOrder
<1> QED
  BY <1>1, SendBase, InterruptBase, DriverBase DEF Next

-----------------------------------------------------------------------------
(* What holds as long as no interrupt came where it does harm.             *)

LEMMA InitSafe == Init => Pointers /\ Ring /\ Later
<1> SUFFICES ASSUME Init PROVE Pointers /\ Ring /\ Later
  OBVIOUS
<1>1. Held = 0 /\ head = 0 /\ tail = 0 /\ pc = "test" /\ ~smashed /\ stored = {} /\ Len(taken) = 0
  BY DEF Init, Held
<1> QED
  BY <1>1, RingAssumption DEF Pointers, Ring, Later, Place

LEMMA SendSafe ==
    ASSUME Base, Pointers, Ring, Later, Send
    PROVE  Pointers' /\ Ring' /\ Later'
<1>1. /\ sent' = sent + 1 /\ port' = Append(port, sent + 1) /\ port \in Seq(Bytes) /\ sent \in Nat
      /\ UNCHANGED <<latch, buffer, head, tail, cnt, pc, reg, byte, raced, smashed, stored, taken>>
  BY DEF Send, ring, history, Base, TypeOK
<1>2. /\ port' # <<>> /\ Len(port) \in Nat
      /\ \A i \in 1 .. Len(port') : (i \in 1 .. Len(port) /\ port'[i] = port[i]) \/ port'[i] = sent + 1
  BY <1>1
<1>3. Pointers' /\ Ring'
  BY <1>1, <1>2 DEF Pointers, Ring, Held, Place, Cell
<1>4. \A b \in stored : b \in Int /\ b <= sent
  BY DEF Base, TypeOK, Bytes, Later
<1>5. byte \in Int
  BY DEF Base, TypeOK, Bytes
<1>6. Later'
  BY <1>1, <1>2, <1>4, <1>5 DEF Later
<1> QED
  BY <1>3, <1>6

\* An interrupt elsewhere finds head behind the last byte, if there is room.
LEMMA InterruptSafe ==
    ASSUME Base, Pointers, Ring, Later, Interrupt, ~Exposed
    PROVE  Pointers' /\ Ring' /\ Later'
<1> DEFINE b == Head(port)
<1>1. /\ port # <<>> /\ port' = Tail(port)
      /\ UNCHANGED <<sent, pc, reg, byte, taken>>
  BY DEF Interrupt
<1>2. /\ b \in Bytes /\ b = port[1] /\ 1 \in 1 .. Len(port) /\ Len(port') = Len(port) - 1
      /\ \A i \in 1 .. Len(port') : i + 1 \in 1 .. Len(port) /\ port'[i] = port[i + 1] /\ b < port'[i]
      /\ port' \in Seq(Bytes)
  BY <1>1, PortTaken
<1>3. pc \in {"test", "status", "data", "declo", "take"} /\ (pc = "take" => cnt # RING - 1)
      /\ (pc = "data" => Len(port) # 1)
  BY DEF Exposed, Base, TypeOK, Steps
<1>4. pc = "data" => port' # <<>>
  <2>1. Len(port) \in Nat /\ Len(port) # 0
    BY <1>1 DEF Base, TypeOK
  <2>2. pc = "data" => Len(port') # 0
    BY <1>2, <1>3, <2>1
  <2> QED
    BY <2>2
<1>5. PICK h \in 0 .. RING : Held = h
  BY DEF Pointers
<1>6. /\ cnt \in Nat /\ RING \in Nat \ {0} /\ head < RING /\ head = Place(h)
      /\ h = IF pc = "take" THEN cnt + 1 ELSE cnt
  BY <1>3, <1>5, RingAssumption DEF Base, TypeOK, Pointers, Held, Loaded
<1>7. b <= sent /\ \A c \in stored : c < b
  BY <1>2 DEF Later, Base, PortInOrder
<1>8. CASE ~Room
  <2>1. UNCHANGED <<buffer, head, tail, cnt, stored, smashed>>
    BY <1>8 DEF Interrupt, ring
  <2>2. Held' = Held /\ Ring'
    BY <1>1, <2>1, RingKept DEF Held
  <2>3. Pointers'
    BY <1>1, <1>3, <1>4, <2>1, <2>2 DEF Pointers, Place
  <2>4. Later'
    BY <1>1, <1>2, <1>3, <2>1 DEF Later
  <2> QED
    BY <2>2, <2>3, <2>4
<1>9. CASE Room
  <2>1. /\ cnt' = cnt + 1 /\ buffer' = [buffer EXCEPT ![head] = b] /\ head' = After(head)
        /\ stored' = stored \cup {b} /\ UNCHANGED <<tail, smashed>>
    BY <1>6, <1>9 DEF Interrupt
  <2>2. h \in 0 .. RING - 1
    BY <1>3, <1>6, <1>9 DEF Room
  <2>3. Held' = h + 1
    BY <1>1, <1>3, <1>6, <2>1 DEF Held
  <2> HIDE DEF b
  <2>4. Ring'
    BY <1>1, <1>2, <1>5, <1>6, <1>7, <2>1, <2>2, <2>3, RingStore DEF Base
  <2>5. head' = Place(h + 1)
    BY <1>6, <2>1, <2>2, Places DEF Base
  <2>6. Pointers'
    <3>1. head' = Place(Held)'
      BY <2>1, <2>3, <2>5 DEF Place
    <3>2. Held' \in 0 .. RING
      BY <1>6, <2>2, <2>3
    <3> QED
      BY <1>1, <1>3, <1>4, <2>1, <3>1, <3>2 DEF Pointers
  <2>7. Later'
    BY <1>1, <1>2, <1>3, <1>7, <2>1 DEF Later
  <2> QED
    BY <2>4, <2>6, <2>7
<1> QED
  BY <1>8, <1>9

\* The driver polls a byte.
LEMMA DataSafe ==
    ASSUME Base, Pointers, Ring, Later, Data
    PROVE  Pointers' /\ Ring' /\ Later'
<1>1. port # <<>> /\ pc = "data" /\ pc' = "full"
      /\ UNCHANGED <<sent, buffer, head, tail, cnt, reg, raced, smashed, stored, taken>>
  BY DEF Data, At, GoTo, ring, history, Pointers
<1>2. port' = Tail(port) /\ byte' = Head(port)
  BY <1>1 DEF Data
<1>3. /\ byte' = port[1] /\ 1 \in 1 .. Len(port)
      /\ \A i \in 1 .. Len(port') : i + 1 \in 1 .. Len(port) /\ port'[i] = port[i + 1] /\ byte' < port'[i]
  BY <1>1, <1>2, PortTaken
<1>4. Held' = Held
  BY <1>1 DEF Held
<1>5. Pointers' /\ Ring'
  BY <1>1, <1>4, RingKept DEF Pointers, Place
<1>6. Later'
  BY <1>1, <1>3 DEF Later, Base, PortInOrder
<1> QED
  BY <1>5, <1>6

\* Steps that look at cnt, or load or store cnt or head.
LEMMA StepSafe ==
    ASSUME Base, Pointers, Ring, Later,
           Test \/ Status \/ Full \/ IncLoad \/ IncStore \/ Slot \/ HeadLoad \/ HeadStore \/ Wrap
             \/ DecLoad \/ DecStore
    PROVE  Pointers' /\ Ring' /\ Later'
<1>1. /\ UNCHANGED <<port, latch, sent, buffer, tail, byte, raced, smashed, stored, taken>>
      /\ cnt \in Nat /\ head \in 0 .. RING /\ RING \in Nat \ {0}
  BY RingAssumption DEF Test, Status, Full, IncLoad, IncStore, Slot, HeadLoad, HeadStore, Wrap,
         DecLoad, DecStore, device, ring, history, Base, TypeOK
<1>2. PICK h \in 0 .. RING : Held = h
  BY DEF Pointers
<1>3. Held' = h /\ Pointers'
  <2>1. CASE Test \/ Status
    <3>1. /\ UNCHANGED <<cnt, head, reg>> /\ pc \in {"test", "status"}
          /\ pc' \in {"test", "status", "data", "declo"} /\ (pc' = "data" => port # <<>>)
      BY <2>1 DEF Test, Status, At, GoTo, ring
    <3> QED
      BY <1>1, <1>2, <3>1 DEF Pointers, Held, Place
  <2>2. CASE Full
    <3>1. /\ UNCHANGED <<cnt, head, reg>> /\ pc = "full"
          /\ pc' \in {"incload", "status"} /\ (pc' = "incload" => cnt < RING)
      BY <2>2 DEF Full, Room, At, GoTo, ring
    <3> QED
      BY <1>1, <1>2, <3>1 DEF Pointers, Held, Place
  <2>3. CASE IncLoad
    <3>1. UNCHANGED <<cnt, head>> /\ pc = "incload" /\ pc' = "incstore" /\ reg' = cnt
      BY <2>3 DEF IncLoad, At, GoTo, ring
    <3> QED
      BY <1>1, <1>2, <3>1 DEF Pointers, Held, Place
  <2>4. CASE IncStore
    <3>1. UNCHANGED <<head, reg>> /\ pc = "incstore" /\ pc' = "slot" /\ cnt' = cnt + 1
      BY <2>4 DEF IncStore, At, GoTo, Pointers
    <3> QED
      BY <1>1, <1>2, <3>1 DEF Pointers, Held, Place
  <2>5. CASE Slot \/ HeadLoad
    <3>1. /\ UNCHANGED <<cnt, head>> /\ reg' = head
          /\ \/ pc = "slot" /\ pc' = "put"
             \/ pc = "headload" /\ pc' = "headstore"
      BY <2>5 DEF Slot, HeadLoad, At, GoTo, ring
    <3> QED
      BY <1>1, <1>2, <3>1 DEF Pointers, Held, Place
  <2>6. CASE HeadStore
    <3>1. UNCHANGED <<cnt, reg>> /\ pc = "headstore" /\ pc' = "wrap" /\ head' = head + 1
      BY <2>6 DEF HeadStore, At, GoTo, Pointers
    <3> QED
      BY <1>1, <1>2, <3>1 DEF Pointers, Held, Place
  <2>7. CASE Wrap
    <3>1. UNCHANGED <<cnt, reg>> /\ pc = "wrap" /\ pc' = "status"
          /\ head' = IF head >= RING THEN 0 ELSE head
      BY <2>7 DEF Wrap, At, GoTo
    <3>2. h = cnt /\ h \in 1 .. RING /\ head = Place(h - 1) + 1
      BY <1>1, <1>2, <3>1 DEF Pointers, Held
    <3>3. Place(h - 1) \in Slots /\ After(Place(h - 1)) = Place(h)
      BY <1>1, <3>2, Places DEF Base
    <3>4. head' = Place(h)
      BY <1>1, <3>1, <3>2, <3>3 DEF After, Slots
    <3> QED
      BY <1>1, <1>2, <3>1, <3>2, <3>4 DEF Pointers, Held, Place
  <2>8. CASE DecLoad
    <3>1. UNCHANGED <<cnt, head>> /\ pc = "declo" /\ pc' = "decst" /\ reg' = cnt
      BY <2>8 DEF DecLoad, At, GoTo, ring
    <3> QED
      BY <1>1, <1>2, <3>1 DEF Pointers, Held, Place
  <2>9. CASE DecStore
    <3>1. UNCHANGED <<head, reg>> /\ pc = "decst" /\ pc' = "take" /\ cnt' = cnt - 1
      BY <2>9 DEF DecStore, At, GoTo, Pointers
    <3> QED
      BY <1>1, <1>2, <3>1 DEF Pointers, Held, Place
  <2> QED
    BY <2>1, <2>2, <2>3, <2>4, <2>5, <2>6, <2>7, <2>8, <2>9
<1>4. Ring'
  BY <1>1, <1>2, <1>3, RingKept
<1>5. pc' \in {"full", "incload", "incstore", "slot", "put"}
        => pc \in {"full", "incload", "incstore", "slot", "put"}
  BY DEF Test, Status, Full, IncLoad, IncStore, Slot, HeadLoad, HeadStore, Wrap, DecLoad, DecStore,
         At, GoTo
<1>6. Later'
  BY <1>1, <1>5 DEF Later
<1> QED
  BY <1>3, <1>4, <1>6

LEMMA PutSafe ==
    ASSUME Base, Pointers, Ring, Later, Put
    PROVE  Pointers' /\ Ring' /\ Later'
<1>1. /\ pc = "put" /\ pc' = "headload" /\ buffer' = [buffer EXCEPT ![reg] = byte]
      /\ stored' = stored \cup {byte}
      /\ UNCHANGED <<port, sent, head, tail, cnt, reg, byte, raced, smashed, taken>>
  BY DEF Put, At, GoTo, device
<1>2. PICK h \in 0 .. RING : Held = h
  BY DEF Pointers
<1>3. /\ h = cnt - 1 /\ h \in 0 .. RING - 1 /\ reg = Place(h) /\ head = Place(h) /\ cnt \in Nat
      /\ RING \in Nat \ {0}
  BY <1>1, <1>2, RingAssumption DEF Pointers, Held, Base, TypeOK
<1>4. Held' = h + 1
  BY <1>1, <1>3 DEF Held
<1>5. byte \in Bytes /\ byte <= sent /\ \A c \in stored : c < byte
  BY <1>1 DEF Base, TypeOK, Loaded, Later
<1>6. Ring'
  BY <1>1, <1>2, <1>3, <1>4, <1>5, RingStore DEF Base
<1>7. Pointers'
  <2>1. (h + 1) - 1 = h /\ h + 1 >= 1 /\ h + 1 \in 0 .. RING
    BY <1>3
  <2>2. head' = Place(Held - 1)'
    BY <1>1, <1>3, <1>4, <2>1 DEF Place
  <2> QED
    BY <1>1, <1>4, <2>1, <2>2 DEF Pointers
<1>8. Later'
  BY <1>1, <1>5 DEF Later
<1> QED
  BY <1>6, <1>7, <1>8

LEMMA TakeSafe ==
    ASSUME Base, Pointers, Ring, Later, Take
    PROVE  Pointers' /\ Ring' /\ Later'
<1>1. /\ pc = "take" /\ pc' = "test" /\ taken' = Append(taken, buffer[tail]) /\ tail' = After(tail)
      /\ UNCHANGED <<port, sent, buffer, head, cnt, reg, byte, raced, smashed, stored>>
  BY DEF Take, At, GoTo, device
<1>2. PICK h \in 0 .. RING : Held = h
  BY DEF Pointers
<1>3. /\ h = cnt + 1 /\ h \in 1 .. RING /\ head = Place(h) /\ cnt \in Nat /\ RING \in Nat \ {0}
      /\ tail \in 0 .. RING - 1
  BY <1>1, <1>2, RingAssumption DEF Pointers, Held, Base, TypeOK, Slots
<1>4. Held' = h - 1 /\ Held' = cnt
  BY <1>1, <1>3 DEF Held
<1>5. Ring'
  BY <1>1, <1>2, <1>3, <1>4, RingTake DEF Base
<1>6. Pointers'
  <2>1. Place(Held)' = IF tail' + (h - 1) < RING THEN tail' + (h - 1) ELSE tail' + (h - 1) - RING
    BY <1>4 DEF Place
  <2>2. head' = Place(Held)'
    BY <1>1, <1>3, <2>1 DEF Place, After
  <2>3. Held' \in 0 .. RING
    BY <1>3, <1>4
  <2> QED
    BY <1>1, <2>2, <2>3 DEF Pointers
<1>7. Later'
  BY <1>1 DEF Later
<1> QED
  BY <1>5, <1>6, <1>7

LEMMA NextInv == IInv /\ [Next]_vars => IInv'
<1> SUFFICES ASSUME IInv, [Next]_vars PROVE IInv'
  OBVIOUS
<1>1. Base'
  BY NextBase DEF IInv
<1>2. ASSUME ~raced' PROVE Pointers' /\ Ring' /\ Later'
  <2>1. CASE UNCHANGED vars
    <3>1. UNCHANGED <<port, sent, buffer, head, tail, cnt, pc, reg, byte, raced, smashed, stored, taken>>
      BY <2>1 DEF vars, device, ring, history
    <3>2. Pointers /\ Ring /\ Later
      BY <1>2, <3>1 DEF IInv
    <3> QED
      BY <3>1, <3>2 DEF Pointers, Ring, Later, Held, Place, Cell
  <2>2. CASE Interrupt
    <3>1. ~raced /\ ~Exposed
      BY <1>2, <2>2 DEF Interrupt
    <3> QED
      BY <2>2, <3>1, InterruptSafe DEF IInv
  <2>3. CASE Send \/ Driver
    <3>1. raced' = raced
      BY <2>3 DEF Send, Driver, Test, Status, Data, Full, IncLoad, IncStore, Slot, Put, HeadLoad,
             HeadStore, Wrap, DecLoad, DecStore, Take, history
    <3> QED
      BY <1>2, <2>3, <3>1, SendSafe, DataSafe, StepSafe, PutSafe, TakeSafe DEF IInv, Driver
  <2> QED
    BY <2>1, <2>2, <2>3 DEF Next
<1> QED
  BY <1>1, <1>2 DEF IInv

LEMMA Invariance == Spec => []IInv
<1>1. Init => IInv
  BY InitBase, InitSafe DEF IInv
<1> QED
  BY <1>1, NextInv, PTL DEF Spec

-----------------------------------------------------------------------------
(* The theorems.                                                           *)

\* get_byte_from_buffer gets each scancode that the handler stored at most once and in
\* the order they were sent, wherever interrupts came between its accesses but for the
\* places that Exposed names; for a ring and an 8042 of any size.
THEOREM CodesTakenInOrder == Spec => []TakenInOrder
<1>1. IInv => TakenInOrder
  BY DEF IInv, Ring, TakenInOrder
<1> QED
  BY <1>1, Invariance, PTL

\* Between two calls of get_byte_from_buffer the ring holds, from tail on, exactly the
\* bytes that were stored and not taken.
THEOREM RingHoldsTheRest == Spec => []RingExact
<1>1. IInv => RingExact
  <2> SUFFICES ASSUME IInv, pc = "test", ~raced
               PROVE  {buffer[(tail + k) % RING] : k \in 0 .. cnt - 1}
                        = stored \ {taken[i] : i \in 1 .. Len(taken)}
    BY DEF IInv, Base, RingExact
  <2>1. TypeOK /\ Ring /\ Held = cnt /\ cnt \in 0 .. RING
    BY DEF IInv, Base, Pointers, Held
  <2>2. \A k \in 0 .. cnt - 1 : k \in 0 .. RING - 1
    BY <2>1, RingAssumption
  <2>3. \A k \in 0 .. cnt - 1 : buffer[(tail + k) % RING] = Cell(k)
    BY <2>1, <2>2, Places DEF Cell
  <2>4. ASSUME NEW k \in 0 .. cnt - 1, NEW i \in 1 .. Len(taken) PROVE taken[i] # Cell(k)
    <3>1. taken[i] \in Int /\ taken[i] < Cell(k) /\ Cell(k) \in stored
      BY <2>1 DEF Ring, TypeOK, Bytes
    <3>2. Cell(k) \in Bytes
      BY <2>1, <3>1 DEF TypeOK
    <3>3. Cell(k) \in Int
      BY <3>2 DEF Bytes
    <3> QED
      BY <3>1, <3>3
  <2>5. \A k \in 0 .. cnt - 1 : Cell(k) \in stored
    BY <2>1 DEF Ring
  <2>6. \A b \in stored : (\E i \in 1 .. Len(taken) : taken[i] = b) \/ \E k \in 0 .. cnt - 1 : Cell(k) = b
    BY <2>1 DEF Ring
  <2> QED
    BY <2>3, <2>4, <2>5, <2>6
<1> QED
  BY <1>1, Invariance, PTL

-----------------------------------------------------------------------------
(* Scancode: the inductive invariant.                                      *)

\* The stroke that a byte of the ring belongs to, and whether it ends it.
Of(i) == wire[i].of
Ends(i) == wire[i].part = Len(Sent(Of(i)))

\* Each byte is the one the keyboard sent in its place of the stroke.
Placed ==
    \A i \in 1 .. Len(wire) :
        /\ wire[i].part \in 1 .. Len(Sent(Of(i)))
        /\ wire[i].byte = Sent(Of(i))[wire[i].part]

\* The next byte goes on with the stroke or begins the stroke made next.
Chained ==
    \A i \in 1 .. Len(wire) - 1 :
        IF Ends(i)
        THEN /\ wire[i + 1].part = 1
             /\ Of(i + 1).mods = ModsAfter(Of(i)) /\ Of(i + 1).caps = CapsAfter(Of(i))
        ELSE wire[i + 1].part = wire[i].part + 1 /\ Of(i + 1) = Of(i)

\* The last byte ends the last stroke.
Whole ==
    wire # <<>> =>
        /\ Ends(Len(wire))
        /\ ModsAfter(Of(Len(wire))) = held \cap ModifierKeys
        /\ CapsAfter(Of(Len(wire))) = locked

\* got is what the stroke in front of the ring began with, and kbflag is as it
\* was before it.
Begun ==
    IF wire = <<>>
    THEN got = <<>> /\ kbflag = Flags(held \cap ModifierKeys, locked)
    ELSE /\ Len(got) = wire[1].part - 1
         /\ \A i \in 1 .. Len(got) : got[i] = Sent(Of(1))[i]
         /\ kbflag = Flags(Of(1).mods, Of(1).caps)

\* While the ring has lost no byte.
InOrder == Placed /\ Chained /\ Whole /\ Begun
InStep == ScancodeTypeOK /\ ~wrong /\ (lost = 0 => InOrder)

-----------------------------------------------------------------------------
(* What the keyboard sends and what kbflag means.                          *)

\* Nothing is sent when Pause is released.
Silent(e) == e.key = "pause" /\ ~e.down

\* The forms a stroke has on the wire: one byte, a prefix and a byte,
\* PrintScreen and Pause.
Form(s) ==
    \/ Len(s) = 1 /\ s[1] \notin {224, 225}
    \/ Len(s) = 2 /\ s[1] = 224 /\ s[2] \notin {42, 183}
    \/ Len(s) = 4 /\ s[1] = 224 /\ s[2] \in {42, 183}
    \/ Len(s) = 6 /\ s[1] = 225

\* The bytes of a stroke as they should be.
WellFormed(s) == s \in Seq(Codes) /\ Form(s)

LEMMA StrokeKey ==
    ASSUME NEW e \in Strokes
    PROVE  e.key \in {"shift_l", "shift_r", "ctrl_l", "ctrl_r", "alt_l", "alt_r", "caps", "a",
                      "one", "enter", "back", "up", "f1", "f2", "f3", "prtsc", "pause"}
<1>1. e.key \in DOMAIN keyboard BY KeyAssumption DEF Strokes
<1> QED BY <1>1 DEF keyboard

\* The bytes of every stroke are bytes, in one of the forms.
LEMMA SentForm ==
    ASSUME NEW e \in Strokes, ~Silent(e)
    PROVE  WellFormed(Sent(e))
<1>1. CASE e.key = "shift_l"
  <2>1. WellFormed(<<42>>) /\ WellFormed(<<170>>) BY DEF WellFormed, Form, Codes
  <2> QED BY <1>1, <2>1 DEF Sent, keyboard
<1>2. CASE e.key = "shift_r"
  <2>1. WellFormed(<<54>>) /\ WellFormed(<<182>>) BY DEF WellFormed, Form, Codes
  <2> QED BY <1>2, <2>1 DEF Sent, keyboard
<1>3. CASE e.key = "ctrl_l"
  <2>1. WellFormed(<<29>>) /\ WellFormed(<<157>>) BY DEF WellFormed, Form, Codes
  <2> QED BY <1>3, <2>1 DEF Sent, keyboard
<1>4. CASE e.key = "ctrl_r"
  <2>1. WellFormed(<<224, 29>>) /\ WellFormed(<<224, 157>>) BY DEF WellFormed, Form, Codes
  <2> QED BY <1>4, <2>1 DEF Sent, keyboard
<1>5. CASE e.key = "alt_l"
  <2>1. WellFormed(<<56>>) /\ WellFormed(<<184>>) BY DEF WellFormed, Form, Codes
  <2> QED BY <1>5, <2>1 DEF Sent, keyboard
<1>6. CASE e.key = "alt_r"
  <2>1. WellFormed(<<224, 56>>) /\ WellFormed(<<224, 184>>) BY DEF WellFormed, Form, Codes
  <2> QED BY <1>6, <2>1 DEF Sent, keyboard
<1>7. CASE e.key = "caps"
  <2>1. WellFormed(<<58>>) /\ WellFormed(<<186>>) BY DEF WellFormed, Form, Codes
  <2> QED BY <1>7, <2>1 DEF Sent, keyboard
<1>8. CASE e.key = "a"
  <2>1. WellFormed(<<30>>) /\ WellFormed(<<158>>) BY DEF WellFormed, Form, Codes
  <2> QED BY <1>8, <2>1 DEF Sent, keyboard
<1>9. CASE e.key = "one"
  <2>1. WellFormed(<<2>>) /\ WellFormed(<<130>>) BY DEF WellFormed, Form, Codes
  <2> QED BY <1>9, <2>1 DEF Sent, keyboard
<1>10. CASE e.key = "enter"
  <2>1. WellFormed(<<28>>) /\ WellFormed(<<156>>) BY DEF WellFormed, Form, Codes
  <2> QED BY <1>10, <2>1 DEF Sent, keyboard
<1>11. CASE e.key = "back"
  <2>1. WellFormed(<<14>>) /\ WellFormed(<<142>>) BY DEF WellFormed, Form, Codes
  <2> QED BY <1>11, <2>1 DEF Sent, keyboard
<1>12. CASE e.key = "up"
  <2>1. WellFormed(<<224, 72>>) /\ WellFormed(<<224, 200>>) BY DEF WellFormed, Form, Codes
  <2> QED BY <1>12, <2>1 DEF Sent, keyboard
<1>13. CASE e.key = "f1"
  <2>1. WellFormed(<<59>>) /\ WellFormed(<<187>>) BY DEF WellFormed, Form, Codes
  <2> QED BY <1>13, <2>1 DEF Sent, keyboard
<1>14. CASE e.key = "f2"
  <2>1. WellFormed(<<60>>) /\ WellFormed(<<188>>) BY DEF WellFormed, Form, Codes
  <2> QED BY <1>14, <2>1 DEF Sent, keyboard
<1>15. CASE e.key = "f3"
  <2>1. WellFormed(<<61>>) /\ WellFormed(<<189>>) BY DEF WellFormed, Form, Codes
  <2> QED BY <1>15, <2>1 DEF Sent, keyboard
<1>16. CASE e.key = "prtsc"
  <2>1. WellFormed(<<224, 42, 224, 55>>) /\ WellFormed(<<224, 183, 224, 170>>) BY DEF WellFormed, Form, Codes
  <2> QED BY <1>16, <2>1 DEF Sent, keyboard
<1>17. CASE e.key = "pause"
  <2>1. WellFormed(<<225, 29, 69, 225, 157, 197>>) BY DEF WellFormed, Form, Codes
  <2> QED BY <1>17, <2>1 DEF Sent, keyboard, Silent
<1> QED
  BY StrokeKey, <1>1, <1>2, <1>3, <1>4, <1>5, <1>6, <1>7, <1>8, <1>9, <1>10, <1>11, <1>12, <1>13, <1>14,
     <1>15, <1>16, <1>17, Zenon

\* BytesOf knows from what is read of a stroke whether there is more to come.
LEMMA BytesKnown ==
    ASSUME NEW e \in Strokes, NEW g \in Seq(Codes),
           Len(g) \in 1 .. Len(Sent(e)), \A i \in 1 .. Len(g) : g[i] = Sent(e)[i]
    PROVE  Len(g) < BytesOf(g) <=> Len(g) < Len(Sent(e))
<1> DEFINE s == Sent(e)
<1>0. ~Silent(e)
  <2>1. Silent(e) => Sent(e) = <<>> BY DEF Silent, Sent, keyboard
  <2> QED BY <2>1
<1>1. s \in Seq(Codes) /\ Form(s) BY <1>0, SentForm DEF WellFormed
<1>2. Len(g) \in Nat /\ Len(s) \in Nat /\ Len(g) >= 1 /\ g[1] = s[1] BY <1>1
<1>3. Len(g) > 1 => g[2] = s[2] BY <1>2
<1> HIDE DEF s
<1>4. Len(g) \in 1 .. Len(s) BY DEF s
<1>5. CASE Len(s) = 1 /\ s[1] \notin {224, 225} BY <1>2, <1>4, <1>5 DEF BytesOf, s
<1>6. CASE Len(s) = 2 /\ s[1] = 224 /\ s[2] \notin {42, 183} BY <1>2, <1>3, <1>4, <1>6 DEF BytesOf, s
<1>7. CASE Len(s) = 4 /\ s[1] = 224 /\ s[2] \in {42, 183} BY <1>2, <1>3, <1>4, <1>7 DEF BytesOf, s
<1>8. CASE Len(s) = 6 /\ s[1] = 225 BY <1>2, <1>4, <1>8 DEF BytesOf, s
<1> QED BY <1>1, <1>4, <1>5, <1>6, <1>7, <1>8 DEF Form

\* kbflag names the modifier keys that are held, and CapsLock.
LEMMA FlagsHas ==
    ASSUME NEW H \in SUBSET ModifierKeys, NEW caps \in BOOLEAN
    PROVE  /\ \A k \in ModifierKeys : ModifierOf[k] \in Flags(H, caps) <=> k \in H
           /\ "CAPS_LOCK" \in Flags(H, caps) <=> caps
           /\ "NUM_LOCK" \notin Flags(H, caps)
           /\ Flags(H, caps) \subseteq Modifiers \cup {"CAPS_LOCK"}
BY DEF Flags, ModifierKeys, ModifierOf, Modifiers

\* A modifier key that goes up loses its flag, CapsLock toggles its own.
LEMMA FlagsUp ==
    ASSUME NEW H \in SUBSET ModifierKeys, NEW caps, NEW k \in ModifierKeys, NEW F, F = Flags(H, caps)
    PROVE  Flags(H \ {k}, caps) = F \ {ModifierOf[k]}
BY DEF Flags, ModifierKeys, ModifierOf


LEMMA FlagsCaps ==
    ASSUME NEW H \in SUBSET ModifierKeys
    PROVE  /\ Flags(H, TRUE) = Flags(H, FALSE) \cup {"CAPS_LOCK"}
           /\ Flags(H, FALSE) = Flags(H, TRUE) \ {"CAPS_LOCK"}
BY DEF Flags, ModifierKeys, ModifierOf

-----------------------------------------------------------------------------
(* What transfer_buffer makes of a stroke.                                 *)

\* The key of keymap that a key of the keyboard is.
KeyOf(k) ==
    CASE k = "shift_l" -> "SHIFT_L"
      [] k = "shift_r" -> "SHIFT_R"
      [] k = "ctrl_l" -> "CTRL_L"
      [] k = "ctrl_r" -> "CTRL_R"
      [] k = "alt_l" -> "ALT_L"
      [] k = "alt_r" -> "ALT_R"
      [] k = "caps" -> "CAPS_LOCK"
      [] k = "a" -> IF Shifted THEN "A" ELSE "a"
      [] k = "one" -> IF Shifted THEN "!" ELSE "1"
      [] k = "enter" -> "ENTER"
      [] k = "back" -> "BACKSPACE"
      [] k = "up" -> "UP"
      [] k = "f1" -> "F1"
      [] k = "f2" -> "F2"
      [] k = "f3" -> "F3"
      [] k = "prtsc" -> "PRINTSCREEN"
      [] k = "pause" -> "PAUSEBREAK"

\* The bytes s are taken for key k going down, or up.
TakenFor(s, k, down) == \A x \in Interpreted(s) : x.key = KeyOf(k) /\ x.mark = down

LEMMA KeymapRows ==
    /\ keymap[2] = <<"1", "!", "0">>
    /\ keymap[14] = <<"BACKSPACE", "BACKSPACE", "0">>
    /\ keymap[28] = <<"ENTER", "ENTER", "PAD_ENTER">>
    /\ keymap[29] = <<"CTRL_L", "CTRL_L", "CTRL_R">>
    /\ keymap[30] = <<"a", "A", "0">>
    /\ keymap[42] = <<"SHIFT_L", "SHIFT_L", "0">>
    /\ keymap[54] = <<"SHIFT_R", "SHIFT_R", "0">>
    /\ keymap[56] = <<"ALT_L", "ALT_L", "ALT_R">>
    /\ keymap[58] = <<"CAPS_LOCK", "CAPS_LOCK", "0">>
    /\ keymap[59] = <<"F1", "F1", "0">>
    /\ keymap[60] = <<"F2", "F2", "0">>
    /\ keymap[61] = <<"F3", "F3", "0">>
    /\ keymap[72] = <<"PAD_UP", "8", "UP">>
BY DEF keymap

\* A row of keymap, for a key of one byte and for one of two bytes behind 0xe0.
LEMMA OneByte ==
    ASSUME NEW k, NEW d \in 0 .. 95, NEW u, u = d + 128,
           keymap[d][IF Shifted THEN 2 ELSE 1] = KeyOf(k)
    PROVE  TakenFor(<<d>>, k, TRUE) /\ TakenFor(<<u>>, k, FALSE)
<1>1. d % 128 = d /\ u % 128 = d /\ u \in Nat /\ u < 224 /\ u >= 128 OBVIOUS
<1>2. ASSUME NEW g, g[1] \in Nat, g[1] < 224
      PROVE  Interpreted(g) = {[key |-> keymap[g[1] % 128][IF Shifted THEN 2 ELSE 1], mark |-> g[1] < 128]}
  BY <1>2 DEF Interpreted
<1>3. (<<d>>)[1] = d /\ (<<u>>)[1] = u OBVIOUS
<1>4. Interpreted(<<d>>) = {[key |-> keymap[d][IF Shifted THEN 2 ELSE 1], mark |-> d < 128]}
  BY <1>1, <1>2, <1>3
<1>5. Interpreted(<<u>>) = {[key |-> keymap[d][IF Shifted THEN 2 ELSE 1], mark |-> u < 128]}
  BY <1>1, <1>2, <1>3
<1>6. (d < 128) = TRUE /\ (u < 128) = FALSE BY <1>1
<1>7. Interpreted(<<d>>) = {[key |-> keymap[d][IF Shifted THEN 2 ELSE 1], mark |-> TRUE]}
  BY <1>4, <1>6, Zenon
<1>8. Interpreted(<<u>>) = {[key |-> keymap[d][IF Shifted THEN 2 ELSE 1], mark |-> FALSE]}
  BY <1>5, <1>6, Zenon
<1> QED BY <1>7, <1>8 DEF TakenFor
Behind(b) == <<224, b>>
KeyBehind(d) == keymap[d][3]
LEMMA TwoBytes ==
    ASSUME NEW k, NEW d \in 0 .. 95, NEW u, u = d + 128, KeyBehind(d) = KeyOf(k)
    PROVE  TakenFor(Behind(d), k, TRUE) /\ TakenFor(Behind(u), k, FALSE)
<1>1. d % 128 = d /\ u % 128 = d /\ u \in Nat /\ u >= 128 OBVIOUS
<1>2. ASSUME NEW g, g[1] = 224, Len(g) = 2
      PROVE  Interpreted(g) = {[key |-> keymap[g[2] % 128][3], mark |-> g[2] < 128]}
  BY <1>2 DEF Interpreted
<1>3. /\ (<<224, d>>)[1] = 224 /\ (<<224, d>>)[2] = d /\ Len(<<224, d>>) = 2
      /\ (<<224, u>>)[1] = 224 /\ (<<224, u>>)[2] = u /\ Len(<<224, u>>) = 2
  OBVIOUS
<1>4. Interpreted(<<224, d>>) = {[key |-> keymap[d][3], mark |-> d < 128]} BY <1>1, <1>2, <1>3
<1>5. Interpreted(<<224, u>>) = {[key |-> keymap[d][3], mark |-> u < 128]} BY <1>1, <1>2, <1>3
<1>6. (d < 128) = TRUE /\ (u < 128) = FALSE BY <1>1
<1>7. Interpreted(<<224, d>>) = {[key |-> keymap[d][3], mark |-> TRUE]} BY <1>4, <1>6, Zenon
<1>8. Interpreted(<<224, u>>) = {[key |-> keymap[d][3], mark |-> FALSE]} BY <1>5, <1>6, Zenon
<1> QED BY <1>7, <1>8 DEF TakenFor, Behind, KeyBehind

\* What holds of both rows of the keyboard holds of the stroke.
LEMMA RowTaken ==
    ASSUME NEW e \in Strokes, NEW d, NEW u, keyboard[e.key] = <<d, u>>,
           TakenFor(d, e.key, TRUE), e.key # "pause" => TakenFor(u, e.key, FALSE),
           e.down \/ e.key # "pause"
    PROVE  TakenFor(Sent(e), e.key, e.down)
<1>1. e.down = TRUE \/ e.down = FALSE BY DEF Strokes
<1>2. CASE e.down = TRUE
  <2>1. Sent(e) = d BY <1>2 DEF Sent
  <2> QED BY <1>2, <2>1
<1>3. CASE e.down = FALSE
  <2>1. Sent(e) = u BY <1>3 DEF Sent
  <2> QED BY <1>3, <2>1
<1> QED BY <1>1, <1>2, <1>3

\* Both forms of every key are taken for that key.
LEMMA KeysTaken ==
    ASSUME NEW e \in Strokes, e.down \/ e.key # "pause"
    PROVE  TakenFor(Sent(e), e.key, e.down)
<1>1. CASE e.key = "shift_l"
  <2>1. TakenFor(<<42>>, e.key, TRUE) /\ TakenFor(<<170>>, e.key, FALSE)
    <3> DEFINE d == 42
               u == 170
    <3>1. keymap[d][IF Shifted THEN 2 ELSE 1] = KeyOf(e.key) BY <1>1, KeymapRows DEF KeyOf
    <3>2. d \in 0 .. 95 /\ u = d + 128 OBVIOUS
    <3> HIDE DEF d, u
    <3>3. TakenFor(<<d>>, e.key, TRUE) /\ TakenFor(<<u>>, e.key, FALSE) BY <3>1, <3>2, OneByte, Zenon
    <3> QED BY <3>3 DEF d, u
  <2>2. keyboard[e.key] = << <<42>>, <<170>> >> BY <1>1 DEF keyboard
  <2> QED BY <2>1, <2>2, RowTaken
<1>2. CASE e.key = "shift_r"
  <2>1. TakenFor(<<54>>, e.key, TRUE) /\ TakenFor(<<182>>, e.key, FALSE)
    <3> DEFINE d == 54
               u == 182
    <3>1. keymap[d][IF Shifted THEN 2 ELSE 1] = KeyOf(e.key) BY <1>2, KeymapRows DEF KeyOf
    <3>2. d \in 0 .. 95 /\ u = d + 128 OBVIOUS
    <3> HIDE DEF d, u
    <3>3. TakenFor(<<d>>, e.key, TRUE) /\ TakenFor(<<u>>, e.key, FALSE) BY <3>1, <3>2, OneByte, Zenon
    <3> QED BY <3>3 DEF d, u
  <2>2. keyboard[e.key] = << <<54>>, <<182>> >> BY <1>2 DEF keyboard
  <2> QED BY <2>1, <2>2, RowTaken
<1>3. CASE e.key = "ctrl_l"
  <2>1. TakenFor(<<29>>, e.key, TRUE) /\ TakenFor(<<157>>, e.key, FALSE)
    <3> DEFINE d == 29
               u == 157
    <3>1. keymap[d][IF Shifted THEN 2 ELSE 1] = KeyOf(e.key) BY <1>3, KeymapRows DEF KeyOf
    <3>2. d \in 0 .. 95 /\ u = d + 128 OBVIOUS
    <3> HIDE DEF d, u
    <3>3. TakenFor(<<d>>, e.key, TRUE) /\ TakenFor(<<u>>, e.key, FALSE) BY <3>1, <3>2, OneByte, Zenon
    <3> QED BY <3>3 DEF d, u
  <2>2. keyboard[e.key] = << <<29>>, <<157>> >> BY <1>3 DEF keyboard
  <2> QED BY <2>1, <2>2, RowTaken
<1>4. CASE e.key = "ctrl_r"
  <2>1. TakenFor(<<224, 29>>, e.key, TRUE) /\ TakenFor(<<224, 157>>, e.key, FALSE)
    <3> DEFINE d == 29
               u == 157
    <3>1. KeyBehind(d) = KeyOf(e.key) BY <1>4, KeymapRows DEF KeyOf, KeyBehind
    <3>2. d \in 0 .. 95 /\ u = d + 128 OBVIOUS
    <3> HIDE DEF d, u
    <3>3. TakenFor(Behind(d), e.key, TRUE) /\ TakenFor(Behind(u), e.key, FALSE)
      BY <3>1, <3>2, TwoBytes, Zenon
    <3> QED BY <3>3 DEF Behind, d, u
  <2>2. keyboard[e.key] = << <<224, 29>>, <<224, 157>> >> BY <1>4 DEF keyboard
  <2> QED BY <2>1, <2>2, RowTaken
<1>5. CASE e.key = "alt_l"
  <2>1. TakenFor(<<56>>, e.key, TRUE) /\ TakenFor(<<184>>, e.key, FALSE)
    <3> DEFINE d == 56
               u == 184
    <3>1. keymap[d][IF Shifted THEN 2 ELSE 1] = KeyOf(e.key) BY <1>5, KeymapRows DEF KeyOf
    <3>2. d \in 0 .. 95 /\ u = d + 128 OBVIOUS
    <3> HIDE DEF d, u
    <3>3. TakenFor(<<d>>, e.key, TRUE) /\ TakenFor(<<u>>, e.key, FALSE) BY <3>1, <3>2, OneByte, Zenon
    <3> QED BY <3>3 DEF d, u
  <2>2. keyboard[e.key] = << <<56>>, <<184>> >> BY <1>5 DEF keyboard
  <2> QED BY <2>1, <2>2, RowTaken
<1>6. CASE e.key = "alt_r"
  <2>1. TakenFor(<<224, 56>>, e.key, TRUE) /\ TakenFor(<<224, 184>>, e.key, FALSE)
    <3> DEFINE d == 56
               u == 184
    <3>1. KeyBehind(d) = KeyOf(e.key) BY <1>6, KeymapRows DEF KeyOf, KeyBehind
    <3>2. d \in 0 .. 95 /\ u = d + 128 OBVIOUS
    <3> HIDE DEF d, u
    <3>3. TakenFor(Behind(d), e.key, TRUE) /\ TakenFor(Behind(u), e.key, FALSE)
      BY <3>1, <3>2, TwoBytes, Zenon
    <3> QED BY <3>3 DEF Behind, d, u
  <2>2. keyboard[e.key] = << <<224, 56>>, <<224, 184>> >> BY <1>6 DEF keyboard
  <2> QED BY <2>1, <2>2, RowTaken
<1>7. CASE e.key = "caps"
  <2>1. TakenFor(<<58>>, e.key, TRUE) /\ TakenFor(<<186>>, e.key, FALSE)
    <3> DEFINE d == 58
               u == 186
    <3>1. keymap[d][IF Shifted THEN 2 ELSE 1] = KeyOf(e.key) BY <1>7, KeymapRows DEF KeyOf
    <3>2. d \in 0 .. 95 /\ u = d + 128 OBVIOUS
    <3> HIDE DEF d, u
    <3>3. TakenFor(<<d>>, e.key, TRUE) /\ TakenFor(<<u>>, e.key, FALSE) BY <3>1, <3>2, OneByte, Zenon
    <3> QED BY <3>3 DEF d, u
  <2>2. keyboard[e.key] = << <<58>>, <<186>> >> BY <1>7 DEF keyboard
  <2> QED BY <2>1, <2>2, RowTaken
<1>8. CASE e.key = "a"
  <2>1. TakenFor(<<30>>, e.key, TRUE) /\ TakenFor(<<158>>, e.key, FALSE)
    <3> DEFINE d == 30
               u == 158
    <3>1. keymap[d][IF Shifted THEN 2 ELSE 1] = KeyOf(e.key) BY <1>8, KeymapRows DEF KeyOf
    <3>2. d \in 0 .. 95 /\ u = d + 128 OBVIOUS
    <3> HIDE DEF d, u
    <3>3. TakenFor(<<d>>, e.key, TRUE) /\ TakenFor(<<u>>, e.key, FALSE) BY <3>1, <3>2, OneByte, Zenon
    <3> QED BY <3>3 DEF d, u
  <2>2. keyboard[e.key] = << <<30>>, <<158>> >> BY <1>8 DEF keyboard
  <2> QED BY <2>1, <2>2, RowTaken
<1>9. CASE e.key = "one"
  <2>1. TakenFor(<<2>>, e.key, TRUE) /\ TakenFor(<<130>>, e.key, FALSE)
    <3> DEFINE d == 2
               u == 130
    <3>1. keymap[d][IF Shifted THEN 2 ELSE 1] = KeyOf(e.key) BY <1>9, KeymapRows DEF KeyOf
    <3>2. d \in 0 .. 95 /\ u = d + 128 OBVIOUS
    <3> HIDE DEF d, u
    <3>3. TakenFor(<<d>>, e.key, TRUE) /\ TakenFor(<<u>>, e.key, FALSE) BY <3>1, <3>2, OneByte, Zenon
    <3> QED BY <3>3 DEF d, u
  <2>2. keyboard[e.key] = << <<2>>, <<130>> >> BY <1>9 DEF keyboard
  <2> QED BY <2>1, <2>2, RowTaken
<1>10. CASE e.key = "enter"
  <2>1. TakenFor(<<28>>, e.key, TRUE) /\ TakenFor(<<156>>, e.key, FALSE)
    <3> DEFINE d == 28
               u == 156
    <3>1. keymap[d][IF Shifted THEN 2 ELSE 1] = KeyOf(e.key) BY <1>10, KeymapRows DEF KeyOf
    <3>2. d \in 0 .. 95 /\ u = d + 128 OBVIOUS
    <3> HIDE DEF d, u
    <3>3. TakenFor(<<d>>, e.key, TRUE) /\ TakenFor(<<u>>, e.key, FALSE) BY <3>1, <3>2, OneByte, Zenon
    <3> QED BY <3>3 DEF d, u
  <2>2. keyboard[e.key] = << <<28>>, <<156>> >> BY <1>10 DEF keyboard
  <2> QED BY <2>1, <2>2, RowTaken
<1>11. CASE e.key = "back"
  <2>1. TakenFor(<<14>>, e.key, TRUE) /\ TakenFor(<<142>>, e.key, FALSE)
    <3> DEFINE d == 14
               u == 142
    <3>1. keymap[d][IF Shifted THEN 2 ELSE 1] = KeyOf(e.key) BY <1>11, KeymapRows DEF KeyOf
    <3>2. d \in 0 .. 95 /\ u = d + 128 OBVIOUS
    <3> HIDE DEF d, u
    <3>3. TakenFor(<<d>>, e.key, TRUE) /\ TakenFor(<<u>>, e.key, FALSE) BY <3>1, <3>2, OneByte, Zenon
    <3> QED BY <3>3 DEF d, u
  <2>2. keyboard[e.key] = << <<14>>, <<142>> >> BY <1>11 DEF keyboard
  <2> QED BY <2>1, <2>2, RowTaken
<1>12. CASE e.key = "up"
  <2>1. TakenFor(<<224, 72>>, e.key, TRUE) /\ TakenFor(<<224, 200>>, e.key, FALSE)
    <3> DEFINE d == 72
               u == 200
    <3>1. KeyBehind(d) = KeyOf(e.key) BY <1>12, KeymapRows DEF KeyOf, KeyBehind
    <3>2. d \in 0 .. 95 /\ u = d + 128 OBVIOUS
    <3> HIDE DEF d, u
    <3>3. TakenFor(Behind(d), e.key, TRUE) /\ TakenFor(Behind(u), e.key, FALSE)
      BY <3>1, <3>2, TwoBytes, Zenon
    <3> QED BY <3>3 DEF Behind, d, u
  <2>2. keyboard[e.key] = << <<224, 72>>, <<224, 200>> >> BY <1>12 DEF keyboard
  <2> QED BY <2>1, <2>2, RowTaken
<1>13. CASE e.key = "f1"
  <2>1. TakenFor(<<59>>, e.key, TRUE) /\ TakenFor(<<187>>, e.key, FALSE)
    <3> DEFINE d == 59
               u == 187
    <3>1. keymap[d][IF Shifted THEN 2 ELSE 1] = KeyOf(e.key) BY <1>13, KeymapRows DEF KeyOf
    <3>2. d \in 0 .. 95 /\ u = d + 128 OBVIOUS
    <3> HIDE DEF d, u
    <3>3. TakenFor(<<d>>, e.key, TRUE) /\ TakenFor(<<u>>, e.key, FALSE) BY <3>1, <3>2, OneByte, Zenon
    <3> QED BY <3>3 DEF d, u
  <2>2. keyboard[e.key] = << <<59>>, <<187>> >> BY <1>13 DEF keyboard
  <2> QED BY <2>1, <2>2, RowTaken
<1>14. CASE e.key = "f2"
  <2>1. TakenFor(<<60>>, e.key, TRUE) /\ TakenFor(<<188>>, e.key, FALSE)
    <3> DEFINE d == 60
               u == 188
    <3>1. keymap[d][IF Shifted THEN 2 ELSE 1] = KeyOf(e.key) BY <1>14, KeymapRows DEF KeyOf
    <3>2. d \in 0 .. 95 /\ u = d + 128 OBVIOUS
    <3> HIDE DEF d, u
    <3>3. TakenFor(<<d>>, e.key, TRUE) /\ TakenFor(<<u>>, e.key, FALSE) BY <3>1, <3>2, OneByte, Zenon
    <3> QED BY <3>3 DEF d, u
  <2>2. keyboard[e.key] = << <<60>>, <<188>> >> BY <1>14 DEF keyboard
  <2> QED BY <2>1, <2>2, RowTaken
<1>15. CASE e.key = "f3"
  <2>1. TakenFor(<<61>>, e.key, TRUE) /\ TakenFor(<<189>>, e.key, FALSE)
    <3> DEFINE d == 61
               u == 189
    <3>1. keymap[d][IF Shifted THEN 2 ELSE 1] = KeyOf(e.key) BY <1>15, KeymapRows DEF KeyOf
    <3>2. d \in 0 .. 95 /\ u = d + 128 OBVIOUS
    <3> HIDE DEF d, u
    <3>3. TakenFor(<<d>>, e.key, TRUE) /\ TakenFor(<<u>>, e.key, FALSE) BY <3>1, <3>2, OneByte, Zenon
    <3> QED BY <3>3 DEF d, u
  <2>2. keyboard[e.key] = << <<61>>, <<189>> >> BY <1>15 DEF keyboard
  <2> QED BY <2>1, <2>2, RowTaken
<1>16. CASE e.key = "prtsc"
  <2>1. TakenFor(<<224, 42, 224, 55>>, e.key, TRUE) /\ TakenFor(<<224, 183, 224, 170>>, e.key, FALSE)
    BY <1>16 DEF TakenFor, Interpreted, KeyOf
  <2>2. keyboard[e.key] = << <<224, 42, 224, 55>>, <<224, 183, 224, 170>> >> BY <1>16 DEF keyboard
  <2> QED BY <2>1, <2>2, RowTaken
<1>17. CASE e.key = "pause"
  <2>1. Tail(<<225, 29, 69, 225, 157, 197>>) = <<29, 69, 225, 157, 197>> OBVIOUS
  <2>2. TakenFor(<<225, 29, 69, 225, 157, 197>>, e.key, TRUE)
    BY <1>17, <2>1 DEF TakenFor, Interpreted, KeyOf
  <2>3. keyboard[e.key] = << <<225, 29, 69, 225, 157, 197>>, <<>> >> BY <1>17 DEF keyboard
  <2> QED BY <1>17, <2>2, <2>3, RowTaken
<1> QED
  BY StrokeKey, <1>1, <1>2, <1>3, <1>4, <1>5, <1>6, <1>7, <1>8, <1>9, <1>10, <1>11, <1>12, <1>13, <1>14,
     <1>15, <1>16, <1>17, Zenon

\* What is done for a stroke and how kbflag is after it, when kbflag was right
\* before it.
LEMMA StrokeDone ==
    ASSUME NEW e \in Strokes, kbflag = Flags(e.mods, e.caps)
    PROVE  Done(KeyOf(e.key), e.down) = Meant(e)
<1>1. e.mods \in SUBSET ModifierKeys /\ e.caps \in BOOLEAN /\ e.down \in BOOLEAN BY DEF Strokes
<1>2. Shifted <=> e.mods \cap {"shift_l", "shift_r"} # {}
  BY <1>1, FlagsHas DEF Shifted, ModifierKeys, ModifierOf
<1>3. Both({"CTRL_R", "CTRL_L"}, {"ALT_R", "ALT_L"}) <=>
        e.mods \cap {"ctrl_l", "ctrl_r"} # {} /\ e.mods \cap {"alt_l", "alt_r"} # {}
  BY <1>1, FlagsHas DEF Both, ModifierKeys, ModifierOf
<1>4. "CAPS_LOCK" \in kbflag <=> e.caps BY <1>1, FlagsHas
<1>5. CASE e.down = FALSE
  <2>1. Meant(e) = "nothing" BY <1>5 DEF Meant
  <2>2. Done(KeyOf(e.key), FALSE) = "nothing" BY DEF Done
  <2> QED BY <1>5, <2>1, <2>2
<1>6. CASE e.down = TRUE
  <2>1. CASE e.key = "shift_l" BY <1>1, <1>6, <2>1 DEF Done, Meant, KeyOf, Modifiers, Ignored
  <2>2. CASE e.key = "shift_r" BY <1>1, <1>6, <2>2 DEF Done, Meant, KeyOf, Modifiers, Ignored
  <2>3. CASE e.key = "ctrl_l" BY <1>1, <1>6, <2>3 DEF Done, Meant, KeyOf, Modifiers, Ignored
  <2>4. CASE e.key = "ctrl_r" BY <1>1, <1>6, <2>4 DEF Done, Meant, KeyOf, Modifiers, Ignored
  <2>5. CASE e.key = "alt_l" BY <1>1, <1>6, <2>5 DEF Done, Meant, KeyOf, Modifiers, Ignored
  <2>6. CASE e.key = "alt_r" BY <1>1, <1>6, <2>6 DEF Done, Meant, KeyOf, Modifiers, Ignored
  <2>7. CASE e.key = "caps" BY <1>1, <1>6, <2>7 DEF Done, Meant, KeyOf, Modifiers, Ignored
  <2>8. CASE e.key = "a" BY <1>1, <1>6, <2>8, <1>2, <1>4 DEF Done, Meant, KeyOf, Modifiers, Ignored
  <2>9. CASE e.key = "one" BY <1>1, <1>6, <2>9, <1>2 DEF Done, Meant, KeyOf, Modifiers, Ignored
  <2>10. CASE e.key = "enter" BY <1>1, <1>6, <2>10 DEF Done, Meant, KeyOf, Modifiers, Ignored
  <2>11. CASE e.key = "back" BY <1>1, <1>6, <2>11 DEF Done, Meant, KeyOf, Modifiers, Ignored
  <2>12. CASE e.key = "up" BY <1>1, <1>6, <2>12 DEF Done, Meant, KeyOf, Modifiers, Ignored
  <2>13. CASE e.key = "f1" BY <1>1, <1>6, <2>13, <1>3 DEF Done, Meant, KeyOf, Modifiers, Ignored
  <2>14. CASE e.key = "f2" BY <1>1, <1>6, <2>14, <1>3 DEF Done, Meant, KeyOf, Modifiers, Ignored
  <2>15. CASE e.key = "f3" BY <1>1, <1>6, <2>15 DEF Done, Meant, KeyOf, Modifiers, Ignored
  <2>16. CASE e.key = "prtsc" BY <1>1, <1>6, <2>16 DEF Done, Meant, KeyOf, Modifiers, Ignored
  <2>17. CASE e.key = "pause" BY <1>1, <1>6, <2>17 DEF Done, Meant, KeyOf, Modifiers, Ignored
  <2> QED
    BY StrokeKey, <2>1, <2>2, <2>3, <2>4, <2>5, <2>6, <2>7, <2>8, <2>9,
       <2>10, <2>11, <2>12, <2>13, <2>14, <2>15, <2>16, <2>17, Zenon
<1> QED BY <1>1, <1>5, <1>6
LEMMA StrokeFlags ==
    ASSUME NEW e \in Strokes, kbflag = Flags(e.mods, e.caps)
    PROVE  FlagsAfter(KeyOf(e.key), e.down) = Flags(ModsAfter(e), CapsAfter(e))
<1>1. e.mods \in SUBSET ModifierKeys /\ e.caps \in BOOLEAN /\ e.down \in BOOLEAN BY DEF Strokes
<1>2. CASE e.key \in ModifierKeys
  <2>1. KeyOf(e.key) = ModifierOf[e.key]
    <3>1. e.key \in {"shift_l", "shift_r", "ctrl_l", "ctrl_r", "alt_l", "alt_r"}
      BY <1>2 DEF ModifierKeys, ModifierOf
    <3> QED BY <3>1 DEF KeyOf, ModifierOf
  <2>2. CapsAfter(e) = e.caps BY <1>2 DEF CapsAfter, ModifierKeys, ModifierOf
  <2>3. ModsAfter(e) = IF e.down THEN e.mods \cup {e.key} ELSE e.mods \ {e.key}
    BY <1>1, <1>2 DEF ModsAfter
  <2>4. ModifierOf[e.key] \in Modifiers BY <1>2 DEF ModifierKeys, ModifierOf, Modifiers
  <2>5. CASE e.down = TRUE
    <3>1. FlagsAfter(KeyOf(e.key), TRUE) = kbflag \cup {ModifierOf[e.key]} BY <2>1, <2>4 DEF FlagsAfter, Modifiers
    <3>2. ModsAfter(e) = e.mods \cup {e.key} BY <2>3, <2>5
    <3>3. Flags(e.mods \cup {e.key}, e.caps) = kbflag \cup {ModifierOf[e.key]}
      BY <1>1, <1>2 DEF Flags
    <3> QED BY <2>2, <2>5, <3>1, <3>2, <3>3, Zenon
  <2>6. CASE e.down = FALSE
    <3>1. FlagsAfter(KeyOf(e.key), FALSE) = kbflag \ {ModifierOf[e.key]} BY <2>1, <2>4 DEF FlagsAfter, Modifiers
    <3>2. ModsAfter(e) = e.mods \ {e.key} BY <2>3, <2>6
    <3>3. Flags(e.mods \ {e.key}, e.caps) = kbflag \ {ModifierOf[e.key]}
      BY <1>1, <1>2, FlagsUp
    <3> QED BY <2>2, <2>6, <3>1, <3>2, <3>3, Zenon
  <2> QED BY <1>1, <2>5, <2>6
<1>3. CASE e.key = "caps"
  <2>1. KeyOf(e.key) = "CAPS_LOCK" BY <1>3 DEF KeyOf
  <2>2. ModsAfter(e) = e.mods BY <1>1, <1>3 DEF ModsAfter, ModifierKeys, ModifierOf
  <2>3. CapsAfter(e) = IF e.down THEN ~e.caps ELSE e.caps BY <1>1, <1>3 DEF CapsAfter
  <2>4. FlagsAfter("CAPS_LOCK", e.down) = IF e.down THEN Toggled("CAPS_LOCK") ELSE kbflag
    BY <1>1 DEF FlagsAfter, Modifiers
  <2>5. CASE e.down = FALSE
    <3>1. Flags(ModsAfter(e), CapsAfter(e)) = kbflag BY <2>2, <2>3, <2>5
    <3> QED BY <2>1, <2>4, <2>5, <3>1
  <2>6. CASE e.down = TRUE /\ e.caps = FALSE
    <3>1. "CAPS_LOCK" \notin kbflag BY <1>1, <2>6, FlagsHas
    <3>2. FlagsAfter("CAPS_LOCK", e.down) = kbflag \cup {"CAPS_LOCK"} BY <2>4, <2>6, <3>1 DEF Toggled
    <3>3. CapsAfter(e) = TRUE BY <2>3, <2>6
    <3> QED BY <1>1, <2>1, <2>2, <2>6, <3>2, <3>3, FlagsCaps
  <2>7. CASE e.down = TRUE /\ e.caps = TRUE
    <3>1. "CAPS_LOCK" \in kbflag BY <1>1, <2>7, FlagsHas
    <3>2. FlagsAfter("CAPS_LOCK", e.down) = kbflag \ {"CAPS_LOCK"} BY <2>4, <2>7, <3>1 DEF Toggled
    <3>3. CapsAfter(e) = FALSE BY <2>3, <2>7
    <3> QED BY <1>1, <2>1, <2>2, <2>7, <3>2, <3>3, FlagsCaps
  <2> QED BY <1>1, <2>5, <2>6, <2>7
<1>4. CASE e.key \notin ModifierKeys \cup {"caps"}
  <2>1. KeyOf(e.key) \notin Modifiers \cup {"CAPS_LOCK", "NUM_LOCK"}
    BY <1>4, StrokeKey DEF KeyOf, ModifierKeys, ModifierOf, Modifiers
  <2>2. ModsAfter(e) = e.mods /\ CapsAfter(e) = e.caps BY <1>1, <1>4 DEF ModsAfter, CapsAfter
  <2> QED BY <2>1, <2>2 DEF FlagsAfter
<1> QED BY <1>2, <1>3, <1>4

-----------------------------------------------------------------------------
(* Bytes arrive.                                                           *)

Element == [byte : Codes, of : Strokes, part : 1 .. 6]

LEMMA SeqOfCodes ==
    ASSUME NEW S, NEW q \in Seq(S)
    PROVE  Len(q) \in Nat /\ \A j \in 1 .. Len(q) : q[j] \in S
OBVIOUS

LEMMA SentBytes ==
    ASSUME NEW e \in Strokes
    PROVE  /\ Sent(e) \in Seq(Codes) /\ Len(Sent(e)) \in 0 .. 6
           /\ \A j \in 1 .. Len(Sent(e)) : Sent(e)[j] \in Codes
           /\ Len(Sent(e)) = 0 <=> Silent(e)
<1>1. Sent(e) \in Seq(Codes) /\ Len(Sent(e)) \in 0 .. 6 /\ (Len(Sent(e)) = 0 <=> Silent(e))
  <2>1. CASE ~Silent(e)
    <3>1. WellFormed(Sent(e)) BY <2>1, SentForm
    <3>2. Sent(e) \in Seq(Codes) BY <3>1 DEF WellFormed
    <3>3. Len(Sent(e)) \in 1 .. 6 BY <3>1 DEF WellFormed, Form
    <3> DEFINE n == Len(Sent(e))
    <3>4. n \in 0 .. 6 /\ n # 0
      <4>1. n \in 1 .. 6 BY <3>3
      <4> HIDE DEF n
      <4> QED BY <4>1
    <3> QED BY <2>1, <3>2, <3>4, Zenon
  <2>2. CASE Silent(e)
    <3>1. Sent(e) = <<>> BY <2>2 DEF Silent, Sent, keyboard
    <3>2. <<>> \in Seq(Codes) /\ Len(<<>>) = 0 /\ 0 \in 0 .. 6 OBVIOUS
    <3> QED BY <2>2, <3>1, <3>2, Zenon
  <2> QED BY <2>1, <2>2, Zenon
<1>2. \A j \in 1 .. Len(Sent(e)) : Sent(e)[j] \in Codes
  BY <1>1, SeqOfCodes, Zenon
<1> QED BY <1>1, <1>2, Zenon

LEMMA StrokeMade ==
    ASSUME ScancodeTypeOK, NEW k \in Keys, NEW down \in BOOLEAN
    PROVE  /\ Stroke(k, down) \in Strokes
           /\ Stroke(k, down).mods = held \cap ModifierKeys /\ Stroke(k, down).caps = locked
           /\ Stroke(k, down).key = k /\ Stroke(k, down).down = down
BY DEF Stroke, Strokes, ScancodeTypeOK

LEMMA Lengths ==
    ASSUME NEW S, NEW a \in Seq(S), NEW b \in Seq(S)
    PROVE  Len(a \o b) = Len(a) + Len(b)
OBVIOUS

\* What wire is after the first n bytes of a stroke have joined it.
LEMMA Joined ==
    ASSUME ScancodeTypeOK, NEW e \in Strokes, NEW n \in 0 .. Len(Sent(e)),
           wire' = wire \o [j \in 1 .. n |-> [byte |-> Sent(e)[j], of |-> e, part |-> j]]
    PROVE  /\ wire' \in Seq(Element) /\ Len(wire') = Len(wire) + n
           /\ \A i \in 1 .. Len(wire) : wire'[i] = wire[i]
           /\ \A j \in 1 .. n : wire'[Len(wire) + j] = [byte |-> Sent(e)[j], of |-> e, part |-> j]
<1> DEFINE f == [j \in 1 .. n |-> [byte |-> Sent(e)[j], of |-> e, part |-> j]]
<1>1. Len(Sent(e)) \in 0 .. 6 /\ \A j \in 1 .. Len(Sent(e)) : Sent(e)[j] \in Codes BY SentBytes
<1>2. \A j \in 1 .. n : f[j] = [byte |-> Sent(e)[j], of |-> e, part |-> j] OBVIOUS
<1>3. \A j \in 1 .. n : [byte |-> Sent(e)[j], of |-> e, part |-> j] \in Element
  BY <1>1 DEF Element
<1>4. f \in [1 .. n -> Element] BY <1>3
<1>5. n \in Nat BY <1>1
<1>6. wire \in Seq(Element) BY DEF ScancodeTypeOK, Element
<1> HIDE DEF f
<1>7. f \in Seq(Element) /\ Len(f) = n BY <1>4, <1>5
<1>8. wire' = wire \o f BY DEF f
<1>9. wire' \in Seq(Element) /\ Len(wire') = Len(wire) + n
  <2>1. wire \o f \in Seq(Element) BY <1>6, <1>7
  <2>2. Len(wire \o f) = Len(wire) + Len(f) BY <1>6, <1>7, Lengths
  <2> QED BY <1>7, <1>8, <2>1, <2>2
<1>10. \A i \in 1 .. Len(wire) : wire'[i] = wire[i] BY <1>6, <1>7, <1>8
<1>11. ASSUME NEW j \in 1 .. n PROVE wire'[Len(wire) + j] = f[j]
  <2>1. Len(wire) \in Nat /\ Len(wire) + j \in 1 .. Len(wire) + Len(f) /\ Len(wire) + j > Len(wire)
    BY <1>5, <1>6, <1>7
  <2>2. (wire \o f)[Len(wire) + j] = f[(Len(wire) + j) - Len(wire)] BY <1>6, <1>7, <2>1
  <2>3. (Len(wire) + j) - Len(wire) = j BY <1>5, <2>1
  <2> QED BY <1>8, <2>2, <2>3
<1> QED BY <1>2, <1>9, <1>10, <1>11

LEMMA ArriveType ==
    ASSUME ScancodeTypeOK, NEW k \in Keys, NEW down \in BOOLEAN, Arrive(Stroke(k, down))
    PROVE  ScancodeTypeOK'
<1> DEFINE e == Stroke(k, down)
<1>1. e \in Strokes /\ e.key = k BY StrokeMade
<1>2. Len(wire) \in Nat /\ Len(wire) <= ROOM /\ ROOM \in Nat BY RoomAssumption DEF ScancodeTypeOK
<1>3. Len(Sent(e)) \in 0 .. 6 BY <1>1, SentBytes
<1> DEFINE room == ROOM - Len(wire)
           n == IF Len(Sent(e)) <= room THEN Len(Sent(e)) ELSE room
<1>4. n \in 0 .. Len(Sent(e)) /\ n <= room /\ n \in Nat BY <1>2, <1>3
<1> HIDE DEF e
<1>5. wire' = wire \o [j \in 1 .. n |-> [byte |-> Sent(e)[j], of |-> e, part |-> j]]
  BY DEF Arrive, e
<1> HIDE DEF n
<1>6. wire' \in Seq(Element) /\ Len(wire') = Len(wire) + n BY <1>1, <1>4, <1>5, Joined
<1>7. Len(wire') <= ROOM BY <1>2, <1>4, <1>6
<1>8. lost' \in 0 .. MaxLost + 1
  BY RoomAssumption DEF Arrive, ScancodeTypeOK
<1>9. held' \subseteq Keys /\ locked' \in BOOLEAN
  BY <1>1 DEF Arrive, ScancodeTypeOK, CapsAfter, e, Strokes
<1> QED BY <1>6, <1>7, <1>8, <1>9 DEF Arrive, ScancodeTypeOK, Element

\* The stroke that comes is chained to the last.
LEMMA ArriveInv ==
    ASSUME ScancodeTypeOK, InOrder, lost = 0, lost' = 0,
           NEW k \in Keys, NEW down \in BOOLEAN, Arrive(Stroke(k, down))
    PROVE  InOrder'
<1> DEFINE e == Stroke(k, down)
           n == Len(Sent(e))
           m == Len(wire)
<1>1. /\ e \in Strokes /\ e.mods = held \cap ModifierKeys /\ e.caps = locked
      /\ e.key = k /\ e.down = down
  BY StrokeMade
<1>2. m \in Nat /\ n \in Nat /\ n \in 0 .. n BY <1>1, SentBytes DEF ScancodeTypeOK
<1> HIDE DEF e
<1>3. wire' = wire \o [j \in 1 .. n |-> [byte |-> Sent(e)[j], of |-> e, part |-> j]]
  BY DEF Arrive, e, ScancodeTypeOK
<1> HIDE DEF n
<1>4. /\ wire' \in Seq(Element) /\ Len(wire') = m + n
      /\ \A i \in 1 .. m : wire'[i] = wire[i]
      /\ \A j \in 1 .. n : wire'[m + j] = [byte |-> Sent(e)[j], of |-> e, part |-> j]
  BY <1>1, <1>2, <1>3, Joined DEF n
<1> HIDE DEF m
<1>5. \A j \in 1 .. n : wire'[m + j].byte = Sent(e)[j] /\ wire'[m + j].of = e /\ wire'[m + j].part = j
  <2> TAKE j \in 1 .. n
  <2>1. wire'[m + j] = [byte |-> Sent(e)[j], of |-> e, part |-> j] BY <1>4
  <2> QED BY <2>1
<1>6. held' = (IF down THEN held \cup {k} ELSE held \ {k}) /\ locked' = CapsAfter(e)
      /\ UNCHANGED <<got, kbflag>>
  BY <1>1 DEF Arrive, e
<1>7. ModsAfter(e) = held' \cap ModifierKeys BY <1>1, <1>6 DEF ModsAfter
<1>8. n = 0 => held' \cap ModifierKeys = held \cap ModifierKeys /\ locked' = locked
  <2>1. n = 0 => k = "pause" /\ ~down BY <1>1, SentBytes DEF n, Silent
  <2> QED BY <1>1, <1>6, <2>1 DEF CapsAfter, ModifierKeys, ModifierOf
<1>9. Placed'
  <2> SUFFICES ASSUME NEW i \in 1 .. m + n
               PROVE  wire'[i].part \in 1 .. Len(Sent(wire'[i].of)) /\ wire'[i].byte = Sent(wire'[i].of)[wire'[i].part]
    BY <1>4 DEF Placed, Of
  <2>1. CASE i <= m BY <1>2, <1>4, <2>1 DEF InOrder, Placed, Of, m
  <2>2. CASE i > m
    <3>1. i - m \in 1 .. n /\ m + (i - m) = i BY <1>2, <2>2
    <3> QED BY <1>5, <3>1 DEF n
  <2> QED BY <1>2, <2>1, <2>2
<1>10. Chained'
  <2> SUFFICES ASSUME NEW i \in 1 .. Len(wire') - 1
               PROVE  IF wire'[i].part = Len(Sent(wire'[i].of))
                      THEN /\ wire'[i + 1].part = 1
                           /\ wire'[i + 1].of.mods = ModsAfter(wire'[i].of)
                           /\ wire'[i + 1].of.caps = CapsAfter(wire'[i].of)
                      ELSE wire'[i + 1].part = wire'[i].part + 1 /\ wire'[i + 1].of = wire'[i].of
    BY Zenon DEF Chained, Of, Ends
  <2>1. i \in 1 .. (m + n) - 1 BY <1>2, <1>4
  <2>2. CASE i < m
    <3>1. wire'[i] = wire[i] /\ wire'[i + 1] = wire[i + 1] BY <1>2, <1>4, <2>1, <2>2
    <3>2. i \in 1 .. Len(wire) - 1 BY <1>2, <2>1, <2>2 DEF m
    <3> QED BY <3>1, <3>2 DEF InOrder, Chained, Of, Ends
  <2>3. CASE i = m
    <3>1. wire'[i] = wire[m] /\ 1 \in 1 .. n /\ wire # <<>> BY <1>2, <1>4, <2>1, <2>3 DEF m
    <3>2. Ends(m) /\ ModsAfter(Of(m)) = held \cap ModifierKeys /\ CapsAfter(Of(m)) = locked
      BY <3>1 DEF InOrder, Whole, m
    <3>3. wire'[i + 1].of = e /\ wire'[i + 1].part = 1 BY <1>5, <2>3, <3>1
    <3> QED BY <1>1, <3>1, <3>2, <3>3 DEF Ends, Of
  <2>4. CASE i > m
    <3>1. i - m \in 1 .. n /\ m + (i - m) = i /\ i + 1 - m \in 1 .. n /\ m + (i + 1 - m) = i + 1 /\ i - m # n
      BY <1>2, <2>1, <2>4
    <3>2. wire'[i].of = e /\ wire'[i].part = i - m BY <1>5, <3>1
    <3>3. wire'[i + 1].of = e /\ wire'[i + 1].part = i + 1 - m BY <1>5, <3>1
    <3>4. wire'[i].part # Len(Sent(wire'[i].of)) BY <3>1, <3>2 DEF n
    <3> QED BY <1>2, <3>2, <3>3, <3>4
  <2> QED BY <1>2, <2>1, <2>2, <2>3, <2>4
<1>11. Whole'
  <2> SUFFICES ASSUME wire' # <<>>
               PROVE  /\ wire'[m + n].part = Len(Sent(wire'[m + n].of))
                      /\ ModsAfter(wire'[m + n].of) = held' \cap ModifierKeys
                      /\ CapsAfter(wire'[m + n].of) = locked'
    BY <1>4 DEF Whole, Ends, Of
  <2>1. CASE n = 0
    <3>1. m >= 1 /\ wire # <<>> /\ wire'[m + n] = wire[m] BY <1>2, <1>4, <2>1 DEF m
    <3>2. /\ wire[m].part = Len(Sent(wire[m].of))
          /\ ModsAfter(wire[m].of) = held \cap ModifierKeys /\ CapsAfter(wire[m].of) = locked
      BY <3>1 DEF InOrder, Whole, Ends, Of, m
    <3> QED BY <1>8, <2>1, <3>1, <3>2
  <2>2. CASE n # 0
    <3>1. n \in 1 .. n BY <1>2, <2>2
    <3>2. wire'[m + n].of = e /\ wire'[m + n].part = n BY <1>5, <3>1
    <3> QED BY <1>6, <1>7, <3>2 DEF n
  <2> QED BY <2>1, <2>2
<1>12. Begun'
  <2>1. CASE m # 0
    <3>1. wire # <<>> /\ wire' # <<>> /\ wire'[1] = wire[1] BY <1>2, <1>4, <2>1 DEF m
    <3> QED BY <1>6, <3>1 DEF InOrder, Begun, Of
  <2>2. CASE m = 0 /\ n = 0
    <3>1. wire = <<>> /\ wire' = <<>> BY <1>4, <2>2 DEF m, ScancodeTypeOK
    <3> QED BY <1>6, <1>8, <2>2, <3>1 DEF InOrder, Begun
  <2>3. CASE m = 0 /\ n # 0
    <3>1. wire = <<>> /\ wire' # <<>> /\ 1 \in 1 .. n /\ m + 1 = 1
      BY <1>2, <1>4, <2>3 DEF m, ScancodeTypeOK
    <3>2. wire'[1].of = e /\ wire'[1].part = 1 BY <1>5, <3>1
    <3>3. got = <<>> /\ kbflag = Flags(e.mods, e.caps) BY <1>1, <3>1 DEF InOrder, Begun
    <3> QED BY <1>6, <3>1, <3>2, <3>3 DEF Begun, Of
  <2> QED BY <2>1, <2>2, <2>3
<1> QED BY <1>9, <1>10, <1>11, <1>12 DEF InOrder

-----------------------------------------------------------------------------
(* The driver takes a byte.                                                *)

LEMMA BytesBound == ASSUME NEW g PROVE BytesOf(g) \in 1 .. 6
BY DEF BytesOf

LEMMA FlagsAfterType ==
    ASSUME ScancodeTypeOK, NEW key, NEW mark
    PROVE  FlagsAfter(key, mark) \subseteq Modifiers \cup {"CAPS_LOCK", "NUM_LOCK"}
<1>1. kbflag \subseteq Modifiers \cup {"CAPS_LOCK", "NUM_LOCK"} BY DEF ScancodeTypeOK
<1>2. CASE key \in Modifiers
  <2>1. key \notin {"CAPS_LOCK", "NUM_LOCK"} BY <1>2 DEF Modifiers
  <2> QED BY <1>1, <1>2, <2>1 DEF FlagsAfter
<1>3. CASE key \in {"CAPS_LOCK", "NUM_LOCK"} /\ mark
  <2>1. key \notin Modifiers BY <1>3 DEF Modifiers
  <2>2. FlagsAfter(key, mark) = Toggled(key) BY <1>3, <2>1 DEF FlagsAfter
  <2> QED BY <1>1, <1>3, <2>2 DEF Toggled
<1>4. CASE key \notin Modifiers /\ ~(key \in {"CAPS_LOCK", "NUM_LOCK"} /\ mark)
  BY <1>1, <1>4 DEF FlagsAfter
<1> QED BY <1>2, <1>3, <1>4

LEMMA ReadType ==
    ASSUME ScancodeTypeOK, ReadByte
    PROVE  ScancodeTypeOK'
<1> DEFINE g == Append(got, Head(wire).byte)
<1>1. wire \in Seq(Element) /\ wire # <<>> /\ wire' = Tail(wire)
  BY DEF ScancodeTypeOK, ReadByte, Element
<1>2. Head(wire) \in Element /\ wire' \in Seq(Element) /\ Len(wire') = Len(wire) - 1 BY <1>1
<1>3. Head(wire).byte \in Codes BY <1>2 DEF Element
<1>4. g \in Seq(Codes) /\ Len(g) = Len(got) + 1 BY <1>3 DEF ScancodeTypeOK
<1>5. Len(wire') <= ROOM BY <1>1, <1>2, RoomAssumption DEF ScancodeTypeOK
<1>6. got' \in Seq(Codes) /\ Len(got') < 6
  <2>1. CASE Len(g) < BytesOf(g)
    <3>1. got' = g BY <2>1 DEF ReadByte
    <3>2. BytesOf(g) \in 1 .. 6 BY BytesBound
    <3> QED BY <1>4, <2>1, <3>1, <3>2
  <2>2. CASE ~(Len(g) < BytesOf(g))
    <3>1. got' = <<>> BY <2>2 DEF ReadByte
    <3> QED BY <3>1
  <2> QED BY <2>1, <2>2
<1>7. kbflag' \subseteq Modifiers \cup {"CAPS_LOCK", "NUM_LOCK"} /\ wrong' \in BOOLEAN
  <2>1. CASE Len(g) < BytesOf(g) BY <2>1 DEF ReadByte, ScancodeTypeOK
  <2>2. CASE ~(Len(g) < BytesOf(g))
    <3>1. PICK x \in Interpreted(g) : kbflag' = FlagsAfter(x.key, x.mark) BY <2>2 DEF ReadByte
    <3>2. wrong' \in BOOLEAN BY <2>2 DEF ReadByte, ScancodeTypeOK
    <3> QED BY <3>1, <3>2, FlagsAfterType
  <2> QED BY <2>1, <2>2
<1>8. held' \subseteq Keys /\ locked' \in BOOLEAN /\ lost' \in 0 .. MaxLost + 1
  BY DEF ReadByte, ScancodeTypeOK
<1> QED BY <1>2, <1>5, <1>6, <1>7, <1>8 DEF ScancodeTypeOK, Element

\* What is read continues the stroke in front, and the driver takes it for a
\* whole one just when it is.
LEMMA ReadInv ==
    ASSUME ScancodeTypeOK, InOrder, lost = 0, ~wrong, ReadByte
    PROVE  InOrder' /\ ~wrong'
<1> DEFINE m == Len(wire)
           b == Head(wire)
           e == wire[1].of
           g == Append(got, b.byte)
<1>1. wire \in Seq(Element) /\ wire # <<>> /\ wire' = Tail(wire) /\ b = wire[1]
  BY DEF ScancodeTypeOK, ReadByte, Element
<1>2. m \in Nat /\ m >= 1 /\ Len(wire') = m - 1 BY <1>1
<1>3. \A i \in 1 .. m - 1 : wire'[i] = wire[i + 1] BY <1>1
<1>4. wire[1] \in Element BY <1>1, <1>2
<1>5. e \in Strokes /\ wire[1].byte \in Codes /\ wire[1].part \in 1 .. 6 BY <1>4 DEF Element
<1>6. wire[1].part \in 1 .. Len(Sent(e)) /\ wire[1].byte = Sent(e)[wire[1].part]
  BY <1>1, <1>2 DEF InOrder, Placed, Of
<1>7. /\ got \in Seq(Codes) /\ Len(got) = wire[1].part - 1
      /\ \A i \in 1 .. Len(got) : got[i] = Sent(e)[i]
      /\ kbflag = Flags(e.mods, e.caps)
  BY <1>1 DEF InOrder, Begun, Of, ScancodeTypeOK
<1>8. Len(Sent(e)) \in Nat BY <1>5, SentBytes
<1>9. /\ g \in Seq(Codes) /\ Len(g) = wire[1].part /\ Len(g) \in 1 .. Len(Sent(e))
      /\ \A i \in 1 .. Len(g) : g[i] = Sent(e)[i]
  <2>1. g = Append(got, wire[1].byte) BY <1>1
  <2>2. g \in Seq(Codes) /\ Len(g) = Len(got) + 1 BY <1>5, <1>7, <2>1
  <2>3. Len(g) = wire[1].part BY <1>5, <1>7, <2>2
  <2>4. ASSUME NEW i \in 1 .. Len(g) PROVE g[i] = Sent(e)[i]
    <3>1. CASE i <= Len(got) BY <1>7, <2>1, <2>2, <3>1
    <3>2. CASE i = Len(got) + 1 BY <1>5, <1>6, <1>7, <2>1, <3>2
    <3> QED BY <1>7, <2>2, <3>1, <3>2
  <2> QED BY <1>6, <2>2, <2>3, <2>4
<1> HIDE DEF e
<1>10. Len(g) < BytesOf(g) <=> Len(g) < Len(Sent(e)) BY <1>5, <1>9, BytesKnown
<1>11. Ends(1) <=> ~(Len(g) < BytesOf(g)) BY <1>6, <1>8, <1>9, <1>10 DEF Ends, Of, e
<1>12. Placed'
  <2> SUFFICES ASSUME NEW i \in 1 .. m - 1
               PROVE  wire'[i].part \in 1 .. Len(Sent(wire'[i].of)) /\ wire'[i].byte = Sent(wire'[i].of)[wire'[i].part]
    BY <1>2 DEF Placed, Of
  <2>1. i + 1 \in 1 .. Len(wire) BY <1>2
  <2> QED BY <1>3, <2>1 DEF InOrder, Placed, Of
<1>13. Chained'
  <2> SUFFICES ASSUME NEW i \in 1 .. (m - 1) - 1
               PROVE  IF wire'[i].part = Len(Sent(wire'[i].of))
                      THEN /\ wire'[i + 1].part = 1
                           /\ wire'[i + 1].of.mods = ModsAfter(wire'[i].of)
                           /\ wire'[i + 1].of.caps = CapsAfter(wire'[i].of)
                      ELSE wire'[i + 1].part = wire'[i].part + 1 /\ wire'[i + 1].of = wire'[i].of
    BY <1>2 DEF Chained, Of, Ends
  <2>1. i + 1 \in 1 .. Len(wire) - 1 /\ i \in 1 .. m - 1 /\ i + 1 \in 1 .. m - 1 BY <1>2
  <2>2. wire'[i] = wire[i + 1] /\ wire'[i + 1] = wire[(i + 1) + 1] BY <1>3, <2>1
  <2> QED BY <2>1, <2>2 DEF InOrder, Chained, Of, Ends
<1>14. UNCHANGED <<held, locked>> BY DEF ReadByte
<1>15. Whole'
  <2> SUFFICES ASSUME m - 1 # 0
               PROVE  /\ wire'[m - 1].part = Len(Sent(wire'[m - 1].of))
                      /\ ModsAfter(wire'[m - 1].of) = held \cap ModifierKeys
                      /\ CapsAfter(wire'[m - 1].of) = locked
    BY <1>2, <1>14 DEF Whole, Ends, Of
  <2>1. m - 1 \in 1 .. m - 1 /\ (m - 1) + 1 = m BY <1>2
  <2>2. wire'[m - 1] = wire[m] BY <1>3, <2>1
  <2> QED BY <1>1, <2>2 DEF InOrder, Whole, Ends, Of
<1>16. CASE Len(g) < BytesOf(g)
  <2>1. got' = g /\ UNCHANGED <<kbflag, wrong>> BY <1>16 DEF ReadByte
  <2>2. ~Ends(1) BY <1>11, <1>16
  <2>3. m # 1 BY <1>1, <2>2 DEF InOrder, Whole
  <2>4. 1 \in 1 .. Len(wire) - 1 /\ 1 \in 1 .. m - 1 BY <1>2, <2>3
  <2>5. wire'[1].part = wire[1].part + 1 /\ wire'[1].of = e
    BY <1>3, <2>2, <2>4 DEF InOrder, Chained, Of, e
  <2>6. wire' # <<>> BY <1>2, <2>3
  <2>7. Begun' BY <1>5, <1>7, <1>9, <2>1, <2>5, <2>6 DEF Begun, Of
  <2> QED BY <1>12, <1>13, <1>15, <2>1, <2>7 DEF InOrder
<1>17. CASE ~(Len(g) < BytesOf(g))
  <2>1. Ends(1) /\ Len(g) = Len(Sent(e)) BY <1>8, <1>9, <1>10, <1>11, <1>17
  <2>2. g = Sent(e)
    <3>1. Sent(e) \in Seq(Codes) BY <1>5, SentBytes
    <3> QED BY <1>9, <2>1, <3>1
  <2>3. e.down \/ e.key # "pause" BY <1>5, <1>6, SentBytes DEF Silent
  <2>4. TakenFor(g, e.key, e.down) BY <1>5, <2>2, <2>3, KeysTaken
  <2>5. PICK x \in Interpreted(g) :
          /\ got' = <<>> /\ kbflag' = FlagsAfter(x.key, x.mark)
          /\ wrong' = (wrong \/ (lost = 0 /\ (g # Sent(b.of) \/ Done(x.key, x.mark) # Meant(b.of)
                         \/ kbflag' \ {"NUM_LOCK"} # Flags(ModsAfter(b.of), CapsAfter(b.of)))))
    BY <1>17 DEF ReadByte
  <2>6. x.key = KeyOf(e.key) /\ x.mark = e.down BY <2>4 DEF TakenFor
  <2>7. Done(x.key, x.mark) = Meant(e) BY <1>5, <1>7, <2>6, StrokeDone
  <2>8. kbflag' = Flags(ModsAfter(e), CapsAfter(e)) BY <1>5, <1>7, <2>5, <2>6, StrokeFlags
  <2>9. kbflag' \ {"NUM_LOCK"} = kbflag'
    <3>1. ModsAfter(e) \in SUBSET ModifierKeys /\ CapsAfter(e) \in BOOLEAN
      BY <1>5 DEF ModsAfter, CapsAfter, Strokes
    <3>2. "NUM_LOCK" \notin kbflag' BY <2>8, <3>1, FlagsHas
    <3> QED BY <3>2
  <2>10. ~wrong' BY <1>1, <2>2, <2>5, <2>7, <2>8, <2>9 DEF e
  <2>11. Begun'
    <3>1. CASE m = 1
      <4>1. wire' = <<>> BY <1>1, <1>2, <3>1
      <4>2. ModsAfter(e) = held \cap ModifierKeys /\ CapsAfter(e) = locked
        BY <1>1, <3>1 DEF InOrder, Whole, Of, e
      <4> QED BY <1>14, <2>5, <2>8, <4>1, <4>2 DEF Begun
    <3>2. CASE m # 1
      <4>1. 1 \in 1 .. Len(wire) - 1 /\ 1 \in 1 .. m - 1 BY <1>2, <3>2
      <4>2. wire'[1].part = 1 /\ wire'[1].of.mods = ModsAfter(e) /\ wire'[1].of.caps = CapsAfter(e)
        BY <1>3, <2>1, <4>1 DEF InOrder, Chained, Of, e
      <4>3. wire' # <<>> BY <1>2, <3>2
      <4> QED BY <2>5, <2>8, <4>2, <4>3 DEF Begun, Of
    <3> QED BY <3>1, <3>2
  <2> QED BY <1>12, <1>13, <1>15, <2>10, <2>11 DEF InOrder
<1> QED BY <1>16, <1>17

-----------------------------------------------------------------------------
(* The invariant and the theorems.                                         *)

LEMMA StepInv == InStep /\ [ScancodeNext]_scancodeVars => InStep'
<1> SUFFICES ASSUME InStep, [ScancodeNext]_scancodeVars PROVE InStep'
  OBVIOUS
<1>1. ASSUME NEW k \in Keys, NEW down \in BOOLEAN, Arrive(Stroke(k, down))
      PROVE  InStep'
  <2>1. ScancodeTypeOK' BY <1>1, ArriveType DEF InStep
  <2>2. ~wrong' BY <1>1 DEF Arrive, InStep
  <2>3. lost' = 0 => lost = 0
    BY <1>1 DEF Arrive, InStep, ScancodeTypeOK
  <2>4. lost' = 0 => InOrder' BY <1>1, <2>3, ArriveInv DEF InStep
  <2> QED BY <2>1, <2>2, <2>4 DEF InStep
<1>2. ASSUME NEW k \in Keys, KeyDown(k) PROVE InStep'
  BY <1>1, <1>2 DEF KeyDown
<1>3. ASSUME NEW k \in Keys, KeyUp(k) PROVE InStep'
  BY <1>1, <1>3 DEF KeyUp
<1>4. CASE ReadByte
  <2>1. ScancodeTypeOK' BY <1>4, ReadType DEF InStep
  <2>2. lost' = lost BY <1>4 DEF ReadByte
  <2>3. CASE lost = 0 BY <1>4, <2>1, <2>2, <2>3, ReadInv DEF InStep
  <2>4. CASE lost # 0
    <3>1. ~wrong' BY <1>4, <2>4 DEF ReadByte, InStep
    <3> QED BY <2>1, <2>2, <2>4, <3>1 DEF InStep
  <2> QED BY <2>3, <2>4
<1>5. CASE UNCHANGED scancodeVars
  BY <1>5 DEF scancodeVars, InStep, ScancodeTypeOK, InOrder, Placed, Chained, Whole, Begun, Of, Ends
<1> QED BY <1>2, <1>3, <1>4, <1>5 DEF ScancodeNext

LEMMA StartInv == ScancodeInit => InStep
<1> SUFFICES ASSUME ScancodeInit PROVE InStep
  OBVIOUS
<1>1. ScancodeTypeOK
  <2>1. wire \in Seq(Element) /\ Len(wire) <= ROOM BY RoomAssumption DEF ScancodeInit
  <2>2. got \in Seq(Codes) /\ Len(got) < 6 BY DEF ScancodeInit
  <2>3. lost \in 0 .. MaxLost + 1 BY RoomAssumption DEF ScancodeInit
  <2> QED BY <2>1, <2>2, <2>3 DEF ScancodeInit, ScancodeTypeOK, Element
<1>2. Placed /\ Chained /\ Whole BY DEF ScancodeInit, Placed, Chained, Whole
<1>3. Flags({} \cap ModifierKeys, FALSE) = {} BY DEF Flags
<1>4. Begun BY <1>3 DEF ScancodeInit, Begun
<1> QED BY <1>1, <1>2, <1>4 DEF InStep, InOrder, ScancodeInit

LEMMA AlwaysInStep == ScancodeSpec => []InStep
<1>1. ScancodeInit => InStep BY StartInv
<1>2. InStep /\ [ScancodeNext]_scancodeVars => InStep' BY StepInv
<1> QED BY <1>1, <1>2, PTL DEF ScancodeSpec

\* For any set of the keys of keyboard, a ring of any size and keys struck in any
\* order, held and repeated: as long as the ring has lost no byte transfer_buffer
\* takes together just the bytes of one stroke and does what the key means with
\* the modifiers and CapsLock of when it was struck.
THEOREM KeysAreDecoded == ScancodeSpec => []DecodedAsStruck
<1>1. InStep => DecodedAsStruck BY DEF InStep, DecodedAsStruck
<1> QED BY <1>1, AlwaysInStep, PTL

\* Also then, kbflag has just the modifiers that are held and CapsLock whenever
\* the ring is empty, and no key is half read; the variables keep their types.
THEOREM FlagsFollowKeys == ScancodeSpec => []ModifiersFollow
<1>1. InStep => ModifiersFollow
  <2> SUFFICES ASSUME InStep PROVE ModifiersFollow
    OBVIOUS
  <2>1. ASSUME wire = <<>>, lost = 0
        PROVE  got = <<>> /\ kbflag \ {"NUM_LOCK"} = Flags(held \cap ModifierKeys, locked)
    <3>1. got = <<>> /\ kbflag = Flags(held \cap ModifierKeys, locked)
      BY <2>1 DEF InStep, InOrder, Begun
    <3>2. "NUM_LOCK" \notin kbflag
      <4>1. held \cap ModifierKeys \in SUBSET ModifierKeys /\ locked \in BOOLEAN
        BY DEF InStep, ScancodeTypeOK
      <4> QED BY <3>1, <4>1, FlagsHas
    <3> QED BY <3>1, <3>2
  <2> QED BY <2>1 DEF ModifiersFollow, InStep
<1> QED BY <1>1, AlwaysInStep, PTL
=============================================================================
