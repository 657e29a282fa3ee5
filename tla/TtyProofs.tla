----------------------------- MODULE TtyProofs -----------------------------
(***************************************************************************)
(* Proofs about module Tty, for any number of processes, any assignment of *)
(* terminals to them, and rings and lines of any size.  And about module   *)
(* Screen, for screens of any size, tab stops that divide a row and any    *)
(* number of characters: what the screens show and the controller is sent. *)
(***************************************************************************)
EXTENDS Tty, Screen, WellFoundedInduction, TLAPS

-----------------------------------------------------------------------------
(* The inductive invariant.                                                *)

\* What the driver has loaded is of the right type, also after a race.
Loaded ==
    /\ pc = "store" => key \in Chars /\ cnt[current_tty] \in 0 .. BUF - 1
    /\ pc = "save" => key \in Chars /\ reg \in 0 .. BUF - 1

\* The cell n places behind tail.
Place(t, n) == IF tail[t] + n < BUF THEN tail[t] + n ELSE tail[t] + n - BUF

\* The ring of a terminal is followed.
Followed(t) == ~raced[t] /\ tail[t] < BUF

\* The characters in the ring are those typed and not read.
HoldsText(t) ==
    /\ cnt[t] \in 0 .. BUF
    /\ Len(text[t]) = cnt[t]
    /\ \A n \in 1 .. cnt[t] : text[t][n] = in[t][Place(t, n - 1)]

\* head is behind them, but for what the driver has already done for its key.
HeadBehind(t) ==
    LET at(step) == t = current_tty /\ pc = step IN
    /\ ~at("save") /\ ~at("savedec") => head[t] = Place(t, cnt[t])
    /\ at("save") =>
         /\ reg = cnt[t] /\ cnt[t] < BUF
         /\ head[t] = Next1(Place(t, cnt[t])) /\ in[t][Place(t, cnt[t])] = key
    /\ at("back") => cnt[t] >= 1
    /\ at("savedec") => reg = cnt[t] /\ cnt[t] >= 1 /\ head[t] = Prev1(Place(t, cnt[t]))

Ring(t) == Followed(t) => HoldsText(t) /\ HeadBehind(t)

IInv ==
    /\ TypeOK
    /\ Loaded
    /\ \A t \in Ttys : Ring(t)
    /\ ~misread

-----------------------------------------------------------------------------
(* Rings and lines.                                                        *)

LEMMA Wraps ==
    \A n \in Nat : n < BUF + BUF => n % BUF = IF n < BUF THEN n ELSE n - BUF
<1>1. BUF \in Nat \ {0}
  BY SizeAssumption
<1> QED
  BY <1>1

LEMMA Places ==
    ASSUME TypeOK, NEW t \in Ttys, tail[t] < BUF
    PROVE  /\ tail[t] \in 0 .. BUF - 1
           /\ \A n \in 0 .. BUF : Place(t, n) \in Cells /\ (tail[t] + n) % BUF = Place(t, n)
           /\ \A m, n \in 0 .. BUF - 1 : Place(t, m) = Place(t, n) => m = n
           /\ \A n \in 0 .. BUF - 1 : Next1(Place(t, n)) = Place(t, n + 1)
           /\ \A n \in 1 .. BUF : Prev1(Place(t, n)) = Place(t, n - 1)
           /\ Place(t, 0) = tail[t]
<1>1. BUF \in Nat \ {0} /\ tail[t] \in 0 .. BUF - 1
  BY SizeAssumption DEF TypeOK
<1>2. \A n \in 0 .. BUF : Place(t, n) \in Cells
  BY <1>1 DEF Place, Cells
<1>3. \A m, n \in 0 .. BUF - 1 : Place(t, m) = Place(t, n) => m = n
  BY <1>1 DEF Place
<1>4. \A n \in 0 .. BUF - 1 : Next1(Place(t, n)) = Place(t, n + 1)
  <2> TAKE n \in 0 .. BUF - 1
  <2>1. CASE tail[t] + n + 1 < BUF
    BY <1>1, <2>1 DEF Place, Next1
  <2>2. CASE tail[t] + n + 1 >= BUF
    BY <1>1, <2>2 DEF Place, Next1
  <2> QED
    BY <1>1, <2>1, <2>2
<1>5. \A n \in 1 .. BUF : Prev1(Place(t, n)) = Place(t, n - 1)
  BY <1>1 DEF Place, Prev1
<1>6. \A n \in 0 .. BUF : (tail[t] + n) % BUF = Place(t, n)
  <2> TAKE n \in 0 .. BUF
  <2>1. tail[t] + n \in Nat /\ tail[t] + n < BUF + BUF
    BY <1>1
  <2>2. (tail[t] + n) % BUF = IF tail[t] + n < BUF THEN tail[t] + n ELSE tail[t] + n - BUF
    BY <1>1, <2>1, Wraps
  <2> QED
    BY <2>2 DEF Place
<1>7. Place(t, 0) = tail[t]
  BY <1>1 DEF Place
<1> QED
  BY <1>1, <1>2, <1>3, <1>4, <1>5, <1>6, <1>7

\* A set of positions has a first one: < is well-founded.
LEMMA LeastExists ==
    ASSUME NEW S \in SUBSET Nat, S # {}
    PROVE  \E n \in S : \A m \in S : n <= m
<1>1. PICK less : IsWellFoundedOn(less, Nat) /\ \A m, n \in Nat : m < n => <<m, n>> \in less
  <2>1. \A m, n \in Nat : m < n => <<m, n>> \in OpToRel(<, Nat)
    BY DEF OpToRel
  <2> QED
    BY <2>1, NatLessThanWellFounded, Zenon
<1>2. S \subseteq Nat /\ IsWellFoundedOn(less, Nat)
  BY <1>1
<1>3. PICK n \in S : \A m \in S : <<m, n>> \notin less
  BY <1>2, WFMin
<1>4. ASSUME NEW m \in S PROVE n <= m
  <2>1. m \in Nat /\ n \in Nat /\ <<m, n>> \notin less
    BY <1>3
  <2> QED
    BY <1>1, <2>1
<1> QED
  BY <1>4

\* The loop of sys_std_read copies no more than there is.
LEMMA LineShorter ==
    ASSUME NEW S, NEW s \in Seq(S)
    PROVE  Len(Line(s)) \in 0 .. Len(s)
<1> DEFINE stops == {n \in 1 .. Len(s) : s[n] = Enter \/ n > MAX_SIZE}
           least == CHOOSE n \in stops : \A m \in stops : n <= m
<1>1. Len(s) \in Nat
  OBVIOUS
<1>2. CASE stops = {}
  BY <1>1, <1>2 DEF Line
<1>3. CASE stops # {}
  <2>1. stops \in SUBSET (1 .. Len(s)) /\ stops \in SUBSET Nat
    BY <1>1
  <2>2. \E n \in stops : \A m \in stops : n <= m
    <3> HIDE DEF stops
    <3> QED
      BY <1>3, <2>1, LeastExists
  <2>3. least \in 1 .. Len(s)
    BY <2>1, <2>2
  <2>4. Line(s) = SubSeq(s, 1, least - 1)
    BY <1>3 DEF Line
  <2> HIDE DEF least
  <2>5. Len(SubSeq(s, 1, least - 1)) = least - 1
    BY <1>1, <2>3
  <2> QED
    BY <1>1, <2>3, <2>4, <2>5
<1> QED
  BY <1>2, <1>3

LEMMA ContentsType ==
    ASSUME TypeOK, NEW t \in Ttys, tail[t] < BUF, cnt[t] \in 0 .. BUF
    PROVE  Contents(t) \in Seq(Chars \cup {"nul"}) /\ Len(Contents(t)) = cnt[t]
<1>1. ASSUME NEW n \in 1 .. cnt[t] PROVE in[t][(tail[t] + n - 1) % BUF] \in Chars \cup {"nul"}
  <2>1. n - 1 \in 0 .. BUF /\ tail[t] + n - 1 = tail[t] + (n - 1)
    BY SizeAssumption, Places
  <2>2. (tail[t] + n - 1) % BUF \in Cells
    BY <2>1, Places
  <2> QED
    BY <2>2 DEF TypeOK
<1>2. Contents(t) \in [1 .. cnt[t] -> Chars \cup {"nul"}] /\ cnt[t] \in Nat
  BY <1>1, SizeAssumption DEF Contents
<1> QED
  BY <1>2

\* A ring that is followed shows what was typed.
LEMMA ContentsText ==
    ASSUME TypeOK, NEW t \in Ttys, tail[t] < BUF, HoldsText(t)
    PROVE  Contents(t) = text[t]
<1>1. text[t] \in Seq(Chars) /\ Len(text[t]) = cnt[t] /\ cnt[t] \in 0 .. BUF
  BY DEF TypeOK, HoldsText
<1>2. ASSUME NEW n \in 1 .. cnt[t] PROVE Contents(t)[n] = text[t][n]
  <2>1. n - 1 \in 0 .. BUF /\ tail[t] + n - 1 = tail[t] + (n - 1)
    BY <1>1, SizeAssumption, Places
  <2>2. (tail[t] + n - 1) % BUF = Place(t, n - 1)
    BY <2>1, Places
  <2> QED
    BY <1>2, <2>2 DEF Contents, HoldsText
<1>3. Contents(t) \in Seq(Chars \cup {"nul"}) /\ Len(Contents(t)) = cnt[t]
  BY <1>1, ContentsType
<1> QED
  BY <1>1, <1>2, <1>3

-----------------------------------------------------------------------------
(* Every action preserves the invariant.                                   *)

LEMMA InitInv == Init => IInv
<1> SUFFICES ASSUME Init PROVE IInv
  OBVIOUS
<1>1. BUF \in Nat \ {0} /\ PROC_MAX_CNT \in Nat \ {0} /\ 0 \in Cells /\ 0 \in 0 .. 2 * BUF - 1
  BY SizeAssumption, TtyAssumption DEF Cells
<1>2. /\ in \in [Ttys -> [Cells -> Chars \cup {"nul"}]] /\ head \in [Ttys -> Cells]
      /\ tail \in [Ttys -> 0 .. 2 * BUF - 1] /\ cnt \in [Ttys -> -1 .. BUF]
  BY <1>1 DEF Init
<1>3. text \in [Ttys -> Seq(Chars)] /\ raced \in [Ttys -> BOOLEAN]
  BY DEF Init
<1>4. stat \in [Pids -> {"user", "WAITING_INPUT", "READY"}]
  BY DEF Init
<1>5. TypeOK
  <2>1. reg \in -1 .. BUF /\ i \in 0 .. PROC_MAX_CNT - 1 /\ current_tty \in Ttys
    BY <1>1 DEF Init, Ttys
  <2>2. pc = "key" /\ key = None /\ misread = FALSE
    BY DEF Init
  <2> QED
    BY <1>2, <1>3, <1>4, <2>1, <2>2 DEF TypeOK
<1>6. ASSUME NEW t \in Ttys PROVE Ring(t)
  BY <1>1, <1>6 DEF Init, Ring, HoldsText, HeadBehind, Place
<1> QED
  BY <1>5, <1>6 DEF Init, IInv, Loaded

\* A terminal that a step leaves alone.
LEMMA RingKept ==
    ASSUME NEW t \in Ttys, Ring(t),
           in'[t] = in[t], head'[t] = head[t], tail'[t] = tail[t], cnt'[t] = cnt[t],
           text'[t] = text[t], raced'[t] = raced[t],
           t = current_tty' /\ pc' \in {"save", "back", "savedec"}
             => t = current_tty /\ pc' = pc /\ reg' = reg /\ key' = key,
           t = current_tty /\ pc \in {"save", "savedec"} => t = current_tty' /\ pc' = pc
    PROVE  Ring(t)'
<1>1. Followed(t)' = Followed(t) /\ \A n : Place(t, n)' = Place(t, n)
  BY DEF Followed, Place
<1>2. HoldsText(t)' = HoldsText(t)
  BY <1>1 DEF HoldsText
<1>3. HeadBehind(t) => HeadBehind(t)'
  BY <1>1 DEF HeadBehind
<1> QED
  BY <1>1, <1>2, <1>3 DEF Ring

LEMMA PressCharInv ==
    ASSUME IInv, NEW c \in Chars, PressChar(c)
    PROVE  IInv'
<1>1. /\ pc = "key" /\ UNCHANGED <<in, head, tail, cnt, current_tty, stat, i, text, raced, misread>>
      /\ \/ pc' \in {"key", "wake"} /\ key' = None /\ reg' = 0
         \/ pc' = "store" /\ key' = c /\ reg' = reg /\ ~Full(current_tty)
  BY DEF PressChar, Done, rings, history
<1>2. TypeOK'
  BY <1>1, SizeAssumption DEF IInv, TypeOK
<1>3. \A t \in Ttys : Ring(t)'
  BY <1>1, RingKept DEF IInv
<1>4. Loaded'
  BY <1>1, SizeAssumption DEF IInv, TypeOK, Loaded, Full
<1> QED
  BY <1>1, <1>2, <1>3, <1>4 DEF IInv

LEMMA PressBackspaceInv ==
    ASSUME IInv, PressBackspace
    PROVE  IInv'
<1>1. /\ pc = "key" /\ UNCHANGED <<in, head, tail, cnt, current_tty, stat, i, text, raced, misread>>
      /\ \/ pc' = "key" /\ key' = None /\ reg' = 0
         \/ pc' = "back" /\ key' = Backspace /\ reg' = reg /\ cnt[current_tty] # 0
  BY DEF PressBackspace, Done, Backspace, Enter, rings, history
<1>2. TypeOK'
  BY <1>1, SizeAssumption DEF IInv, TypeOK
<1>3. ASSUME NEW t \in Ttys PROVE Ring(t)'
  <2>1. CASE t # current_tty \/ pc' = "key"
    BY <1>1, <2>1, RingKept DEF IInv
  <2>2. CASE t = current_tty /\ pc' = "back"
    <3>1. Ring(t) /\ Followed(t)' = Followed(t) /\ HoldsText(t)' = HoldsText(t)
      BY <1>1 DEF IInv, Followed, HoldsText, Place
    <3>2. Followed(t) /\ HoldsText(t) /\ HeadBehind(t) => HeadBehind(t)'
      BY <1>1, <2>2, SizeAssumption DEF HeadBehind, HoldsText, Place
    <3> QED
      BY <3>1, <3>2 DEF Ring
  <2> QED
    BY <1>1, <2>1, <2>2
<1>4. Loaded'
  BY <1>1 DEF Loaded
<1> QED
  BY <1>1, <1>2, <1>3, <1>4 DEF IInv

\* One terminal at a time: the current one, when the driver works on it.
LEMMA OthersKept ==
    ASSUME IInv, NEW t \in Ttys, t # current_tty, UNCHANGED current_tty,
           in'[t] = in[t], head'[t] = head[t], tail'[t] = tail[t], cnt'[t] = cnt[t],
           text'[t] = text[t], raced'[t] = raced[t]
    PROVE  Ring(t)'
BY RingKept DEF IInv

\* The character goes to the cell behind those in the ring.
LEMMA StoreCharInv ==
    ASSUME IInv, StoreChar
    PROVE  IInv'
<1> DEFINE t == current_tty
<1>1. /\ pc = "store" /\ pc' = "save" /\ reg' = cnt[t]
      /\ in' = [in EXCEPT ![t][head[t]] = key] /\ head' = [head EXCEPT ![t] = Next1(@)]
      /\ UNCHANGED <<tail, cnt, current_tty, stat, key, i, text, raced, misread>>
  BY DEF StoreChar, history
<1>2. t \in Ttys /\ key \in Chars /\ cnt[t] \in 0 .. BUF - 1 /\ head[t] \in Cells /\ BUF \in Nat \ {0}
  BY <1>1, SizeAssumption DEF IInv, TypeOK, Loaded
<1>3. /\ in' \in [Ttys -> [Cells -> Chars \cup {"nul"}]] /\ in'[t][head[t]] = key
      /\ \A c \in Cells : c # head[t] => in'[t][c] = in[t][c]
      /\ \A u \in Ttys : u # t => in'[u] = in[u]
  BY <1>1, <1>2 DEF IInv, TypeOK
<1>4. /\ Next1(head[t]) \in Cells /\ head' \in [Ttys -> Cells] /\ head'[t] = Next1(head[t])
      /\ \A u \in Ttys : u # t => head'[u] = head[u]
  <2>1. Next1(head[t]) \in Cells
    BY <1>2 DEF Next1, Cells
  <2> QED
    BY <1>1, <1>2, <2>1 DEF IInv, TypeOK
<1>5. reg' \in -1 .. BUF
  BY <1>1, <1>2
<1>6. TypeOK'
  BY <1>1, <1>3, <1>4, <1>5 DEF IInv, TypeOK
<1>7. Loaded'
  BY <1>1, <1>2 DEF Loaded
<1>8. ASSUME Followed(t)' PROVE HoldsText(t)' /\ HeadBehind(t)'
  <2>1. Followed(t) /\ HoldsText(t) /\ HeadBehind(t) /\ tail[t] < BUF
    BY <1>1, <1>2, <1>8 DEF IInv, Ring, Followed
  <2>2. head[t] = Place(t, cnt[t])
    BY <1>1, <2>1 DEF HeadBehind
  <2>3. \A n \in 1 .. cnt[t] : Place(t, n - 1) \in Cells /\ Place(t, n - 1) # head[t]
    <3> TAKE n \in 1 .. cnt[t]
    <3>1. n - 1 \in 0 .. BUF - 1 /\ n - 1 \in 0 .. BUF /\ n - 1 # cnt[t]
      BY <1>2
    <3> QED
      BY <1>2, <2>1, <2>2, <3>1, Places DEF IInv
  <2>4. HoldsText(t)'
    <3>1. \A n \in 1 .. cnt[t] : in'[t][Place(t, n - 1)] = in[t][Place(t, n - 1)]
      BY <1>3, <2>3
    <3> QED
      BY <1>1, <2>1, <3>1 DEF HoldsText, Place
  <2>5. HeadBehind(t)'
    <3>1. Place(t, cnt[t])' = Place(t, cnt[t])
      BY <1>1 DEF Place
    <3> QED
      BY <1>1, <1>2, <1>3, <1>4, <2>2, <3>1 DEF HeadBehind
  <2> QED
    BY <2>4, <2>5
<1>9. \A u \in Ttys : Ring(u)'
  BY <1>1, <1>3, <1>4, <1>8, OthersKept DEF Ring
<1> QED
  BY <1>1, <1>6, <1>7, <1>9 DEF IInv

\* The character counts.
LEMMA SaveIncInv ==
    ASSUME IInv, SaveInc
    PROVE  IInv'
<1> DEFINE t == current_tty
<1>1. /\ pc = "save" /\ pc' \in {"wake", "key"} /\ key' = None /\ reg' = 0
      /\ cnt' = [cnt EXCEPT ![t] = reg + 1]
      /\ text' = [text EXCEPT ![t] = IF raced[t] THEN @ ELSE Append(@, key)]
      /\ UNCHANGED <<in, head, tail, current_tty, stat, i, raced, misread>>
  BY DEF SaveInc, Done
<1>2. t \in Ttys /\ key \in Chars /\ reg \in 0 .. BUF - 1 /\ BUF \in Nat \ {0} /\ text[t] \in Seq(Chars)
  BY <1>1, SizeAssumption DEF IInv, TypeOK, Loaded
<1>3. /\ cnt' \in [Ttys -> -1 .. BUF] /\ cnt'[t] = reg + 1
      /\ \A u \in Ttys : u # t => cnt'[u] = cnt[u]
  BY <1>1, <1>2 DEF IInv, TypeOK
<1>4. /\ text' \in [Ttys -> Seq(Chars)] /\ (~raced[t] => text'[t] = Append(text[t], key))
      /\ \A u \in Ttys : u # t => text'[u] = text[u]
  BY <1>1, <1>2 DEF IInv, TypeOK
<1>5. TypeOK'
  BY <1>1, <1>2, <1>3, <1>4 DEF IInv, TypeOK
<1>6. Loaded'
  BY <1>1 DEF Loaded
<1>7. ASSUME Followed(t)' PROVE HoldsText(t)' /\ HeadBehind(t)'
  <2>1. Followed(t) /\ HoldsText(t) /\ HeadBehind(t) /\ tail[t] < BUF /\ ~raced[t]
    BY <1>1, <1>2, <1>7 DEF IInv, Ring, Followed
  <2>2. /\ reg = cnt[t] /\ head[t] = Next1(Place(t, reg)) /\ in[t][Place(t, reg)] = key
        /\ Len(text[t]) = reg /\ cnt'[t] = reg + 1
    BY <1>1, <1>3, <2>1 DEF HeadBehind, HoldsText
  <2>3. \A n : Place(t, n)' = Place(t, n)
    BY <1>1 DEF Place
  <2>4. HoldsText(t)'
    <3>1. /\ Len(text'[t]) = reg + 1 /\ text'[t][reg + 1] = key
          /\ \A n \in 1 .. reg : text'[t][n] = text[t][n]
      BY <1>2, <1>4, <2>1, <2>2
    <3>2. \A n \in 1 .. reg + 1 : n \in 1 .. reg \/ n = reg + 1
      BY <1>2
    <3>3. \A n \in 1 .. reg + 1 : text'[t][n] = in[t][Place(t, n - 1)]
      <4> TAKE n \in 1 .. reg + 1
      <4>1. CASE n \in 1 .. reg
        BY <2>1, <2>2, <3>1, <4>1 DEF HoldsText
      <4>2. CASE n = reg + 1
        <5>1. n - 1 = reg
          BY <1>2, <4>2
        <5> QED
          BY <2>2, <3>1, <4>2, <5>1
      <4> QED
        BY <3>2, <4>1, <4>2
    <3>4. reg + 1 \in 0 .. BUF
      BY <1>2
    <3>5. cnt'[t] \in 0 .. BUF /\ Len(text'[t]) = cnt'[t]
      BY <2>2, <3>1, <3>4
    <3>6. \A n \in 1 .. cnt'[t] : text'[t][n] = in'[t][Place(t, n - 1)']
      BY <1>1, <2>2, <2>3, <3>3
    <3> QED
      BY <1>1, <3>5, <3>6 DEF HoldsText
  <2>5. HeadBehind(t)'
    <3>1. head[t] = Place(t, reg + 1)
      BY <1>2, <2>1, <2>2, Places DEF IInv
    <3> QED
      BY <1>1, <2>2, <2>3, <3>1 DEF HeadBehind
  <2> QED
    BY <2>4, <2>5
<1>8. \A u \in Ttys : Ring(u)'
  BY <1>1, <1>3, <1>4, <1>7, OthersKept DEF Ring
<1> QED
  BY <1>1, <1>5, <1>6, <1>8 DEF IInv

\* A backspace takes the last character back: head first,
LEMMA StepBackInv ==
    ASSUME IInv, StepBack
    PROVE  IInv'
<1> DEFINE t == current_tty
<1>1. /\ pc = "back" /\ pc' = "savedec" /\ reg' = cnt[t] /\ head' = [head EXCEPT ![t] = Prev1(@)]
      /\ UNCHANGED <<in, tail, cnt, current_tty, stat, key, i, text, raced, misread>>
  BY DEF StepBack, history
<1>2. t \in Ttys /\ head[t] \in Cells /\ BUF \in Nat \ {0}
  BY SizeAssumption DEF IInv, TypeOK
<1>3. /\ head' \in [Ttys -> Cells] /\ head'[t] = Prev1(head[t])
      /\ \A u \in Ttys : u # t => head'[u] = head[u]
  <2>1. Prev1(head[t]) \in Cells
    BY <1>2 DEF Prev1, Cells
  <2> QED
    BY <1>1, <1>2, <2>1 DEF IInv, TypeOK
<1>4. reg' \in -1 .. BUF
  BY <1>1, <1>2 DEF IInv, TypeOK
<1>5. TypeOK' /\ Loaded'
  BY <1>1, <1>3, <1>4 DEF IInv, TypeOK, Loaded
<1>6. ASSUME Followed(t)' PROVE HoldsText(t)' /\ HeadBehind(t)'
  <2>1. Followed(t) /\ HoldsText(t) /\ HeadBehind(t)
    BY <1>1, <1>2, <1>6 DEF IInv, Ring, Followed
  <2>2. \A n : Place(t, n)' = Place(t, n)
    BY <1>1 DEF Place
  <2>3. HoldsText(t)'
    BY <1>1, <2>1, <2>2 DEF HoldsText
  <2>4. HeadBehind(t)'
    BY <1>1, <1>3, <2>1, <2>2 DEF HeadBehind
  <2> QED
    BY <2>3, <2>4
<1>7. \A u \in Ttys : Ring(u)'
  BY <1>1, <1>3, <1>6, OthersKept DEF Ring
<1> QED
  BY <1>1, <1>5, <1>7 DEF IInv

\* then cnt.
LEMMA SaveDecInv ==
    ASSUME IInv, SaveDec
    PROVE  IInv'
<1> DEFINE t == current_tty
<1>1. /\ pc = "savedec" /\ pc' \in {"wake", "key"} /\ key' = None /\ reg' = 0
      /\ cnt' = [cnt EXCEPT ![t] = IF reg < 0 THEN reg ELSE reg - 1]
      /\ text' = [text EXCEPT ![t] = IF raced[t] THEN @ ELSE Front(@)]
      /\ UNCHANGED <<in, head, tail, current_tty, stat, i, raced, misread>>
  BY DEF SaveDec, Done
<1>2. t \in Ttys /\ reg \in -1 .. BUF /\ BUF \in Nat \ {0} /\ text[t] \in Seq(Chars)
  BY SizeAssumption DEF IInv, TypeOK
<1>3. /\ cnt' \in [Ttys -> -1 .. BUF] /\ (reg >= 0 => cnt'[t] = reg - 1)
      /\ \A u \in Ttys : u # t => cnt'[u] = cnt[u]
  BY <1>1, <1>2 DEF IInv, TypeOK
<1>4. Front(text[t]) \in Seq(Chars)
      /\ (text[t] # <<>> => /\ Len(Front(text[t])) = Len(text[t]) - 1
                            /\ \A n \in 1 .. Len(text[t]) - 1 : Front(text[t])[n] = text[t][n])
  BY <1>2 DEF Front
<1>5. /\ text' \in [Ttys -> Seq(Chars)] /\ (~raced[t] => text'[t] = Front(text[t]))
      /\ \A u \in Ttys : u # t => text'[u] = text[u]
  BY <1>1, <1>2, <1>4 DEF IInv, TypeOK
<1>6. TypeOK' /\ Loaded'
  BY <1>1, <1>2, <1>3, <1>5 DEF IInv, TypeOK, Loaded
<1>7. ASSUME Followed(t)' PROVE HoldsText(t)' /\ HeadBehind(t)'
  <2>1. Followed(t) /\ HoldsText(t) /\ HeadBehind(t) /\ tail[t] < BUF /\ ~raced[t]
    BY <1>1, <1>2, <1>7 DEF IInv, Ring, Followed
  <2>2. /\ reg = cnt[t] /\ reg >= 1 /\ head[t] = Prev1(Place(t, reg)) /\ Len(text[t]) = reg
        /\ reg \in 1 .. BUF
    BY <1>1, <1>2, <2>1 DEF HeadBehind, HoldsText
  <2>3. \A n : Place(t, n)' = Place(t, n)
    BY <1>1 DEF Place
  <2>4. text[t] # <<>> /\ cnt'[t] = reg - 1
    BY <1>3, <2>2
  <2>5. Len(text'[t]) = reg - 1 /\ \A n \in 1 .. reg - 1 : text'[t][n] = text[t][n]
    BY <1>4, <1>5, <2>1, <2>2, <2>4
  <2>6. HoldsText(t)'
    <3>1. \A n \in 1 .. reg - 1 : n \in 1 .. reg
      BY <1>2
    <3>2. \A n \in 1 .. cnt'[t] : text'[t][n] = in'[t][Place(t, n - 1)']
      BY <1>1, <2>1, <2>2, <2>3, <2>4, <2>5, <3>1 DEF HoldsText
    <3>3. cnt'[t] \in 0 .. BUF /\ Len(text'[t]) = cnt'[t]
      BY <1>2, <2>2, <2>4, <2>5
    <3> QED
      BY <1>1, <3>2, <3>3 DEF HoldsText
  <2>7. HeadBehind(t)'
    <3>1. head[t] = Place(t, reg - 1)
      BY <1>2, <2>1, <2>2, Places DEF IInv
    <3> QED
      BY <1>1, <2>3, <2>4, <3>1 DEF HeadBehind
  <2> QED
    BY <2>6, <2>7
<1>8. \A u \in Ttys : Ring(u)'
  BY <1>1, <1>3, <1>5, <1>7, OthersKept DEF Ring
<1> QED
  BY <1>1, <1>6, <1>8 DEF IInv

\* Steps that leave the rings alone.
LEMMA OtherStepsInv ==
    ASSUME IInv, \/ Wake
                 \/ \E t \in Ttys : SwitchTty(t)
                 \/ \E p \in Pids : StdRead(p)
    PROVE  IInv'
<1>1. UNCHANGED <<in, head, tail, cnt, key, reg, text, raced, misread>>
  BY DEF Wake, SwitchTty, StdRead, rings, driver, history
<1>2. /\ stat' \in [Pids -> {"user", "WAITING_INPUT", "READY"}] /\ i' \in 0 .. PROC_MAX_CNT - 1
      /\ current_tty' \in Ttys
      /\ \/ pc = "wake" /\ pc' \in {"wake", "key"} /\ current_tty' = current_tty
         \/ pc' = pc /\ (pc = "key" \/ current_tty' = current_tty)
  <2>1. CASE Wake
    <3>1. /\ stat' = [stat EXCEPT ![i] = IF Woken(i) THEN "READY" ELSE @]
          /\ \/ i >= PROC_MAX_CNT - 1 /\ pc' = "key" /\ i' = 0
             \/ i < PROC_MAX_CNT - 1 /\ pc' = "wake" /\ i' = i + 1
          /\ pc = "wake" /\ UNCHANGED current_tty
          /\ i \in 0 .. PROC_MAX_CNT - 1 /\ current_tty \in Ttys
      BY <2>1, TtyAssumption DEF Wake, LastSlot, IInv, TypeOK
    <3>2. i' \in 0 .. PROC_MAX_CNT - 1
      BY <3>1, TtyAssumption
    <3>3. stat' \in [Pids -> {"user", "WAITING_INPUT", "READY"}]
      BY <3>1 DEF IInv, TypeOK
    <3> QED
      BY <3>1, <3>2, <3>3
  <2>2. CASE \E t \in Ttys : SwitchTty(t)
    BY <2>2 DEF SwitchTty, driver, IInv, TypeOK
  <2>3. CASE \E p \in Pids : StdRead(p)
    BY <2>3 DEF StdRead, driver, IInv, TypeOK
  <2> QED
    BY <2>1, <2>2, <2>3
<1>3. TypeOK'
  BY <1>1, <1>2 DEF IInv, TypeOK
<1>4. Loaded'
  BY <1>1, <1>2 DEF IInv, Loaded
<1>5. \A t \in Ttys : Ring(t)'
  BY <1>1, <1>2, RingKept DEF IInv
<1> QED
  BY <1>1, <1>3, <1>4, <1>5 DEF IInv

\* sys_std_read takes the line and throws the rest away; what was typed on a ring that
\* is still followed is what it takes.
LEMMA StdReadReturnInv ==
    ASSUME IInv, NEW p \in Pids, StdReadReturn(p)
    PROVE  IInv'
<1> DEFINE line == Line(Contents(TtyOf[p]))
<1>1. PICK t \in Ttys : t = TtyOf[p]
  BY TtyAssumption
<1>2. /\ tail[t] < BUF /\ cnt[t] >= 0 /\ ~raced[t]
      /\ stat' = [stat EXCEPT ![p] = "user"]
      /\ tail' = [tail EXCEPT ![t] = TailAfter(t, Len(line))]
      /\ cnt' = [cnt EXCEPT ![t] = 0]
      /\ raced' = [raced EXCEPT ![t] = raced[t] \/ MidWork(t)]
      /\ text' = [text EXCEPT ![t] = <<>>]
      /\ misread' = (misread \/ (~raced'[t] /\ line # Line(text[t])))
      /\ UNCHANGED <<in, head, current_tty, pc, key, reg, i>>
  BY <1>1 DEF StdReadReturn, Sound, driver
<1>3. HoldsText(t) /\ HeadBehind(t) /\ ~misread /\ TypeOK
  BY <1>2 DEF IInv, Ring, Followed
<1>4. BUF \in Nat \ {0} /\ tail[t] \in 0 .. BUF - 1 /\ cnt[t] \in 0 .. BUF
  BY <1>2, <1>3, SizeAssumption DEF TypeOK, HoldsText
<1>5. Contents(t) = text[t] /\ text[t] \in Seq(Chars) /\ Len(text[t]) = cnt[t]
  BY <1>2, <1>3, ContentsText DEF TypeOK, HoldsText
<1>6. PICK k \in 0 .. BUF : k = Len(line) /\ k <= cnt[t]
  BY <1>1, <1>4, <1>5, LineShorter
<1>7. ~misread'
  BY <1>1, <1>2, <1>3, <1>5
<1> HIDE DEF line
<1>8. /\ TailAfter(t, k) = Place(t, k) + (cnt[t] - k)
      /\ TailAfter(t, k) \in 0 .. 2 * BUF - 1
      /\ TailAfter(t, k) < BUF => TailAfter(t, k) = Place(t, cnt[t])
  <2>1. TailAfter(t, k) = Place(t, k) + (cnt[t] - k)
    BY <1>2, <1>3, <1>6, Places DEF TailAfter
  <2>2. Place(t, k) \in 0 .. BUF - 1
    BY <1>2, <1>3, <1>6, Places DEF Cells
  <2>3. TailAfter(t, k) < BUF => TailAfter(t, k) = Place(t, cnt[t])
    BY <1>4, <1>6, <2>1 DEF Place
  <2> QED
    BY <1>4, <1>6, <2>1, <2>2, <2>3
<1>9. /\ tail' \in [Ttys -> 0 .. 2 * BUF - 1] /\ tail'[t] = TailAfter(t, k)
      /\ \A u \in Ttys : u # t => tail'[u] = tail[u]
  BY <1>2, <1>3, <1>6, <1>8 DEF TypeOK
<1>10. /\ cnt' \in [Ttys -> -1 .. BUF] /\ cnt'[t] = 0
       /\ \A u \in Ttys : u # t => cnt'[u] = cnt[u]
  BY <1>2, <1>3, <1>4 DEF TypeOK
<1>11. /\ text' \in [Ttys -> Seq(Chars)] /\ text'[t] = <<>>
       /\ \A u \in Ttys : u # t => text'[u] = text[u]
  BY <1>2, <1>3 DEF TypeOK
<1>12. /\ raced' \in [Ttys -> BOOLEAN] /\ (MidWork(t) => raced'[t])
       /\ \A u \in Ttys : u # t => raced'[u] = raced[u]
  <2>1. (raced[t] \/ MidWork(t)) \in BOOLEAN
    OBVIOUS
  <2> DEFINE r == raced[t] \/ MidWork(t)
  <2>2. raced' = [raced EXCEPT ![t] = r] /\ (MidWork(t) => r) /\ r \in BOOLEAN
    BY <1>2, <2>1
  <2> HIDE DEF r
  <2>3. raced' \in [Ttys -> BOOLEAN] /\ raced'[t] = r
    BY <1>3, <2>2 DEF TypeOK
  <2>4. \A u \in Ttys : u # t => raced'[u] = raced[u]
    BY <1>3, <2>2 DEF TypeOK
  <2> QED
    BY <2>2, <2>3, <2>4
<1>13. TypeOK'
  <2>1. stat' \in [Pids -> {"user", "WAITING_INPUT", "READY"}]
    BY <1>2, <1>3 DEF TypeOK
  <2>2. misread' \in BOOLEAN
    BY <1>2, <1>3 DEF TypeOK
  <2> QED
    BY <1>2, <1>3, <1>9, <1>10, <1>11, <1>12, <2>1, <2>2 DEF TypeOK
<1>14. Loaded'
  <2>1. pc = "store" => cnt'[current_tty] \in 0 .. BUF - 1
    <3>1. current_tty \in Ttys
      BY <1>3 DEF TypeOK
    <3> QED
      BY <1>4, <1>10, <3>1 DEF IInv, Loaded
  <2> QED
    BY <1>2, <2>1 DEF IInv, Loaded
<1>15. ASSUME Followed(t)' PROVE HoldsText(t)' /\ HeadBehind(t)'
  <2>1. ~MidWork(t) /\ tail'[t] = Place(t, cnt[t])
    BY <1>8, <1>9, <1>12, <1>15 DEF Followed
  <2>2. head[t] = tail'[t]
    BY <1>3, <2>1 DEF HeadBehind, MidWork
  <2>3. Place(t, 0)' = tail'[t]
    BY <1>4, <1>8, <1>9, <1>15 DEF Place, Followed
  <2>4. HoldsText(t)'
    BY <1>4, <1>10, <1>11 DEF HoldsText
  <2>5. HeadBehind(t)'
    BY <1>2, <1>10, <2>1, <2>2, <2>3 DEF HeadBehind, MidWork
  <2> QED
    BY <2>4, <2>5
<1>16. ASSUME NEW u \in Ttys, u # t PROVE Ring(u)'
  BY <1>2, <1>9, <1>10, <1>11, <1>12, <1>16, RingKept DEF IInv
<1>17. \A u \in Ttys : Ring(u)'
  BY <1>15, <1>16 DEF Ring
<1> QED
  BY <1>7, <1>13, <1>14, <1>17 DEF IInv

LEMMA NextInv == IInv /\ [Next]_vars => IInv'
<1> SUFFICES ASSUME IInv, [Next]_vars PROVE IInv'
  OBVIOUS
<1>1. CASE UNCHANGED vars
  <2>1. /\ UNCHANGED <<in, head, tail, cnt, current_tty, stat, pc, key, reg, i, text, raced, misread>>
    BY <1>1 DEF vars, rings, driver, history
  <2>2. \A t \in Ttys : Ring(t)'
    BY <2>1, RingKept DEF IInv
  <2> QED
    BY <2>1, <2>2 DEF IInv, TypeOK, Loaded
<1>2. CASE Next
  BY <1>2, PressCharInv, PressBackspaceInv, StoreCharInv, SaveIncInv, StepBackInv, SaveDecInv,
     OtherStepsInv, StdReadReturnInv DEF Next, Driver
<1> QED
  BY <1>1, <1>2

LEMMA Invariance == Spec => []IInv
BY InitInv, NextInv, PTL DEF Spec

-----------------------------------------------------------------------------
(* The theorems.                                                           *)

\* put_tty_in_buffer and sys_std_read: while no read came into the driver's work and
\* tail has not left the ring, the ring of each terminal holds just what was typed on it
\* and not read, for any interleaving of the driver and the readers.
THEOREM RingsHoldTheText == Spec => []RingIsText
<1>1. IInv => RingIsText
  <2> SUFFICES ASSUME IInv, NEW t \in Ttys, Sound(t) PROVE Contents(t) = text[t]
    BY DEF IInv, RingIsText
  <2>1. TypeOK /\ tail[t] < BUF /\ HoldsText(t)
    BY DEF IInv, Sound, Ring, Followed
  <2> QED
    BY <2>1, ContentsText
<1> QED
  BY <1>1, Invariance, PTL

\* A read returns the line that was typed on the reader's terminal, up to Enter or to
\* what it asked for, wherever the driver was preempted (while the ring is followed).
THEOREM ReadsReturnTheLine == Spec => []ReadsWhatWasTyped
<1>1. IInv => ReadsWhatWasTyped
  BY DEF IInv, ReadsWhatWasTyped
<1> QED
  BY <1>1, Invariance, PTL

-----------------------------------------------------------------------------
(* Screen: the inductive invariant.                                        *)

\* What a run is about fits its place in the code.
RunFits(a) ==
    LET r == run[a]
        end == Area(r.tty) + SIZE
    IN
    /\ a = "call" => r.reg = CURSOR
    /\ r.at \in {"draw", "roll", "keep"} => r.reg = CURSOR
    /\ r.at = "read" => r.reg = START
    /\ r.at = "draw" => r.cell < end /\ r.pos <= end
    /\ r.at = "roll" => r.pos = end
    /\ r.at \notin {"draw", "roll"} => r.pos < end
    /\ a = "driver" /\ Busy(a) => r.tty = current_tty
    /\ r.at \in {"high index", "high", "low index", "low", "read"} => r.tty = current_tty

\* The driver outputs to terminal t, or a system call does.
Writes(a, t) == HoldsCursor(a) /\ run[a].tty = t

\* A sheet of which n characters have been output at most: it is blank from its
\* end on, and its end is on the last HEIGHT rows.
IsSheet(s, n) ==
    /\ s.text \in [0 .. Rows * WIDTH -> 0 .. MaxOutput] /\ s.at \in Nat /\ s.top \in Nat
    /\ s.top * WIDTH <= s.at /\ s.at < (s.top + HEIGHT) * WIDTH
    /\ s.top <= n
    /\ \A c \in 0 .. Rows * WIDTH : s.at <= c => s.text[c] = Blank

\* The area of terminal t shows the sheet from row top on, but for cell x.
ShowsFrom(t, top, x) ==
    \A c \in 0 .. SIZE - 1 : c # x => video[Area(t) + c] = sheet[t].text[top * WIDTH + c]

\* The terminals the invariant follows.
Kept(t) == t \notin lost /\ (t = 0 \/ sheet[t].top = 0)

\* What run a has still to do makes the screen of terminal t show its sheet: draw
\* a cell, roll by a row, move the cursor.
Completes(a, t) ==
    LET r == run[a]
        s == sheet[t]
        top == IF Overflows(t, r.pos) THEN s.top - 1 ELSE s.top
    IN
    /\ top \in Nat
    /\ r.pos = s.at - top * WIDTH
    /\ ShowsFrom(t, top, IF r.at = "draw" THEN r.cell ELSE SIZE)
    /\ r.at = "draw" => r.cell < SIZE /\ r.n = s.text[top * WIDTH + r.cell]

\* What the screen of terminal t is.
ScreenOf(t) ==
    Kept(t) =>
        /\ ~(Writes("driver", t) /\ Writes("call", t))
        /\ \A a \in Runners : Writes(a, t) => Completes(a, t)
        /\ ~Writes("driver", t) /\ ~Writes("call", t) =>
             pos[t] = sheet[t].at - sheet[t].top * WIDTH /\ ShowsFrom(t, sheet[t].top, SIZE)

\* What run a has sent to its pair of registers.
Sent(a) ==
    LET r == run[a] IN
    /\ r.at = "high" => index = r.reg
    /\ r.at = "low" => index = r.reg + 1
    /\ r.at \in {"low index", "low", "read", "keep"} /\ r.tty = current_tty =>
         data[r.reg] = Number(r) \div BYTE
    /\ r.at \in {"read", "keep"} /\ r.tty = current_tty => data[r.reg + 1] = Number(r) % BYTE

Pair(x, n) == data[x] * BYTE + data[x + 1] = n

Sends(a, x) == Busy(a) /\ run[a].reg = x

\* A system call on the terminal shown, which sends its cursor.
CallSends == Busy("call") /\ run["call"].tty = current_tty

\* The driver's registers are as it sent them unless they got mixed up; a system
\* call on the terminal shown mixes up what the driver is sending.
DriverSent == \A x \in {START, CURSOR} : Sends("driver", x) /\ x \notin torn => Sent("driver")
CallTears ==
    CallSends => /\ Sends("driver", CURSOR) => CURSOR \in torn
                 /\ run["driver"].at \in {"high", "low"} => run["driver"].reg \in torn

\* Who sends a cursor does not touch the start of the picture.
CursorIndex ==
    \A a \in Runners : Sends(a, CURSOR) /\ run[a].at \in {"high", "low index", "low"} =>
        index \in {14, 15}

StartSet == ~Sends("driver", START) /\ START \notin torn => Pair(START, Area(current_tty))
CursorSet ==
    ~Busy("driver") /\ ~CallSends /\ CURSOR \notin torn =>
        Pair(CURSOR, Area(current_tty) + pos[current_tty])

Ports == Sent("call") /\ DriverSent /\ CallTears /\ CursorIndex /\ StartSet /\ CursorSet

Fits == ScreenTypeOK /\ \A a \in Runners : RunFits(a)
Sheets == DOMAIN sheet = Ttys /\ \A t \in Ttys : IsSheet(sheet[t], written)
Screens == \A t \in Ttys : ScreenOf(t)
ScreenInv == Fits /\ Sheets /\ Screens /\ Ports

-----------------------------------------------------------------------------
(* Arithmetic of rows, cells and tab stops.                                *)

LEMMA Multiples ==
    ASSUME NEW w \in Nat \ {0}, NEW a \in Int, NEW b \in Int
    PROVE  (a < b <=> a * w < b * w) /\ (a <= b <=> a * w <= b * w)
<1>1. ASSUME NEW x \in Int, NEW y \in Int, x < y PROVE x * w < y * w
  <2> DEFINE d == y - x
  <2>1. d \in Nat /\ d >= 1 /\ y = x + d BY <1>1
  <2> HIDE DEF d
  <2>2. y * w = x * w + d * w BY <2>1
  <2>3. d * w >= 1 BY <2>1
  <2> QED BY <2>1, <2>2, <2>3
<1>2. a < b => a * w < b * w BY <1>1
<1>3. b < a => b * w < a * w BY <1>1
<1>4. a = b => a * w = b * w OBVIOUS
<1>5. a * w \in Int /\ b * w \in Int OBVIOUS
<1> QED BY <1>2, <1>3, <1>4, <1>5

\* Quotient and remainder are what they are.
LEMMA Quotient ==
    ASSUME NEW w \in Nat \ {0}, NEW q \in Int, NEW r \in 0 .. w - 1, NEW m, m = q * w + r
    PROVE  m \div w = q /\ m % w = r
<1>1. m \in Int OBVIOUS
<1> DEFINE d == m \div w
           e == m % w
<1>2. d \in Int /\ e \in 0 .. w - 1 /\ m = d * w + e BY <1>1
<1> HIDE DEF d, e
<1>3. d * w < (q + 1) * w /\ q * w < (d + 1) * w BY <1>2
<1>4. d < q + 1 /\ q < d + 1 BY <1>2, <1>3, Multiples
<1>5. d = q BY <1>2, <1>4
<1> QED BY <1>2, <1>5 DEF d, e

LEMMA Divided ==
    ASSUME NEW p \in Nat, NEW w \in Nat \ {0}
    PROVE  p \div w \in Nat /\ p % w \in 0 .. w - 1 /\ p = (p \div w) * w + (p % w)
<1>1. p \div w \in Nat OBVIOUS
<1>2. p % w \in 0 .. w - 1 OBVIOUS
<1>3. p = (p \div w) * w + (p % w)
  <2> DEFINE d == p \div w
             e == p % w
  <2>1. p = d * w + e OBVIOUS
  <2> QED BY <2>1
<1> QED BY <1>1, <1>2, <1>3, Zenon

LEMMA Areas ==
    /\ WIDTH \in Nat \ {0} /\ HEIGHT \in Nat \ {0} /\ MaxOutput \in Nat
    /\ SIZE \in Nat \ {0} /\ WIDTH <= SIZE
    /\ Area(0) = 0 /\ Area(1) = SIZE
    /\ \A t \in Ttys : Area(t) \in Nat /\ Area(t) + SIZE = ((t + 1) * HEIGHT) * WIDTH /\ Area(t) <= SIZE
<1>1. WIDTH \in Nat \ {0} /\ HEIGHT \in Nat \ {0} /\ MaxOutput \in Nat BY AreaAssumption
<1>2. SIZE \in Nat \ {0} /\ WIDTH <= SIZE /\ SIZE = HEIGHT * WIDTH BY <1>1 DEF SIZE
<1>3. Area(0) = 0 /\ Area(1) = SIZE BY <1>2 DEF Area
<1> QED BY <1>1, <1>2, <1>3 DEF Ttys

\* The next tab stop and the next row are not behind the end of a row.
LEMMA NextStop ==
    ASSUME NEW m \in Nat, NEW p \in Nat, p < m * WIDTH
    PROVE  /\ (p \div WIDTH + 1) * WIDTH \in Nat /\ (p \div WIDTH + 1) * WIDTH <= m * WIDTH
           /\ (p \div TAB + 1) * TAB \in Nat /\ (p \div TAB + 1) * TAB <= m * WIDTH
<1>1. WIDTH \in Nat \ {0} /\ TAB \in Nat \ {0} BY AreaAssumption, TabAssumption
<1>2. ASSUME NEW w \in Nat \ {0}, NEW n \in Nat, p < n * w
      PROVE  (p \div w + 1) * w \in Nat /\ (p \div w + 1) * w <= n * w
  <2> DEFINE d == p \div w
  <2>1. d \in Nat /\ d * w <= p /\ d * w \in Int /\ n * w \in Int
    <3> DEFINE e == p % w
    <3>1. d \in Nat /\ e \in 0 .. w - 1 /\ p = d * w + e BY Divided
    <3> HIDE DEF d, e
    <3> QED BY <3>1
  <2> HIDE DEF d
  <2>2. d * w < n * w BY <1>2, <2>1
  <2>3. d < n BY <2>1, <2>2, Multiples
  <2>4. d + 1 \in Int /\ d + 1 <= n BY <2>1, <2>3
  <2>5. (d + 1) * w <= n * w BY <2>4, Multiples
  <2>6. (d + 1) * w \in Nat BY <2>1
  <2> QED BY <2>5, <2>6 DEF d
<1>3. PICK q \in Nat : WIDTH = q * TAB
  <2>1. WIDTH \div TAB \in Nat /\ WIDTH = (WIDTH \div TAB) * TAB BY <1>1, TabAssumption
  <2> QED BY <2>1
<1>4. m * WIDTH = (m * q) * TAB /\ m * q \in Nat BY <1>1, <1>3
<1>5. (p \div TAB + 1) * TAB \in Nat /\ (p \div TAB + 1) * TAB <= (m * q) * TAB BY <1>1, <1>2, <1>4
<1> QED BY <1>1, <1>2, <1>4, <1>5

\* Where the cursor goes: not behind the end of the area, and further on than it
\* was unless it is a backspace.
LEMMA MovedFits ==
    ASSUME NEW t \in Ttys, NEW p \in Nat, p < Area(t) + SIZE, NEW k \in Kinds
    PROVE  /\ Moved(k, p) \in Nat /\ Moved(k, p) <= Area(t) + SIZE
           /\ k = "back" => Moved(k, p) <= p
<1>1. /\ WIDTH \in Nat /\ HEIGHT \in Nat /\ Area(t) \in Nat /\ SIZE \in Nat
      /\ Area(t) + SIZE = ((t + 1) * HEIGHT) * WIDTH
  BY Areas
<1> DEFINE m == (t + 1) * HEIGHT
<1>2. m \in Nat /\ Area(t) + SIZE = m * WIDTH BY <1>1 DEF Ttys
<1> HIDE DEF m
<1>3. /\ (p \div WIDTH + 1) * WIDTH \in Nat /\ (p \div WIDTH + 1) * WIDTH <= Area(t) + SIZE
      /\ (p \div TAB + 1) * TAB \in Nat /\ (p \div TAB + 1) * TAB <= Area(t) + SIZE
  BY <1>2, NextStop
<1>4. CASE k = "nl" BY <1>3, <1>4 DEF Moved
<1>5. CASE k = "tab" BY <1>3, <1>5 DEF Moved
<1>6. CASE k = "back" BY <1>1, <1>6 DEF Moved
<1>7. CASE k = "char" BY <1>1, <1>7 DEF Moved
<1> QED BY <1>4, <1>5, <1>6, <1>7 DEF Kinds

-----------------------------------------------------------------------------
(* What one character more makes of a sheet.                               *)

\* The place where the text ends, counted from the first row shown, moves like
\* the cursor.
LEMMA EndMoves ==
    ASSUME NEW s, s.at \in Nat, s.top \in Nat, s.top * WIDTH <= s.at, NEW k \in Kinds
    PROVE  EndAfter(s, k) = s.top * WIDTH + Moved(k, s.at - s.top * WIDTH)
<1> DEFINE at == s.at
           top == s.top
           row == at \div WIDTH
           col == at % WIDTH
           p == at - top * WIDTH
           new == EndAfter(s, k)
<1>1. at \in Nat /\ top \in Nat /\ top * WIDTH <= at OBVIOUS
<1>2. new = CASE k = "nl" -> (row + 1) * WIDTH
              [] k = "tab" -> row * WIDTH + (col \div TAB + 1) * TAB
              [] k = "back" -> IF at > top * WIDTH THEN at - 1 ELSE at
              [] k = "char" -> at + 1
  BY Zenon DEF EndAfter
<1> SUFFICES new = top * WIDTH + Moved(k, p)
  BY Zenon
<1> HIDE DEF at, top, new
<1>3. WIDTH \in Nat \ {0} /\ TAB \in Nat \ {0} BY AreaAssumption, TabAssumption
<1>4. row \in Nat /\ col \in 0 .. WIDTH - 1 /\ at = row * WIDTH + col BY <1>1, <1>3, Divided
<1>5. top * WIDTH \in Nat /\ p \in Nat BY <1>1, <1>3
<1> HIDE DEF row, col
<1>6. p = (row - top) * WIDTH + col
  <2>1. (row - top) * WIDTH = row * WIDTH - top * WIDTH BY <1>1, <1>3, <1>4
  <2>2. row * WIDTH \in Int BY <1>3, <1>4
  <2> QED BY <1>4, <1>5, <2>1, <2>2
<1>7. CASE k = "nl"
  <2>1. p \div WIDTH = row - top
    <3>1. row - top \in Int BY <1>1, <1>4
    <3> QED BY <1>3, <1>4, <1>6, <3>1, Quotient
  <2>2. Moved(k, p) = ((row - top) + 1) * WIDTH BY <1>7, <2>1 DEF Moved
  <2>3. (row + 1) * WIDTH = top * WIDTH + ((row - top) + 1) * WIDTH BY <1>1, <1>3, <1>4
  <2> QED BY <1>2, <1>7, <2>2, <2>3
<1>8. CASE k = "tab"
  <2>1. PICK q \in Nat : WIDTH = q * TAB
    <3>1. WIDTH \div TAB \in Nat /\ WIDTH = (WIDTH \div TAB) * TAB + (WIDTH % TAB)
      BY <1>3, Divided
    <3>2. WIDTH = (WIDTH \div TAB) * TAB BY <1>3, <3>1, TabAssumption
    <3> QED BY <3>1, <3>2
  <2> DEFINE stop == col \div TAB
             rest == col % TAB
             rows == row - top
  <2>2. stop \in Nat /\ rest \in 0 .. TAB - 1 /\ col = stop * TAB + rest
    <3>1. col \in Nat BY <1>3, <1>4
    <3> QED BY <1>3, <3>1, Divided
  <2>3. rows \in Int /\ p = rows * WIDTH + col BY <1>1, <1>4, <1>6
  <2> HIDE DEF stop, rest, rows, p
  <2>4. rows * WIDTH = (rows * q) * TAB BY <1>3, <2>1, <2>3
  <2>5. p = (rows * q + stop) * TAB + rest
    <3>1. (rows * q + stop) * TAB = (rows * q) * TAB + stop * TAB BY <1>3, <2>1, <2>2, <2>3
    <3>2. (rows * q) * TAB \in Int /\ stop * TAB \in Int BY <1>3, <2>1, <2>2, <2>3
    <3> QED BY <2>2, <2>3, <2>4, <3>1, <3>2
  <2>6. p \div TAB = rows * q + stop
    <3>1. rows * q + stop \in Int BY <2>1, <2>2, <2>3
    <3> QED BY <1>3, <2>2, <2>5, <3>1, Quotient
  <2>7. Moved(k, p) = ((rows * q + stop) + 1) * TAB BY <1>8, <2>6 DEF Moved
  <2>8. ((rows * q + stop) + 1) * TAB = (rows * q) * TAB + (stop + 1) * TAB
    BY <1>3, <2>1, <2>2, <2>3
  <2>9. row * WIDTH = top * WIDTH + rows * WIDTH BY <1>1, <1>3, <1>4 DEF rows
  <2>10. row * WIDTH + (stop + 1) * TAB = top * WIDTH + Moved(k, p)
    <3>1. /\ rows * WIDTH \in Int /\ (rows * q) * TAB \in Int /\ (stop + 1) * TAB \in Int
          /\ row * WIDTH \in Int
      BY <1>3, <1>4, <2>1, <2>2, <2>3
    <3> QED BY <1>5, <2>4, <2>7, <2>8, <2>9, <3>1
  <2> QED BY <1>2, <1>8, <2>10 DEF stop
<1>9. CASE k = "back"
  <2>1. at > top * WIDTH <=> p > 0 BY <1>1, <1>5
  <2> QED BY <1>1, <1>2, <1>5, <1>9, <2>1 DEF Moved
<1>10. CASE k = "char" BY <1>1, <1>2, <1>5, <1>10 DEF Moved
<1> QED BY <1>7, <1>8, <1>9, <1>10 DEF Kinds


\* The rows are counted so that the end of the text is on the last one shown at
\* most; one character moves it down by a row at most.
LEMMA SheetMoves ==
    ASSUME NEW n \in Nat, NEW s, IsSheet(s, n), NEW k \in Kinds, NEW ch
    PROVE  LET new == TypedOn(s, k, ch)
               p == Moved(k, s.at - s.top * WIDTH)
           IN
           /\ s.at - s.top * WIDTH \in 0 .. SIZE - 1
           /\ p \in 0 .. SIZE
           /\ new.at = s.top * WIDTH + p
           /\ new.top = IF p = SIZE THEN s.top + 1 ELSE s.top
<1> DEFINE p == s.at - s.top * WIDTH
           q == Moved(k, p)
           new == TypedOn(s, k, ch)
           down == (new.at \div WIDTH - HEIGHT) + 1
<1>1. WIDTH \in Nat \ {0} /\ HEIGHT \in Nat \ {0} /\ SIZE \in Nat \ {0} /\ SIZE = HEIGHT * WIDTH
  BY Areas DEF SIZE
<1>2. s.at \in Nat /\ s.top \in Nat /\ s.top * WIDTH <= s.at /\ s.at < (s.top + HEIGHT) * WIDTH
  BY DEF IsSheet
<1>3. s.top * WIDTH \in Nat /\ (s.top + HEIGHT) * WIDTH = s.top * WIDTH + SIZE BY <1>1, <1>2
<1>4. p \in 0 .. SIZE - 1 BY <1>1, <1>2, <1>3
<1>5. q \in 0 .. SIZE
  <2>1. 0 \in Ttys /\ p \in Nat /\ p < Area(0) + SIZE BY <1>1, <1>4, Areas DEF Ttys
  <2>2. Moved(k, p) \in Nat /\ Moved(k, p) <= Area(0) + SIZE BY <2>1, MovedFits
  <2> QED BY <1>1, <2>2, Areas
<1>6. new.at = s.top * WIDTH + q
  <2>1. new.at = EndAfter(s, k) BY DEF TypedOn
  <2> QED BY <1>2, <2>1, EndMoves
<1>7. new.top = IF down > s.top THEN down ELSE s.top BY DEF TypedOn
<1> HIDE DEF p, q, new
<1>8. new.at \in Nat BY <1>3, <1>5, <1>6
<1> DEFINE row == new.at \div WIDTH
           col == new.at % WIDTH
<1>9. row \in Nat /\ col \in 0 .. WIDTH - 1 /\ new.at = row * WIDTH + col BY <1>1, <1>8, Divided
<1>10. down = (row - HEIGHT) + 1 BY <1>1, <1>9
<1> HIDE DEF row, col, down
<1>11. row * WIDTH \in Nat BY <1>1, <1>9
<1>12. CASE q = SIZE
  <2>1. row * WIDTH <= (s.top + HEIGHT) * WIDTH /\ (s.top + HEIGHT) * WIDTH < (row + 1) * WIDTH
    BY <1>1, <1>3, <1>6, <1>9, <1>11, <1>12
  <2>2. row <= s.top + HEIGHT /\ s.top + HEIGHT < row + 1 BY <1>1, <1>2, <1>9, <2>1, Multiples
  <2>3. down = s.top + 1
    <3>1. row \in Int /\ s.top + HEIGHT \in Int BY <1>1, <1>2, <1>9
    <3>2. row = s.top + HEIGHT BY <2>2, <3>1
    <3> QED BY <1>1, <1>2, <1>10, <3>2
  <2> QED BY <1>2, <1>4, <1>5, <1>6, <1>7, <1>12, <2>3 DEF p, q, new
<1>13. CASE q < SIZE
  <2>1. row * WIDTH < (s.top + HEIGHT) * WIDTH BY <1>1, <1>3, <1>5, <1>6, <1>9, <1>11, <1>13
  <2>2. row < s.top + HEIGHT BY <1>1, <1>2, <1>9, <2>1, Multiples
  <2>3. ~(down > s.top) BY <1>1, <1>2, <1>9, <1>10, <2>2
  <2> QED BY <1>2, <1>4, <1>5, <1>6, <1>7, <1>13, <2>3 DEF p, q, new
<1> QED BY <1>1, <1>5, <1>12, <1>13

\* What the character changes on the sheet is a cell of what is shown.
LEMMA SheetDrawn ==
    ASSUME NEW n \in Nat, n < MaxOutput, NEW s, IsSheet(s, n), NEW k \in Kinds, NEW ch \in 1 .. MaxOutput
    PROVE  LET new == TypedOn(s, k, ch)
               p == s.at - s.top * WIDTH
               x == IF k = "back" THEN Moved(k, p) ELSE p
               draws == k = "char" \/ (k = "back" /\ p > 0)
           IN
           /\ IsSheet(new, n + 1)
           /\ x \in 0 .. SIZE - 1
           /\ \A c \in 0 .. Rows * WIDTH : c # s.top * WIDTH + x => new.text[c] = s.text[c]
           /\ ~draws => new.text = s.text
           /\ draws => new.text[s.top * WIDTH + x] = IF k = "char" THEN ch ELSE Blank
<1> DEFINE p == s.at - s.top * WIDTH
           q == Moved(k, p)
           x == IF k = "back" THEN q ELSE p
           new == TypedOn(s, k, ch)
<1>1. WIDTH \in Nat \ {0} /\ HEIGHT \in Nat \ {0} /\ SIZE \in Nat \ {0} /\ MaxOutput \in Nat
  BY Areas
<1>2. /\ s.at \in Nat /\ s.top \in Nat /\ s.top <= n /\ s.text \in [0 .. Rows * WIDTH -> 0 .. MaxOutput]
      /\ \A c \in 0 .. Rows * WIDTH : s.at <= c => s.text[c] = Blank
  BY DEF IsSheet
<1>3. /\ p \in 0 .. SIZE - 1 /\ q \in 0 .. SIZE /\ new.at = s.top * WIDTH + q
      /\ new.top = IF q = SIZE THEN s.top + 1 ELSE s.top
  BY SheetMoves
<1>4. s.top * WIDTH \in Nat /\ s.at = s.top * WIDTH + p
  <2>1. s.top * WIDTH \in Nat BY <1>1, <1>2
  <2> QED BY <1>2, <2>1
<1>5. k = "back" => q = IF p > 0 THEN p - 1 ELSE p BY DEF Moved
<1>6. k = "char" => q = p + 1 BY DEF Moved
<1>7. x \in 0 .. SIZE - 1 BY <1>1, <1>3, <1>5
<1>8. new.text = CASE k = "char" -> [s.text EXCEPT ![s.at] = ch]
                   [] k = "back" -> [s.text EXCEPT ![new.at] = IF new.at < s.at THEN Blank ELSE @]
                   [] OTHER -> s.text
  BY DEF TypedOn
<1>9. Rows * WIDTH \in Nat /\ s.top * WIDTH + SIZE <= Rows * WIDTH
  <2>1. s.top + HEIGHT \in Int /\ Rows \in Int /\ s.top + HEIGHT <= Rows BY <1>1, <1>2 DEF Rows
  <2>2. (s.top + HEIGHT) * WIDTH <= Rows * WIDTH BY <1>1, <2>1, Multiples
  <2>3. (s.top + HEIGHT) * WIDTH = s.top * WIDTH + SIZE BY <1>1, <1>2 DEF SIZE
  <2> QED BY <1>1, <2>1, <2>2, <2>3 DEF Rows
<1> HIDE DEF p, q, new
<1> DEFINE base == s.top * WIDTH
           last == Rows * WIDTH
<1>10. base \in Nat /\ last \in Nat /\ base + SIZE <= last /\ s.at = base + p /\ new.at = base + q
  BY <1>3, <1>4, <1>9
<1> HIDE DEF base
<1>11. /\ new.text \in [0 .. last -> 0 .. MaxOutput]
       /\ \A c \in 0 .. last : c # base + x => new.text[c] = s.text[c]
       /\ ~(k = "char" \/ (k = "back" /\ p > 0)) => new.text = s.text
       /\ k = "char" \/ (k = "back" /\ p > 0) => new.text[base + x] = IF k = "char" THEN ch ELSE Blank
       /\ \A c \in 0 .. last : new.at <= c => new.text[c] = Blank
  <2> HIDE DEF last
  <2>1. CASE k = "char"
    <3>1. new.text = [s.text EXCEPT ![s.at] = ch] /\ x = p /\ q = p + 1 BY <1>6, <1>8, <2>1
    <3>2. s.at \in 0 .. last BY <1>1, <1>3, <1>10
    <3>3. s.text \in [0 .. last -> 0 .. MaxOutput] BY <1>2 DEF last
    <3>4. new.text \in [0 .. last -> 0 .. MaxOutput]
      <4>1. ch \in 0 .. MaxOutput BY <1>1
      <4> QED BY <3>1, <3>3, <4>1
    <3>5. \A c \in 0 .. last : new.text[c] = IF c = s.at THEN ch ELSE s.text[c] BY <3>1, <3>3
    <3>6. \A c \in 0 .. last : s.at <= c => s.text[c] = Blank BY <1>2 DEF last
    <3> QED BY <1>3, <1>10, <2>1, <3>1, <3>2, <3>4, <3>5, <3>6
  <2>2. CASE k = "back"
    <3>1. new.text = [s.text EXCEPT ![new.at] = IF new.at < s.at THEN Blank ELSE @] /\ x = q
      BY <1>8, <2>2
    <3>2. new.at \in 0 .. last BY <1>1, <1>3, <1>5, <1>10, <2>2
    <3>3. s.text \in [0 .. last -> 0 .. MaxOutput] BY <1>2 DEF last
    <3>4. 0 \in 0 .. MaxOutput /\ s.text[new.at] \in 0 .. MaxOutput
      <4>1. s.text[new.at] \in 0 .. MaxOutput BY <3>2, <3>3
      <4> QED BY <1>1, <4>1
    <3>5. new.text \in [0 .. last -> 0 .. MaxOutput] BY <3>1, <3>3, <3>4 DEF Blank
    <3>6. \A c \in 0 .. last : new.text[c] =
              IF c = new.at /\ new.at < s.at THEN Blank ELSE s.text[c]
      BY <3>1, <3>3
    <3>7. \A c \in 0 .. last : s.at <= c => s.text[c] = Blank BY <1>2 DEF last
    <3>8. new.at < s.at <=> p > 0 BY <1>3, <1>5, <1>10, <2>2
    <3>9. ~(p > 0) => new.text = s.text
      <4> SUFFICES ASSUME ~(p > 0) PROVE new.text = s.text
        OBVIOUS
      <4>1. \A c \in 0 .. last : new.text[c] = s.text[c] BY <3>6, <3>8
      <4>2. new.text = [c \in 0 .. last |-> new.text[c]] BY <3>5
      <4>3. s.text = [c \in 0 .. last |-> s.text[c]] BY <3>3
      <4> QED BY <4>1, <4>2, <4>3, Zenon
    <3>10. \A c \in 0 .. last : new.at <= c => new.text[c] = Blank
      BY <1>3, <1>5, <1>10, <2>2, <3>6, <3>7
    <3> QED BY <1>3, <1>10, <2>2, <3>1, <3>2, <3>5, <3>6, <3>8, <3>9, <3>10
  <2>3. CASE k \in {"nl", "tab"}
    <3>1. new.text = s.text BY <1>8, <2>3
    <3>2. s.text \in [0 .. last -> 0 .. MaxOutput] BY <1>2 DEF last
    <3>3. \A c \in 0 .. last : s.at <= c => s.text[c] = Blank BY <1>2 DEF last
    <3>4. p <= q
      <4>1. p \in Nat /\ WIDTH \in Nat \ {0} /\ TAB \in Nat \ {0} BY <1>1, <1>3, TabAssumption
      <4>2. ASSUME NEW w \in Nat \ {0} PROVE p <= (p \div w + 1) * w
        <5> DEFINE d == p \div w
                   e == p % w
        <5>1. d \in Nat /\ e \in 0 .. w - 1 /\ p = d * w + e BY <4>1, Divided
        <5> HIDE DEF d, e
        <5>2. d * w \in Nat /\ (d + 1) * w = d * w + w BY <5>1
        <5>3. p <= (d + 1) * w BY <5>1, <5>2
        <5> QED BY <5>3 DEF d
      <4>3. p <= (p \div WIDTH + 1) * WIDTH /\ p <= (p \div TAB + 1) * TAB BY <4>1, <4>2, Zenon
      <4>4. CASE k = "nl" BY <4>3, <4>4, Zenon DEF Moved, q
      <4>5. CASE k = "tab"
        <5>1. q = (p \div TAB + 1) * TAB BY <4>5 DEF Moved, q
        <5> QED BY <4>3, <5>1, Zenon
      <4> QED BY <2>3, <4>4, <4>5
    <3>5. s.at <= new.at
      <4>1. base + p <= base + q
        <5>1. p \in Nat /\ q \in Nat BY <1>3
        <5> QED BY <1>10, <3>4, <5>1
      <4> QED BY <1>10, <4>1, Zenon
    <3>6. ASSUME NEW c \in 0 .. last, new.at <= c PROVE new.text[c] = Blank
      <4>1. s.at \in Int /\ new.at \in Int BY <1>3, <1>10
      <4>2. s.at <= c BY <3>5, <3>6, <4>1
      <4> QED BY <3>1, <3>3, <4>2
    <3> QED BY <2>3, <3>1, <3>2, <3>6
  <2> QED BY <2>1, <2>2, <2>3 DEF Kinds
<1>12. new.top \in Nat /\ new.top * WIDTH <= new.at /\ new.at < (new.top + HEIGHT) * WIDTH /\ new.top <= n + 1
  <2>1. new.top \in Nat /\ new.top <= n + 1 BY <1>2, <1>3
  <2>2. SIZE = HEIGHT * WIDTH /\ WIDTH <= SIZE BY Areas DEF SIZE
  <2>3. CASE q = SIZE
    <3>1. new.top = s.top + 1 BY <1>3, <2>3
    <3>2. new.top * WIDTH = base + WIDTH /\ (new.top + HEIGHT) * WIDTH = (base + WIDTH) + SIZE
      <4>1. (s.top + 1) * WIDTH = s.top * WIDTH + WIDTH BY <1>1, <1>2
      <4>2. ((s.top + 1) + HEIGHT) * WIDTH = (s.top * WIDTH + WIDTH) + HEIGHT * WIDTH BY <1>1, <1>2
      <4> QED BY <2>2, <3>1, <4>1, <4>2, Zenon DEF base
    <3> QED BY <1>1, <1>10, <2>1, <2>2, <2>3, <3>2
  <2>4. CASE q # SIZE
    <3>1. new.top = s.top BY <1>3, <2>4
    <3>2. new.top * WIDTH = base /\ (new.top + HEIGHT) * WIDTH = base + SIZE
      BY <1>1, <1>2, <2>2, <3>1 DEF base
    <3> QED BY <1>1, <1>3, <1>10, <2>1, <2>4, <3>2
  <2> QED BY <2>3, <2>4
<1>13. IsSheet(new, n + 1)
  <2>1. new.at \in Nat BY <1>3, <1>10
  <2> QED BY <1>11, <1>12, <2>1 DEF IsSheet, last
<1> QED BY <1>7, <1>11, <1>13 DEF base, last, new, p, q

-----------------------------------------------------------------------------
(* What the runs are about.                                                *)

\* A step of one run leaves the other alone.
LEMMA RunChanges ==
    ASSUME ScreenTypeOK, NEW a \in Runners, NEW r \in RunRecords, run' = [run EXCEPT ![a] = r]
    PROVE  /\ run' \in [Runners -> RunRecords] /\ run'[a] = r
           /\ \A b \in Runners : b # a => run'[b] = run[b]
BY DEF ScreenTypeOK

LEMMA Goes ==
    ASSUME ScreenTypeOK, NEW a \in Runners, NEW place \in Stages, GoTo(a, place)
    PROVE  /\ run' \in [Runners -> RunRecords]
           /\ run'[a].at = place /\ run'[a].tty = run[a].tty /\ run'[a].reg = run[a].reg
           /\ run'[a].cell = run[a].cell /\ run'[a].n = run[a].n /\ run'[a].pos = run[a].pos
           /\ \A b \in Runners : b # a => run'[b] = run[b]
<1>1. run \in [Runners -> RunRecords] BY DEF ScreenTypeOK
<1>2. run' = [run EXCEPT ![a] = [@ EXCEPT !.at = place]] BY DEF GoTo
<1> DEFINE r == [run[a] EXCEPT !.at = place]
<1>3. run[a] \in RunRecords BY <1>1
<1>4. /\ r \in RunRecords /\ r.at = place /\ r.tty = run[a].tty /\ r.reg = run[a].reg
      /\ r.cell = run[a].cell /\ r.n = run[a].n /\ r.pos = run[a].pos
  BY <1>3 DEF RunRecords
<1>5. run' = [run EXCEPT ![a] = r] BY <1>2
<1> HIDE DEF r
<1> QED BY <1>4, <1>5, RunChanges

LEMMA RunIs ==
    ASSUME ScreenTypeOK, NEW a \in Runners
    PROVE  /\ run[a].at \in Stages /\ run[a].tty \in Ttys /\ run[a].reg \in {START, CURSOR}
           /\ run[a].cell \in Nat /\ run[a].n \in 0 .. MaxOutput /\ run[a].pos \in Nat
BY DEF ScreenTypeOK, RunRecords

\* A run that does not move fits its place as long as the terminal shown stays.
LEMMA FitsKept ==
    ASSUME NEW b \in Runners, RunFits(b), run'[b] = run[b], current_tty' = current_tty
    PROVE  RunFits(b)'
BY DEF RunFits, Busy, Area

LEMMA FitsThere ==
    ASSUME NEW a \in Runners, NEW t, run'[a].tty = t, NEW at, run'[a].at = at,
           NEW reg1, run'[a].reg = reg1, NEW p, run'[a].pos = p,
           a = "call" => reg1 = CURSOR,
           at \in {"roll", "keep"} => reg1 = CURSOR,
           at = "read" => reg1 = START,
           at # "draw",
           at = "roll" => p = Area(t) + SIZE,
           at # "roll" => p < Area(t) + SIZE,
           a = "driver" => t = current_tty',
           at \in {"high index", "high", "low index", "low", "read"} => t = current_tty'
    PROVE  RunFits(a)'
BY DEF RunFits, Area

\* The number that is sent fits two bytes.
LEMMA NumberFits ==
    ASSUME ScreenTypeOK, NEW a \in Runners, run[a].pos < Area(run[a].tty) + SIZE
    PROVE  /\ Number(run[a]) \in Nat
           /\ Number(run[a]) \div BYTE \in 0 .. BYTE - 1
           /\ Number(run[a]) % BYTE \in 0 .. BYTE - 1
           /\ Number(run[a]) = (Number(run[a]) \div BYTE) * BYTE + (Number(run[a]) % BYTE)
<1> DEFINE n == Number(run[a])
           h == n \div BYTE
           l == n % BYTE
<1>1. run[a].tty \in Ttys /\ run[a].pos \in Nat BY RunIs
<1>2. SIZE \in Nat /\ Area(run[a].tty) \in Nat /\ Area(run[a].tty) <= SIZE BY <1>1, Areas
<1>3. n \in Nat /\ n < 3 * SIZE
  <2>1. n = Area(run[a].tty) \/ n = Area(run[a].tty) + run[a].pos BY DEF Number
  <2>2. SIZE > 0 BY Areas
  <2> HIDE DEF n
  <2> QED BY <1>1, <1>2, <2>1, <2>2
<1>4. BYTE \in Nat \ {0} /\ 3 * SIZE <= BYTE * BYTE BY ByteAssumption
<1> HIDE DEF n
<1>5. h \in Nat /\ l \in 0 .. BYTE - 1 /\ n = h * BYTE + l BY <1>3, <1>4, Divided
<1> HIDE DEF h, l
<1>6. h < BYTE
  <2>1. h * BYTE \in Nat /\ BYTE * BYTE \in Nat BY <1>4, <1>5
  <2>2. h * BYTE < BYTE * BYTE BY <1>2, <1>3, <1>4, <1>5, <2>1
  <2> QED BY <1>4, <1>5, <2>2, Multiples
<1>7. h \in 0 .. BYTE - 1 BY <1>4, <1>5, <1>6
<1> QED BY <1>3, <1>5, <1>7 DEF n, h, l

\* What follows when the cursor has come to p.
LEMMA OnwardIs ==
    ASSUME NEW t, NEW p
    PROVE  /\ Onward(t, p) \in {"roll", "high index", "keep"}
           /\ Onward(t, p) = "roll" <=> p >= Area(t) + SIZE
           /\ Onward(t, p) = "high index" => t = current_tty
           /\ Onward(t, p) = "keep" => t # current_tty
BY DEF Onward, Overflows, Shown

LEMMA DrawFits ==
    ASSUME Fits, NEW a \in Runners, Draw(a)
    PROVE  Fits'
<1> DEFINE t == run[a].tty
           p == run[a].pos
           at == Onward(t, p)
<1>1. /\ run[a].at = "draw" /\ GoTo(a, at)
      /\ video' = [video EXCEPT ![Area(run[a].tty) + run[a].cell] = run[a].n]
      /\ UNCHANGED <<pos, index, data, current_tty, written, sheet, lost, torn>>
  BY DEF Draw, At
<1>2. t \in Ttys /\ p \in Nat /\ run[a].n \in 0 .. MaxOutput BY RunIs DEF Fits
<1>3. /\ at \in {"roll", "high index", "keep"} /\ (at = "roll" <=> p >= Area(t) + SIZE)
      /\ (at = "high index" => t = current_tty) /\ (at = "keep" => t # current_tty)
  BY OnwardIs
<1> HIDE DEF at
<1>4. at \in Stages BY <1>3 DEF Stages
<1>5. /\ run' \in [Runners -> RunRecords]
      /\ run'[a].at = at /\ run'[a].tty = run[a].tty /\ run'[a].reg = run[a].reg
      /\ run'[a].cell = run[a].cell /\ run'[a].n = run[a].n /\ run'[a].pos = run[a].pos
      /\ \A b \in Runners : b # a => run'[b] = run[b]
  BY <1>1, <1>4, Goes DEF Fits
<1>6. RunFits(a)'
  <2>1. /\ run[a].reg = CURSOR /\ p <= Area(t) + SIZE
        /\ a = "driver" => t = current_tty
    BY <1>1 DEF Fits, RunFits, Busy
  <2>2. Area(t) \in Nat /\ SIZE \in Nat BY <1>2, Areas
  <2>3. (at = "roll" => p = Area(t) + SIZE) /\ (at # "roll" => p < Area(t) + SIZE)
    <3>1. p >= Area(t) + SIZE => p = Area(t) + SIZE BY <1>2, <2>1, <2>2
    <3>2. ~(p >= Area(t) + SIZE) => p < Area(t) + SIZE BY <1>2, <2>2
    <3> QED BY <1>3, <3>1, <3>2, Zenon
  <2> QED BY <1>1, <1>3, <1>5, <2>1, <2>3, FitsThere
<1>7. \A b \in Runners : RunFits(b)' BY <1>1, <1>5, <1>6, FitsKept DEF Fits
<1>8. ScreenTypeOK'
  <2>1. video' \in [0 .. 3 * SIZE - 1 -> 0 .. MaxOutput] BY <1>1, <1>2 DEF Fits, ScreenTypeOK
  <2> QED BY <1>1, <1>5, <2>1 DEF Fits, ScreenTypeOK
<1> QED BY <1>7, <1>8 DEF Fits

LEMMA RollFits ==
    ASSUME Fits, NEW a \in Runners, sys_roll_screen(a)
    PROVE  /\ Fits'
           /\ run[a].reg = CURSOR /\ run[a].pos = Area(run[a].tty) + SIZE
           /\ run'[a].at \in {"high index", "keep"} /\ run'[a].pos = run[a].pos - WIDTH
           /\ run'[a].tty = run[a].tty /\ run'[a].reg = CURSOR
           /\ run'[a].at = "keep" => run[a].tty # current_tty
           /\ \A b \in Runners : b # a => run'[b] = run[b]
<1> DEFINE t == run[a].tty
           p == run[a].pos - WIDTH
           at == Onward(t, p)
           r == [run[a] EXCEPT !.at = at, !.pos = p]
<1>1. /\ run[a].at = "roll" /\ run' = [run EXCEPT ![a] = r]
      /\ UNCHANGED <<pos, index, data, current_tty, written, sheet, lost, torn>>
      /\ video' = [c \in DOMAIN video |->
                    IF c - Area(t) \in 0 .. SIZE - WIDTH - 1 THEN video[c + WIDTH]
                    ELSE IF c - Area(t) \in SIZE - WIDTH .. SIZE - 1 THEN Blank
                    ELSE video[c]]
  BY DEF sys_roll_screen, At
<1>2. t \in Ttys /\ run[a].pos \in Nat /\ run[a] \in RunRecords BY RunIs DEF Fits, ScreenTypeOK
<1>3. run[a].reg = CURSOR /\ run[a].pos = Area(t) + SIZE BY <1>1 DEF Fits, RunFits
<1>4. /\ SIZE \in Nat /\ WIDTH \in Nat \ {0} /\ WIDTH <= SIZE /\ MaxOutput \in Nat
      /\ Area(t) \in Nat /\ Area(t) <= SIZE
  BY <1>2, Areas
<1>5. p \in Nat /\ p < Area(t) + SIZE BY <1>3, <1>4
<1>6. /\ at \in {"high index", "keep"} /\ (at = "high index" => t = current_tty)
      /\ (at = "keep" => t # current_tty)
  <2>1. /\ at \in {"roll", "high index", "keep"} /\ (at = "roll" <=> p >= Area(t) + SIZE)
        /\ (at = "high index" => t = current_tty) /\ (at = "keep" => t # current_tty)
    BY OnwardIs
  <2> HIDE DEF at, p
  <2>2. ~(p >= Area(t) + SIZE) BY <1>4, <1>5
  <2> QED BY <2>1, <2>2, Zenon
<1> HIDE DEF at, p
<1>7. r \in RunRecords /\ r.at = at /\ r.pos = p /\ r.tty = t /\ r.reg = run[a].reg
  <2>1. at \in Stages BY <1>6 DEF Stages
  <2> QED BY <1>2, <1>5, <2>1 DEF RunRecords
<1> HIDE DEF r
<1>8. /\ run' \in [Runners -> RunRecords] /\ run'[a] = r
      /\ \A b \in Runners : b # a => run'[b] = run[b]
  BY <1>1, <1>7, RunChanges DEF Fits
<1>9. RunFits(a)'
  <2>1. a = "driver" => t = current_tty BY <1>1 DEF Fits, RunFits, Busy
  <2> QED BY <1>1, <1>3, <1>4, <1>5, <1>6, <1>7, <1>8, <2>1 DEF RunFits, Area
<1>10. \A b \in Runners : RunFits(b)' BY <1>1, <1>8, <1>9, FitsKept DEF Fits
<1>11. ScreenTypeOK'
  <2>1. video \in [0 .. 3 * SIZE - 1 -> 0 .. MaxOutput] BY DEF Fits, ScreenTypeOK
  <2>2. \A c \in 0 .. 3 * SIZE - 1 : video'[c] \in 0 .. MaxOutput
    <3> SUFFICES ASSUME NEW c \in 0 .. 3 * SIZE - 1 PROVE video'[c] \in 0 .. MaxOutput
      OBVIOUS
    <3>1. video'[c] = IF c - Area(t) \in 0 .. SIZE - WIDTH - 1 THEN video[c + WIDTH]
                      ELSE IF c - Area(t) \in SIZE - WIDTH .. SIZE - 1 THEN Blank
                      ELSE video[c]
      BY <1>1, <2>1
    <3>2. c - Area(t) \in 0 .. SIZE - WIDTH - 1 => c + WIDTH \in 0 .. 3 * SIZE - 1 BY <1>4
    <3> QED BY <1>4, <2>1, <3>1, <3>2 DEF Blank
  <2>3. video' \in [0 .. 3 * SIZE - 1 -> 0 .. MaxOutput] BY <1>1, <2>1, <2>2
  <2> QED BY <1>1, <1>8, <2>3 DEF Fits, ScreenTypeOK
<1> QED BY <1>3, <1>6, <1>7, <1>8, <1>10, <1>11 DEF Fits, p

LEMMA SelectHighFits ==
    ASSUME Fits, NEW a \in Runners, SelectHigh(a)
    PROVE  Fits'
<1>1. run[a].at = "high index" /\ GoTo(a, "high") /\ index' = run[a].reg
      /\ UNCHANGED <<video, pos, data, current_tty, written, sheet, lost, torn>>
  BY DEF SelectHigh, At
<1>2. "high" \in Stages BY DEF Stages
<1> DEFINE t == run[a].tty
           g == run[a].reg
           p == run[a].pos
<1>3. /\ run' \in [Runners -> RunRecords] /\ run'[a].at = "high" /\ run'[a].tty = t
      /\ run'[a].reg = g /\ run'[a].pos = p /\ \A b \in Runners : b # a => run'[b] = run[b]
  BY <1>1, <1>2, Goes DEF Fits
<1>4. t = current_tty /\ p < Area(t) + SIZE /\ (a = "call" => g = CURSOR)
  BY <1>1 DEF Fits, RunFits
<1>5. RunFits(a)'
  <2> HIDE DEF t, g, p
  <2> QED BY <1>1, <1>3, <1>4, FitsThere
<1>6. \A b \in Runners : RunFits(b)' BY <1>1, <1>3, <1>5, FitsKept DEF Fits
<1>7. ScreenTypeOK'
  <2>1. g \in {START, CURSOR} BY RunIs DEF Fits
  <2>2. g \in Regs /\ g + 1 \in Regs
    <3> HIDE DEF g
    <3> QED BY <2>1 DEF Regs, START, CURSOR
  <2>3. index' \in Regs BY <1>1, <2>2
  <2> QED BY <1>1, <1>3, <2>3 DEF Fits, ScreenTypeOK
<1> QED BY <1>6, <1>7 DEF Fits

LEMMA SendHighFits ==
    ASSUME Fits, NEW a \in Runners, SendHigh(a)
    PROVE  Fits'
<1>1. run[a].at = "high" /\ GoTo(a, "low index")
      /\ data' = [data EXCEPT ![index] = Number(run[a]) \div BYTE]
      /\ UNCHANGED <<video, pos, index, current_tty, written, sheet, lost, torn>>
  BY DEF SendHigh, At
<1>2. "low index" \in Stages BY DEF Stages
<1> DEFINE t == run[a].tty
           g == run[a].reg
           p == run[a].pos
<1>3. /\ run' \in [Runners -> RunRecords] /\ run'[a].at = "low index" /\ run'[a].tty = t
      /\ run'[a].reg = g /\ run'[a].pos = p /\ \A b \in Runners : b # a => run'[b] = run[b]
  BY <1>1, <1>2, Goes DEF Fits
<1>4. t = current_tty /\ p < Area(t) + SIZE /\ (a = "call" => g = CURSOR)
  BY <1>1 DEF Fits, RunFits
<1>5. RunFits(a)'
  <2> HIDE DEF t, g, p
  <2> QED BY <1>1, <1>3, <1>4, FitsThere
<1>6. \A b \in Runners : RunFits(b)' BY <1>1, <1>3, <1>5, FitsKept DEF Fits
<1>7. ScreenTypeOK'
  <2>1. Number(run[a]) \div BYTE \in 0 .. BYTE - 1 BY <1>4, NumberFits DEF Fits
  <2>2. data' \in [Regs -> 0 .. BYTE - 1] BY <1>1, <2>1 DEF Fits, ScreenTypeOK
  <2> QED BY <1>1, <1>3, <2>2 DEF Fits, ScreenTypeOK
<1> QED BY <1>6, <1>7 DEF Fits

LEMMA SelectLowFits ==
    ASSUME Fits, NEW a \in Runners, SelectLow(a)
    PROVE  Fits'
<1>1. run[a].at = "low index" /\ GoTo(a, "low") /\ index' = run[a].reg + 1
      /\ UNCHANGED <<video, pos, data, current_tty, written, sheet, lost, torn>>
  BY DEF SelectLow, At
<1>2. "low" \in Stages BY DEF Stages
<1> DEFINE t == run[a].tty
           g == run[a].reg
           p == run[a].pos
<1>3. /\ run' \in [Runners -> RunRecords] /\ run'[a].at = "low" /\ run'[a].tty = t
      /\ run'[a].reg = g /\ run'[a].pos = p /\ \A b \in Runners : b # a => run'[b] = run[b]
  BY <1>1, <1>2, Goes DEF Fits
<1>4. t = current_tty /\ p < Area(t) + SIZE /\ (a = "call" => g = CURSOR)
  BY <1>1 DEF Fits, RunFits
<1>5. RunFits(a)'
  <2> HIDE DEF t, g, p
  <2> QED BY <1>1, <1>3, <1>4, FitsThere
<1>6. \A b \in Runners : RunFits(b)' BY <1>1, <1>3, <1>5, FitsKept DEF Fits
<1>7. ScreenTypeOK'
  <2>1. g \in {START, CURSOR} BY RunIs DEF Fits
  <2>2. g \in Regs /\ g + 1 \in Regs
    <3> HIDE DEF g
    <3> QED BY <2>1 DEF Regs, START, CURSOR
  <2>3. index' \in Regs BY <1>1, <2>2
  <2> QED BY <1>1, <1>3, <2>3 DEF Fits, ScreenTypeOK
<1> QED BY <1>6, <1>7 DEF Fits

LEMMA SendLowFits ==
    ASSUME Fits, NEW a \in Runners, SendLow(a)
    PROVE  Fits'
<1> DEFINE t == run[a].tty
           g == run[a].reg
           p == run[a].pos
           at == IF g = START THEN "read" ELSE "keep"
<1>1. run[a].at = "low" /\ GoTo(a, at)
      /\ data' = [data EXCEPT ![index] = Number(run[a]) % BYTE]
      /\ UNCHANGED <<video, pos, index, current_tty, written, sheet, lost, torn>>
  BY DEF SendLow, At, LowByte
<1>2. at \in Stages /\ (at = "read" => g = START) /\ (at = "keep" => g = CURSOR) /\ at \in {"read", "keep"}
  <2>1. g \in {START, CURSOR} BY RunIs DEF Fits
  <2> QED BY <2>1 DEF Stages
<1> HIDE DEF at
<1>3. /\ run' \in [Runners -> RunRecords] /\ run'[a].at = at /\ run'[a].tty = t
      /\ run'[a].reg = g /\ run'[a].pos = p /\ \A b \in Runners : b # a => run'[b] = run[b]
  BY <1>1, <1>2, Goes DEF Fits
<1>4. t = current_tty /\ p < Area(t) + SIZE /\ (a = "call" => g = CURSOR)
  BY <1>1 DEF Fits, RunFits
<1>5. RunFits(a)'
  <2> HIDE DEF t, g, p
  <2> QED BY <1>1, <1>2, <1>3, <1>4, FitsThere
<1>6. \A b \in Runners : RunFits(b)' BY <1>1, <1>3, <1>5, FitsKept DEF Fits
<1>7. ScreenTypeOK'
  <2>1. Number(run[a]) % BYTE \in 0 .. BYTE - 1 BY <1>4, NumberFits DEF Fits
  <2>2. data' \in [Regs -> 0 .. BYTE - 1] BY <1>1, <2>1 DEF Fits, ScreenTypeOK
  <2> QED BY <1>1, <1>3, <2>2 DEF Fits, ScreenTypeOK
<1> QED BY <1>6, <1>7 DEF Fits

\* Only the driver starts a picture; it reads the cursor of the terminal shown.
LEMMA ReadCursorFits ==
    ASSUME Fits, NEW a \in Runners, ReadCursor(a)
    PROVE  /\ Fits'
           /\ a = "driver" /\ run[a].reg = START /\ run[a].tty = current_tty
           /\ run'[a].at = "high index" /\ run'[a].tty = run[a].tty /\ run'[a].reg = CURSOR
           /\ run'[a].pos = pos[run[a].tty] /\ run'[a].pos < Area(run[a].tty) + SIZE
           /\ \A b \in Runners : b # a => run'[b] = run[b]
<1> DEFINE t == run[a].tty
           p == pos[t]
           r == [run[a] EXCEPT !.at = "high index", !.reg = CURSOR, !.pos = p]
<1>1. run[a].at = "read" /\ UNCHANGED <<screen, current_tty, written, sheet, lost, torn>>
  BY DEF ReadCursor, At
<1>2. a = "driver" /\ run[a].reg = START /\ t = current_tty
  <2>1. /\ run[a].reg = START /\ (a = "call" => run[a].reg = CURSOR) /\ t = current_tty
    BY <1>1 DEF Fits, RunFits
  <2>2. START # CURSOR BY DEF START, CURSOR
  <2> QED BY <2>1, <2>2 DEF Runners
<1>3. t \in Ttys /\ run[a] \in RunRecords BY RunIs DEF Fits, ScreenTypeOK
<1>4. p \in Nat /\ p < Area(t) + SIZE BY <1>3 DEF Fits, ScreenTypeOK
<1>5. run' = [run EXCEPT ![a] = r] BY <1>2 DEF ReadCursor, Shown
<1> HIDE DEF p
<1>6. r \in RunRecords /\ r.at = "high index" /\ r.tty = t /\ r.reg = CURSOR /\ r.pos = p
  BY <1>3, <1>4 DEF RunRecords, Stages
<1> HIDE DEF r
<1>7. /\ run' \in [Runners -> RunRecords] /\ run'[a] = r
      /\ \A b \in Runners : b # a => run'[b] = run[b]
  BY <1>5, <1>6, RunChanges DEF Fits
<1>8. RunFits(a)'
  <2> HIDE DEF t
  <2> QED BY <1>1, <1>2, <1>4, <1>6, <1>7, FitsThere
<1>9. \A b \in Runners : RunFits(b)' BY <1>1, <1>7, <1>8, FitsKept DEF Fits
<1>10. ScreenTypeOK' BY <1>1, <1>7 DEF Fits, ScreenTypeOK, screen
<1> QED BY <1>2, <1>4, <1>6, <1>7, <1>9, <1>10 DEF Fits, p

LEMMA IdleFits == Idle \in RunRecords /\ Idle.at = "idle" /\ Idle.tty = 0 /\ Idle.reg = CURSOR /\ Idle.pos = 0
<1>1. 0 \in 0 .. MaxOutput BY Areas
<1> QED BY <1>1 DEF Idle, RunRecords, Stages, Ttys, Blank

LEMMA KeepCursorFits ==
    ASSUME Fits, NEW a \in Runners, KeepCursor(a)
    PROVE  /\ Fits'
           /\ run[a].reg = CURSOR /\ run[a].pos < Area(run[a].tty) + SIZE
           /\ run'[a] = Idle /\ \A b \in Runners : b # a => run'[b] = run[b]
           /\ pos'[run[a].tty] = run[a].pos
           /\ \A t \in Ttys : t # run[a].tty => pos'[t] = pos[t]
<1> DEFINE t == run[a].tty
           p == run[a].pos
<1>1. /\ run[a].at = "keep" /\ pos' = [pos EXCEPT ![t] = p] /\ run' = [run EXCEPT ![a] = Idle]
      /\ UNCHANGED <<video, index, data, current_tty, written, sheet, lost, torn>>
  BY DEF KeepCursor, At
<1>2. run[a].reg = CURSOR /\ p < Area(t) + SIZE BY <1>1 DEF Fits, RunFits
<1>3. t \in Ttys /\ p \in Nat BY RunIs DEF Fits
<1>4. /\ run' \in [Runners -> RunRecords] /\ run'[a] = Idle
      /\ \A b \in Runners : b # a => run'[b] = run[b]
  BY <1>1, IdleFits, RunChanges DEF Fits
<1>5. RunFits(a)'
  <2>1. 0 < Area(0) + SIZE BY Areas
  <2>2. run'[a].at = "idle" /\ run'[a].tty = 0 /\ run'[a].reg = CURSOR /\ run'[a].pos = 0
    BY <1>4, IdleFits
  <2> QED BY <2>1, <2>2 DEF RunFits, Busy, Area
<1>6. \A b \in Runners : RunFits(b)' BY <1>1, <1>4, <1>5, FitsKept DEF Fits
<1>7. pos \in [Ttys -> Nat] /\ \A u \in Ttys : pos[u] < Area(u) + SIZE BY DEF Fits, ScreenTypeOK
<1> HIDE DEF t, p
<1>8. /\ pos' \in [Ttys -> Nat] /\ pos'[t] = p /\ \A u \in Ttys : u # t => pos'[u] = pos[u]
  BY <1>1, <1>3, <1>7
<1>9. \A u \in Ttys : pos'[u] < Area(u) + SIZE BY <1>2, <1>7, <1>8
<1>10. ScreenTypeOK' BY <1>1, <1>4, <1>8, <1>9 DEF Fits, ScreenTypeOK, Area
<1> QED BY <1>2, <1>4, <1>6, <1>8, <1>10 DEF Fits, t, p

\* What a character begins, and where it leaves the cursor.
LEMMA PutFits ==
    ASSUME Fits, NEW t \in Ttys, NEW k \in Kinds, NEW n \in 0 .. MaxOutput
    PROVE  LET p == pos[t]
               q == Moved(k, p)
               r == sys_putchar(t, k, n, p)
           IN
           /\ r \in RunRecords /\ r.tty = t /\ r.reg = CURSOR /\ r.pos = q
           /\ r.n = IF k = "char" THEN n ELSE Blank
           /\ r.cell = IF k = "back" THEN q ELSE p
           /\ r.at = IF k = "char" \/ (k = "back" /\ p > 0) THEN "draw" ELSE Onward(t, q)
           /\ r.at \in {"draw", "roll", "high index", "keep"}
           /\ q \in Nat /\ q <= Area(t) + SIZE
           /\ r.at = "draw" => r.cell < Area(t) + SIZE
           /\ r.at = "roll" => q = Area(t) + SIZE
           /\ r.at \notin {"draw", "roll"} => q < Area(t) + SIZE
           /\ r.at = "high index" => t = current_tty
           /\ r.at = "keep" => t # current_tty
<1> DEFINE p == pos[t]
           q == Moved(k, p)
           at == IF k = "char" \/ (k = "back" /\ p > 0) THEN "draw" ELSE Onward(t, q)
           cell == IF k = "back" THEN q ELSE p
           m == IF k = "char" THEN n ELSE Blank
           r == sys_putchar(t, k, n, p)
           end == Area(t) + SIZE
<1>1. p \in Nat /\ p < end BY DEF Fits, ScreenTypeOK
<1>2. q \in Nat /\ q <= end /\ (k = "back" => q <= p) BY <1>1, MovedFits
<1>3. r = [at |-> at, tty |-> t, reg |-> CURSOR, cell |-> cell, n |-> m, pos |-> q]
  BY DEF sys_putchar
<1>4. end \in Nat
  <2>1. Area(t) \in Nat /\ SIZE \in Nat BY Areas
  <2> QED BY <2>1
<1>5. m \in 0 .. MaxOutput
  <2>1. 0 \in 0 .. MaxOutput BY Areas
  <2> QED BY <2>1 DEF Blank
<1>6. /\ Onward(t, q) \in {"roll", "high index", "keep"} /\ (Onward(t, q) = "roll" <=> q >= end)
      /\ (Onward(t, q) = "high index" => t = current_tty) /\ (Onward(t, q) = "keep" => t # current_tty)
  BY OnwardIs
<1> HIDE DEF p, q, end, r
<1>7. cell \in Nat /\ cell < end BY <1>1, <1>2, <1>4
<1>8. (q >= end => q = end) /\ (~(q >= end) => q < end) BY <1>2, <1>4
<1>9. at \in {"draw", "roll", "high index", "keep"} /\ at \in Stages BY <1>6 DEF Stages
<1>10. at = "roll" => q = end BY <1>6, <1>8, Zenon
<1>11. at \notin {"draw", "roll"} => q < end BY <1>6, <1>8, Zenon
<1>12. (at = "high index" => t = current_tty) /\ (at = "keep" => t # current_tty) BY <1>6, Zenon
<1> HIDE DEF at, cell, m
<1>13. /\ r \in RunRecords /\ r.at = at /\ r.tty = t /\ r.reg = CURSOR /\ r.cell = cell
       /\ r.n = m /\ r.pos = q
  BY <1>2, <1>3, <1>5, <1>7, <1>9 DEF RunRecords
<1> QED BY <1>2, <1>7, <1>9, <1>10, <1>11, <1>12, <1>13 DEF p, q, at, cell, m, r, end

LEMMA OutputFits ==
    ASSUME Fits, NEW a \in Runners, NEW t \in Ttys, NEW k \in Kinds, Output(a, t, k),
           a = "driver" => t = current_tty,
           lost' \subseteq Ttys, torn' \subseteq {START, CURSOR}
    PROVE  /\ Fits' /\ written' \in 1 .. MaxOutput /\ written < MaxOutput
           /\ run'[a] = sys_putchar(t, k, written', pos[t])
           /\ \A b \in Runners : b # a => run'[b] = run[b]
<1> DEFINE n == written + 1
           r == sys_putchar(t, k, n, pos[t])
           q == Moved(k, pos[t])
<1>1. /\ written < MaxOutput /\ written' = written + 1 /\ run' = [run EXCEPT ![a] = r]
      /\ UNCHANGED <<screen, current_tty>>
  BY DEF Output
<1>2. written' \in 1 .. MaxOutput /\ n \in 0 .. MaxOutput
  <2>1. written \in 0 .. MaxOutput BY DEF Fits, ScreenTypeOK
  <2> QED BY <1>1, <2>1, Areas
<1> HIDE DEF n
<1>3. /\ r \in RunRecords /\ r.tty = t /\ r.reg = CURSOR /\ r.pos = q
      /\ r.at \in {"draw", "roll", "high index", "keep"}
      /\ r.at = "draw" => r.cell < Area(t) + SIZE
      /\ r.at = "roll" => q = Area(t) + SIZE
      /\ r.at \notin {"draw", "roll"} => q < Area(t) + SIZE
      /\ r.at = "high index" => t = current_tty
  <2>1. r \in RunRecords BY <1>2, PutFits
  <2>2. r.tty = t /\ r.reg = CURSOR /\ r.pos = q BY DEF sys_putchar, r
  <2>3. /\ r.at \in {"draw", "roll", "high index", "keep"}
        /\ r.at = "draw" => r.cell < Area(t) + SIZE
        /\ r.at = "high index" => t = current_tty
    BY <1>2, PutFits
  <2>4. /\ r.at = "roll" => q = Area(t) + SIZE
        /\ r.at \notin {"draw", "roll"} => q < Area(t) + SIZE
    BY <1>2, PutFits
  <2> QED BY <2>1, <2>2, <2>3, <2>4
<1>4. q <= Area(t) + SIZE BY <1>2, PutFits
<1> HIDE DEF r, q
<1>5. /\ run' \in [Runners -> RunRecords] /\ run'[a] = r
      /\ \A b \in Runners : b # a => run'[b] = run[b]
  BY <1>1, <1>3, RunChanges DEF Fits
<1>6. RunFits(a)' BY <1>1, <1>3, <1>4, <1>5 DEF RunFits, Busy, Area
<1>7. \A b \in Runners : RunFits(b)' BY <1>1, <1>5, <1>6, FitsKept DEF Fits
<1>8. ScreenTypeOK'
  <2>1. written' \in 0 .. MaxOutput BY <1>1, <1>2 DEF n
  <2> QED BY <1>1, <1>5, <2>1 DEF Fits, ScreenTypeOK, screen
<1> QED BY <1>1, <1>2, <1>5, <1>7, <1>8 DEF Fits, r, n

LEMMA EchoFits ==
    ASSUME Fits, NEW k \in Kinds, Echo(k)
    PROVE  Fits'
<1>1. "driver" \in Runners BY DEF Runners
<1>2. /\ current_tty \in Ttys /\ lost \subseteq Ttys /\ torn \subseteq {START, CURSOR}
  BY DEF Fits, ScreenTypeOK
<1>3. Output("driver", current_tty, k) /\ lost' \subseteq Ttys /\ torn' \subseteq {START, CURSOR}
  BY <1>2 DEF Echo
<1> QED BY <1>1, <1>2, <1>3, OutputFits

LEMMA WriteFits ==
    ASSUME Fits, NEW t \in Ttys, NEW k \in Kinds, sys_std_write(t, k)
    PROVE  Fits'
<1>1. "call" \in Runners BY DEF Runners
<1>2. /\ lost \subseteq Ttys /\ torn \subseteq {START, CURSOR} BY DEF Fits, ScreenTypeOK
<1>3. Output("call", t, k) /\ lost' \subseteq Ttys /\ torn' \subseteq {START, CURSOR}
  BY <1>2 DEF sys_std_write
<1> QED BY <1>1, <1>3, OutputFits

LEMMA SwitchFits ==
    ASSUME Fits, NEW t \in Ttys, SwitchScreen(t)
    PROVE  Fits' /\ run'["driver"] = sys_switch_tty(t) /\ run'["call"] = run["call"]
<1> DEFINE r == sys_switch_tty(t)
<1>1. "driver" \in Runners /\ "call" \in Runners /\ Runners = {"driver", "call"} BY DEF Runners
<1>2. /\ ~Busy("call") /\ current_tty' = t /\ run' = [run EXCEPT !["driver"] = r] /\ torn' = {}
      /\ UNCHANGED <<screen, written, sheet, lost>>
  BY DEF SwitchScreen
<1>3. r \in RunRecords /\ r.at = "high index" /\ r.tty = t /\ r.reg = START /\ r.pos = 0
  <2>1. 0 \in 0 .. MaxOutput BY Areas
  <2> QED BY <2>1 DEF sys_switch_tty, RunRecords, Stages, Blank
<1> HIDE DEF r
<1>4. run' \in [Runners -> RunRecords] /\ run'["driver"] = r /\ run'["call"] = run["call"]
  BY <1>1, <1>2, <1>3, RunChanges DEF Fits
<1>5. RunFits("driver")'
  <2>1. 0 < Area(t) + SIZE
    <3>1. SIZE \in Nat \ {0} /\ Area(t) \in Nat BY Areas
    <3> QED BY <3>1
  <2> QED BY <1>1, <1>2, <1>3, <1>4, <2>1, FitsThere
<1>6. RunFits("call")'
  <2>1. run["call"].at = "idle" BY <1>2 DEF Busy
  <2>2. run["call"].reg = CURSOR /\ run["call"].pos < Area(run["call"].tty) + SIZE
    BY <1>1, <2>1 DEF Fits, RunFits
  <2> QED BY <1>4, <2>1, <2>2 DEF RunFits, Busy, Area
<1>7. ScreenTypeOK' BY <1>2, <1>4 DEF Fits, ScreenTypeOK, screen
<1> QED BY <1>1, <1>4, <1>5, <1>6, <1>7 DEF Fits, r

\* (Every step of the specification.)
LEMMA FitsStep ==
    ASSUME Fits, [ScreenNext]_screenVars
    PROVE  Fits'
<1>1. ASSUME NEW a \in Runners, VideoStep(a) PROVE Fits'
  BY <1>1, DrawFits, RollFits, SelectHighFits, SendHighFits, SelectLowFits, SendLowFits,
     ReadCursorFits, KeepCursorFits DEF VideoStep
<1>2. CASE UNCHANGED screenVars
  <2>1. UNCHANGED <<video, pos, index, data, run, current_tty, written, sheet, lost, torn>>
    BY <1>2 DEF screenVars, screen
  <2>2. \A b \in Runners : RunFits(b)' BY <2>1, FitsKept DEF Fits
  <2>3. ScreenTypeOK' BY <2>1 DEF Fits, ScreenTypeOK
  <2> QED BY <2>2, <2>3 DEF Fits
<1> QED BY <1>1, <1>2, EchoFits, SwitchFits, WriteFits DEF ScreenNext

-----------------------------------------------------------------------------
(* What the screens show.                                                  *)

\* A character goes to the sheet of its terminal only.
LEMMA SheetsChange ==
    ASSUME Fits, Sheets, NEW a \in Runners, NEW t \in Ttys, NEW k \in Kinds, Output(a, t, k)
    PROVE  /\ Sheets' /\ sheet'[t] = TypedOn(sheet[t], k, written')
           /\ \A u \in Ttys : u # t => sheet'[u] = sheet[u]
           /\ written < MaxOutput /\ written \in Nat /\ written' \in 1 .. MaxOutput
<1>1. /\ written' = written + 1 /\ sheet' = [sheet EXCEPT ![t] = TypedOn(@, k, written + 1)]
      /\ written < MaxOutput
  BY DEF Output
<1>2. written \in Nat /\ written' \in 1 .. MaxOutput
  <2>1. written \in 0 .. MaxOutput BY DEF Fits, ScreenTypeOK
  <2> QED BY <1>1, <2>1, Areas
<1>3. /\ DOMAIN sheet' = Ttys /\ sheet'[t] = TypedOn(sheet[t], k, written')
      /\ \A u \in Ttys : u # t => sheet'[u] = sheet[u]
  BY <1>1 DEF Sheets
<1>4. IsSheet(sheet'[t], written')
  <2>1. IsSheet(TypedOn(sheet[t], k, written'), written + 1) BY <1>1, <1>2, SheetDrawn DEF Sheets
  <2> QED BY <1>1, <1>3, <2>1
<1>5. ASSUME NEW u \in Ttys, u # t PROVE IsSheet(sheet'[u], written')
  <2>1. IsSheet(sheet[u], written) BY DEF Sheets
  <2>2. sheet'[u] = sheet[u] BY <1>3, <1>5
  <2>3. sheet[u].top <= written' BY <1>1, <1>2, <2>1 DEF IsSheet
  <2> QED BY <2>1, <2>2, <2>3 DEF IsSheet
<1> QED BY <1>1, <1>2, <1>3, <1>4, <1>5 DEF Sheets, IsSheet

\* A step that does not touch the terminal leaves its screen as it is.
LEMMA ScreenKept ==
    ASSUME NEW t \in Ttys, ScreenOf(t),
           sheet'[t] = sheet[t], pos'[t] = pos[t], Kept(t)' => Kept(t),
           \A c \in 0 .. SIZE - 1 : video'[Area(t) + c] = video[Area(t) + c],
           \A a \in Runners : ~Writes(a, t) => ~Writes(a, t)',
           \A a \in Runners : Writes(a, t) =>
               /\ Writes(a, t)'
               /\ run'[a].pos = run[a].pos
               /\ run[a].at = "draw" \/ run'[a].at = "draw" => run'[a] = run[a]
    PROVE  ScreenOf(t)'
<1> SUFFICES ASSUME Kept(t)
             PROVE  /\ ~(Writes("driver", t)' /\ Writes("call", t)')
                    /\ \A a \in Runners : Writes(a, t)' => Completes(a, t)'
                    /\ ~Writes("driver", t)' /\ ~Writes("call", t)' =>
                         pos'[t] = sheet'[t].at - sheet'[t].top * WIDTH /\ ShowsFrom(t, sheet[t].top, SIZE)'
  BY DEF ScreenOf
<1>1. "driver" \in Runners /\ "call" \in Runners BY DEF Runners
<1>2. \A a \in Runners : Writes(a, t)' <=> Writes(a, t) OBVIOUS
<1>3. ASSUME NEW a \in Runners, Writes(a, t), Completes(a, t) PROVE Completes(a, t)'
  <2>1. /\ run'[a].pos = run[a].pos
        /\ run[a].at = "draw" \/ run'[a].at = "draw" => run'[a] = run[a]
    BY <1>3
  <2>2. CASE run[a].at = "draw"
    <3>1. run'[a] = run[a] BY <2>1, <2>2
    <3> QED BY <1>3, <3>1 DEF Completes, ShowsFrom, Overflows, Area
  <2>3. CASE run[a].at # "draw"
    <3>1. run'[a].at # "draw" BY <2>1, <2>3
    <3> QED BY <1>3, <2>1, <2>3, <3>1 DEF Completes, ShowsFrom, Overflows, Area
  <2> QED BY <2>2, <2>3
<1>4. \A x : ShowsFrom(t, x, SIZE) => ShowsFrom(t, x, SIZE)' BY DEF ShowsFrom, Area
<1> QED BY <1>1, <1>2, <1>3, <1>4 DEF ScreenOf

\* The areas of two terminals are apart.
LEMMA Apart ==
    ASSUME NEW t \in Ttys, NEW u \in Ttys, t # u, NEW c \in 0 .. SIZE - 1,
           NEW d \in Nat, d < Area(u) + SIZE
    PROVE  Area(t) + c # Area(u) + d /\ Area(t) + c - Area(u) \notin 0 .. SIZE - 1
<1>1. SIZE \in Nat \ {0} /\ Area(0) = 0 /\ Area(1) = SIZE BY Areas
<1>2. CASE t = 0 /\ u = 1 BY <1>1, <1>2
<1>3. CASE t = 1 /\ u = 0 BY <1>1, <1>3
<1> QED BY <1>2, <1>3 DEF Ttys

\* What is sent to the controller changes no screen.
LEMMA SentShows ==
    ASSUME Fits, Screens, NEW a \in Runners, NEW place \in Stages \ {"idle", "draw"}, GoTo(a, place),
           run[a].at \notin {"idle", "draw"}, UNCHANGED <<video, pos, sheet, lost>>
    PROVE  Screens'
<1>1. /\ run'[a].at = place /\ run'[a].tty = run[a].tty /\ run'[a].reg = run[a].reg
      /\ run'[a].pos = run[a].pos /\ \A b \in Runners : b # a => run'[b] = run[b]
  BY Goes DEF Fits
<1> SUFFICES ASSUME NEW t \in Ttys PROVE ScreenOf(t)'
  BY DEF Screens
<1>2. \A b \in Runners : Writes(b, t)' <=> Writes(b, t)
  BY <1>1 DEF Writes, HoldsCursor, Busy
<1>3. ASSUME NEW b \in Runners
      PROVE  /\ run'[b].pos = run[b].pos
             /\ run[b].at = "draw" \/ run'[b].at = "draw" => run'[b] = run[b]
  BY <1>1
<1>4. Kept(t)' => Kept(t) BY DEF Kept
<1>5. ScreenOf(t) BY DEF Screens
<1> QED BY <1>2, <1>3, <1>4, <1>5, ScreenKept

LEMMA DrawShows ==
    ASSUME Fits, Screens, NEW a \in Runners, Draw(a)
    PROVE  Screens'
<1>1. PICK u \in Ttys, d \in Nat, n \in 0 .. MaxOutput :
           u = run[a].tty /\ d = run[a].cell /\ n = run[a].n
  BY RunIs DEF Fits
<1> DEFINE at == Onward(u, run[a].pos)
<1>2. /\ run[a].at = "draw" /\ GoTo(a, at) /\ video' = [video EXCEPT ![Area(u) + d] = n]
      /\ UNCHANGED <<pos, index, data, current_tty, written, sheet, lost, torn>>
  BY <1>1 DEF Draw, At
<1>3. at \in {"roll", "high index", "keep"} BY OnwardIs
<1> HIDE DEF at
<1>4. /\ run'[a].at = at /\ run'[a].tty = u /\ run'[a].reg = run[a].reg
      /\ run'[a].pos = run[a].pos /\ \A b \in Runners : b # a => run'[b] = run[b]
  <2>1. at \in Stages BY <1>3 DEF Stages
  <2> QED BY <1>1, <1>2, <2>1, Goes DEF Fits
<1>5. run[a].reg = CURSOR /\ d < Area(u) + SIZE BY <1>1, <1>2 DEF Fits, RunFits
<1>6. Writes(a, u) /\ Writes(a, u)' BY <1>1, <1>2, <1>3, <1>4, <1>5 DEF Writes, HoldsCursor, Busy
<1>7. \A b \in Runners, t \in Ttys : Writes(b, t)' <=> Writes(b, t)
  BY <1>1, <1>2, <1>3, <1>4 DEF Writes, HoldsCursor, Busy
<1>8. video \in [0 .. 3 * SIZE - 1 -> 0 .. MaxOutput] BY DEF Fits, ScreenTypeOK
<1>9. ASSUME NEW t \in Ttys, t # u PROVE ScreenOf(t)'
  <2>1. ASSUME NEW c \in 0 .. SIZE - 1 PROVE video'[Area(t) + c] = video[Area(t) + c]
    <3>1. Area(t) + c # Area(u) + d BY <1>1, <1>2, <1>5, <1>9, Apart
    <3>2. Area(t) + c \in 0 .. 3 * SIZE - 1
      <4>1. SIZE \in Nat /\ Area(t) \in Nat /\ Area(t) <= SIZE BY Areas
      <4> QED BY <4>1
    <3> QED BY <1>1, <1>2, <1>8, <3>1, <3>2
  <2>2. ASSUME NEW b \in Runners, Writes(b, t)
        PROVE  Writes(b, t)' /\ run'[b] = run[b]
    <3>1. b # a BY <1>1, <1>9, <2>2 DEF Writes
    <3> QED BY <1>4, <1>7, <2>2, <3>1
  <2>3. Kept(t)' => Kept(t) BY <1>1, <1>2 DEF Kept
  <2>4. ScreenOf(t) BY DEF Screens
  <2>5. sheet'[t] = sheet[t] /\ pos'[t] = pos[t] BY <1>1, <1>2
  <2> QED BY <1>7, <2>1, <2>2, <2>3, <2>4, <2>5, ScreenKept
<1>10. ScreenOf(u)'
  <2>1. SUFFICES ASSUME Kept(u)
                 PROVE  /\ ~(Writes("driver", u)' /\ Writes("call", u)')
                        /\ \A b \in Runners : Writes(b, u)' => Completes(b, u)'
                        /\ ~(~Writes("driver", u)' /\ ~Writes("call", u)')
    <3>1. Kept(u)' => Kept(u) BY <1>1, <1>2 DEF Kept
    <3> QED BY <1>4, <3>1 DEF ScreenOf
  <2>2. "driver" \in Runners /\ "call" \in Runners /\ Runners = {"driver", "call"} BY DEF Runners
  <2>3. ~(Writes("driver", u) /\ Writes("call", u)) /\ Completes(a, u)
    BY <1>1, <1>2, <1>6, <2>1 DEF Screens, ScreenOf
  <2>4. \A b \in Runners : Writes(b, u)' => b = a BY <1>1, <1>2, <1>6, <1>7, <2>2, <2>3
  <2>5. Completes(a, u)'
    <3> DEFINE top == IF Overflows(u, run[a].pos) THEN sheet[u].top - 1 ELSE sheet[u].top
    <3>1. /\ top \in Nat /\ run[a].pos = sheet[u].at - top * WIDTH
          /\ \A c \in 0 .. SIZE - 1 : c # d =>
                video[Area(u) + c] = sheet[u].text[top * WIDTH + c]
          /\ d < SIZE /\ n = sheet[u].text[top * WIDTH + d]
      BY <1>1, <1>2, <2>3 DEF Completes, ShowsFrom
    <3> HIDE DEF top
    <3>2. ASSUME NEW c \in 0 .. SIZE - 1
          PROVE  video'[Area(u) + c] = sheet'[u].text[top * WIDTH + c]
      <4>1. SIZE \in Nat /\ Area(u) \in Nat /\ Area(u) <= SIZE BY <1>1, <1>2, Areas
      <4>2. Area(u) + c \in 0 .. 3 * SIZE - 1 BY <4>1
      <4>3. CASE c = d BY <1>1, <1>2, <1>8, <3>1, <4>2, <4>3
      <4>4. CASE c # d
        <5>1. Area(u) + c # Area(u) + d BY <1>1, <1>2, <4>1, <4>4
        <5> QED BY <1>1, <1>2, <1>8, <3>1, <4>2, <4>4, <5>1
      <4> QED BY <4>3, <4>4
    <3>3. run'[a].at # "draw" BY <1>3, <1>4
    <3>4. top = IF Overflows(u, run'[a].pos) THEN sheet'[u].top - 1 ELSE sheet'[u].top
      BY <1>1, <1>2, <1>4 DEF top
    <3> QED BY <1>1, <1>2, <1>4, <3>1, <3>2, <3>3, <3>4 DEF Completes, ShowsFrom, Area, Overflows
  <2> QED BY <1>6, <2>2, <2>4, <2>5
<1> QED BY <1>9, <1>10 DEF Screens

LEMMA RollShows ==
    ASSUME Fits, Sheets, Screens, NEW a \in Runners, sys_roll_screen(a)
    PROVE  Screens'
<1>1. PICK u \in Ttys : u = run[a].tty BY RunIs DEF Fits
<1>2. /\ run[a].at = "roll"
      /\ UNCHANGED <<pos, index, data, current_tty, written, sheet, lost, torn>>
      /\ video' = [c \in DOMAIN video |->
                    IF c - Area(u) \in 0 .. SIZE - WIDTH - 1 THEN video[c + WIDTH]
                    ELSE IF c - Area(u) \in SIZE - WIDTH .. SIZE - 1 THEN Blank
                    ELSE video[c]]
  BY <1>1 DEF sys_roll_screen, At
<1>3. /\ run[a].reg = CURSOR /\ run[a].pos = Area(u) + SIZE
      /\ run'[a].at \in {"high index", "keep"} /\ run'[a].pos = run[a].pos - WIDTH
      /\ run'[a].tty = u /\ run'[a].reg = CURSOR
      /\ \A b \in Runners : b # a => run'[b] = run[b]
  BY <1>1, RollFits
<1>4. Writes(a, u) /\ Writes(a, u)' BY <1>1, <1>2, <1>3 DEF Writes, HoldsCursor, Busy
<1>5. \A b \in Runners, t \in Ttys : Writes(b, t)' <=> Writes(b, t)
  BY <1>1, <1>2, <1>3 DEF Writes, HoldsCursor, Busy
<1>6. video \in [0 .. 3 * SIZE - 1 -> 0 .. MaxOutput] BY DEF Fits, ScreenTypeOK
<1>7. /\ SIZE \in Nat \ {0} /\ WIDTH \in Nat \ {0} /\ WIDTH <= SIZE /\ Area(u) \in Nat
      /\ \A t \in Ttys : Area(t) \in Nat /\ Area(t) <= SIZE
  BY Areas
<1>8. ASSUME NEW c \in 0 .. 3 * SIZE - 1
      PROVE  video'[c] = IF c - Area(u) \in 0 .. SIZE - WIDTH - 1 THEN video[c + WIDTH]
                         ELSE IF c - Area(u) \in SIZE - WIDTH .. SIZE - 1 THEN Blank
                         ELSE video[c]
  BY <1>2, <1>6
<1>9. ASSUME NEW t \in Ttys, t # u PROVE ScreenOf(t)'
  <2>1. ASSUME NEW c \in 0 .. SIZE - 1 PROVE video'[Area(t) + c] = video[Area(t) + c]
    <3> DEFINE d == Area(t) + c
    <3>1. d \in 0 .. 3 * SIZE - 1 BY <1>7
    <3>2. d - Area(u) \notin 0 .. SIZE - 1
      <4>1. 0 \in Nat /\ 0 < Area(u) + SIZE BY <1>7
      <4>2. Area(t) + c - Area(u) \notin 0 .. SIZE - 1 BY <1>9, <4>1, Apart
      <4>3. Area(t) \in Nat BY <1>7
      <4> QED BY <1>7, <4>2, <4>3
    <3> HIDE DEF d
    <3>3. d - Area(u) \notin 0 .. SIZE - WIDTH - 1 /\ d - Area(u) \notin SIZE - WIDTH .. SIZE - 1
      BY <1>7, <3>1, <3>2
    <3>4. video'[d] = video[d] BY <1>8, <3>1, <3>3
    <3> QED BY <3>4 DEF d
  <2>2. ASSUME NEW b \in Runners, Writes(b, t)
        PROVE  Writes(b, t)' /\ run'[b] = run[b]
    <3>1. b # a BY <1>1, <1>9, <2>2 DEF Writes
    <3> QED BY <1>3, <1>5, <2>2, <3>1
  <2>3. Kept(t)' => Kept(t) BY <1>2 DEF Kept
  <2>4. ScreenOf(t) BY DEF Screens
  <2>5. sheet'[t] = sheet[t] /\ pos'[t] = pos[t] BY <1>2
  <2> QED BY <1>5, <2>1, <2>2, <2>3, <2>4, <2>5, ScreenKept
<1>10. ScreenOf(u)'
  <2>1. SUFFICES ASSUME Kept(u)
                 PROVE  /\ ~(Writes("driver", u)' /\ Writes("call", u)')
                        /\ \A b \in Runners : Writes(b, u)' => Completes(b, u)'
                        /\ ~(~Writes("driver", u)' /\ ~Writes("call", u)')
    <3>1. Kept(u)' => Kept(u) BY <1>2 DEF Kept
    <3> QED BY <3>1 DEF ScreenOf
  <2>2. "driver" \in Runners /\ "call" \in Runners /\ Runners = {"driver", "call"} BY DEF Runners
  <2>3. ~(Writes("driver", u) /\ Writes("call", u)) /\ Completes(a, u)
    BY <1>4, <2>1 DEF Screens, ScreenOf
  <2>4. \A b \in Runners : Writes(b, u)' => b = a BY <1>4, <1>5, <2>2, <2>3
  <2>5. Completes(a, u)'
    <3> DEFINE s == sheet[u]
               top == s.top - 1
               base == top * WIDTH
               p == SIZE - WIDTH
    <3>1. Overflows(u, run[a].pos)
      <4>1. Area(u) + SIZE >= Area(u) + SIZE BY <1>7
      <4> QED BY <1>3, <4>1, Zenon DEF Overflows
    <3>2. /\ top \in Nat /\ run[a].pos = s.at - base
          /\ \A c \in 0 .. SIZE - 1 : video[Area(u) + c] = s.text[base + c]
      <4>1. \A c \in 0 .. SIZE - 1 : c # SIZE BY <1>7
      <4> QED BY <1>2, <2>3, <3>1, <4>1 DEF Completes, ShowsFrom
    <3>3. /\ s.text \in [0 .. Rows * WIDTH -> 0 .. MaxOutput] /\ s.at \in Nat /\ s.top \in Nat
          /\ s.top <= MaxOutput
          /\ \A c \in 0 .. Rows * WIDTH : s.at <= c => s.text[c] = Blank
      <4>1. IsSheet(s, written) /\ written \in 0 .. MaxOutput BY DEF Sheets, Fits, ScreenTypeOK
      <4>2. s.top <= written /\ s.top \in Nat BY <4>1 DEF IsSheet
      <4>3. s.top <= MaxOutput
        <5> HIDE DEF s
        <5> QED BY <4>1, <4>2, Areas
      <4> QED BY <4>1, <4>3 DEF IsSheet
    <3>4. u = 0 /\ Area(u) = 0
      <4>1. u = 0 BY <2>1, <3>2, <3>3 DEF Kept
      <4> QED BY <4>1, Areas
    <3>5. s.top * WIDTH = base + WIDTH /\ base \in Nat
      <4>1. s.top = top + 1 BY <3>3
      <4> HIDE DEF top
      <4>2. (top + 1) * WIDTH = top * WIDTH + WIDTH /\ top * WIDTH \in Nat BY <1>7, <3>2
      <4> QED BY <4>1, <4>2
    <3>6. (base + WIDTH) + SIZE <= Rows * WIDTH /\ Rows * WIDTH \in Nat
      <4>1. s.top + HEIGHT \in Int /\ Rows \in Nat /\ s.top + HEIGHT <= Rows /\ HEIGHT \in Nat
        BY <3>3, Areas DEF Rows
      <4>2. (s.top + HEIGHT) * WIDTH <= Rows * WIDTH BY <1>7, <4>1, Multiples
      <4>3. (s.top + HEIGHT) * WIDTH = s.top * WIDTH + HEIGHT * WIDTH BY <1>7, <3>3, <4>1
      <4>4. SIZE = HEIGHT * WIDTH BY <1>7, <4>1 DEF SIZE
      <4>5. Rows * WIDTH \in Nat BY <1>7, <4>1
      <4> QED BY <3>5, <4>2, <4>3, <4>4, <4>5
    <3> HIDE DEF s, top, base, p
    <3>7. s.at = base + SIZE
      <4>1. run[a].pos = SIZE
        <5>1. Area(u) + SIZE = SIZE BY <1>7, <3>4
        <5> QED BY <1>3, <5>1
      <4>2. s.at - base = SIZE BY <3>2, <4>1
      <4> QED BY <1>7, <3>3, <3>5, <4>2
    <3>8. run'[a].pos = p /\ p = s.at - s.top * WIDTH
      <4>1. run[a].pos = SIZE
        <5>1. Area(u) + SIZE = SIZE BY <1>7, <3>4
        <5> QED BY <1>3, <5>1
      <4>2. run'[a].pos = p BY <1>3, <4>1 DEF p
      <4>3. (base + SIZE) - (base + WIDTH) = SIZE - WIDTH BY <1>7, <3>5
      <4> QED BY <3>5, <3>7, <4>2, <4>3 DEF p
    <3>9. ~Overflows(u, run'[a].pos) BY <1>7, <3>4, <3>8 DEF Overflows, p
    <3>10. ASSUME NEW c \in 0 .. SIZE - 1
           PROVE  video'[Area(u) + c] = s.text[s.top * WIDTH + c]
      <4>1. Area(u) + c = c /\ c - Area(u) = c /\ c \in 0 .. 3 * SIZE - 1 BY <1>7, <3>4
      <4>2. CASE c \in 0 .. SIZE - WIDTH - 1
        <5>1. video'[c] = video[c + WIDTH] BY <1>8, <4>1, <4>2
        <5>2. c + WIDTH \in 0 .. SIZE - 1 /\ Area(u) + (c + WIDTH) = c + WIDTH BY <1>7, <3>4, <4>2
        <5>3. video[c + WIDTH] = s.text[base + (c + WIDTH)] BY <3>2, <5>2
        <5>4. base + (c + WIDTH) = s.top * WIDTH + c BY <1>7, <3>5
        <5> QED BY <4>1, <5>1, <5>3, <5>4
      <4>3. CASE c \in SIZE - WIDTH .. SIZE - 1
        <5>1. c \notin 0 .. SIZE - WIDTH - 1 BY <1>7, <4>3
        <5>2. video'[c] = Blank BY <1>8, <4>1, <4>3, <5>1
        <5>3. s.top * WIDTH + c \in 0 .. Rows * WIDTH /\ s.at <= s.top * WIDTH + c
          BY <1>7, <3>5, <3>6, <3>7, <4>3
        <5> QED BY <3>3, <4>1, <5>2, <5>3
      <4> QED BY <1>7, <4>2, <4>3
    <3>11. run'[a].at # "draw" BY <1>3
    <3>12. sheet'[u] = s BY <1>2 DEF s
    <3> QED BY <3>3, <3>8, <3>9, <3>10, <3>11, <3>12 DEF Completes, ShowsFrom, Area, Overflows
  <2> QED BY <1>4, <2>2, <2>4, <2>5
<1> QED BY <1>9, <1>10 DEF Screens

LEMMA ReadCursorShows ==
    ASSUME Fits, Sheets, Screens, NEW a \in Runners, ReadCursor(a)
    PROVE  Screens'
<1>1. PICK u \in Ttys : u = run[a].tty BY RunIs DEF Fits
<1>2. run[a].at = "read" /\ ~Busy("call") /\ UNCHANGED <<screen, current_tty, written, sheet, lost, torn>>
  <2>1. a = "driver" BY ReadCursorFits
  <2> QED BY <2>1 DEF ReadCursor, At
<1>3. /\ a = "driver" /\ run[a].reg = START
      /\ run'[a].at = "high index" /\ run'[a].tty = u /\ run'[a].reg = CURSOR
      /\ run'[a].pos = pos[u] /\ run'[a].pos < Area(u) + SIZE
      /\ \A b \in Runners : b # a => run'[b] = run[b]
  BY <1>1, ReadCursorFits
<1>4. "driver" \in Runners /\ "call" \in Runners /\ Runners = {"driver", "call"} /\ START # CURSOR
  BY DEF Runners, START, CURSOR
<1>5. \A t \in Ttys : /\ ~Writes("driver", t) /\ ~Writes("call", t) /\ ~Writes("call", t)'
                      /\ Writes("driver", t)' <=> t = u
  BY <1>2, <1>3, <1>4 DEF Writes, HoldsCursor, Busy
<1>6. UNCHANGED <<video, pos, sheet, lost>> BY <1>2 DEF screen
<1>7. ASSUME NEW t \in Ttys, t # u PROVE ScreenOf(t)'
  <2>1. \A b \in Runners : ~Writes(b, t) /\ ~Writes(b, t)' BY <1>4, <1>5, <1>7
  <2>2. Kept(t)' => Kept(t) BY <1>6 DEF Kept
  <2>3. ScreenOf(t) BY DEF Screens
  <2> QED BY <1>6, <2>1, <2>2, <2>3, ScreenKept
<1>8. ScreenOf(u)'
  <2>1. SUFFICES ASSUME Kept(u)
                 PROVE  Completes("driver", u)'
    <3>1. Kept(u)' => Kept(u) BY <1>6 DEF Kept
    <3> QED BY <1>4, <1>5, <3>1 DEF ScreenOf
  <2>2. pos[u] = sheet[u].at - sheet[u].top * WIDTH /\ ShowsFrom(u, sheet[u].top, SIZE)
    BY <1>5, <2>1 DEF Screens, ScreenOf
  <2>3. ~Overflows(u, run'[a].pos)
    <3>1. Area(u) \in Nat /\ SIZE \in Nat /\ pos[u] \in Nat BY Areas DEF Fits, ScreenTypeOK
    <3>2. pos[u] < Area(u) + SIZE BY <1>3
    <3>3. ~(pos[u] >= Area(u) + SIZE) BY <3>1, <3>2
    <3> QED BY <1>3, <3>3 DEF Overflows
  <2>4. sheet[u].top \in Nat BY DEF Sheets, IsSheet
  <2> QED BY <1>3, <1>6, <2>2, <2>3, <2>4 DEF Completes, ShowsFrom, Area, Overflows
<1> QED BY <1>7, <1>8 DEF Screens

LEMMA KeepCursorShows ==
    ASSUME Fits, Screens, NEW a \in Runners, KeepCursor(a)
    PROVE  Screens'
<1>1. PICK u \in Ttys : u = run[a].tty BY RunIs DEF Fits
<1>2. run[a].at = "keep" /\ UNCHANGED <<video, sheet, lost>> BY DEF KeepCursor, At
<1>3. /\ run[a].reg = CURSOR /\ run[a].pos < Area(u) + SIZE
      /\ run'[a] = Idle /\ \A b \in Runners : b # a => run'[b] = run[b]
      /\ pos'[u] = run[a].pos /\ \A t \in Ttys : t # u => pos'[t] = pos[t]
  BY <1>1, KeepCursorFits
<1>4. "driver" \in Runners /\ "call" \in Runners /\ Runners = {"driver", "call"} BY DEF Runners
<1>5. Writes(a, u) BY <1>1, <1>2, <1>3 DEF Writes, HoldsCursor, Busy
<1>6. \A b \in Runners, t \in Ttys : Writes(b, t)' <=> b # a /\ Writes(b, t)
  BY <1>3, IdleFits DEF Writes, HoldsCursor, Busy
<1>7. ASSUME NEW t \in Ttys, t # u PROVE ScreenOf(t)'
  <2>1. ASSUME NEW b \in Runners, Writes(b, t)
        PROVE  Writes(b, t)' /\ run'[b] = run[b]
    <3>1. b # a BY <1>1, <1>7, <2>1 DEF Writes
    <3> QED BY <1>3, <1>6, <2>1, <3>1
  <2>2. Kept(t)' => Kept(t) BY <1>2 DEF Kept
  <2>3. ScreenOf(t) BY DEF Screens
  <2>4. sheet'[t] = sheet[t] /\ pos'[t] = pos[t] BY <1>2, <1>3, <1>7
  <2> QED BY <1>2, <1>6, <2>1, <2>2, <2>3, <2>4, ScreenKept
<1>8. ScreenOf(u)'
  <2>1. SUFFICES ASSUME Kept(u)
                 PROVE  /\ ~Writes("driver", u)' /\ ~Writes("call", u)'
                        /\ pos'[u] = sheet'[u].at - sheet'[u].top * WIDTH
                        /\ ShowsFrom(u, sheet[u].top, SIZE)'
    <3>1. Kept(u)' => Kept(u) BY <1>2 DEF Kept
    <3> QED BY <1>4, <3>1 DEF ScreenOf
  <2>2. ~(Writes("driver", u) /\ Writes("call", u)) /\ Completes(a, u)
    BY <1>5, <2>1 DEF Screens, ScreenOf
  <2>3. ~Writes("driver", u)' /\ ~Writes("call", u)' BY <1>4, <1>5, <1>6, <2>2
  <2>4. ~Overflows(u, run[a].pos)
    <3>1. Area(u) \in Nat /\ SIZE \in Nat /\ run[a].pos \in Nat BY Areas, RunIs DEF Fits
    <3> QED BY <1>3, <3>1 DEF Overflows
  <2>5. run[a].pos = sheet[u].at - sheet[u].top * WIDTH /\ ShowsFrom(u, sheet[u].top, SIZE)
    BY <1>2, <2>2, <2>4 DEF Completes
  <2> QED BY <1>2, <1>3, <2>3, <2>5 DEF ShowsFrom, Area
<1> QED BY <1>7, <1>8 DEF Screens

\* A character that is output is on the sheet at once; the run that outputs it
\* has it still to draw.
LEMMA OutputShows ==
    ASSUME Fits, Sheets, Screens, NEW a \in Runners, NEW t \in Ttys, NEW k \in Kinds, Output(a, t, k),
           a = "driver" => t = current_tty, lost \subseteq lost',
           a = "call" /\ HoldsCursor("driver") /\ t = current_tty => t \in lost',
           lost' \subseteq Ttys, torn' \subseteq {START, CURSOR}
    PROVE  Screens'
<1> DEFINE p == pos[t]
           q == Moved(k, p)
           s == sheet[t]
           ch == written'
           r == sys_putchar(t, k, ch, p)
           new == TypedOn(s, k, ch)
           base == s.top * WIDTH
           x == IF k = "back" THEN q ELSE p
           draws == k = "char" \/ (k = "back" /\ p > 0)
<1>1. ~Busy("call") /\ ~Busy(a) /\ UNCHANGED <<screen, current_tty>> BY DEF Output
<1>2. UNCHANGED <<video, pos>> BY <1>1 DEF screen
<1>3. /\ sheet'[t] = new /\ \A u \in Ttys : u # t => sheet'[u] = sheet[u]
      /\ written < MaxOutput /\ written \in Nat /\ written' \in 1 .. MaxOutput
  BY SheetsChange
<1>4. run'[a] = r /\ \A b \in Runners : b # a => run'[b] = run[b] BY OutputFits
<1>5. "driver" \in Runners /\ "call" \in Runners /\ Runners = {"driver", "call"} BY DEF Runners
<1>6. r.tty = t /\ r.reg = CURSOR /\ r.at # "idle"
  <2>1. ch \in 0 .. MaxOutput BY <1>3
  <2>2. r.at \in {"draw", "roll", "high index", "keep"} BY <2>1, PutFits
  <2> QED BY <2>2 DEF sys_putchar
<1> HIDE DEF r
<1>7. \A u \in Ttys : /\ ~Writes(a, u) /\ (Writes(a, u)' <=> u = t)
                      /\ \A b \in Runners : b # a => (Writes(b, u)' <=> Writes(b, u))
  BY <1>1, <1>4, <1>6 DEF Writes, HoldsCursor, Busy
<1>8. ASSUME NEW u \in Ttys, u # t PROVE ScreenOf(u)'
  <2>1. \A b \in Runners : ~Writes(b, u) => ~Writes(b, u)' BY <1>7, <1>8
  <2>2. \A b \in Runners : Writes(b, u) => Writes(b, u)' /\ run'[b] = run[b] BY <1>4, <1>7
  <2>3. sheet'[u] = sheet[u] /\ pos'[u] = pos[u] BY <1>2, <1>3, <1>8
  <2>4. Kept(u)' => Kept(u) BY <2>3 DEF Kept
  <2>5. ScreenOf(u) BY DEF Screens
  <2> QED BY <1>2, <2>1, <2>2, <2>3, <2>4, <2>5, ScreenKept
<1>9. ScreenOf(t)'
  <2>1. SUFFICES ASSUME t \notin lost', t = 0 \/ new.top = 0
                 PROVE  /\ \A b \in Runners : b # a => ~Writes(b, t)
                        /\ Completes(a, t)'
    <3>1. Kept(t)' => t \notin lost' /\ (t = 0 \/ new.top = 0) BY <1>3 DEF Kept
    <3> HIDE DEF new
    <3> QED BY <1>5, <1>7, <3>1 DEF ScreenOf
  <2>2. \A b \in Runners : ~Writes(b, t)
    <3>1. ~Writes("call", t) BY <1>1 DEF Writes, HoldsCursor
    <3>2. Writes("driver", t) => HoldsCursor("driver") /\ t = current_tty
      BY <1>5 DEF Writes, HoldsCursor, Fits, RunFits
    <3>3. a = "call" => ~Writes("driver", t) BY <2>1, <3>2
    <3> QED BY <1>5, <1>7, <3>1, <3>3
  <2>3. IsSheet(s, written) BY DEF Sheets
  <2>4. /\ s.at - base \in 0 .. SIZE - 1
        /\ LET m == Moved(k, s.at - base) IN
             /\ m \in 0 .. SIZE /\ new.at = base + m
             /\ new.top = IF m = SIZE THEN s.top + 1 ELSE s.top
    BY <1>3, <2>3, SheetMoves
  <2>5. s.top \in Nat /\ SIZE \in Nat \ {0} /\ Area(t) \in Nat /\ WIDTH \in Nat
    BY <2>3, Areas DEF IsSheet
  <2>6. Kept(t)
    <3>1. t \notin lost BY <2>1
    <3>2. new.top = 0 => s.top = 0
      <4> HIDE DEF new, s, base
      <4> QED BY <2>4, <2>5
    <3> QED BY <2>1, <3>1, <3>2 DEF Kept
  <2>7. p = s.at - base /\ ShowsFrom(t, s.top, SIZE)
    BY <1>5, <2>2, <2>6 DEF Screens, ScreenOf
  <2>8. /\ p \in 0 .. SIZE - 1 /\ q \in 0 .. SIZE /\ new.at = base + q
        /\ new.top = IF q = SIZE THEN s.top + 1 ELSE s.top
    BY <2>4, <2>7
  <2>9. /\ x \in 0 .. SIZE - 1
        /\ \A c \in 0 .. Rows * WIDTH : c # base + x => new.text[c] = s.text[c]
        /\ ~draws => new.text = s.text
        /\ draws => new.text[base + x] = IF k = "char" THEN ch ELSE Blank
    BY <1>3, <2>3, <2>7, SheetDrawn
  <2>10. /\ r.pos = q /\ r.cell = x /\ r.n = (IF k = "char" THEN ch ELSE Blank)
         /\ (r.at = "draw" <=> draws)
    <3>1. Onward(t, q) # "draw" BY DEF Onward
    <3> QED BY <3>1 DEF sys_putchar, r
  <2>11. base \in Nat /\ base + SIZE <= Rows * WIDTH /\ Rows * WIDTH \in Nat
    <3>1. s.top + HEIGHT \in Int /\ Rows \in Nat /\ s.top + HEIGHT <= Rows /\ HEIGHT \in Nat
      <4>1. written \in Nat /\ written <= MaxOutput BY <1>3, Areas
      <4>2. s.top <= written BY <2>3 DEF IsSheet
      <4> HIDE DEF s
      <4> QED BY <2>5, <4>1, <4>2, Areas DEF Rows
    <3>2. WIDTH \in Nat \ {0} BY Areas
    <3> HIDE DEF s
    <3>3. (s.top + HEIGHT) * WIDTH <= Rows * WIDTH BY <3>1, <3>2, Multiples
    <3>4. (s.top + HEIGHT) * WIDTH = s.top * WIDTH + HEIGHT * WIDTH BY <2>5, <3>1, <3>2
    <3>5. SIZE = HEIGHT * WIDTH BY <3>1, <3>2 DEF SIZE
    <3>6. s.top * WIDTH \in Nat /\ Rows * WIDTH \in Nat BY <2>5, <3>1
    <3> QED BY <3>3, <3>4, <3>5, <3>6
  <2>12. s.top = IF Overflows(t, q) THEN new.top - 1 ELSE new.top
    <3>1. CASE t = 0
      <4>1. Area(t) = 0 BY <3>1, Areas
      <4> HIDE DEF q, new, s
      <4> QED BY <2>5, <2>8, <4>1 DEF Overflows
    <3>2. CASE t # 0
      <4>1. new.top = 0 BY <2>1, <3>2
      <4>2. Area(t) = SIZE BY <3>2, Areas DEF Ttys
      <4> HIDE DEF q, new, s
      <4> QED BY <2>5, <2>8, <4>1, <4>2 DEF Overflows
    <3> QED BY <3>1, <3>2
  <2>13. q = new.at - base
    <3> HIDE DEF q, new, base
    <3> QED BY <2>8, <2>11
  <2>14. ASSUME NEW c \in 0 .. SIZE - 1, draws => c # x
         PROVE  video'[Area(t) + c] = new.text[base + c]
    <3>1. video[Area(t) + c] = s.text[base + c]
      <4>1. c # SIZE BY <2>5
      <4> QED BY <2>7, <4>1 DEF ShowsFrom
    <3>2. CASE ~draws BY <1>2, <2>9, <3>1, <3>2
    <3>3. CASE draws
      <4> HIDE DEF new, s, base, x, q, p, draws
      <4>1. c # x BY <2>14, <3>3
      <4>2. base + c \in 0 .. Rows * WIDTH /\ base + c # base + x
        <5>1. c \in Nat /\ c < SIZE /\ x \in Nat BY <2>5, <2>9
        <5> QED BY <2>5, <2>11, <4>1, <5>1
      <4> QED BY <1>2, <2>9, <3>1, <3>3, <4>2
    <3> QED BY <3>2, <3>3
  <2> HIDE DEF new, s, q, p, draws, x
  <2>15. Completes(a, t)'
    <3>1. run'[a].pos = q /\ run'[a].cell = x /\ (run'[a].at = "draw" <=> draws) /\ sheet'[t] = new
      BY <1>3, <1>4, <2>10
    <3>2. draws => run'[a].cell < SIZE /\ run'[a].n = new.text[base + run'[a].cell]
      BY <1>4, <2>5, <2>9, <2>10
    <3>3. \A c \in 0 .. SIZE - 1 : c # (IF draws THEN x ELSE SIZE) =>
              video'[Area(t) + c] = new.text[base + c]
      BY <2>14
    <3> QED BY <2>5, <2>12, <2>13, <3>1, <3>2, <3>3 DEF Completes, ShowsFrom, Area, Overflows
  <2> QED BY <2>2, <2>15
<1> QED BY <1>8, <1>9 DEF Screens

LEMMA EchoShows ==
    ASSUME Fits, Sheets, Screens, NEW k \in Kinds, Echo(k)
    PROVE  Sheets' /\ Screens'
<1>1. PICK t \in Ttys : t = current_tty BY DEF Fits, ScreenTypeOK
<1>2. "driver" \in Runners /\ "driver" # "call" BY DEF Runners
<1>3. lost \subseteq Ttys /\ torn \subseteq {START, CURSOR} BY DEF Fits, ScreenTypeOK
<1>4. /\ Output("driver", t, k) /\ lost \subseteq lost' /\ lost' \subseteq Ttys
      /\ torn' \subseteq {START, CURSOR}
  BY <1>1, <1>3 DEF Echo
<1> QED BY <1>1, <1>2, <1>4, OutputShows, SheetsChange

LEMMA WriteShows ==
    ASSUME Fits, Sheets, Screens, NEW t \in Ttys, NEW k \in Kinds, sys_std_write(t, k)
    PROVE  Sheets' /\ Screens'
<1>1. "call" \in Runners /\ "driver" # "call" BY DEF Runners
<1>2. lost \subseteq Ttys /\ torn \subseteq {START, CURSOR} BY DEF Fits, ScreenTypeOK
<1>3. /\ Output("call", t, k) /\ lost \subseteq lost' /\ lost' \subseteq Ttys
      /\ torn' \subseteq {START, CURSOR}
      /\ HoldsCursor("driver") /\ t = current_tty => t \in lost'
  BY <1>2 DEF sys_std_write
<1> QED BY <1>1, <1>3, OutputShows, SheetsChange

LEMMA SwitchShows ==
    ASSUME Fits, Sheets, Screens, NEW t \in Ttys, SwitchScreen(t)
    PROVE  Sheets' /\ Screens'
<1>1. ~Busy("call") /\ ~Busy("driver") /\ UNCHANGED <<video, pos, written, sheet, lost>>
  BY DEF SwitchScreen, screen
<1>2. run'["driver"].reg = START /\ run'["call"] = run["call"]
  <2>1. sys_switch_tty(t).reg = START BY DEF sys_switch_tty
  <2> QED BY <2>1, SwitchFits
<1>3. Runners = {"driver", "call"} /\ START # CURSOR BY DEF Runners, START, CURSOR
<1>4. \A a \in Runners, u \in Ttys : ~Writes(a, u) /\ ~Writes(a, u)'
  BY <1>1, <1>2, <1>3 DEF Writes, HoldsCursor, Busy
<1>5. ASSUME NEW u \in Ttys PROVE ScreenOf(u)'
  <2>1. Kept(u)' => Kept(u) BY <1>1 DEF Kept
  <2>2. ScreenOf(u) BY DEF Screens
  <2> QED BY <1>1, <1>4, <2>1, <2>2, ScreenKept
<1>6. Sheets' BY <1>1 DEF Sheets, IsSheet
<1> QED BY <1>5, <1>6 DEF Screens

LEMMA ScreensStep ==
    ASSUME Fits, Sheets, Screens, [ScreenNext]_screenVars
    PROVE  Sheets' /\ Screens'
<1>1. ASSUME NEW a \in Runners, VideoStep(a) PROVE Sheets' /\ Screens'
  <2>1. UNCHANGED <<written, sheet, lost>>
    BY <1>1 DEF VideoStep, Draw, sys_roll_screen, SelectHigh, SendHigh, SelectLow, SendLow,
                ReadCursor, KeepCursor
  <2>2. Sheets' BY <2>1 DEF Sheets, IsSheet
  <2>3. ASSUME NEW place \in {"high", "low index", "low", "read", "keep"}, GoTo(a, place),
               run[a].at \in {"high index", "high", "low index", "low"}, UNCHANGED <<video, pos>>
        PROVE  Screens'
    <3>1. place \in Stages \ {"idle", "draw"} BY <2>3 DEF Stages
    <3> QED BY <2>1, <2>3, <3>1, SentShows
  <2>4. CASE Draw(a) BY <2>4, DrawShows, <2>2
  <2>5. CASE sys_roll_screen(a) BY <2>5, RollShows, <2>2
  <2>6. CASE SelectHigh(a) BY <2>2, <2>3, <2>6 DEF SelectHigh, At
  <2>7. CASE SendHigh(a) BY <2>2, <2>3, <2>7 DEF SendHigh, At
  <2>8. CASE SelectLow(a) BY <2>2, <2>3, <2>8 DEF SelectLow, At
  <2>9. CASE SendLow(a)
    <3> DEFINE place == IF run[a].reg = START THEN "read" ELSE "keep"
    <3>1. place \in {"high", "low index", "low", "read", "keep"} OBVIOUS
    <3>2. GoTo(a, place) /\ run[a].at = "low" /\ UNCHANGED <<video, pos>>
      BY <2>9 DEF SendLow, At
    <3> HIDE DEF place
    <3> QED BY <2>2, <2>3, <3>1, <3>2
  <2>10. CASE ReadCursor(a) BY <2>2, <2>10, ReadCursorShows
  <2>11. CASE KeepCursor(a) BY <2>2, <2>11, KeepCursorShows
  <2> QED BY <1>1, <2>4, <2>5, <2>6, <2>7, <2>8, <2>9, <2>10, <2>11 DEF VideoStep
<1>2. CASE UNCHANGED screenVars
  <2>1. UNCHANGED <<video, pos, run, written, sheet, lost>> BY <1>2 DEF screenVars, screen
  <2>2. ASSUME NEW u \in Ttys PROVE ScreenOf(u)'
    <3>1. Kept(u)' => Kept(u) BY <2>1 DEF Kept
    <3>2. ScreenOf(u) BY DEF Screens
    <3>3. \A a \in Runners : Writes(a, u)' <=> Writes(a, u)
      BY <2>1 DEF Writes, HoldsCursor, Busy
    <3> QED BY <2>1, <3>1, <3>2, <3>3, ScreenKept
  <2> QED BY <2>1, <2>2 DEF Sheets, IsSheet, Screens
<1> QED BY <1>1, <1>2, EchoShows, SwitchShows, WriteShows DEF ScreenNext

-----------------------------------------------------------------------------
(* What the controller's registers hold.                                   *)

\* What a run has sent stays sent as long as nobody else sends.
LEMMA SentKept ==
    ASSUME NEW a \in Runners, Sent(a), run'[a] = run[a], UNCHANGED <<index, data, current_tty>>
    PROVE  Sent(a)'
BY DEF Sent, Number, Area

LEMMA BothRunners == "driver" \in Runners /\ "call" \in Runners /\ Runners = {"driver", "call"}
                     /\ "driver" # "call"
BY DEF Runners

LEMMA Registers ==
    /\ START = 12 /\ CURSOR = 14 /\ START + 1 = 13 /\ CURSOR + 1 = 15 /\ START # CURSOR
    /\ Regs = {12, 13, 14, 15}
BY DEF START, CURSOR, Regs

\* Drawing and rolling.
LEMMA QuietPorts ==
    ASSUME Fits, Ports, NEW a \in Runners, a = "driver" => ~Busy("call"),
           run[a].at \in {"draw", "roll"}, run'[a].at \in {"roll", "high index", "keep"},
           run'[a].tty = run[a].tty, run'[a].reg = CURSOR, run'[a].at = "keep" => run[a].tty # current_tty,
           \A b \in Runners : b # a => run'[b] = run[b],
           UNCHANGED <<pos, index, data, current_tty, torn>>
    PROVE  Ports'
<1>1. run[a].reg = CURSOR /\ Busy(a) /\ Busy(a)' /\ (a = "driver" => run[a].tty = current_tty)
  BY DEF Fits, RunFits, Busy
<1>2. Sent(a)'
  BY DEF Sent
<1>3. a = "driver" => run'["call"] = run["call"] BY BothRunners
<1>4. a = "call" => run'["driver"] = run["driver"] BY BothRunners
<1>5. Sent("call")' BY <1>2, <1>3, BothRunners, SentKept DEF Ports
<1>6. DriverSent'
  <2>1. CASE a = "driver" BY <1>2, <2>1 DEF DriverSent
  <2>2. CASE a = "call"
    <3>1. Sent("driver") => Sent("driver")' BY <1>4, <2>2, BothRunners, SentKept
    <3> QED BY <1>4, <2>2, <3>1 DEF Ports, DriverSent, Sends, Busy
  <2> QED BY <2>1, <2>2, BothRunners
<1>7. CallSends' <=> CallSends
  BY <1>1, <1>3, BothRunners DEF CallSends, Busy
<1>8. \A x : Sends("driver", x)' <=> Sends("driver", x)
  BY <1>1, <1>4, BothRunners DEF Sends, Busy
<1>9. CallTears'
  <2>1. CASE a = "driver"
    <3>1. ~CallSends' BY <1>7, <2>1 DEF CallSends
    <3> QED BY <3>1 DEF CallTears
  <2>2. CASE a = "call" BY <1>4, <1>7, <1>8, <2>2 DEF Ports, CallTears
  <2> QED BY <2>1, <2>2, BothRunners
<1>10. CursorIndex' BY DEF Ports, CursorIndex, Sends, Busy
<1>11. StartSet' BY <1>8 DEF Ports, StartSet, Pair, Area
<1>12. CursorSet'
  <2>1. Busy("driver")' <=> Busy("driver") BY <1>1, <1>4, BothRunners DEF Busy
  <2> QED BY <1>7, <2>1 DEF Ports, CursorSet, Pair, Area
<1> QED BY <1>5, <1>6, <1>9, <1>10, <1>11, <1>12 DEF Ports

\* Setting a register.
LEMMA SendingPorts ==
    ASSUME Fits, Ports, NEW a \in Runners, a = "driver" => ~Busy("call"),
           run[a].at \in {"high index", "high", "low index", "low"},
           run'[a].at \in {"high", "low index", "low", "read", "keep"},
           run'[a].tty = run[a].tty, run'[a].reg = run[a].reg,
           \A b \in Runners : b # a => run'[b] = run[b],
           UNCHANGED <<pos, current_tty, torn>>,
           Sent(a) => Sent(a)',
           run[a].reg = CURSOR =>
               index' \in {14, 15} /\ data'[12] = data[12] /\ data'[13] = data[13]
    PROVE  Ports'
<1>1. /\ Busy(a) /\ Busy(a)' /\ run[a].tty = current_tty
      /\ a = "call" => run[a].reg = CURSOR
  BY DEF Fits, RunFits, Busy
<1>2. a = "driver" => run'["call"] = run["call"] BY BothRunners
<1>3. a = "call" => run'["driver"] = run["driver"] BY BothRunners
<1>4. a = "call" => CallSends BY <1>1 DEF CallSends
<1>5. CallSends' <=> CallSends BY <1>1, <1>2, BothRunners DEF CallSends, Busy
<1>6. \A x : Sends("driver", x)' <=> Sends("driver", x)
  BY <1>1, <1>3, BothRunners DEF Sends, Busy
<1>7. Sent("call")'
  <2>1. CASE a = "call" BY <2>1 DEF Ports
  <2>2. CASE a = "driver"
    <3>1. run'["call"].at = "idle" BY <1>2, <2>2 DEF Busy
    <3> QED BY <3>1 DEF Sent
  <2> QED BY <2>1, <2>2, BothRunners
<1>8. DriverSent'
  <2>1. CASE a = "driver" BY <1>6, <2>1 DEF Ports, DriverSent
  <2>2. CASE a = "call"
    <3>1. ASSUME Sends("driver", CURSOR) PROVE CURSOR \in torn
      BY <1>4, <2>2, <3>1 DEF Ports, CallTears
    <3>2. ASSUME Sends("driver", START), START \notin torn PROVE Sent("driver")'
      <4>1. run["driver"].reg = START /\ Sent("driver") BY <3>2 DEF Ports, DriverSent, Sends
      <4>2. run["driver"].at \notin {"high", "low"}
        BY <1>4, <2>2, <3>2 DEF Ports, CallTears, Sends
      <4>3. run["driver"].at # "keep"
        <5>1. run["driver"].at = "keep" => run["driver"].reg = CURSOR BY BothRunners DEF Fits, RunFits
        <5> QED BY <4>1, <5>1, Registers
      <4>4. data'[START] = data[START] /\ data'[START + 1] = data[START + 1]
        BY <1>1, <2>2, Registers
      <4>5. run'["driver"] = run["driver"] BY <1>3, <2>2
      <4> QED BY <4>1, <4>2, <4>3, <4>4, <4>5 DEF Sent, Number, Area
    <3> QED BY <1>6, <3>1, <3>2 DEF DriverSent
  <2> QED BY <2>1, <2>2, BothRunners
<1>9. CallTears'
  <2>1. CASE a = "driver"
    <3>1. ~CallSends' BY <1>5, <2>1 DEF CallSends
    <3> QED BY <3>1 DEF CallTears
  <2>2. CASE a = "call" BY <1>3, <1>5, <1>6, <2>2 DEF Ports, CallTears
  <2> QED BY <2>1, <2>2, BothRunners
<1>10. CursorIndex'
  <2>1. ASSUME NEW b \in Runners, Sends(b, CURSOR)', run'[b].at \in {"high", "low index", "low"}
        PROVE  index' \in {14, 15}
    <3>1. CASE b = a BY <2>1, <3>1 DEF Sends
    <3>2. CASE b # a /\ a = "call" BY <1>1, <3>2
    <3>3. CASE b # a /\ a = "driver" BY <1>2, <2>1, <3>3, BothRunners DEF Busy
    <3> QED BY <3>1, <3>2, <3>3, BothRunners
  <2> QED BY <2>1 DEF CursorIndex
<1>11. StartSet'
  <2>1. ASSUME ~Sends("driver", START)
        PROVE  data'[START] = data[START] /\ data'[START + 1] = data[START + 1]
    <3>1. run[a].reg = CURSOR
      <4>1. run[a].reg \in {START, CURSOR} BY RunIs DEF Fits
      <4> QED BY <1>1, <2>1, <4>1, BothRunners DEF Sends
    <3> QED BY <3>1, Registers
  <2> QED BY <1>6, <2>1 DEF Ports, StartSet, Pair, Area
<1>12. CursorSet'
  <2>1. Busy("driver")' \/ CallSends' BY <1>1, <1>4, <1>5, BothRunners
  <2> QED BY <2>1 DEF CursorSet
<1> QED BY <1>7, <1>8, <1>9, <1>10, <1>11, <1>12 DEF Ports

LEMMA VideoQuietPorts ==
    ASSUME Fits, Ports, NEW a \in Runners, Draw(a) \/ sys_roll_screen(a)
    PROVE  Ports'
<1>1. CASE Draw(a)
  <2> DEFINE at == Onward(run[a].tty, run[a].pos)
  <2>1. /\ run[a].at = "draw" /\ GoTo(a, at) /\ (a = "driver" => ~Busy("call"))
        /\ UNCHANGED <<pos, index, data, current_tty, written, sheet, lost, torn>>
    BY <1>1 DEF Draw, At
  <2>2. at \in {"roll", "high index", "keep"} /\ (at = "keep" => run[a].tty # current_tty)
    BY OnwardIs
  <2> HIDE DEF at
  <2>3. at \in Stages BY <2>2 DEF Stages
  <2>4. /\ run'[a].at = at /\ run'[a].tty = run[a].tty /\ run'[a].reg = run[a].reg
        /\ \A b \in Runners : b # a => run'[b] = run[b]
    BY <2>1, <2>3, Goes DEF Fits
  <2>5. run[a].reg = CURSOR BY <2>1 DEF Fits, RunFits
  <2> QED BY <2>1, <2>2, <2>4, <2>5, QuietPorts
<1>2. CASE sys_roll_screen(a)
  <2>1. /\ run[a].at = "roll" /\ (a = "driver" => ~Busy("call"))
        /\ UNCHANGED <<pos, index, data, current_tty, written, sheet, lost, torn>>
    BY <1>2 DEF sys_roll_screen, At
  <2>2. /\ run'[a].at \in {"high index", "keep"} /\ run'[a].tty = run[a].tty /\ run'[a].reg = CURSOR
        /\ run'[a].at = "keep" => run[a].tty # current_tty
        /\ \A b \in Runners : b # a => run'[b] = run[b]
    BY <1>2, RollFits
  <2> QED BY <2>1, <2>2, QuietPorts
<1> QED BY <1>1, <1>2

LEMMA SelectPorts ==
    ASSUME Fits, Ports, NEW a \in Runners, SelectHigh(a) \/ SelectLow(a)
    PROVE  Ports'
<1>1. PICK g \in {START, CURSOR} : g = run[a].reg BY RunIs DEF Fits
<1>2. CASE SelectHigh(a)
  <2>1. /\ run[a].at = "high index" /\ GoTo(a, "high") /\ (a = "driver" => ~Busy("call"))
        /\ index' = g /\ UNCHANGED <<video, pos, data, current_tty, written, sheet, lost, torn>>
    BY <1>1, <1>2 DEF SelectHigh, At
  <2>2. "high" \in Stages BY DEF Stages
  <2>3. /\ run'[a].at = "high" /\ run'[a].tty = run[a].tty /\ run'[a].reg = g
        /\ \A b \in Runners : b # a => run'[b] = run[b]
    BY <1>1, <2>1, <2>2, Goes DEF Fits
  <2>4. Sent(a)' BY <2>1, <2>3 DEF Sent
  <2>5. g = CURSOR => index' \in {14, 15} BY <2>1, Registers
  <2> QED BY <1>1, <2>1, <2>3, <2>4, <2>5, SendingPorts
<1>3. CASE SelectLow(a)
  <2>1. /\ run[a].at = "low index" /\ GoTo(a, "low") /\ (a = "driver" => ~Busy("call"))
        /\ index' = g + 1 /\ UNCHANGED <<video, pos, data, current_tty, written, sheet, lost, torn>>
    BY <1>1, <1>3 DEF SelectLow, At
  <2>2. "low" \in Stages BY DEF Stages
  <2>3. /\ run'[a].at = "low" /\ run'[a].tty = run[a].tty /\ run'[a].reg = g /\ run'[a].pos = run[a].pos
        /\ \A b \in Runners : b # a => run'[b] = run[b]
    BY <1>1, <2>1, <2>2, Goes DEF Fits
  <2>4. Sent(a) => Sent(a)' BY <1>1, <2>1, <2>3 DEF Sent, Number, Area
  <2>5. g = CURSOR => index' \in {14, 15} BY <2>1, Registers
  <2> QED BY <1>1, <2>1, <2>3, <2>4, <2>5, SendingPorts
<1> QED BY <1>2, <1>3

LEMMA SendPorts ==
    ASSUME Fits, Ports, NEW a \in Runners, SendHigh(a) \/ SendLow(a)
    PROVE  Ports'
<1>1. PICK g \in {START, CURSOR} : g = run[a].reg BY RunIs DEF Fits
<1>2. index \in Regs /\ data \in [Regs -> 0 .. BYTE - 1] BY DEF Fits, ScreenTypeOK
<1>4. g \in Regs /\ g + 1 \in Regs /\ g # g + 1 BY Registers
<1>5. ASSUME run[a].at \in {"high", "low"}, g = CURSOR PROVE index \in {14, 15}
  BY <1>1, <1>5 DEF Ports, CursorIndex, Sends, Busy
<1>6. CASE SendHigh(a)
  <2>1. /\ run[a].at = "high" /\ GoTo(a, "low index") /\ (a = "driver" => ~Busy("call"))
        /\ data' = [data EXCEPT ![index] = Number(run[a]) \div BYTE]
        /\ UNCHANGED <<video, pos, index, current_tty, written, sheet, lost, torn>>
    BY <1>6 DEF SendHigh, At
  <2>2. "low index" \in Stages BY DEF Stages
  <2>3. /\ run'[a].at = "low index" /\ run'[a].tty = run[a].tty /\ run'[a].reg = g /\ run'[a].pos = run[a].pos
        /\ \A b \in Runners : b # a => run'[b] = run[b]
    BY <1>1, <2>1, <2>2, Goes DEF Fits
  <2>4. Number(run'[a]) = Number(run[a]) BY <1>1, <2>3 DEF Number
  <2>5. Sent(a) => Sent(a)'
    <3>1. Sent(a) => index = g BY <1>1, <2>1 DEF Sent
    <3>2. index = g => data'[g] = Number(run[a]) \div BYTE BY <1>2, <2>1
    <3> QED BY <2>3, <2>4, <3>1, <3>2 DEF Sent
  <2>6. g = CURSOR => index' \in {14, 15} /\ data'[12] = data[12] /\ data'[13] = data[13]
    <3> SUFFICES ASSUME g = CURSOR
                 PROVE  index' \in {14, 15} /\ data'[12] = data[12] /\ data'[13] = data[13]
      OBVIOUS
    <3>1. index \in {14, 15} BY <1>5, <2>1
    <3>2. 12 \in Regs /\ 13 \in Regs /\ index # 12 /\ index # 13 BY <3>1, Registers
    <3> QED BY <1>2, <2>1, <3>1, <3>2
  <2> QED BY <1>1, <2>1, <2>3, <2>5, <2>6, SendingPorts
<1>7. CASE SendLow(a)
  <2> DEFINE at == IF run[a].reg = START THEN "read" ELSE "keep"
  <2>1. /\ run[a].at = "low" /\ GoTo(a, at) /\ (a = "driver" => ~Busy("call"))
        /\ data' = [data EXCEPT ![index] = Number(run[a]) % BYTE]
        /\ UNCHANGED <<video, pos, index, current_tty, written, sheet, lost, torn>>
    BY <1>7 DEF SendLow, At, LowByte
  <2>2. at \in {"read", "keep"} OBVIOUS
  <2> HIDE DEF at
  <2>3. at \in Stages BY <2>2 DEF Stages
  <2>4. /\ run'[a].at = at /\ run'[a].tty = run[a].tty /\ run'[a].reg = g /\ run'[a].pos = run[a].pos
        /\ \A b \in Runners : b # a => run'[b] = run[b]
    BY <1>1, <2>1, <2>3, Goes DEF Fits
  <2>5. Number(run'[a]) = Number(run[a]) BY <1>1, <2>4 DEF Number
  <2>6. Sent(a) => Sent(a)'
    <3>1. run[a].tty = current_tty BY <2>1 DEF Fits, RunFits
    <3>2. Sent(a) => index = g + 1 /\ data[g] = Number(run[a]) \div BYTE BY <1>1, <2>1, <3>1 DEF Sent
    <3>3. index = g + 1 => data'[g + 1] = Number(run[a]) % BYTE /\ data'[g] = data[g]
      BY <1>2, <1>4, <2>1
    <3> QED BY <2>2, <2>4, <2>5, <3>2, <3>3 DEF Sent
  <2>7. g = CURSOR => index' \in {14, 15} /\ data'[12] = data[12] /\ data'[13] = data[13]
    <3> SUFFICES ASSUME g = CURSOR
                 PROVE  index' \in {14, 15} /\ data'[12] = data[12] /\ data'[13] = data[13]
      OBVIOUS
    <3>1. index \in {14, 15} BY <1>5, <2>1
    <3>2. 12 \in Regs /\ 13 \in Regs /\ index # 12 /\ index # 13 BY <3>1, Registers
    <3> QED BY <1>2, <2>1, <3>1, <3>2
  <2> QED BY <1>1, <2>1, <2>2, <2>4, <2>6, <2>7, SendingPorts
<1> QED BY <1>6, <1>7

\* The picture is set: what is left of the switch is the cursor.
LEMMA ReadPorts ==
    ASSUME Fits, Ports, NEW a \in Runners, ReadCursor(a)
    PROVE  Ports'
<1>1. /\ run[a].at = "read" /\ (a = "driver" => ~Busy("call"))
      /\ UNCHANGED <<screen, current_tty, written, sheet, lost, torn>>
  BY DEF ReadCursor, At
<1>2. /\ a = "driver" /\ run[a].reg = START /\ run[a].tty = current_tty
      /\ run'[a].at = "high index" /\ run'[a].tty = run[a].tty /\ run'[a].reg = CURSOR
      /\ \A b \in Runners : b # a => run'[b] = run[b]
  BY ReadCursorFits
<1>3. run'["call"] = run["call"] /\ run["call"].at = "idle" BY <1>1, <1>2, BothRunners DEF Busy
<1>4. UNCHANGED <<pos, index, data>> BY <1>1 DEF screen
<1>5. Sent("call")' BY <1>3 DEF Sent
<1>6. DriverSent' BY <1>2 DEF DriverSent, Sent
<1>7. CallTears' BY <1>3 DEF CallTears, CallSends, Busy
<1>8. CursorIndex' BY <1>2, <1>3, BothRunners DEF CursorIndex, Sends, Busy
<1>9. StartSet'
  <2>1. ASSUME START \notin torn PROVE Pair(START, Area(current_tty))
    <3> DEFINE n == Number(run[a])
    <3>1. Sent("driver")
      <4>1. Sends("driver", START) BY <1>1, <1>2 DEF Sends, Busy
      <4> QED BY <2>1, <4>1 DEF Ports, DriverSent
    <3>2. data[START] = n \div BYTE /\ data[START + 1] = n % BYTE
      BY <1>1, <1>2, <3>1 DEF Sent
    <3>3. n = (n \div BYTE) * BYTE + (n % BYTE)
      <4>1. run[a].pos < Area(run[a].tty) + SIZE BY <1>1 DEF Fits, RunFits
      <4> QED BY <4>1, NumberFits DEF Fits
    <3>4. n = Area(current_tty) BY <1>2 DEF Number
    <3> HIDE DEF n
    <3> QED BY <3>2, <3>3, <3>4, Zenon DEF Pair
  <2> QED BY <1>1, <1>4, <2>1 DEF StartSet, Pair, Area
<1>10. CursorSet' BY <1>2 DEF CursorSet, Busy
<1> QED BY <1>5, <1>6, <1>7, <1>8, <1>9, <1>10 DEF Ports

\* The end of a run.
LEMMA KeepPorts ==
    ASSUME Fits, Ports, NEW a \in Runners, KeepCursor(a)
    PROVE  Ports'
<1>1. /\ run[a].at = "keep" /\ (a = "driver" => ~Busy("call"))
      /\ UNCHANGED <<video, index, data, current_tty, written, sheet, lost, torn>>
  BY DEF KeepCursor, At
<1>2. /\ run[a].reg = CURSOR /\ run[a].pos < Area(run[a].tty) + SIZE
      /\ run'[a] = Idle /\ \A b \in Runners : b # a => run'[b] = run[b]
      /\ pos'[run[a].tty] = run[a].pos /\ \A t \in Ttys : t # run[a].tty => pos'[t] = pos[t]
  BY KeepCursorFits
<1>3. /\ Busy(a) /\ ~Busy(a)' /\ run'[a].at = "idle"
      /\ a = "driver" => run[a].tty = current_tty
  BY <1>1, <1>2, IdleFits DEF Busy, Fits, RunFits
<1>4. a = "driver" => run'["call"] = run["call"] /\ run["call"].at = "idle"
  BY <1>1, <1>2, BothRunners DEF Busy
<1>5. a = "call" => run'["driver"] = run["driver"] BY <1>2, BothRunners
<1>6. ~CallSends' BY <1>3, <1>4, BothRunners DEF CallSends, Busy
<1>7. Sent("call")' BY <1>3, <1>4, BothRunners DEF Sent
<1>8. DriverSent'
  <2>1. CASE a = "driver" BY <1>3, <2>1 DEF DriverSent, Sends
  <2>2. CASE a = "call"
    <3>1. Sent("driver") => Sent("driver")' BY <1>1, <1>5, <2>2, BothRunners, SentKept
    <3> QED BY <1>1, <1>5, <2>2, <3>1 DEF Ports, DriverSent, Sends, Busy
  <2> QED BY <2>1, <2>2, BothRunners
<1>9. CallTears' BY <1>6 DEF CallTears
<1>10. CursorIndex'
  <2>1. ASSUME NEW b \in Runners, Sends(b, CURSOR)', run'[b].at \in {"high", "low index", "low"}
        PROVE  index' \in {14, 15}
    <3>1. b # a BY <1>3, <2>1
    <3>2. run'[b] = run[b] BY <1>2, <3>1
    <3> QED BY <1>1, <2>1, <3>2 DEF Ports, CursorIndex, Sends, Busy
  <2> QED BY <2>1 DEF CursorIndex
<1>11. StartSet'
  <2>1. ~Sends("driver", START)' => ~Sends("driver", START)
    BY <1>2, <1>5, BothRunners, Registers DEF Sends, Busy
  <2> QED BY <1>1, <2>1 DEF Ports, StartSet, Pair, Area
<1>12. CursorSet'
  <2> SUFFICES ASSUME ~Busy("driver")', CURSOR \notin torn
               PROVE  data[CURSOR] * BYTE + data[CURSOR + 1] = Area(current_tty) + pos'[current_tty]
    BY <1>1 DEF CursorSet, Pair, Area
  <2>1. CASE run[a].tty = current_tty
    <3> DEFINE n == Number(run[a])
    <3>1. Sent(a)
      <4>1. CASE a = "call" BY <4>1 DEF Ports
      <4>2. CASE a = "driver"
        <5>1. Sends("driver", CURSOR) BY <1>2, <1>3, <4>2 DEF Sends
        <5> QED BY <4>2, <5>1 DEF Ports, DriverSent
      <4> QED BY <4>1, <4>2, BothRunners
    <3>2. data[CURSOR] = n \div BYTE /\ data[CURSOR + 1] = n % BYTE
      BY <1>1, <1>2, <2>1, <3>1 DEF Sent
    <3>3. n = (n \div BYTE) * BYTE + (n % BYTE) BY <1>2, NumberFits DEF Fits
    <3>4. n = Area(current_tty) + pos'[current_tty] BY <1>2, <2>1, Registers DEF Number
    <3> HIDE DEF n
    <3> QED BY <3>2, <3>3, <3>4, Zenon
  <2>2. CASE run[a].tty # current_tty
    <3>1. a = "call" /\ ~CallSends /\ ~Busy("driver")
      BY <1>3, <1>5, <2>2, BothRunners DEF CallSends, Busy
    <3>2. pos'[current_tty] = pos[current_tty] BY <1>2, <2>2 DEF Fits, ScreenTypeOK
    <3>3. Pair(CURSOR, Area(current_tty) + pos[current_tty]) BY <3>1 DEF Ports, CursorSet
    <3> QED BY <3>2, <3>3, Zenon DEF Pair
  <2> QED BY <2>1, <2>2
<1> QED BY <1>7, <1>8, <1>9, <1>10, <1>11, <1>12 DEF Ports

\* A character of the driver; nothing else runs.
LEMMA EchoPorts ==
    ASSUME Fits, Ports, NEW k \in Kinds, Echo(k)
    PROVE  Ports'
<1>1. PICK t \in Ttys : t = current_tty BY DEF Fits, ScreenTypeOK
<1>2. /\ ~Busy("call") /\ ~Busy("driver") /\ UNCHANGED <<pos, index, data, current_tty>>
      /\ torn' = torn \ {CURSOR} /\ Output("driver", t, k)
  BY <1>1 DEF Echo, Output, screen
<1>3. lost' \subseteq Ttys /\ torn' \subseteq {START, CURSOR}
  BY <1>2 DEF Echo, Fits, ScreenTypeOK
<1> DEFINE r == sys_putchar(t, k, written', pos[t])
<1>4. run'["driver"] = r /\ run'["call"] = run["call"] /\ written' \in 0 .. MaxOutput
  BY <1>1, <1>2, <1>3, BothRunners, OutputFits
<1>5. r.at \in {"draw", "roll", "high index"}
  <2>1. r.at \in {"draw", "roll", "high index", "keep"} /\ (r.at = "keep" => t # current_tty)
    BY <1>4, PutFits
  <2> QED BY <1>1, <2>1
<1>6. r.reg = CURSOR BY DEF sys_putchar
<1> HIDE DEF r
<1>7. run["call"].at = "idle" BY <1>2 DEF Busy
<1>8. Sent("call")' BY <1>4, <1>7 DEF Sent
<1>9. DriverSent' BY <1>4, <1>5 DEF DriverSent, Sent
<1>10. CallTears' BY <1>4, <1>7 DEF CallTears, CallSends, Busy
<1>11. CursorIndex' BY <1>4, <1>5, <1>7, BothRunners DEF CursorIndex, Sends, Busy
<1>12. StartSet'
  <2>1. START \notin torn' => START \notin torn BY <1>2, Registers
  <2>2. ~Sends("driver", START) BY <1>2 DEF Sends
  <2> QED BY <1>2, <2>1, <2>2 DEF Ports, StartSet, Pair, Area
<1>13. CursorSet' BY <1>4, <1>5 DEF CursorSet, Busy
<1> QED BY <1>8, <1>9, <1>10, <1>11, <1>12, <1>13 DEF Ports

LEMMA SwitchPorts ==
    ASSUME Fits, Ports, NEW t \in Ttys, SwitchScreen(t)
    PROVE  Ports'
<1>1. ~Busy("call") /\ UNCHANGED <<pos, index, data>> BY DEF SwitchScreen, screen
<1>2. /\ run'["driver"].at = "high index" /\ run'["driver"].reg = START
      /\ run'["call"] = run["call"]
  <2>1. sys_switch_tty(t).at = "high index" /\ sys_switch_tty(t).reg = START BY DEF sys_switch_tty
  <2> QED BY <2>1, SwitchFits
<1>3. run["call"].at = "idle" BY <1>1 DEF Busy
<1>4. Sent("call")' BY <1>2, <1>3 DEF Sent
<1>5. DriverSent' BY <1>2 DEF DriverSent, Sent
<1>6. CallTears' BY <1>2, <1>3 DEF CallTears, CallSends, Busy
<1>7. CursorIndex' BY <1>2, <1>3, BothRunners DEF CursorIndex, Sends, Busy
<1>8. StartSet' BY <1>2 DEF StartSet, Sends, Busy
<1>9. CursorSet' BY <1>2 DEF CursorSet, Busy
<1> QED BY <1>4, <1>5, <1>6, <1>7, <1>8, <1>9 DEF Ports

\* A character of a system call, which may come between any two steps of the driver.
LEMMA WritePorts ==
    ASSUME Fits, Ports, NEW t \in Ttys, NEW k \in Kinds, sys_std_write(t, k)
    PROVE  Ports'
<1>1. /\ ~Busy("call") /\ UNCHANGED <<pos, index, data, current_tty>> /\ Output("call", t, k)
      /\ torn' = IF t # current_tty THEN torn
                 ELSE IF ~Busy("driver") THEN torn \ {CURSOR}
                 ELSE IF HoldsCursor("driver") THEN torn \cup {CURSOR}
                 ELSE IF run["driver"].at \in {"high", "low"} THEN torn \cup {START}
                 ELSE torn
  BY DEF sys_std_write, Output, screen
<1>2. lost' \subseteq Ttys /\ torn' \subseteq {START, CURSOR}
  BY DEF sys_std_write, Fits, ScreenTypeOK
<1> DEFINE r == sys_putchar(t, k, written', pos[t])
<1>3. run'["call"] = r /\ run'["driver"] = run["driver"] /\ written' \in 0 .. MaxOutput
  BY <1>1, <1>2, BothRunners, OutputFits
<1>4. r.at \in {"draw", "roll", "high index", "keep"} /\ (r.at = "keep" => t # current_tty)
  BY <1>3, PutFits
<1>5. r.reg = CURSOR /\ r.tty = t BY DEF sys_putchar
<1> HIDE DEF r
<1>6. Sent("call")' BY <1>1, <1>3, <1>4, <1>5 DEF Sent
<1>7. Busy("driver") => torn \subseteq torn' BY <1>1
<1>8. \A x : Sends("driver", x)' <=> Sends("driver", x) BY <1>3 DEF Sends, Busy
<1>9. CallSends' <=> t = current_tty BY <1>1, <1>3, <1>4, <1>5 DEF CallSends, Busy
<1>10. DriverSent'
  <2>1. Sent("driver") => Sent("driver")' BY <1>1, <1>3, BothRunners, SentKept
  <2> QED BY <1>7, <1>8, <2>1 DEF Ports, DriverSent, Sends
<1>11. CallTears'
  <2> SUFFICES ASSUME t = current_tty
               PROVE  /\ Sends("driver", CURSOR) => CURSOR \in torn'
                      /\ run["driver"].at \in {"high", "low"} => run["driver"].reg \in torn'
    BY <1>3, <1>8, <1>9 DEF CallTears
  <2>1. Sends("driver", CURSOR) => CURSOR \in torn' BY <1>1 DEF Sends, HoldsCursor
  <2>2. ASSUME run["driver"].at \in {"high", "low"} PROVE run["driver"].reg \in torn'
    <3>1. Busy("driver") /\ run["driver"].reg \in {START, CURSOR}
      BY <2>2, RunIs, BothRunners DEF Busy, Fits
    <3>2. CASE run["driver"].reg = CURSOR BY <2>1, <3>1, <3>2 DEF Sends
    <3>3. CASE run["driver"].reg = START
      <4>1. ~HoldsCursor("driver") BY <3>3, Registers DEF HoldsCursor
      <4> QED BY <1>1, <2>2, <3>1, <3>3, <4>1
    <3> QED BY <3>1, <3>2, <3>3
  <2> QED BY <2>1, <2>2
<1>12. CursorIndex'
  <2>1. ASSUME NEW b \in Runners, Sends(b, CURSOR)', run'[b].at \in {"high", "low index", "low"}
        PROVE  index' \in {14, 15}
    <3>1. b = "driver" BY <1>3, <1>4, <2>1, BothRunners
    <3> QED BY <1>1, <1>3, <2>1, <3>1 DEF Ports, CursorIndex, Sends, Busy
  <2> QED BY <2>1 DEF CursorIndex
<1>13. StartSet'
  <2>1. START \in torn => START \in torn' BY <1>1, Registers
  <2> QED BY <1>1, <1>8, <2>1 DEF Ports, StartSet, Pair, Area
<1>14. CursorSet'
  <2> SUFFICES ASSUME ~Busy("driver"), t # current_tty, CURSOR \notin torn'
               PROVE  Pair(CURSOR, Area(current_tty) + pos[current_tty])'
    BY <1>3, <1>9 DEF CursorSet, Busy
  <2>1. ~CallSends /\ CURSOR \notin torn BY <1>1 DEF CallSends
  <2> QED BY <1>1, <2>1 DEF Ports, CursorSet, Pair, Area
<1> QED BY <1>6, <1>10, <1>11, <1>12, <1>13, <1>14 DEF Ports

LEMMA PortsStep ==
    ASSUME Fits, Ports, [ScreenNext]_screenVars
    PROVE  Ports'
<1>1. ASSUME NEW a \in Runners, VideoStep(a) PROVE Ports'
  BY <1>1, VideoQuietPorts, SelectPorts, SendPorts, ReadPorts, KeepPorts DEF VideoStep
<1>2. CASE UNCHANGED screenVars
  <2>1. UNCHANGED <<pos, index, data, run, current_tty, torn>> BY <1>2 DEF screenVars, screen
  <2> QED BY <2>1 DEF Ports, Sent, DriverSent, CallTears, CursorIndex, StartSet, CursorSet, Pair,
                      Sends, CallSends, Busy, Number, Area
<1> QED BY <1>1, <1>2, EchoPorts, SwitchPorts, WritePorts DEF ScreenNext

-----------------------------------------------------------------------------
(* The invariant, and what follows from it.                                *)

LEMMA ScreenInitInv == ScreenInit => ScreenInv
<1> SUFFICES ASSUME ScreenInit PROVE ScreenInv
  OBVIOUS
<1>1. /\ video = [c \in 0 .. 3 * SIZE - 1 |-> Blank] /\ pos = [t \in Ttys |-> 0]
      /\ index = 15 /\ data = [r \in Regs |-> 0] /\ run = [a \in Runners |-> Idle]
      /\ current_tty = 0 /\ written = 0 /\ sheet = [t \in Ttys |-> EmptySheet]
      /\ lost = {} /\ torn = {}
  BY DEF ScreenInit
<1>2. /\ SIZE \in Nat \ {0} /\ WIDTH \in Nat \ {0} /\ HEIGHT \in Nat \ {0} /\ MaxOutput \in Nat
      /\ SIZE = HEIGHT * WIDTH /\ \A t \in Ttys : Area(t) \in Nat /\ Area(t) <= SIZE
  BY Areas DEF SIZE
<1>3. /\ \A a \in Runners : run[a] = Idle /\ run[a].at = "idle" /\ ~Busy(a)
  BY <1>1, IdleFits DEF Busy
<1>4. ScreenTypeOK
  <2>1. 0 \in 0 .. MaxOutput /\ 0 \in 0 .. BYTE - 1 BY <1>2, ByteAssumption
  <2>2. video \in [0 .. 3 * SIZE - 1 -> 0 .. MaxOutput] BY <1>1, <2>1 DEF Blank
  <2>3. pos \in [Ttys -> Nat] /\ \A t \in Ttys : pos[t] < Area(t) + SIZE
    <3>1. ASSUME NEW t \in Ttys PROVE 0 < Area(t) + SIZE
      <4>1. Area(t) \in Nat BY <1>2
      <4> QED BY <1>2, <4>1
    <3> QED BY <1>1, <3>1
  <2>4. index \in Regs /\ data \in [Regs -> 0 .. BYTE - 1]
    <3>1. index \in Regs BY <1>1, Registers
    <3> QED BY <1>1, <2>1, <3>1
  <2>5. run \in [Runners -> RunRecords] BY <1>1, IdleFits
  <2> QED BY <1>1, <2>1, <2>2, <2>3, <2>4, <2>5 DEF ScreenTypeOK, Ttys
<1>5. \A a \in Runners : RunFits(a)
  <2>1. 0 < Area(0) + SIZE BY <1>2 DEF Ttys
  <2> QED BY <1>3, <2>1, IdleFits DEF RunFits
<1>6. Sheets
  <2>1. \A t \in Ttys : sheet[t] = EmptySheet BY <1>1
  <2>2. IsSheet(EmptySheet, 0)
    <3> DEFINE s == EmptySheet
    <3>1. s.text = [c \in 0 .. Rows * WIDTH |-> Blank] /\ s.at = 0 /\ s.top = 0 BY DEF EmptySheet
    <3>2. 0 \in 0 .. MaxOutput BY <1>2
    <3>3. 0 * WIDTH = 0 /\ (0 + HEIGHT) * WIDTH = SIZE BY <1>2
    <3> HIDE DEF s
    <3> QED BY <1>2, <3>1, <3>2, <3>3 DEF IsSheet, Blank, s
  <2> QED BY <1>1, <2>1, <2>2 DEF Sheets
<1>7. Screens
  <2>1. ASSUME NEW t \in Ttys PROVE ScreenOf(t)
    <3>1. ~Writes("driver", t) /\ ~Writes("call", t) /\ \A a \in Runners : ~Writes(a, t)
      BY <1>3, BothRunners DEF Writes, HoldsCursor
    <3>2. /\ sheet[t].text = [c \in 0 .. Rows * WIDTH |-> Blank]
          /\ sheet[t].at = 0 /\ sheet[t].top = 0
      BY <1>1 DEF EmptySheet
    <3>3. 0 * WIDTH = 0 /\ 0 - 0 = 0 BY <1>2
    <3>4. ASSUME NEW c \in 0 .. SIZE - 1 PROVE video[Area(t) + c] = sheet[t].text[0 * WIDTH + c]
      <4>1. Area(t) + c \in 0 .. 3 * SIZE - 1 BY <1>2
      <4>2. 0 * WIDTH + c \in 0 .. Rows * WIDTH
        <5>1. Rows \in Nat /\ HEIGHT \in Int /\ HEIGHT <= Rows BY <1>2 DEF Rows
        <5>2. HEIGHT * WIDTH <= Rows * WIDTH BY <1>2, <5>1, Multiples
        <5>3. Rows * WIDTH \in Int BY <1>2, <5>1
        <5> QED BY <1>2, <3>3, <5>2, <5>3
      <4> QED BY <1>1, <3>2, <4>1, <4>2
    <3> QED BY <1>1, <3>1, <3>2, <3>3, <3>4 DEF ScreenOf, ShowsFrom
  <2> QED BY <2>1 DEF Screens
<1>8. Ports
  <2>1. Sent("call") /\ DriverSent BY <1>3, BothRunners DEF Sent, DriverSent, Sends
  <2>2. CallTears /\ CursorIndex BY <1>3, BothRunners DEF CallTears, CallSends, CursorIndex, Sends
  <2>3. Area(0) + 0 = 0 /\ Area(0) = 0 /\ 0 * BYTE + 0 = 0 BY <1>2, Areas, ByteAssumption
  <2>4. \A r \in {START, START + 1, CURSOR, CURSOR + 1} : data[r] = 0 BY <1>1, Registers
  <2>5. pos[0] = 0 BY <1>1 DEF Ttys
  <2> QED BY <1>1, <2>1, <2>2, <2>3, <2>4, <2>5 DEF Ports, StartSet, CursorSet, Pair
<1> QED BY <1>4, <1>5, <1>6, <1>7, <1>8 DEF ScreenInv, Fits

LEMMA ScreenInvariant == ScreenSpec => []ScreenInv
<1>1. ScreenInv /\ [ScreenNext]_screenVars => ScreenInv'
  BY FitsStep, ScreensStep, PortsStep DEF ScreenInv
<1> QED BY <1>1, ScreenInitInv, PTL DEF ScreenSpec

\* Unless a process wrote to the terminal while the driver held its cursor, the
\* screen of a terminal shows the last rows of what was output to it, in its place
\* and in order: sys_putchar_with_color and sys_roll_screen.
THEOREM ShowsWhatIsOutput == ScreenSpec => []ScreenShowsOutput
<1>1. ScreenInv => ScreenShowsOutput
  <2> SUFFICES ASSUME ScreenInv, NEW t \in Ttys \ lost, t = 0 \/ sheet[t].top = 0, ~Busy("call"),
                      ~(HoldsCursor("driver") /\ t = current_tty)
               PROVE  /\ pos[t] = sheet[t].at - sheet[t].top * WIDTH
                      /\ \A c \in 0 .. SIZE - 1 :
                            video[Area(t) + c] = sheet[t].text[sheet[t].top * WIDTH + c]
    BY DEF ScreenShowsOutput
  <2>1. ~Writes("call", t) BY DEF Writes, HoldsCursor
  <2>2. ~Writes("driver", t)
    BY BothRunners DEF Writes, HoldsCursor, ScreenInv, Fits, RunFits
  <2>3. pos[t] = sheet[t].at - sheet[t].top * WIDTH /\ ShowsFrom(t, sheet[t].top, SIZE)
    BY <2>1, <2>2 DEF ScreenInv, Screens, ScreenOf, Kept
  <2>4. \A c \in 0 .. SIZE - 1 : c # SIZE BY Areas
  <2> QED BY <2>3, <2>4 DEF ShowsFrom
<1> QED BY <1>1, ScreenInvariant, PTL

\* When nothing runs, the cursor the CRT controller was sent is that of the
\* terminal shown, unless its registers got mixed up: sys_set_cursor_pos.
THEOREM CursorIsShown == ScreenSpec => []CursorShown
<1>1. ScreenInv => CursorShown
  <2> SUFFICES ASSUME ScreenInv, Idling, CURSOR \notin torn
               PROVE  data[14] * BYTE + data[15] = Area(current_tty) + pos[current_tty]
    BY DEF CursorShown, ScreenInv, Fits
  <2>1. ~CallSends /\ ~Busy("driver") BY DEF Idling, CallSends
  <2>2. Pair(CURSOR, Area(current_tty) + pos[current_tty])
    BY <2>1 DEF ScreenInv, Ports, CursorSet
  <2> QED BY <2>2, Registers DEF Pair
<1> QED BY <1>1, ScreenInvariant, PTL

\* When nothing runs, the picture starts at the area of the terminal shown, unless
\* its registers got mixed up: sys_switch_tty.
THEOREM PictureStarts == ScreenSpec => []StartShown
<1>1. ScreenInv => StartShown
  <2> SUFFICES ASSUME ScreenInv, Idling, START \notin torn
               PROVE  data[12] * BYTE + data[13] = Area(current_tty)
    BY DEF StartShown
  <2>1. ~Sends("driver", START) BY DEF Idling, Sends
  <2>2. Pair(START, Area(current_tty)) BY <2>1 DEF ScreenInv, Ports, StartSet
  <2> QED BY <2>2, Registers DEF Pair
<1> QED BY <1>1, ScreenInvariant, PTL
=============================================================================
