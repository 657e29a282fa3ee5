-------------------------------- MODULE Tty --------------------------------
(***************************************************************************)
(* The input side of the terminals (src/io/tty.c): the ring of characters  *)
(* of each terminal, the driver that fills it from the keys typed, and     *)
(* sys_std_read, which waits for Enter and empties it.                     *)
(*                                                                         *)
(* sys_std_read runs with interrupts off: one step up to int $0x20, one    *)
(* step from there.  The driver runs with interrupts on and can be         *)
(* preempted between any two of its accesses to a ring: ++p->cnt is a load *)
(* and a store.  head and the character at head belong to the driver       *)
(* alone, so they change together with the access before them.  Which      *)
(* process runs is left open; module Proc has the scheduler.               *)
(***************************************************************************)
EXTENDS Terminals, Sequences, SequencesExt

CONSTANTS PROC_MAX_CNT, \* slots of the process table
          TtyOf,        \* the terminal of each process
          BUF,          \* characters a ring holds (128)
          MAX_SIZE,     \* what a reader asks for (127 in the shell)
          Letters       \* characters other than Enter and backspace

Pids == 0 .. PROC_MAX_CNT - 1

ASSUME SizeAssumption == BUF \in Nat \ {0} /\ MAX_SIZE \in Nat
ASSUME TtyAssumption == PROC_MAX_CNT \in Nat \ {0} /\ TtyOf \in [Pids -> Ttys]

VARIABLES
    in, head, tail, cnt, \* the ring of each terminal
    stat,    \* "user", "WAITING_INPUT" or, woken and not yet run, "READY"
    pc,      \* the next step of the driver
    key,     \* the key it is about
    reg,     \* a cnt it has loaded
    i,       \* the slot its loop has come to
    text,    \* what was typed on a terminal and not read (history)
    raced,   \* a read came in the middle of the driver's work (history)
    misread  \* a read returned something else than was typed (history)

rings == <<in, head, tail, cnt>>
driver == <<pc, key, reg, i>>
history == <<text, raced, misread>>
vars == <<rings, current_tty, stat, driver, history>>

None == "none"
Enter == "enter"
Backspace == "backspace"
Cells == 0 .. BUF - 1
Chars == Letters \cup {Enter}

TypeOK ==
    /\ in \in [Ttys -> [Cells -> Chars \cup {"nul"}]]
    /\ head \in [Ttys -> Cells]
    /\ tail \in [Ttys -> 0 .. 2 * BUF - 1]
    /\ cnt \in [Ttys -> -1 .. BUF]
    /\ current_tty \in Ttys
    /\ stat \in [Pids -> {"user", "WAITING_INPUT", "READY"}]
    /\ pc \in {"key", "store", "save", "back", "savedec", "wake"}
    /\ key \in Chars \cup {Backspace, None}
    /\ reg \in -1 .. BUF /\ i \in 0 .. PROC_MAX_CNT - 1
    /\ text \in [Ttys -> Seq(Chars)] /\ raced \in [Ttys -> BOOLEAN]
    /\ misread \in BOOLEAN

Init ==
    /\ in = [t \in Ttys |-> [n \in Cells |-> "nul"]]
    /\ head = [t \in Ttys |-> 0] /\ tail = [t \in Ttys |-> 0] /\ cnt = [t \in Ttys |-> 0]
    /\ current_tty = 0
    /\ stat = [p \in Pids |-> "user"]
    /\ pc = "key" /\ key = None /\ reg = 0 /\ i = 0
    /\ text = [t \in Ttys |-> <<>>] /\ raced = [t \in Ttys |-> FALSE]
    /\ misread = FALSE

\* What is not followed: a ring whose tail or cnt has left its range (the next
\* read copies the memory behind it), or that a read has upset.
Sound(t) == tail[t] < BUF /\ cnt[t] >= 0 /\ ~raced[t]

-----------------------------------------------------------------------------
(* The driver.  put_tty_in_buffer is always called for the current terminal. *)

\* (Mutant of Prev1: head does not wrap on a backspace.)
PrevNoWrap(n) == IF n = 0 THEN 0 ELSE n - 1

\* The test p->cnt >= 128 of an unsigned number: -1 stands for 2^32 - 1.
Full(t) == cnt[t] >= BUF \/ cnt[t] < 0

Next1(n) == IF n + 1 >= BUF THEN 0 ELSE n + 1
Prev1(n) == IF n - 1 < 0 THEN BUF - 1 ELSE n - 1

\* After put_tty_in_buffer(k): Enter goes on to the loop that wakes readers.
Done(k) == pc' = (IF k = Enter THEN "wake" ELSE "key") /\ key' = None /\ reg' = 0

\* A key is decoded and cnt is looked at.
PressChar(c) ==
    /\ pc = "key" /\ Sound(current_tty)
    /\ IF Full(current_tty) THEN Done(c) ELSE pc' = "store" /\ key' = c /\ UNCHANGED reg
    /\ UNCHANGED <<rings, current_tty, stat, i, history>>

PressBackspace ==
    /\ pc = "key" /\ Sound(current_tty)
    /\ IF cnt[current_tty] = 0 THEN Done(Backspace)
       ELSE pc' = "back" /\ key' = Backspace /\ UNCHANGED reg
    /\ UNCHANGED <<rings, current_tty, stat, i, history>>

\* The character is stored, head moves on, cnt is loaded.
StoreChar ==
    LET t == current_tty IN
    /\ pc = "store"
    /\ in' = [in EXCEPT ![t][head[t]] = key]
    /\ head' = [head EXCEPT ![t] = Next1(@)]
    /\ reg' = cnt[t]
    /\ pc' = "save"
    /\ UNCHANGED <<tail, cnt, current_tty, stat, key, i, history>>

SaveInc ==
    LET t == current_tty IN
    /\ pc = "save"
    /\ cnt' = [cnt EXCEPT ![t] = reg + 1]
    /\ text' = [text EXCEPT ![t] = IF raced[t] THEN @ ELSE Append(@, key)]
    /\ Done(key)
    /\ UNCHANGED <<in, head, tail, current_tty, stat, i, raced, misread>>

\* head moves back, cnt is loaded.
StepBack ==
    LET t == current_tty IN
    /\ pc = "back"
    /\ head' = [head EXCEPT ![t] = Prev1(@)]
    /\ reg' = cnt[t]
    /\ pc' = "savedec"
    /\ UNCHANGED <<in, tail, cnt, current_tty, stat, key, i, history>>

SaveDec ==
    LET t == current_tty IN
    /\ pc = "savedec"
    /\ cnt' = [cnt EXCEPT ![t] = IF reg < 0 THEN reg ELSE reg - 1]
    /\ text' = [text EXCEPT ![t] = IF raced[t] THEN @ ELSE Front(@)]
    /\ Done(key)
    /\ UNCHANGED <<in, head, tail, current_tty, stat, i, raced, misread>>

Woken(p) == stat[p] = "WAITING_INPUT" /\ TtyOf[p] = current_tty

\* (Mutant of LastSlot: the loop stops one slot early.)
LastButOne == PROC_MAX_CNT - 2

LastSlot == PROC_MAX_CNT - 1

\* One turn of the loop that Enter starts.
Wake ==
    /\ pc = "wake"
    /\ stat' = [stat EXCEPT ![i] = IF Woken(i) THEN "READY" ELSE @]
    /\ IF i >= LastSlot THEN pc' = "key" /\ i' = 0 ELSE pc' = "wake" /\ i' = i + 1
    /\ UNCHANGED <<rings, current_tty, key, reg, history>>

\* sys_switch_tty, on Ctrl-Alt-F1 and Ctrl-Alt-F2.
SwitchTty(t) ==
    /\ pc = "key"
    /\ current_tty' = t
    /\ UNCHANGED <<rings, stat, driver, history>>

Driver == StoreChar \/ SaveInc \/ StepBack \/ SaveDec \/ Wake

-----------------------------------------------------------------------------
(* sys_std_read.                                                           *)

StdRead(p) ==
    /\ stat[p] = "user"
    /\ stat' = [stat EXCEPT ![p] = "WAITING_INPUT"]
    /\ UNCHANGED <<rings, current_tty, driver, history>>

\* The characters in the ring, oldest first.
Contents(t) == [n \in 1 .. cnt[t] |-> in[t][(tail[t] + n - 1) % BUF]]

\* What the loop copies of a sequence: up to Enter, MAX_SIZE or its end.
Line(s) ==
    LET stops == {n \in 1 .. Len(s) : s[n] = Enter \/ n > MAX_SIZE}
    IN IF stops = {} THEN s ELSE SubSeq(s, 1, (CHOOSE n \in stops : \A m \in stops : n <= m) - 1)

\* (Mutant of TailAfter: nothing is flushed.)
TailNotFlushed(t, n) == (tail[t] + n) % BUF

\* tail after n characters were copied and the others flushed: the second loop
\* does not wrap.
TailAfter(t, n) == ((tail[t] + n) % BUF) + (cnt[t] - n)

\* The driver has loaded cnt to store it, or has found it above 0 to take one off.
MidWork(t) == t = current_tty /\ pc \in {"save", "back", "savedec"}

\* sys_std_read is resumed.
StdReadReturn(p) ==
    LET t == TtyOf[p]
        line == Line(Contents(t))
    IN
    /\ stat[p] = "READY"
    /\ Sound(t)
    /\ stat' = [stat EXCEPT ![p] = "user"]
    /\ tail' = [tail EXCEPT ![t] = TailAfter(t, Len(line))]
    /\ cnt' = [cnt EXCEPT ![t] = 0]
    /\ raced' = [raced EXCEPT ![t] = @ \/ MidWork(t)]
    /\ text' = [text EXCEPT ![t] = <<>>]
    /\ misread' = (misread \/ (~raced'[t] /\ line # Line(text[t])))
    /\ UNCHANGED <<in, head, current_tty, driver>>

Next ==
    \/ \E c \in Chars : PressChar(c)
    \/ PressBackspace
    \/ Driver
    \/ \E t \in Ttys : SwitchTty(t)
    \/ \E p \in Pids : StdRead(p) \/ StdReadReturn(p)

\* The driver and a woken reader are READY processes: both get to run.
Spec ==
    /\ Init /\ [][Next]_vars
    /\ WF_vars(Driver)
    /\ \A p \in Pids : WF_vars(StdReadReturn(p))

-----------------------------------------------------------------------------
(* Properties.                                                             *)

\* The documentation (tty task) says that keys go to the buffer of the shown
\* terminal and a backspace takes the last one back.  While no read came into
\* the driver's work and tail has not left the ring, the ring holds just what
\* was typed on its terminal and not yet read (and the variables keep their
\* types).
RingIsText ==
    /\ TypeOK
    /\ \A t \in Ttys : Sound(t) /\ ~MidWork(t) => Contents(t) = text[t]

\* std_read returns the line that was typed on the reader's terminal (as long as
\* the ring is followed; the line is compared when it is returned).
ReadsWhatWasTyped == ~misread

\* Enter reaches every process that waits for input on the terminal it was
\* typed on: each returns from std_read.
EnterWakes ==
    \A p \in Pids :
        (pc = "wake" /\ i = 0 /\ Woken(p))
            ~> (stat[p] = "user" \/ ~Sound(TtyOf[p]))
=============================================================================
