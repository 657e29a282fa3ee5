--------------------------------- MODULE Kb ---------------------------------
(***************************************************************************)
(* The ring of scancodes between the keyboard interrupt (src/io/kb.c) and  *)
(* the tty driver (get_byte_from_buffer in src/io/tty.c).                  *)
(*                                                                         *)
(* The handler runs with interrupts off and is one step, whether the       *)
(* keyboard or the timer calls it.  The driver is a process that runs with *)
(* interrupts on, in get_byte_from_buffer and in the handler it calls      *)
(* itself while the ring is empty: each of its accesses to shared memory   *)
(* is a step (the kernel is compiled without optimisation, ++cnt is a load *)
(* and a store).  Scancodes are numbered in the order they are sent.       *)
(***************************************************************************)
EXTENDS Integers, Sequences

CONSTANTS RING,     \* size of buffer (32)
          PORT,     \* bytes the 8042 holds
          MaxBytes  \* bound: bytes sent in a behaviour

ASSUME RingAssumption == RING \in Nat \ {0} /\ PORT \in Nat \ {0} /\ MaxBytes \in Nat

Slots == 0 .. RING - 1
Bytes == 1 .. MaxBytes

VARIABLES
    port,    \* bytes in the 8042
    latch,   \* the byte it gave out last
    sent,    \* bytes sent so far (bounded by MaxBytes)
    buffer, head, tail, cnt,
    pc,      \* the next step of the driver
    reg,     \* a value it has loaded
    byte,    \* the local variable of the handler it polls
    raced,   \* an interrupt came where the driver cannot bear one (history)
    smashed, \* a byte was stored behind buffer, over head itself
    stored,  \* bytes that went into the ring (history)
    taken    \* bytes that the driver got from it (history)

ring == <<buffer, head, tail, cnt>>
device == <<port, latch, sent>>
history == <<raced, smashed, stored, taken>>
vars == <<device, ring, pc, reg, byte, history>>

Steps == {"test", "status", "data", "full", "incload", "incstore", "slot", "put",
          "headload", "headstore", "wrap", "declo", "decst", "take"}

TypeOK ==
    /\ port \in Seq(Bytes) /\ Len(port) <= PORT
    /\ latch \in Bytes \cup {0} /\ sent \in 0 .. MaxBytes
    /\ buffer \in [Slots -> Bytes \cup {0}]
    /\ head \in 0 .. RING /\ tail \in Slots /\ cnt \in Nat
    /\ pc \in Steps /\ reg \in Nat /\ byte \in Bytes \cup {0}
    /\ raced \in BOOLEAN /\ smashed \in BOOLEAN
    /\ stored \subseteq Bytes /\ taken \in Seq(Bytes \cup {0})

Init ==
    /\ port = <<>> /\ latch = 0 /\ sent = 0
    /\ buffer = [i \in Slots |-> 0] /\ head = 0 /\ tail = 0 /\ cnt = 0
    /\ pc = "test" /\ reg = 0 /\ byte = 0
    /\ raced = FALSE /\ smashed = FALSE
    /\ stored = {} /\ taken = <<>>

-----------------------------------------------------------------------------
\* (Mutant of Room: the comparison lets one byte too many in.)
RoomPast == cnt <= RING

Room == cnt < RING

\* (Mutant of Some: the driver waits for a second byte.)
SomeMore == cnt > 1

\* The test of the driver's waiting loop.
Some == cnt > 0

\* ++head or ++tail, wrapped.
After(i) == IF i + 1 >= RING THEN 0 ELSE i + 1

\* The keyboard, which waits while the 8042 is full.
Send ==
    /\ sent < MaxBytes /\ Len(port) < PORT
    /\ sent' = sent + 1
    /\ port' = Append(port, sent + 1)
    /\ UNCHANGED <<latch, ring, pc, reg, byte, history>>

\* Where an interrupt that takes a byte does harm: the driver has a byte of its
\* own to put into the ring, or has loaded cnt, or is about to take the only
\* byte of the 8042, or has given up the slot of a full ring and not read it.
Exposed ==
    \/ pc \in {"full", "incload", "incstore", "slot", "put", "headload", "headstore", "wrap"}
    \/ pc = "decst"
    \/ pc = "data" /\ Len(port) = 1
    \/ pc = "take" /\ cnt = RING - 1

\* keyboard_handler as an interrupt, for one byte: a loop that finds several is
\* as many steps.  While the driver is between an increment of head and its
\* wrap, head points behind the buffer: at head itself.
Interrupt ==
    /\ port # <<>>
    /\ ~smashed
    /\ raced' = (raced \/ Exposed)
    /\ port' = Tail(port)
    /\ latch' = Head(port)
    /\ IF ~Room THEN UNCHANGED <<ring, stored, smashed>>
       ELSE IF head = RING
       THEN smashed' = TRUE /\ UNCHANGED <<ring, stored>>
       ELSE /\ cnt' = cnt + 1
            /\ buffer' = [buffer EXCEPT ![head] = Head(port)]
            /\ head' = After(head)
            /\ stored' = stored \cup {Head(port)}
            /\ UNCHANGED <<tail, smashed>>
    /\ UNCHANGED <<sent, pc, reg, byte, taken>>

-----------------------------------------------------------------------------
(* The driver: get_byte_from_buffer, with the handler it polls inside.     *)

At(step) == pc = step /\ ~smashed
GoTo(step) == pc' = step

Test ==
    /\ At("test")
    /\ GoTo(IF Some THEN "declo" ELSE "status")
    /\ UNCHANGED <<device, ring, reg, byte, history>>

\* inb(0x64)
Status ==
    /\ At("status")
    /\ GoTo(IF port = <<>> THEN "test" ELSE "data")
    /\ UNCHANGED <<device, ring, reg, byte, history>>

\* inb(0x60): the 8042 gives its last byte again when it has no other.
Data ==
    /\ At("data")
    /\ IF port = <<>> THEN byte' = latch /\ UNCHANGED <<port, latch>>
       ELSE byte' = Head(port) /\ latch' = Head(port) /\ port' = Tail(port)
    /\ GoTo("full")
    /\ UNCHANGED <<sent, ring, reg, history>>

Full ==
    /\ At("full")
    /\ GoTo(IF Room THEN "incload" ELSE "status")
    /\ UNCHANGED <<device, ring, reg, byte, history>>

\* ++cnt
IncLoad ==
    /\ At("incload")
    /\ reg' = cnt
    /\ GoTo("incstore")
    /\ UNCHANGED <<device, ring, byte, history>>

IncStore ==
    /\ At("incstore")
    /\ cnt' = reg + 1
    /\ GoTo("slot")
    /\ UNCHANGED <<device, buffer, head, tail, reg, byte, history>>

\* (*head) = byte
Slot ==
    /\ At("slot")
    /\ reg' = head
    /\ GoTo("put")
    /\ UNCHANGED <<device, ring, byte, history>>

Put ==
    /\ At("put")
    /\ buffer' = [buffer EXCEPT ![reg] = byte]
    /\ stored' = stored \cup {byte}
    /\ GoTo("headload")
    /\ UNCHANGED <<device, head, tail, cnt, reg, byte, raced, smashed, taken>>

\* ++head
HeadLoad ==
    /\ At("headload")
    /\ reg' = head
    /\ GoTo("headstore")
    /\ UNCHANGED <<device, ring, byte, history>>

HeadStore ==
    /\ At("headstore")
    /\ head' = reg + 1
    /\ GoTo("wrap")
    /\ UNCHANGED <<device, buffer, tail, cnt, reg, byte, history>>

Wrap ==
    /\ At("wrap")
    /\ head' = IF head >= RING THEN 0 ELSE head
    /\ GoTo("status")
    /\ UNCHANGED <<device, buffer, tail, cnt, reg, byte, history>>

\* --cnt, before the byte is read
DecLoad ==
    /\ At("declo")
    /\ reg' = cnt
    /\ GoTo("decst")
    /\ UNCHANGED <<device, ring, byte, history>>

DecStore ==
    /\ At("decst")
    /\ cnt' = reg - 1
    /\ GoTo("take")
    /\ UNCHANGED <<device, buffer, head, tail, reg, byte, history>>

\* ret = *tail, and tail moves on: nobody else uses tail.
Take ==
    /\ At("take")
    /\ taken' = Append(taken, buffer[tail])
    /\ tail' = After(tail)
    /\ GoTo("test")
    /\ UNCHANGED <<device, buffer, head, cnt, reg, byte, raced, smashed, stored>>

Driver ==
    \/ Test \/ Status \/ Data \/ Full
    \/ IncLoad \/ IncStore \/ Slot \/ Put \/ HeadLoad \/ HeadStore \/ Wrap
    \/ DecLoad \/ DecStore \/ Take

Next == Send \/ Interrupt \/ Driver

\* The scheduler runs the driver again and again (ReadyRuns of module Proc).
Spec == Init /\ [][Next]_vars /\ WF_vars(Driver)

-----------------------------------------------------------------------------
(* Properties.                                                             *)

\* The documentation (tty task) says that the driver takes from the ring the
\* scancodes that the handler put there: it gets each at most once, none that
\* was never sent, and in the order they were sent, wherever interrupts came but
\* for the places named by Exposed.
TakenInOrder ==
    ~raced =>
        /\ \A i \in 1 .. Len(taken) : taken[i] \in stored
        /\ \A i, j \in 1 .. Len(taken) : i < j => taken[i] < taken[j]

\* Between two calls the ring holds, from tail on, exactly the bytes stored and
\* not yet taken: a wrong count would hide a byte until the next key, or show
\* an old one again (and the variables keep their types).
RingExact ==
    /\ TypeOK
    /\ pc = "test" /\ ~raced =>
        {buffer[(tail + k) % RING] : k \in 0 .. cnt - 1}
            = stored \ {taken[i] : i \in 1 .. Len(taken)}

\* A byte that went into the ring comes out: the documentation (last remark of
\* the input system) holds input that got stuck for repaired.
EveryByteTaken ==
    \A b \in Bytes : b \in stored ~> (raced \/ \E i \in 1 .. Len(taken) : taken[i] = b)
=============================================================================
