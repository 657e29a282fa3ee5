------------------------------- MODULE Screen -------------------------------
(***************************************************************************)
(* The screens of the two terminals (src/video/video.c and, of             *)
(* src/io/tty.c, init_ttys, sys_switch_tty, the echo of put_tty_in_buffer  *)
(* and sys_std_write): video memory, the cursor of each terminal and the   *)
(* registers of the CRT controller, an index port and a data port.         *)
(*                                                                         *)
(* Each run of the code makes one store or port write in a step.  The tty  *)
(* driver runs with interrupts on, so that a process may write between any *)
(* two of its steps; sys_std_write runs with interrupts off, and nothing   *)
(* else takes a step until it is done.  A string is its characters, one    *)
(* after another.  The loop of sys_roll_screen is one step: a write of the *)
(* same terminal in the middle of it is a race as much as one before or    *)
(* after it.  Colours are left out.                                        *)
(***************************************************************************)
EXTENDS Terminals

CONSTANTS WIDTH, HEIGHT, \* SCREEN_WIDTH, SCREEN_HEIGHT (80, 25)
          TAB,           \* distance of tab stops (8)
          BYTE,          \* values of a byte (256)
          MaxOutput      \* characters that are output (bound)

SIZE == WIDTH * HEIGHT
Regs == 12 .. 15           \* start of the picture and cursor, high and low byte
START == 12
CURSOR == 14
Kinds == {"char", "nl", "tab", "back"}
Blank == 0                 \* the n-th character output is the number n

ASSUME AreaAssumption == WIDTH \in Nat \ {0} /\ HEIGHT \in Nat \ {0} /\ MaxOutput \in Nat
ASSUME TabAssumption == TAB \in Nat \ {0} /\ WIDTH % TAB = 0
ASSUME ByteAssumption == BYTE \in Nat \ {0} /\ 3 * SIZE <= BYTE * BYTE

VARIABLES
    video,       \* video memory, in cells
    pos,         \* ttys[].pos
    index, data, \* the selected register and all registers
    run,         \* what the driver and the running system call are doing
    written,     \* characters output so far
    sheet,       \* each terminal's output on an endless sheet (history)
    lost,        \* terminals written to while the driver held their cursor (history)
    torn         \* registers the driver's bytes got mixed up in (history)

screen == <<video, pos, index, data>>
screenVars == <<screen, run, current_tty, written, sheet, lost, torn>>

\* The area of a terminal: ttys[t].addr less 0xc00b8000, in cells.
Area(t) == t * SIZE

-----------------------------------------------------------------------------
(* Runs of the code of video.c.                                            *)

Runners == {"driver", "call"}

\* The store or port write that is next, the terminal, the register pair that is
\* set, the cell to be drawn and what with, and the local variable pos.
Idle == [at |-> "idle", tty |-> 0, reg |-> CURSOR, cell |-> 0, n |-> Blank, pos |-> 0]

Busy(a) == run[a].at # "idle"

\* The driver stands still while a system call runs.
At(a, place) == run[a].at = place /\ (a = "driver" => ~Busy("call"))

\* Where the cursor goes before the screen is rolled.
Moved(k, p) ==
    CASE k = "nl" -> (p \div WIDTH + 1) * WIDTH
      [] k = "tab" -> (p \div TAB + 1) * TAB
      [] k = "back" -> IF p > 0 THEN p - 1 ELSE p
      [] k = "char" -> p + 1

\* (Mutants: it is rolled one cell too late; the cursor is set for a terminal that
\* is not shown.)
OverflowsLate(t, p) == p > Area(t) + SIZE
ShownAlways(t) == t \in Ttys

\* The loop rolls: its bound adds the area's offset to its size.
Overflows(t, p) == p >= Area(t) + SIZE
Shown(t) == t = current_tty

\* What follows when pos is p: the loop of sys_putchar_with_color, then
\* sys_set_cursor_pos.
Onward(t, p) == IF Overflows(t, p) THEN "roll" ELSE IF Shown(t) THEN "high index" ELSE "keep"

sys_putchar(t, k, n, p) ==
    [at |-> IF k = "char" \/ (k = "back" /\ p > 0) THEN "draw" ELSE Onward(t, Moved(k, p)),
     tty |-> t, reg |-> CURSOR,
     cell |-> IF k = "back" THEN Moved(k, p) ELSE p,
     n |-> IF k = "char" THEN n ELSE Blank,
     pos |-> Moved(k, p)]

sys_switch_tty(t) ==
    [at |-> "high index", tty |-> t, reg |-> START, cell |-> 0, n |-> Blank, pos |-> 0]

\* The number that goes to the registers.
Number(r) == IF r.reg = START THEN Area(r.tty) ELSE Area(r.tty) + r.pos

\* One store or port write, and what is next.  A data byte goes to the register
\* that was selected last.
GoTo(a, place) == run' = [run EXCEPT ![a].at = place]

Draw(a) ==
    /\ At(a, "draw")
    /\ video' = [video EXCEPT ![Area(run[a].tty) + run[a].cell] = run[a].n]
    /\ GoTo(a, Onward(run[a].tty, run[a].pos))
    /\ UNCHANGED <<pos, index, data, current_tty, written, sheet, lost, torn>>

sys_roll_screen(a) ==
    LET t == run[a].tty
        p == run[a].pos - WIDTH
    IN
    /\ At(a, "roll")
    /\ video' = [c \in DOMAIN video |->
                    IF c - Area(t) \in 0 .. SIZE - WIDTH - 1 THEN video[c + WIDTH]
                    ELSE IF c - Area(t) \in SIZE - WIDTH .. SIZE - 1 THEN Blank
                    ELSE video[c]]
    /\ run' = [run EXCEPT ![a] = [@ EXCEPT !.at = Onward(t, p), !.pos = p]]
    /\ UNCHANGED <<pos, index, data, current_tty, written, sheet, lost, torn>>

SelectHigh(a) ==
    /\ At(a, "high index")
    /\ index' = run[a].reg
    /\ GoTo(a, "high")
    /\ UNCHANGED <<video, pos, data, current_tty, written, sheet, lost, torn>>

SendHigh(a) ==
    /\ At(a, "high")
    /\ data' = [data EXCEPT ![index] = Number(run[a]) \div BYTE]
    /\ GoTo(a, "low index")
    /\ UNCHANGED <<video, pos, index, current_tty, written, sheet, lost, torn>>

SelectLow(a) ==
    /\ At(a, "low index")
    /\ index' = run[a].reg + 1
    /\ GoTo(a, "low")
    /\ UNCHANGED <<video, pos, data, current_tty, written, sheet, lost, torn>>

\* (Mutant: the low byte goes nowhere.)
LowByteLost(r) == data[index]
LowByte(r) == Number(r) % BYTE

SendLow(a) ==
    /\ At(a, "low")
    /\ data' = [data EXCEPT ![index] = LowByte(run[a])]
    /\ GoTo(a, IF run[a].reg = START THEN "read" ELSE "keep")
    /\ UNCHANGED <<video, pos, index, current_tty, written, sheet, lost, torn>>

\* The end of sys_switch_tty reads the cursor and calls sys_set_cursor_pos.
ReadCursor(a) ==
    LET t == run[a].tty IN
    /\ At(a, "read")
    /\ run' = [run EXCEPT ![a] =
                 [@ EXCEPT !.at = IF Shown(t) THEN "high index" ELSE "keep",
                           !.reg = CURSOR, !.pos = pos[t]]]
    /\ UNCHANGED <<screen, current_tty, written, sheet, lost, torn>>

KeepCursor(a) ==
    /\ At(a, "keep")
    /\ pos' = [pos EXCEPT ![run[a].tty] = run[a].pos]
    /\ run' = [run EXCEPT ![a] = Idle]
    /\ UNCHANGED <<video, index, data, current_tty, written, sheet, lost, torn>>

VideoStep(a) ==
    \/ Draw(a) \/ sys_roll_screen(a)
    \/ SelectHigh(a) \/ SendHigh(a) \/ SelectLow(a) \/ SendLow(a)
    \/ ReadCursor(a) \/ KeepCursor(a)

-----------------------------------------------------------------------------
(* What a terminal is: an endless sheet of rows, of which the last HEIGHT  *)
(* are shown; a backspace does not go above what is shown.                 *)

Rows == HEIGHT + MaxOutput
EmptySheet == [text |-> [c \in 0 .. Rows * WIDTH |-> Blank], at |-> 0, top |-> 0]

\* Where the sheet s ends when character k is typed on it, and the sheet then.
EndAfter(s, k) ==
    LET row == s.at \div WIDTH IN
    CASE k = "nl" -> (row + 1) * WIDTH
      [] k = "tab" -> row * WIDTH + ((s.at % WIDTH) \div TAB + 1) * TAB
      [] k = "back" -> IF s.at > s.top * WIDTH THEN s.at - 1 ELSE s.at
      [] k = "char" -> s.at + 1

TypedOn(s, k, n) ==
    LET at == EndAfter(s, k)
        down == (at \div WIDTH - HEIGHT) + 1
    IN [text |-> CASE k = "char" -> [s.text EXCEPT ![s.at] = n]
                   [] k = "back" -> [s.text EXCEPT ![at] = IF at < s.at THEN Blank ELSE @]
                   [] OTHER -> s.text,
        at |-> at,
        top |-> IF down > s.top THEN down ELSE s.top]

-----------------------------------------------------------------------------
Stages == {"idle", "draw", "roll", "high index", "high", "low index", "low", "read", "keep"}

RunRecords == [at : Stages, tty : Ttys, reg : {START, CURSOR}, cell : Nat,
               n : 0 .. MaxOutput, pos : Nat]

ScreenTypeOK ==
    /\ video \in [0 .. 3 * SIZE - 1 -> 0 .. MaxOutput]
    /\ pos \in [Ttys -> Nat] /\ \A t \in Ttys : pos[t] < Area(t) + SIZE
    /\ index \in Regs /\ data \in [Regs -> 0 .. BYTE - 1]
    /\ run \in [Runners -> RunRecords]
    /\ current_tty \in Ttys /\ written \in 0 .. MaxOutput
    /\ lost \subseteq Ttys /\ torn \subseteq {START, CURSOR}

\* After init_ttys and sys_clear_screen(0); the BIOS left the rest blank.
ScreenInit ==
    /\ video = [a \in 0 .. 3 * SIZE - 1 |-> Blank]
    /\ pos = [t \in Ttys |-> 0]
    /\ index = 15 /\ data = [r \in Regs |-> 0]
    /\ run = [a \in Runners |-> Idle]
    /\ current_tty = 0 /\ written = 0
    /\ sheet = [t \in Ttys |-> EmptySheet]
    /\ lost = {} /\ torn = {}

\* The run has read the cursor of its terminal and not yet stored it.
HoldsCursor(a) == Busy(a) /\ run[a].reg = CURSOR

\* A character is output by a run.
Output(a, t, k) ==
    /\ ~Busy("call") /\ ~Busy(a)
    /\ written < MaxOutput
    /\ written' = written + 1
    /\ run' = [run EXCEPT ![a] = sys_putchar(t, k, written + 1, pos[t])]
    /\ sheet' = [sheet EXCEPT ![t] = TypedOn(@, k, written + 1)]
    /\ UNCHANGED <<screen, current_tty>>

\* put_tty_in_buffer echoes a character to the terminal shown.
Echo(k) ==
    /\ Output("driver", current_tty, k)
    /\ torn' = torn \ {CURSOR}
    /\ UNCHANGED lost

\* Ctrl-Alt-F1 and Ctrl-Alt-F2.
SwitchScreen(t) ==
    /\ ~Busy("call") /\ ~Busy("driver")
    /\ current_tty' = t
    /\ run' = [run EXCEPT !["driver"] = sys_switch_tty(t)]
    /\ torn' = {}
    /\ UNCHANGED <<screen, written, sheet, lost>>

\* A process of terminal t writes a character of its string.
sys_std_write(t, k) ==
    /\ Output("call", t, k)
    /\ lost' = IF HoldsCursor("driver") /\ t = current_tty THEN lost \cup {t} ELSE lost
    /\ torn' = IF t # current_tty THEN torn
               ELSE IF ~Busy("driver") THEN torn \ {CURSOR}
               ELSE IF HoldsCursor("driver") THEN torn \cup {CURSOR}
               ELSE IF run["driver"].at \in {"high", "low"} THEN torn \cup {START}
               ELSE torn

ScreenNext ==
    \/ \E k \in Kinds : Echo(k)
    \/ \E t \in Ttys : SwitchScreen(t)
    \/ \E a \in Runners : VideoStep(a)
    \/ \E t \in Ttys, k \in Kinds : sys_std_write(t, k)

ScreenSpec == ScreenInit /\ [][ScreenNext]_screenVars

-----------------------------------------------------------------------------
(* Properties.                                                             *)

\* The documentation (tty task) gives each terminal its own screen of the
\* video memory.  Unless a process wrote to the terminal while the driver held its
\* cursor, the screen of the first terminal always shows the last rows of all
\* that was output to it, in its place and in order, and the cursor is behind it;
\* so does that of the second until it has more rows than fit (it rolls on only
\* when twice as many rows are full).
ScreenShowsOutput ==
    \A t \in Ttys \ lost :
        LET s == sheet[t] IN
        (t = 0 \/ s.top = 0) /\ ~Busy("call") /\ ~(HoldsCursor("driver") /\ t = current_tty) =>
            /\ pos[t] = s.at - s.top * WIDTH
            /\ \A c \in 0 .. SIZE - 1 : video[Area(t) + c] = s.text[s.top * WIDTH + c]

Idling == ~Busy("driver") /\ ~Busy("call")

\* When the driver is done the cursor on the glass is the cursor of the terminal
\* shown, and the picture starts at its area, unless a process of that terminal
\* wrote to the controller in the middle of what the driver sent it (and the
\* variables keep their types).
CursorShown ==
    /\ ScreenTypeOK
    /\ Idling /\ CURSOR \notin torn =>
        data[14] * BYTE + data[15] = Area(current_tty) + pos[current_tty]
StartShown ==
    Idling /\ START \notin torn => data[12] * BYTE + data[13] = Area(current_tty)
=============================================================================
