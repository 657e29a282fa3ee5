------------------------------ MODULE Scancode ------------------------------
(***************************************************************************)
(* How the driver makes keys of scancodes (transfer_buffer in              *)
(* src/io/tty.c): one to six bytes are one press or release of a key, and  *)
(* kbflag remembers which modifiers are held.  The keyboard, which is      *)
(* external, sends scancode set 1, each key as with no modifier held (not  *)
(* the e0 2a or e0 aa that some send around the grey keys with Shift or    *)
(* NumLock); bytes that find the ring full are lost (module Kb has the     *)
(* ring itself).                                                           *)
(***************************************************************************)
EXTENDS Integers, Sequences

CONSTANTS Keys, \* the keys there are, names of keyboard
          ROOM, \* bytes the ring holds (32)
          LAG,  \* bound of the model: bytes that wait when a key is struck
          MaxLost \* bound of the model: keys struck once bytes were lost

VARIABLES
    held,    \* keys that are down
    locked,  \* CapsLock was pressed an odd number of times
    wire,    \* bytes in the ring, each with what it is part of (history)
    got,     \* bytes the running transfer_buffer has read
    kbflag,  \* its modifier bits, by name
    lost,    \* keys struck since bytes were lost, 0 if none were (history)
    wrong    \* something else was done than what was struck (history)

scancodeVars == <<held, locked, wire, got, kbflag, lost, wrong>>

-----------------------------------------------------------------------------
(* The keyboard: what it sends when a key goes down and up.                *)

keyboard ==
    [shift_l |-> <<<<42>>, <<170>>>>, shift_r |-> <<<<54>>, <<182>>>>,
     ctrl_l |-> <<<<29>>, <<157>>>>,  ctrl_r |-> <<<<224, 29>>, <<224, 157>>>>,
     alt_l |-> <<<<56>>, <<184>>>>,   alt_r |-> <<<<224, 56>>, <<224, 184>>>>,
     caps |-> <<<<58>>, <<186>>>>,    a |-> <<<<30>>, <<158>>>>,
     one |-> <<<<2>>, <<130>>>>,      enter |-> <<<<28>>, <<156>>>>,
     back |-> <<<<14>>, <<142>>>>,    up |-> <<<<224, 72>>, <<224, 200>>>>,
     f1 |-> <<<<59>>, <<187>>>>,      f2 |-> <<<<60>>, <<188>>>>,
     f3 |-> <<<<61>>, <<189>>>>,
     prtsc |-> <<<<224, 42, 224, 55>>, <<224, 183, 224, 170>>>>,
     pause |-> <<<<225, 29, 69, 225, 157, 197>>, <<>>>>]

ASSUME KeyAssumption == Keys \subseteq DOMAIN keyboard
ASSUME RoomAssumption == ROOM \in Nat \ {0} /\ LAG \in Nat /\ MaxLost \in Nat

Modifiers == {"SHIFT_L", "SHIFT_R", "CTRL_L", "CTRL_R", "ALT_L", "ALT_R"}
ModifierOf ==
    [shift_l |-> "SHIFT_L", shift_r |-> "SHIFT_R", ctrl_l |-> "CTRL_L",
     ctrl_r |-> "CTRL_R", alt_l |-> "ALT_L", alt_r |-> "ALT_R"]
ModifierKeys == DOMAIN ModifierOf

\* A stroke: a key that goes down or up, with the modifier keys that were down
\* and CapsLock before it.
Strokes == [key : Keys, down : BOOLEAN, mods : SUBSET ModifierKeys, caps : BOOLEAN]
Sent(e) == keyboard[e.key][IF e.down THEN 1 ELSE 2]
ModsAfter(e) ==
    (IF e.down THEN e.mods \cup {e.key} ELSE e.mods \ {e.key}) \cap ModifierKeys
CapsAfter(e) == IF e.down /\ e.key = "caps" THEN ~e.caps ELSE e.caps

\* What a stroke is to do.
Meant(e) ==
    LET has(S) == e.mods \cap S # {} IN
    IF ~e.down THEN "nothing"
    ELSE CASE e.key = "a" -> IF has({"shift_l", "shift_r"}) # e.caps THEN "A" ELSE "a"
           [] e.key = "one" -> IF has({"shift_l", "shift_r"}) THEN "!" ELSE "1"
           [] e.key = "enter" -> "ENTER"
           [] e.key = "back" -> "BACKSPACE"
           [] e.key \in {"f1", "f2"} /\ has({"ctrl_l", "ctrl_r"}) /\ has({"alt_l", "alt_r"}) ->
                 IF e.key = "f1" THEN "tty 0" ELSE "tty 1"
           [] OTHER -> "nothing"

\* kbflag as it should be when the modifier keys H are held.
Flags(H, caps) ==
    {ModifierOf[k] : k \in H} \cup (IF caps THEN {"CAPS_LOCK"} ELSE {})

\* The bytes of a stroke arrive; those that find the ring full are lost.
Arrive(e) ==
    LET room == ROOM - Len(wire)
        all == Len(Sent(e)) <= room
        came == [j \in 1 .. (IF all THEN Len(Sent(e)) ELSE room) |->
                    [byte |-> Sent(e)[j], of |-> e, part |-> j]]
    IN /\ lost < MaxLost \/ lost = 0
       /\ wire' = wire \o came
       /\ lost' = IF all /\ lost = 0 THEN 0 ELSE lost + 1
       /\ held' = IF e.down THEN held \cup {e.key} ELSE held \ {e.key}
       /\ locked' = CapsAfter(e)
       /\ UNCHANGED <<got, kbflag, wrong>>

Stroke(k, down) ==
    [key |-> k, down |-> down, mods |-> held \cap ModifierKeys, caps |-> locked]

\* A key goes down, or repeats; CapsLock does not repeat.
KeyDown(k) ==
    /\ Len(wire) <= LAG
    /\ k \in held => k # "caps"
    /\ Arrive(Stroke(k, TRUE))

KeyUp(k) ==
    /\ Len(wire) <= LAG
    /\ k \in held
    /\ Arrive(Stroke(k, FALSE))

-----------------------------------------------------------------------------
(* transfer_buffer.                                                        *)

\* The rows of keymap that the keys use: without shift, with shift, after e0.
\* Codes of other keys, which the keyboard of the model never sends, are taken
\* for codes without a key.
keymap ==
    [c \in 0 .. 127 |->
        CASE c = 2 -> <<"1", "!", "0">>
          [] c = 14 -> <<"BACKSPACE", "BACKSPACE", "0">>
          [] c = 28 -> <<"ENTER", "ENTER", "PAD_ENTER">>
          [] c = 29 -> <<"CTRL_L", "CTRL_L", "CTRL_R">>
          [] c = 30 -> <<"a", "A", "0">>
          [] c = 42 -> <<"SHIFT_L", "SHIFT_L", "0">>
          [] c = 54 -> <<"SHIFT_R", "SHIFT_R", "0">>
          [] c = 55 -> <<"*", "*", "0">>
          [] c = 56 -> <<"ALT_L", "ALT_L", "ALT_R">>
          [] c = 58 -> <<"CAPS_LOCK", "CAPS_LOCK", "0">>
          [] c = 59 -> <<"F1", "F1", "0">>
          [] c = 60 -> <<"F2", "F2", "0">>
          [] c = 61 -> <<"F3", "F3", "0">>
          [] c = 69 -> <<"NUM_LOCK", "NUM_LOCK", "0">>
          [] c = 72 -> <<"PAD_UP", "8", "UP">>
          [] OTHER -> <<"0", "0", "0">>]

\* Keys that the switch does nothing for.
Ignored == {"UP", "PAD_UP", "PAD_ENTER", "F3", "PRINTSCREEN", "PAUSEBREAK"}

\* (Mutants: only the left shift chooses the column; the release of a modifier is
\* not noticed.)
ShiftedByLeft == "SHIFT_L" \in kbflag
FlagsKept(key, mark) == IF key \in Modifiers /\ mark THEN kbflag \cup {key} ELSE kbflag

\* How many bytes make the key that g begins.
BytesOf(g) ==
    CASE g[1] = 224 -> IF Len(g) > 1 /\ g[2] \in {42, 183} THEN 4 ELSE 2
      [] g[1] = 225 -> 6
      [] OTHER -> 1

Shifted == kbflag \cap {"SHIFT_L", "SHIFT_R"} # {}

\* The key a complete sequence stands for and whether it went down.  Of a
\* sequence that begins like PrintScreen or Pause and goes on otherwise the
\* byte read before is taken for a character, and mark is not set: any value.
Interpreted(g) ==
    CASE g[1] = 224 /\ Len(g) = 2 ->
            {[key |-> keymap[g[2] % 128][3], mark |-> g[2] < 128]}
      [] g[1] = 224 /\ Len(g) = 4 ->
            IF g[2] = 42 /\ g[3] = 224 /\ g[4] = 55 THEN {[key |-> "PRINTSCREEN", mark |-> TRUE]}
            ELSE IF g[2] = 183 /\ g[3] = 224 /\ g[4] = 170 THEN {[key |-> "PRINTSCREEN", mark |-> FALSE]}
            ELSE [key : {"byte"}, mark : BOOLEAN]
      [] g[1] = 225 ->
            IF Tail(g) = <<29, 69, 225, 157, 197>> THEN {[key |-> "PAUSEBREAK", mark |-> TRUE]}
            ELSE [key : {"byte"}, mark : BOOLEAN]
      [] OTHER ->
            {[key |-> keymap[g[1] % 128][IF Shifted THEN 2 ELSE 1], mark |-> g[1] < 128]}

Toggled(f) == IF f \in kbflag THEN kbflag \ {f} ELSE kbflag \cup {f}

FlagsAfter(key, mark) ==
    CASE key \in Modifiers -> IF mark THEN kbflag \cup {key} ELSE kbflag \ {key}
      [] key \in {"CAPS_LOCK", "NUM_LOCK"} /\ mark -> Toggled(key)
      [] OTHER -> kbflag

Both(S, R) == kbflag \cap S # {} /\ kbflag \cap R # {}

\* What is done for a key.
Done(key, mark) ==
    IF ~mark \/ key \in Ignored \cup Modifiers \cup {"CAPS_LOCK", "NUM_LOCK"} THEN "nothing"
    ELSE CASE key \in {"F1", "F2"} ->
                 IF ~Both({"CTRL_R", "CTRL_L"}, {"ALT_R", "ALT_L"}) THEN "nothing"
                 ELSE IF key = "F1" THEN "tty 0" ELSE "tty 1"
           [] key \in {"a", "A"} /\ "CAPS_LOCK" \in kbflag -> IF key = "a" THEN "A" ELSE "a"
           [] OTHER -> key

\* get_byte_from_buffer; after the last byte of a key the key is interpreted.
ReadByte ==
    LET b == Head(wire)
        g == Append(got, b.byte)
    IN
    /\ wire # <<>>
    /\ wire' = Tail(wire)
    /\ IF Len(g) < BytesOf(g)
       THEN got' = g /\ UNCHANGED <<kbflag, wrong>>
       ELSE \E e \in Interpreted(g) :
              /\ got' = <<>>
              /\ kbflag' = FlagsAfter(e.key, e.mark)
              /\ wrong' = (wrong \/ (lost = 0 /\ (g # Sent(b.of) \/ Done(e.key, e.mark) # Meant(b.of)
                            \/ kbflag' \ {"NUM_LOCK"} # Flags(ModsAfter(b.of), CapsAfter(b.of)))))
    /\ UNCHANGED <<held, locked, lost>>

ScancodeInit ==
    /\ held = {} /\ locked = FALSE
    /\ wire = <<>> /\ got = <<>> /\ kbflag = {}
    /\ lost = 0 /\ wrong = FALSE

ScancodeNext ==
    \/ \E k \in Keys : KeyDown(k) \/ KeyUp(k)
    \/ ReadByte

ScancodeSpec == ScancodeInit /\ [][ScancodeNext]_scancodeVars

-----------------------------------------------------------------------------
(* Properties.                                                             *)

Codes == 0 .. 255

ScancodeTypeOK ==
    /\ held \subseteq Keys /\ locked \in BOOLEAN
    /\ wire \in Seq([byte : Codes, of : Strokes, part : 1 .. 6]) /\ Len(wire) <= ROOM
    /\ got \in Seq(Codes) /\ Len(got) < 6
    /\ kbflag \subseteq Modifiers \cup {"CAPS_LOCK", "NUM_LOCK"}
    /\ lost \in 0 .. MaxLost + 1 /\ wrong \in BOOLEAN

\* Each press and release is taken for what it is, in order: characters with the
\* case that shift and CapsLock had then, Ctrl-Alt-F1 and F2 as a switch, Enter
\* and backspace, and the modifiers.  Bytes are never taken together that are
\* not one key, as long as the ring has lost none.
DecodedAsStruck == ~wrong

\* When all is read, the modifiers are those held, and no key is half read (and
\* the variables keep their types).
ModifiersFollow ==
    /\ ScancodeTypeOK
    /\ wire = <<>> /\ lost = 0 =>
         got = <<>> /\ kbflag \ {"NUM_LOCK"} = Flags(held \cap ModifierKeys, locked)

=============================================================================
