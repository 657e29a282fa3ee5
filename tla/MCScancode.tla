----------------------------- MODULE MCScancode -----------------------------
(* Keys of one, two, four and six bytes, with both columns of keymap.      *)
EXTENDS Scancode
=============================================================================
