-------------------------------- MODULE MCKb --------------------------------
(* The scancode ring, on two slots.                                        *)
EXTENDS Kb
=============================================================================
