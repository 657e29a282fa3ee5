------------------------------ MODULE MCScreen ------------------------------
(* Screens of two rows of four cells with tab stops at every second. *)
EXTENDS Screen
=============================================================================
