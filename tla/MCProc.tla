------------------------------ MODULE MCProc ------------------------------
(* The process table on small tables: the slots of the kernel's own two    *)
(* processes and a few more.  RAM is zero at power-on in Bochs; Garbage is *)
(* a machine whose RAM is not, where unused slots name other slots as      *)
(* their father.                                                           *)
EXTENDS Proc

ZeroRam == {0}
Garbage == {0, 2}
=============================================================================
