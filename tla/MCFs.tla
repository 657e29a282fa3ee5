-------------------------------- MODULE MCFs --------------------------------
(* The third name is longer than what is kept of it.                       *)
EXTENDS Fs
MCNames == {"a", "b", "along"}
MCStored == [n \in MCNames |-> IF n = "along" THEN "a" ELSE n]
=============================================================================
