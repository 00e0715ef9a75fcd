------------------------------ MODULE MCFsStat ------------------------------
(* Instantiates FsStat: two files, two Twstat goroutines, names a and b,  *)
(* and chmod to 0600.                                                      *)
EXTENDS FsStat

MCModes == {384}                 \* 0600
=============================================================================
