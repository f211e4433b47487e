------------------------------- MODULE MCUhc -------------------------------
(* Uhc for TLC: the constants are given in the .cfg files. *)
EXTENDS UhcProps
=============================================================================
