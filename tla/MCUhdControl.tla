--------------------------- MODULE MCUhdControl ---------------------------
(* UhdControl for TLC: the constants are given in the .cfg files. *)
EXTENDS UhdControlProps
=============================================================================
