----------------------------- MODULE MCUhdPipes -----------------------------
(* UhdPipes for TLC: the constants are given in the .cfg files. *)
EXTENDS UhdPipesProps
=============================================================================
