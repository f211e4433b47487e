--------------------------- MODULE MCMdmService ---------------------------
(* MdmService for TLC: the constants are given in the .cfg files. *)
EXTENDS MdmServiceProps
=============================================================================
