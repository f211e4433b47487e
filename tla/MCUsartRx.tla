---------------------------- MODULE MCUsartRx ----------------------------
(* UsartRx for TLC: every constant is a small number, given in the .cfg. *)
EXTENDS UsartRxProps
=============================================================================
