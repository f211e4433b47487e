---------------------------- MODULE MCUhdPower ----------------------------
(* The power states of the USB host driver on a small instance *)
EXTENDS UhdPowerProps
=============================================================================
