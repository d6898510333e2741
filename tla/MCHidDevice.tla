--------------------------- MODULE MCHidDevice ---------------------------
(* Instances of HidDevice for TLC.                                         *)
EXTENDS HidDevice, TLC
===========================================================================
