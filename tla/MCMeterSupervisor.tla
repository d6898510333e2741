------------------------ MODULE MCMeterSupervisor ------------------------
(* Instances of MeterSupervisor for TLC.                                   *)
EXTENDS MeterSupervisor, TLC
===========================================================================
