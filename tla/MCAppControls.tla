---------------------------- MODULE MCAppControls ----------------------------
(* Instances of AppControls for TLC. *)
EXTENDS AppControls, TLC
=============================================================================
