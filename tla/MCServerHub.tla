--------------------------- MODULE MCServerHub ---------------------------
(* Instances of ServerHub for TLC.                                         *)
EXTENDS ServerHub, TLC

Symmetry == Permutations(Clients) \cup Permutations(States)
===========================================================================
