------------------------------- MODULE MCHub -------------------------------
(***************************************************************************)
(* Instances of Hub for TLC.                                               *)
(***************************************************************************)
EXTENDS Hub, TLC

Symmetry == Permutations(Clients) \cup Permutations(Producers)
=============================================================================
