--------------------------- MODULE MCTrapRegistry ---------------------------
(***************************************************************************)
(* Instances of TrapRegistry for TLC: as many collections as identities,   *)
(* with one identity in each.                                              *)
(***************************************************************************)
EXTENDS TrapRegistry, TLC

MCKindOf == [i \in Ids |-> i]

Symmetry == Permutations(Addresses) \cup Permutations(Requests)
=============================================================================
