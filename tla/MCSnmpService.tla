--------------------------- MODULE MCSnmpService ---------------------------
(***************************************************************************)
(* Instances of SnmpService for TLC: the producers are the metric          *)
(* goroutines, the messages the collections.                               *)
(***************************************************************************)
EXTENDS SnmpService, TLC

MCCollections == 1..MaxCollections
MCWorkers == MCCollections \X Metrics

Symmetry == Permutations(Clients) \cup Permutations(Devices)
=============================================================================
