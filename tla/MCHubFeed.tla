----------------------------- MODULE MCHubFeed -----------------------------
(***************************************************************************)
(* Instance of HubFeed for TLC.                                            *)
(***************************************************************************)
EXTENDS HubFeed, TLC

Symmetry == Permutations(Clients) \cup Permutations(Messages)
            \cup Permutations(Producers)
=============================================================================
