---------------------------- MODULE MCMonitorPage ----------------------------
(***************************************************************************)
(* Instance of MonitorPage for TLC.                                        *)
(***************************************************************************)
EXTENDS MonitorPage, TLC

\* Just before the carries of a minute, an hour, a day and a week, and before the counter
\* starts anew.
NearCarries == {55, 3595, 86395, 604795, LastSecond - 4}

\* Rings of 3 and 2 tenths.
MCTotals == [r \in {"memory", "disk"} |-> IF r = "memory" THEN 3 ELSE 2]

MCStatuses == {[admin |-> 1, oper |-> 1], [admin |-> 2, oper |-> 7]}
\* Two VLANs of layer two; other indices would be Ethernet interfaces.
MCTypeOf == [i \in Interfaces |-> IF i < 3 THEN 135 ELSE 6]
MCTermsOf == [i \in Interfaces |-> IF i = 1 THEN Terms ELSE {}]
MCIndexTermsOf == [i \in Interfaces |-> IF i = 3 THEN Terms ELSE {}]

Symmetry == Permutations(Devices)
=============================================================================
