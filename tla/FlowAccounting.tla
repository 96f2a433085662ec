--------------------------- MODULE FlowAccounting ---------------------------
(***************************************************************************)
(* What the IPFIX pipeline promises of a datagram's flows, whatever        *)
(* queues, workers and caches it is made of: they are counted only after   *)
(* the datagram was accepted, once in the absence of faults, and at most   *)
(* once more per stage for every fault (at-least-once delivery between     *)
(* stages, with a bounded excess).                                         *)
(***************************************************************************)
EXTENDS Integers

CONSTANTS
    Datagrams,
    Stages          \* acknowledged hand-overs on a datagram's way

VARIABLES
    accepted,       \* the datagrams the pipeline has taken in
    counted,        \* how often the flows of each were counted
    excess          \* how many times too often any of them may be counted

AbsVars == <<accepted, counted, excess>>

AbsInit ==
    /\ accepted = {}
    /\ counted = [d \in Datagrams |-> 0]
    /\ excess = 0

Accept(d) ==
    /\ d \notin accepted
    /\ accepted' = accepted \cup {d}
    /\ UNCHANGED <<counted, excess>>

\* A first count is always in order, a further one only within the excess.
CountFlows(d) ==
    /\ d \in accepted
    /\ counted[d] <= excess
    /\ counted' = [counted EXCEPT ![d] = @ + 1]
    /\ UNCHANGED accepted

\* One fault can make each stage repeat the same datagram.
Fault == excess' = excess + Stages /\ UNCHANGED accepted

\* A fault may hide a count: the database applies an update and its answer is lost.
AbsNext ==
    \/ \E d \in Datagrams : Accept(d)
    \/ \E d \in Datagrams : CountFlows(d) /\ UNCHANGED excess
    \/ \E d \in Datagrams : CountFlows(d) /\ Fault
    \/ Fault /\ UNCHANGED counted

AbsSpec == AbsInit /\ [][AbsNext]_AbsVars
=============================================================================
