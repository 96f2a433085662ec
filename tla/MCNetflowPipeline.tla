-------------------------- MODULE MCNetflowPipeline --------------------------
(***************************************************************************)
(* Instances of NetflowPipeline for TLC.  Two exporters with observation   *)
(* domains 1 and 2; domain 1 announces template 256 first for IPv4 records *)
(* of size 1, later for IPv6 records of size 2.                            *)
(***************************************************************************)
EXTENDS NetflowPipeline

CONSTANTS r1, r2, t1, d1, t2, d2, both, first, late, short, panic

V4Layout == [family |-> "v4", size |-> 1, fixedWidths |-> TRUE]
V6Layout == [family |-> "v6", size |-> 2, fixedWidths |-> TRUE]
PortLayout == [family |-> "other", size |-> 1, fixedWidths |-> FALSE]

Template(key, layout) == [kind |-> "template", key |-> key, layout |-> layout]
Data(key, len) == [kind |-> "data", key |-> key, len |-> len]
Datagram(src, sets) == [src |-> src, form |-> "ok", sets |-> sets]

AllContent ==
    t1 :> Datagram(r1, <<Template(<<1, 256>>, V4Layout)>>)
    @@ d1 :> Datagram(r1, <<Data(<<1, 256>>, 3)>>)
    @@ t2 :> Datagram(r1, <<Template(<<1, 256>>, V6Layout)>>)
    @@ d2 :> Datagram(r1, <<[kind |-> "options"], Data(<<1, 256>>, 2)>>)
    @@ both :> Datagram(r2, <<Template(<<2, 256>>, V4Layout), Data(<<2, 256>>, 1)>>)
    @@ first :> Datagram(r1, <<Template(<<1, 256>>, V4Layout), Data(<<1, 256>>, 1)>>)
    @@ late :> Datagram(r1, <<Data(<<1, 256>>, 2), Template(<<1, 256>>, V6Layout)>>)
    @@ short :> [src |-> r1, form |-> "short", sets |-> <<>>]
    @@ panic :> Datagram(r1, <<Template(<<1, 257>>, PortLayout), Data(<<1, 257>>, 1)>>)

MCContent == [d \in Datagrams |-> AllContent[d]]

Symmetry == Permutations(Decoders) \cup Permutations(MetricWorkers)
=============================================================================
