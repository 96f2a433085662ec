-------------------------- MODULE MCSnmpMonitorHook --------------------------
(***************************************************************************)
(* Instances of SnmpMonitorHook for TLC.                                   *)
(***************************************************************************)
EXTENDS SnmpMonitorHook, TLC
=============================================================================
