---------------------------- MODULE MCHeartbeat ----------------------------
(***************************************************************************)
(* Instances of Heartbeat for TLC.                                         *)
(***************************************************************************)
EXTENDS Heartbeat

\* Every probe asks with DefaultProbeText.
DefaultProbeText(p) == 1
=============================================================================
