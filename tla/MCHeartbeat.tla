---------------------------- MODULE MCHeartbeat ----------------------------
(* Heartbeats every four seconds with three packet_ids, and two presses.   *)
EXTENDS Heartbeat
=============================================================================
