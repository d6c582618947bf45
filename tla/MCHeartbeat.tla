---------------------------- MODULE MCHeartbeat ----------------------------
(***************************************************************************)
(* Small instances of Heartbeat for TLC.  Two isolated cycles are enough   *)
(* for a queue in which the loop stands between them.                      *)
(***************************************************************************)
EXTENDS Heartbeat
=============================================================================
