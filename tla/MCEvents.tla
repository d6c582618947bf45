----------------------------- MODULE MCEvents -----------------------------
(***************************************************************************)
(* Small instances of Events for TLC: three connections, so that one may   *)
(* leave before the iterator, one be skipped and one be served, and three  *)
(* messages, so that a broadcast meets what the last one left.             *)
(***************************************************************************)
EXTENDS Events
=============================================================================
