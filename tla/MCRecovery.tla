----------------------------- MODULE MCRecovery -----------------------------
(***************************************************************************)
(* A small instance of Recovery for TLC: with one job more than archives   *)
(* retained the folder is pruned, and a second restore meets what the      *)
(* first one and the jobs in between have left.                            *)
(***************************************************************************)
EXTENDS Recovery
=============================================================================
