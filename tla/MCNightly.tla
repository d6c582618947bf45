----------------------------- MODULE MCNightly -----------------------------
(* The loop, a task created by the dashboard and a publication of the      *)
(* dashboard; two searches with one better champion each.                  *)
EXTENDS Nightly
=============================================================================
