----------------------------- MODULE MCRestore -----------------------------
(***************************************************************************)
(* A small instance of Restore for TLC: the second run meets whatever the  *)
(* first one left, the third whatever those two left together.             *)
(***************************************************************************)
EXTENDS Restore
=============================================================================
