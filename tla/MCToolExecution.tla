-------------------------- MODULE MCToolExecution --------------------------
(***************************************************************************)
(* A small instance of ToolExecution for TLC: two calls inside, two more   *)
(* behind the semaphore, and one domain that all of them want.             *)
(***************************************************************************)
EXTENDS ToolExecution
=============================================================================
