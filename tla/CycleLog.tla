------------------------------ MODULE CycleLog ------------------------------
(***************************************************************************)
(* What the heartbeat promises to the readers of execution_logs: cycles    *)
(* run one at a time, each one is counted when it opens and leaves at most *)
(* one row, under its own number.  Nothing here says which task runs a     *)
(* cycle, nor why one is abandoned.  Heartbeat implements this module.     *)
(***************************************************************************)
EXTENDS Naturals, Sequences

CONSTANTS
  KeepLogs,      \* rows that survive the pruning of record_cycle
  IterationCap   \* bound: the iteration counter saturates here

\* What a proof needs of the constants; Heartbeat assumes it of its own.
CycleLogAssumption ==
  /\ KeepLogs \in Nat \ {0}
  /\ IterationCap \in Nat \ {0}

VARIABLES
  iteration,     \* agent_state.iteration
  open,          \* the number of the cycle in progress, 0 when there is none
  logged         \* execution_logs.iteration, oldest row first

vars == <<iteration, open, logged>>

CapAt(n) == IF n < IterationCap THEN n ELSE IterationCap

\* The newest n entries of a sequence.
Newest(s, n) == IF Len(s) > n THEN SubSeq(s, Len(s) - n + 1, Len(s)) ELSE s

Init ==
  /\ iteration = 0
  /\ open = 0
  /\ logged = <<>>

\* A cycle opens and is counted.
Open ==
  /\ open = 0
  /\ iteration' = CapAt(iteration + 1)
  /\ open' = iteration'
  /\ UNCHANGED logged

\* The open cycle leaves its row.
Log ==
  /\ open # 0
  /\ logged' = Newest(Append(logged, open), KeepLogs)
  /\ open' = 0
  /\ UNCHANGED iteration

\* The open cycle ends without a row.
Abandon ==
  /\ open # 0
  /\ open' = 0
  /\ UNCHANGED <<iteration, logged>>

\* A cycle is counted by a process that goes away before it can run it.
CountOnly ==
  /\ open = 0
  /\ iteration' = CapAt(iteration + 1)
  /\ UNCHANGED <<open, logged>>

Next == Open \/ Log \/ Abandon \/ CountOnly

Spec == Init /\ [][Next]_vars

-----------------------------------------------------------------------------
TypeOK ==
  /\ iteration \in 0..IterationCap
  /\ open \in 0..IterationCap
  /\ logged \in Seq(0..IterationCap)

\* The rows carry strictly increasing cycle numbers, and the cycle in progress
\* is younger than every row (equal only where the bound is reached).
RowsInOrder ==
  /\ \A i, k \in 1..Len(logged) :
       i < k => logged[i] < logged[k] \/ logged[k] = IterationCap
  /\ \A i \in 1..Len(logged) :
       /\ logged[i] <= iteration
       /\ open # 0 => logged[i] < open \/ open = IterationCap
=============================================================================
