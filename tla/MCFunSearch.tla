---------------------------- MODULE MCFunSearch ----------------------------
EXTENDS FunSearch

\* Two programs of which nobody dominates the other, and a slow evaluation of
\* the second one, which both of them may meet under one id.
MCCandidates ==
  {[pack |-> 2, fuel |-> 1, print |-> "b"],
   [pack |-> 3, fuel |-> 2, print |-> "a"],
   [pack |-> 3, fuel |-> 3, print |-> "a"]}

MCEvals == <<2, 1>>
=============================================================================
