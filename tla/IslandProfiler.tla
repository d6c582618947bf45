--------------------------- MODULE IslandProfiler ---------------------------
(***************************************************************************)
(* The pure decisions of agent/island_profiler.py: the sweep that computes *)
(* the Pareto frontier of the dashboard, and the health of an island, from *)
(* which the supervisor takes its remedy.                                  *)
(***************************************************************************)
EXTENDS NSGA2

CONSTANTS
  Window,   \* window_size, 20 in the code
  Epsilon   \* epsilon, in units of fitness: a smaller difference is none

\* Every caller leaves the window at its default; the table in EntropyCollapsed is
\* that of the windows up to it.
ASSUME ProfilerAssumption == Window \in 1..20 /\ Epsilon \in Nat \ {0}

-----------------------------------------------------------------------------
\* compute_pareto_frontier: from the cheapest up, whoever packs better than
\* everybody before.  Positions in the population.

\* Fault: who packs as well as somebody cheaper is kept too.
Sweep_Ties(pop) ==
  LET order == StableSort(StableSort(Positions(pop), [i \in DOMAIN pop |-> -pop[i].pack]),
                          [i \in DOMAIN pop |-> pop[i].fuel])
  IN  {order[k] : k \in {k \in DOMAIN order :
         \A j \in 1..k - 1 : pop[order[j]].pack <= pop[order[k]].pack}}

Sweep(pop) ==
  LET order == StableSort(StableSort(Positions(pop), [i \in DOMAIN pop |-> -pop[i].pack]),
                          [i \in DOMAIN pop |-> pop[i].fuel])
  IN  {order[k] : k \in {k \in DOMAIN order :
         \A j \in 1..k - 1 : pop[order[j]].pack < pop[order[k]].pack}}

-----------------------------------------------------------------------------
\* profile_island.  A history is a sequence of a fitness and a phenotype.
LastWindow(h) == SubSeq(h, Len(h) - Window + 1, Len(h))

Close(a, b) == a.fitness - b.fitness < Epsilon /\ b.fitness - a.fitness < Epsilon

IsStagnant(h) == \A a, b \in ToSet(LastWindow(h)) : Close(a, b)

\* Who in the window has another phenotype than e.
Strays(h, e) == {k \in DOMAIN LastWindow(h) : LastWindow(h)[k].print # e.print}

\* entropy < 0.6: all but a few are of one phenotype.  How few depends on the
\* window: one in seven, two alike in fourteen, two that differ in nineteen.
EntropyCollapsed(h) ==
  \E e \in ToSet(LastWindow(h)) :
    LET few == Cardinality(Strays(h, e))
        kinds == Cardinality({LastWindow(h)[k].print : k \in Strays(h, e)})
    IN  \/ few = 0
        \/ few = 1 /\ Window >= 7
        \/ few = 2 /\ Window >= (IF kinds = 1 THEN 14 ELSE 19)

\* Fault: the newest score counts itself.
StagnationCount_Itself(h) ==
  Max({n \in 1..Len(h) : \A k \in 0..n - 1 : Close(h[Len(h) - k], Last(h))})

\* The unbroken run of scores before the newest one that are close to it.
StagnationCount(h) ==
  Max({n \in 0..Len(h) - 1 : \A k \in 1..n : Close(h[Len(h) - k], Last(h))})

SuggestedAction(h) ==
  IF Len(h) < Window THEN "NOMINAL"
  ELSE IF StagnationCount(h) > 2 * Window /\ EntropyCollapsed(h) THEN "CATACLYSMIC_RESTART"
  ELSE IF IsStagnant(h) \/ EntropyCollapsed(h) THEN "RING_MIGRATION"
  ELSE "NOMINAL"
=============================================================================
