------------------------------- MODULE Island -------------------------------
(***************************************************************************)
(* One FunSearchIsland (agent/funsearch_service.py) whose individuals have *)
(* different ids: candidates of any quality are registered, and the        *)
(* population is truncated by NSGA-II when it overflows.  The module       *)
(* checks NSGA2 against what ranks and fronts are by definition.           *)
(***************************************************************************)
EXTENDS IslandProfiler

CONSTANTS
  Names,         \* one more than fit is enough to name every newcomer
  MaxCapacity,   \* max_capacity
  Packs, Fuels,  \* the values of the two objectives
  Histories      \* histories of an island for its profiler

ASSUME IslandAssumption ==
  /\ MaxCapacity \in Nat \ {0, 1}
  /\ IsFiniteSet(Names) /\ Cardinality(Names) > MaxCapacity
  /\ Packs \subseteq Nat
  /\ Fuels \subseteq Nat
  /\ \A h \in Histories : h \in Seq([fitness : Nat, print : STRING]) /\ h # <<>>

VARIABLE population

Unused == Names \ {population[i].id : i \in DOMAIN population}

\* register_heuristic, with an id that no individual has.
Admit(id, pack, fuel) ==
  /\ id \in Unused
  /\ population' =
       Truncate(Append(population, [id |-> id, pack |-> pack, fuel |-> fuel]),
                MaxCapacity)

IslandInit == population = <<>>

IslandNext == \E id \in Names, pack \in Packs, fuel \in Fuels : Admit(id, pack, fuel)

IslandSpec == IslandInit /\ [][IslandNext]_population

-----------------------------------------------------------------------------
PopulationOK ==
  /\ population \in Seq([id : Names, pack : Packs, fuel : Fuels])
  /\ Len(population) <= MaxCapacity

\* fast_non_dominated_sort, "Partitions the population into Pareto fronts":
\* every individual is in one front, no front dominates within itself, nobody
\* is dominated by a later front, and everybody behind the first front by
\* somebody of the front before.
IsRanking(pop, fronts) ==
  LET rank(i) == CHOOSE k \in DOMAIN fronts : Contains(fronts[k], i)
  IN  /\ \A i \in DOMAIN pop : \E k \in DOMAIN fronts : Contains(fronts[k], i)
      /\ \A k, l \in DOMAIN fronts : \A m \in DOMAIN fronts[k], n \in DOMAIN fronts[l] :
           fronts[k][m] = fronts[l][n] => k = l /\ m = n
      /\ \A i, k \in DOMAIN pop : Dominates(pop[i], pop[k]) => rank(i) < rank(k)
      /\ \A i \in DOMAIN pop : rank(i) > 1 =>
           \E k \in ToSet(fronts[rank(i) - 1]) : Dominates(pop[k], pop[i])

\* The fronts of every population, the one that is about to overflow included,
\* are its Pareto ranking.
FrontsAreRanks ==
  PopulationOK /\ \A pack \in Packs, fuel \in Fuels :
    LET grown == Append(population,
                   [id |-> CHOOSE id \in Unused : TRUE, pack |-> pack, fuel |-> fuel])
    IN  IsRanking(grown, Fronts(grown))

LeastFuel(pop) == Min({pop[i].fuel : i \in DOMAIN pop})

\* "preserve Pareto-optimal and diverse solutions": whatever is registered, the
\* island never gets worse in either objective.
ExtremesSurvive ==
  [][population # <<>> =>
       /\ BestPack(population') >= BestPack(population)
       /\ LeastFuel(population') <= LeastFuel(population)]_population

\* An overflowing island stays full, and gives up nobody who dominates one of
\* those it keeps.
EvictsTheDominated ==
  [][Len(population) = MaxCapacity =>
       /\ Len(population') = MaxCapacity
       /\ \A i \in DOMAIN population :
            ~Contains(population', population[i]) =>
              \A k \in DOMAIN population' :
                ~Dominates(population[i], population'[k])]_population

\* What truncation gives up can be spared.
TruncationIsFair == ExtremesSurvive /\ EvictsTheDominated

\* The sweep of the dashboard and the first front of the selection are two
\* computations of one frontier: they agree, but that the sweep keeps one of
\* several equals.
SweepIsTheFirstFront ==
  LET Point(i) == <<population[i].pack, population[i].fuel>>
      first == IF population = <<>> THEN <<>> ELSE Fronts(population)[1]
  IN  /\ {Point(i) : i \in Sweep(population)} = {Point(i) : i \in ToSet(first)}
      /\ \A i, k \in Sweep(population) : i # k => Point(i) # Point(k)

\* The scores before the newest one have been close to it for more than two
\* windows.
IsFlat(h) ==
  /\ Len(h) > 2 * Window + 1
  /\ \A k \in 1..2 * Window + 1 : Close(h[Len(h) - k], Last(h))

Escalates(h) ==
  LET share(e) == Cardinality(Strays(h, e))
      window == ToSet(LastWindow(h))
  IN  /\ Len(h) < Window => SuggestedAction(h) = "NOMINAL"
      /\ Len(h) >= Window =>
           /\ (\E e \in window : 10 * share(e) <= Window) =>
                SuggestedAction(h) =
                  IF IsFlat(h) THEN "CATACLYSMIC_RESTART" ELSE "RING_MIGRATION"
           /\ (\A e \in window : 6 * share(e) >= Window) =>
                SuggestedAction(h) # "CATACLYSMIC_RESTART"
      /\ (Len(h) > 1 /\ \A i \in 1..Len(h) - 1 : Last(h).fitness >= h[i].fitness + Epsilon) =>
           SuggestedAction(h) # "CATACLYSMIC_RESTART"

\* The remedies escalate: once a window is full of which at most a tenth strays
\* from one phenotype, elites migrate, and the island is restarted when its scores
\* have been flat for two more windows.  It is never restarted while a sixth of the
\* window strays from every phenotype, nor on a score that beats everything before
\* it by Epsilon.
RemediesEscalate == population = <<>> => \A h \in Histories : Escalates(h)
=============================================================================
