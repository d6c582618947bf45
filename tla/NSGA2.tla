------------------------------- MODULE NSGA2 -------------------------------
(***************************************************************************)
(* The selection of agent/nsga2.py as pure operators: non-dominated        *)
(* sorting, crowding distances and truncation of a population.             *)
(*                                                                         *)
(* A population is a sequence of records with an id and two objectives,    *)
(* pack (maximised) and fuel (minimised).  An individual is an object of   *)
(* its own, so it is named by its position; the code keys its tables by    *)
(* id, so two positions with one id share an entry.                        *)
(***************************************************************************)
EXTENDS Integers, SequencesExt

Dominates(p, q) ==
  /\ p.pack >= q.pack
  /\ p.fuel <= q.fuel
  /\ p.pack > q.pack \/ p.fuel < q.fuel

Positions(pop) == [i \in DOMAIN pop |-> i]

DominatorsOf(pop, i) == {k \in DOMAIN pop : Dominates(pop[k], pop[i])}

\* The members of a set in the order that upTo says: upTo[a] is a and all that
\* comes before it.
Arranged(S, upTo) ==
  [n \in 1..Cardinality(S) |-> CHOOSE a \in S : Cardinality(upTo[a]) = n]

Ascending(S) == Arranged(S, [i \in S |-> {k \in S : k <= i}])

-----------------------------------------------------------------------------
(***************************************************************************)
(* fast_non_dominated_sort.                                                *)
(***************************************************************************)

\* domination_counts once every pair has been compared.
DominationCounts(pop) ==
  [id \in {pop[i].id : i \in DOMAIN pop} |->
     Cardinality({ik \in (DOMAIN pop) \X (DOMAIN pop) :
       pop[ik[1]].id = id /\ Dominates(pop[ik[2]], pop[ik[1]])})]

\* Fault: an individual with a single dominator passes for undominated.
FirstFront_LessOrEqual(pop) ==
  Ascending({i \in DOMAIN pop : Cardinality(DominatorsOf(pop, i)) <= 1})

\* The count of an id is looked at when its own comparisons are done.
FirstFront(pop) ==
  Ascending({i \in DOMAIN pop :
    \A k \in 1..i : pop[k].id = pop[i].id => DominatorsOf(pop, k) = {}})

\* The decrements of a sweep: <<whose turn it is, his namesake, whom he dominates>>.
Releases(pop, front) ==
  {r \in (DOMAIN front) \X (DOMAIN pop) \X (DOMAIN pop) :
     /\ pop[r[2]].id = pop[front[r[1]]].id
     /\ Dominates(pop[r[2]], pop[r[3]])}

NotAfter(r, s) ==
  \/ r[1] < s[1]
  \/ r[1] = s[1] /\ r[2] < s[2]
  \/ r[1] = s[1] /\ r[2] = s[2] /\ r[3] <= s[3]

\* The front behind the one of this sweep: those whose count comes to zero.
NextFront(pop, sweep) ==
  LET releases == Releases(pop, sweep.front)
      Times(rs, id) == Cardinality({r \in rs : pop[r[3]].id = id})
      upTo == [r \in releases |-> {s \in releases : NotAfter(s, r)}]
      last == {r \in releases :
                 Times(upTo[r], pop[r[3]].id) = sweep.counts[pop[r[3]].id]}
      order == Arranged(last, [r \in last |-> upTo[r] \intersect last])
  IN  [counts |-> [id \in DOMAIN sweep.counts |-> sweep.counts[id] - Times(releases, id)],
       front  |-> [n \in DOMAIN order |-> order[n][3]]]

Sweeps(pop) ==
  LET sweep[k \in 0..Len(pop)] ==
        IF k = 0 THEN [counts |-> DominationCounts(pop), front |-> FirstFront(pop)]
        ELSE NextFront(pop, sweep[k - 1])
  IN  sweep

\* An id runs out of dominators once, so there are no more fronts than
\* individuals, the first one aside; behind an empty front all are empty.
Fronts(pop) ==
  LET sweeps == Sweeps(pop)
  IN  [k \in 1..Cardinality({n \in 0..Len(pop) : sweeps[n].front # <<>>}) |->
         sweeps[k - 1].front]

-----------------------------------------------------------------------------
(***************************************************************************)
(* assign_crowding_distance.  The two normalised gaps are brought to a     *)
(* common denominator, the product of the two spans, so that they compare  *)
(* as integers; Unreached stands for infinity.                             *)
(***************************************************************************)
StableSort(s, key) ==
  LET upTo == [i \in DOMAIN s |-> {k \in DOMAIN s :
        key[s[k]] < key[s[i]] \/ (key[s[k]] = key[s[i]] /\ k <= i)}]
      order == Arranged(DOMAIN s, upTo)
  IN  [p \in DOMAIN s |-> s[order[p]]]

\* What lies between the neighbours of each member of a sorted front.
Gaps(sorted, key) ==
  [i \in ToSet(sorted) |->
     LET p == CHOOSE k \in DOMAIN sorted : sorted[k] = i
     IN  IF p \in {1, Len(sorted)} THEN 0
         ELSE key[sorted[p + 1]] - key[sorted[p - 1]]]

Span(sorted, key) == key[Last(sorted)] - key[sorted[1]]

\* The front as it is left behind, and the distance of each member.
Crowding(pop, front) ==
  LET pack == [i \in DOMAIN pop |-> pop[i].pack]
      fuel == [i \in DOMAIN pop |-> pop[i].fuel]
      byPack == StableSort(front, pack)
      byFuel == StableSort(byPack, fuel)
      packSpan == Max({1, Span(byPack, pack)})
      fuelSpan == Max({1, Span(byFuel, fuel)})
      Unreached == 2 * packSpan * fuelSpan + 1
      ends == {byPack[1], Last(byPack), byFuel[1], Last(byFuel)}
  IN  IF Len(front) <= 2
      THEN [order |-> front, distance |-> [i \in ToSet(front) |-> 1]]
      ELSE [order |-> byFuel,
            distance |-> [i \in ToSet(front) |->
              IF i \in ends THEN Unreached
              ELSE Gaps(byPack, pack)[i] * fuelSpan + Gaps(byFuel, fuel)[i] * packSpan]]

\* Fault: the sort is not reversed.
ByCrowding_Ascending(pop, front) ==
  LET c == Crowding(pop, front) IN StableSort(c.order, c.distance)

\* The members of a front, the most isolated first.
ByCrowding(pop, front) ==
  LET c == Crowding(pop, front)
  IN  StableSort(c.order, [i \in ToSet(front) |-> -c.distance[i]])

-----------------------------------------------------------------------------
(***************************************************************************)
(* nsga2_truncate: whole fronts as long as they fit, then the most         *)
(* isolated members of the first one that does not.                        *)
(***************************************************************************)

\* Positions of the survivors.  Once a front has been cut there is no room, so
\* that nothing of the later ones is taken.
Survivors(pop, size) ==
  LET fronts == Fronts(pop)
      kept[n \in 0..Len(fronts)] ==
        IF n = 0 THEN <<>>
        ELSE LET before == kept[n - 1]
                 room == size - Len(before)
             IN  before \o (IF Len(fronts[n]) <= room THEN Crowding(pop, fronts[n]).order
                            ELSE SubSeq(ByCrowding(pop, fronts[n]), 1, room))
  IN  IF fronts = <<>> THEN <<>> ELSE kept[Len(fronts)]

Truncate(pop, size) ==
  IF Len(pop) <= size THEN pop
  ELSE LET kept == Survivors(pop, size) IN [k \in DOMAIN kept |-> pop[kept[k]]]

\* Best packing ratio first: the fallback where there is no Pareto front.
ByPacking(pop) ==
  StableSort(Positions(pop), [i \in DOMAIN pop |-> -pop[i].pack])

BestPack(pop) == Max({pop[k].pack : k \in DOMAIN pop} \union {0})
=============================================================================
