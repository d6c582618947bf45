---------------------------- MODULE SearchProofs ----------------------------
(***************************************************************************)
(* Proofs about the search: the selection of NSGA-II, an island with its   *)
(* profiler, and the FunSearch service.                                    *)
(***************************************************************************)
EXTENDS FunSearch, Island, FiniteSetTheorems, WellFoundedInduction, TLAPS

(***************************************************************************)
(* Numbers and arrangements.                                               *)
(***************************************************************************)
\* A set of numbers has a least one.
LEMMA LeastNumber ==
  ASSUME NEW T \in SUBSET Nat, T # {}
  PROVE  \E m \in T : \A j \in T : m <= j
<1>1. \E m \in T : \A j \in T : ~(<<j, m>> \in OpToRel(<, Nat))
  BY NatLessThanWellFounded, WFMin
<1>2. \A j, m \in T : <<j, m>> \in OpToRel(<, Nat) <=> j < m
  BY DEF OpToRel
<1>3. \A j, m \in T : ~(j < m) => m <= j
  OBVIOUS
<1> QED BY <1>1, <1>2, <1>3

\* The numbers up to n are n numbers, and sets of them are finite.
LEMMA UpToN ==
  ASSUME NEW n \in Nat
  PROVE  /\ IsFiniteSet(1..n) /\ Cardinality(1..n) = n
         /\ \A S \in SUBSET (1..n) : /\ IsFiniteSet(S) /\ Cardinality(S) \in Nat
                                     /\ Cardinality(S) <= n
<1>1. 1 \in Int /\ n \in Int
  OBVIOUS
<1>2. IsFiniteSet(1..n) /\ Cardinality(1..n) = IF 1 > n THEN 0 ELSE n - 1 + 1
  BY <1>1, FS_Interval
<1>3. Cardinality(1..n) = n
  BY <1>2
<1>4. \A S \in SUBSET (1..n) :
        IsFiniteSet(S) /\ Cardinality(S) \in Nat /\ Cardinality(S) <= n
  BY <1>2, <1>3, FS_Subset, FS_CardinalityType
<1> QED BY <1>2, <1>3, <1>4

\* Sets that grow along an order give its members their places, each of them once.
LEMMA Arrangement ==
  ASSUME NEW S, IsFiniteSet(S), NEW upTo \in [S -> SUBSET S],
         \A a \in S : a \in upTo[a],
         \A a, b \in S : a # b =>
           \/ upTo[a] \subseteq upTo[b] /\ b \notin upTo[a]
           \/ upTo[b] \subseteq upTo[a] /\ a \notin upTo[b]
  PROVE  /\ Cardinality(S) \in Nat
         /\ Arranged(S, upTo) \in [1..Cardinality(S) -> S]
         /\ \A n \in 1..Cardinality(S) : Cardinality(upTo[Arranged(S, upTo)[n]]) = n
         /\ \A a \in S : \E n \in 1..Cardinality(S) : Arranged(S, upTo)[n] = a
         /\ \A m, n \in 1..Cardinality(S) :
              m <= n <=> Arranged(S, upTo)[m] \in upTo[Arranged(S, upTo)[n]]
<1> DEFINE N == Cardinality(S)
           f == Arranged(S, upTo)
           place == [a \in S |-> Cardinality(upTo[a])]
<1>1. N \in Nat
  BY FS_CardinalityType
<1>2. \A a \in S : /\ IsFiniteSet(upTo[a]) /\ Cardinality(upTo[a]) \in Nat
                   /\ Cardinality(upTo[a]) <= N
  BY FS_Subset, FS_CardinalityType
<1>3. \A a \in S : Cardinality(upTo[a]) # 0
  BY <1>2, FS_EmptySet
<1>4. \A a \in S : Cardinality(upTo[a]) \in 1..N
  BY <1>1, <1>2, <1>3
<1>5. ASSUME NEW a \in S, NEW b \in S, upTo[a] \subseteq upTo[b], b \notin upTo[a]
      PROVE  Cardinality(upTo[a]) < Cardinality(upTo[b])
  <2>1. b \in upTo[b] /\ upTo[a] \in SUBSET upTo[b] /\ upTo[a] # upTo[b]
    BY <1>5
  <2>2. /\ Cardinality(upTo[a]) <= Cardinality(upTo[b])
        /\ Cardinality(upTo[a]) # Cardinality(upTo[b])
    BY <1>2, <2>1, FS_Subset
  <2> QED BY <1>2, <2>2
<1>6. \A a, b \in S : place[a] = place[b] => a = b
  <2> SUFFICES ASSUME NEW a \in S, NEW b \in S, place[a] = place[b], a # b
               PROVE  FALSE
    OBVIOUS
  <2>1. Cardinality(upTo[a]) < Cardinality(upTo[b]) \/ Cardinality(upTo[b]) < Cardinality(upTo[a])
    BY <1>5
  <2> QED BY <1>2, <2>1
<1>7. ASSUME NEW n \in 1..N, \A a \in S : Cardinality(upTo[a]) # n
      PROVE  FALSE
  <2> DEFINE others == (1..N) \ {n}
  <2>1. IsFiniteSet(1..N) /\ Cardinality(1..N) = N
    BY <1>1, UpToN
  <2>2. IsFiniteSet(others) /\ Cardinality(others) = N - 1
    <3> DEFINE upToN == 1..N
    <3>1. IsFiniteSet(upToN) /\ Cardinality(upToN) = N /\ n \in upToN
      BY <2>1
    <3> HIDE DEF upToN
    <3>2. IsFiniteSet(upToN \ {n}) /\ Cardinality(upToN \ {n}) = N - 1
      BY <3>1, FS_RemoveElement
    <3> QED BY <3>2 DEF upToN
  <2>3. place \in [S -> others]
    BY <1>4, <1>7
  <2>4. Cardinality(others) < Cardinality(S)
    BY <1>1, <2>2
  <2> HIDE DEF others, place
  <2>5. PICK x, y \in S : x # y /\ place[x] = place[y]
    BY <2>2, <2>3, <2>4, FS_PigeonHole
  <2> QED BY <1>6, <2>5
<1>8. f = [n \in 1..N |-> CHOOSE a \in S : Cardinality(upTo[a]) = n]
  BY DEF Arranged
<1>9. \A n \in 1..N : f[n] \in S /\ Cardinality(upTo[f[n]]) = n
  BY <1>7, <1>8
<1>10. f \in [1..N -> S]
  BY <1>8, <1>9
<1>11. \A a \in S : f[Cardinality(upTo[a])] = a
  <2> TAKE a \in S
  <2>1. Cardinality(upTo[a]) \in 1..N
    BY <1>4
  <2>2. place[f[Cardinality(upTo[a])]] = place[a] /\ f[Cardinality(upTo[a])] \in S
    BY <1>9, <2>1
  <2> QED BY <1>6, <2>2
<1>12. \A m, n \in 1..N : m <= n <=> f[m] \in upTo[f[n]]
  <2> TAKE m, n \in 1..N
  <2> HIDE DEF f, N, place
  <2>1. /\ f[m] \in S /\ f[n] \in S
        /\ Cardinality(upTo[f[m]]) = m /\ Cardinality(upTo[f[n]]) = n
    BY <1>9
  <2>2. CASE f[m] = f[n]
    BY <2>1, <2>2
  <2>3. CASE f[m] # f[n]
    <3>1. CASE upTo[f[m]] \subseteq upTo[f[n]] /\ f[n] \notin upTo[f[m]]
      BY <1>5, <2>1, <3>1
    <3>2. CASE upTo[f[n]] \subseteq upTo[f[m]] /\ f[m] \notin upTo[f[n]]
      <4>1. n < m
        BY <1>5, <2>1, <3>2
      <4> QED BY <3>2, <4>1
    <3> QED BY <2>1, <2>3, <3>1, <3>2
  <2> QED BY <2>2, <2>3
<1>13. \A a \in S : \E n \in 1..N : f[n] = a
  BY <1>4, <1>11
<1> QED BY <1>1, <1>9, <1>10, <1>12, <1>13

\* A set of numbers in ascending order.
LEMMA AscendingOrder ==
  ASSUME NEW m \in Nat, NEW S \in SUBSET (1..m)
  PROVE  /\ Cardinality(S) \in Nat /\ Cardinality(S) <= m
         /\ Ascending(S) \in Seq(S)
         /\ DOMAIN Ascending(S) = 1..Cardinality(S)
         /\ \A a \in S : \E n \in DOMAIN Ascending(S) : Ascending(S)[n] = a
         /\ \A k, n \in DOMAIN Ascending(S) : k < n <=> Ascending(S)[k] < Ascending(S)[n]
<1> DEFINE upTo == [i \in S |-> {k \in S : k <= i}]
           f == Ascending(S)
           N == Cardinality(S)
<1>1. IsFiniteSet(S) /\ N <= m
  BY UpToN
<1>2. \A a \in S : a \in Nat
  OBVIOUS
<1>3. upTo \in [S -> SUBSET S] /\ \A a \in S : a \in upTo[a]
  BY <1>2
<1>4. \A a, b \in S : a # b =>
           \/ upTo[a] \subseteq upTo[b] /\ b \notin upTo[a]
           \/ upTo[b] \subseteq upTo[a] /\ a \notin upTo[b]
  <2>1. ASSUME NEW a \in S, NEW b \in S, a < b
        PROVE  upTo[a] \subseteq upTo[b] /\ b \notin upTo[a]
    <3>1. \A k \in S : k <= a => k <= b
      BY <1>2, <2>1
    <3>2. ~(b <= a)
      BY <1>2, <2>1
    <3> QED BY <3>1, <3>2
  <2> HIDE DEF upTo
  <2>2. \A a, b \in S : a # b => a < b \/ b < a
    BY <1>2
  <2> QED BY <2>1, <2>2
<1>5. f = Arranged(S, upTo)
  BY DEF Ascending
<1>6. /\ N \in Nat /\ f \in [1..N -> S]
      /\ \A a \in S : \E n \in 1..N : f[n] = a
      /\ \A k, n \in 1..N : k <= n <=> f[k] \in upTo[f[n]]
  <2> HIDE DEF upTo, f
  <2>1. /\ N \in Nat
        /\ Arranged(S, upTo) \in [1..N -> S]
        /\ \A a \in S : \E n \in 1..N : Arranged(S, upTo)[n] = a
        /\ \A k, n \in 1..N : k <= n <=> Arranged(S, upTo)[k] \in upTo[Arranged(S, upTo)[n]]
    BY <1>1, <1>3, <1>4, Arrangement
  <2> QED BY <1>5, <2>1
<1> HIDE DEF f, N
<1>7. \A k, n \in 1..N : k <= n <=> f[k] <= f[n]
  <2> TAKE k, n \in 1..N
  <2>1. f[k] \in S /\ f[n] \in S /\ (k <= n <=> f[k] \in upTo[f[n]])
    BY <1>6
  <2> QED BY <2>1
<1>8. \A k, n \in 1..N : k < n <=> f[k] < f[n]
  <2> TAKE k, n \in 1..N
  <2>1. f[k] \in Nat /\ f[n] \in Nat /\ k \in Nat /\ n \in Nat
    <3>1. f[k] \in S /\ f[n] \in S /\ N \in Nat
      BY <1>6
    <3>2. f[k] \in Nat /\ f[n] \in Nat
      BY <1>2, <3>1
    <3>3. k \in Nat /\ n \in Nat
      BY <3>1
    <3> QED BY <3>2, <3>3
  <2>2. n <= k <=> f[n] <= f[k]
    BY <1>7
  <2> QED BY <2>1, <2>2
<1>9. f \in Seq(S) /\ DOMAIN f = 1..N
  BY <1>6
<1> QED BY <1>1, <1>6, <1>8, <1>9 DEF f, N

\* A stable sort rearranges a sequence by its keys, and equal keys by their places.
LEMMA SortedStably ==
  ASSUME NEW D, NEW s \in Seq(D), NEW key, \A k \in DOMAIN s : key[s[k]] \in Int
  PROVE  /\ StableSort(s, key) \in Seq(D)
         /\ DOMAIN StableSort(s, key) = DOMAIN s
         /\ \E from \in [DOMAIN s -> DOMAIN s] :
              /\ \A k \in DOMAIN s : StableSort(s, key)[k] = s[from[k]]
              /\ \A i \in DOMAIN s : \E k \in DOMAIN s : from[k] = i
              /\ \A k, l \in DOMAIN s : k < l =>
                   \/ key[s[from[k]]] < key[s[from[l]]]
                   \/ key[s[from[k]]] = key[s[from[l]]] /\ from[k] < from[l]
<1> DEFINE S == DOMAIN s
           upTo == [i \in S |-> {k \in S :
                      key[s[k]] < key[s[i]] \/ (key[s[k]] = key[s[i]] /\ k <= i)}]
           from == Arranged(S, upTo)
<1>1. Len(s) \in Nat /\ S = 1..Len(s)
  OBVIOUS
<1>2. IsFiniteSet(S) /\ Cardinality(S) = Len(s)
  BY <1>1, UpToN
<1>3. \A a \in S : a \in Nat /\ key[s[a]] \in Int
  BY <1>1
<1>4. upTo \in [S -> SUBSET S] /\ \A a \in S : a \in upTo[a]
  BY <1>3
<1>5. \A a, b \in S : a # b =>
           \/ upTo[a] \subseteq upTo[b] /\ b \notin upTo[a]
           \/ upTo[b] \subseteq upTo[a] /\ a \notin upTo[b]
  <2> TAKE a, b \in S
  <2>1. CASE key[s[a]] < key[s[b]] \/ (key[s[a]] = key[s[b]] /\ a < b)
    BY <1>3, <2>1
  <2>2. CASE key[s[b]] < key[s[a]] \/ (key[s[a]] = key[s[b]] /\ b < a)
    BY <1>3, <2>2
  <2> HIDE DEF upTo
  <2> QED BY <1>3, <2>1, <2>2
<1>6. /\ from \in [1..Len(s) -> S]
      /\ \A a \in S : \E n \in 1..Len(s) : from[n] = a
      /\ \A k, n \in 1..Len(s) : k <= n <=> from[k] \in upTo[from[n]]
  <2> HIDE DEF S, upTo
  <2> QED BY <1>2, <1>4, <1>5, Arrangement
<1>7. StableSort(s, key) = [p \in S |-> s[from[p]]]
  BY DEF StableSort
<1> HIDE DEF from
<1>8. \A k, l \in S : k < l =>
        \/ key[s[from[k]]] < key[s[from[l]]]
        \/ key[s[from[k]]] = key[s[from[l]]] /\ from[k] < from[l]
  <2> SUFFICES ASSUME NEW k \in S, NEW l \in S, k < l
               PROVE  \/ key[s[from[k]]] < key[s[from[l]]]
                      \/ key[s[from[k]]] = key[s[from[l]]] /\ from[k] < from[l]
    OBVIOUS
  <2>1. k \in 1..Len(s) /\ l \in 1..Len(s) /\ from[k] \in S /\ from[l] \in S
    BY <1>1, <1>6
  <2>2. from[k] \in upTo[from[l]] /\ ~(from[l] \in upTo[from[k]])
    <3> HIDE DEF upTo, S
    <3>1. k <= l /\ ~(l <= k)
      BY <1>1, <2>1
    <3>2. k <= l <=> from[k] \in upTo[from[l]]
      BY <1>6, <2>1
    <3>3. l <= k <=> from[l] \in upTo[from[k]]
      BY <1>6, <2>1
    <3> QED BY <3>1, <3>2, <3>3
  <2> QED BY <1>3, <2>1, <2>2
<1> HIDE DEF upTo
<1>9. StableSort(s, key) \in Seq(D) /\ DOMAIN StableSort(s, key) = S
  BY <1>1, <1>6, <1>7
<1>10. \A k \in S : StableSort(s, key)[k] = s[from[k]]
  BY <1>7
<1>11. from \in [S -> S] /\ \A i \in S : \E k \in S : from[k] = i
  BY <1>1, <1>6
<1> QED BY <1>8, <1>9, <1>10, <1>11

-----------------------------------------------------------------------------
(***************************************************************************)
(* Domination and the first front.                                         *)
(***************************************************************************)
\* A population whose objectives are numbers.
IsPopulation(pop) ==
  /\ Len(pop) \in Nat
  /\ DOMAIN pop = 1..Len(pop)
  /\ \A i \in DOMAIN pop : pop[i].pack \in Nat /\ pop[i].fuel \in Nat

\* Individuals of one id have the same objectives.
NamesakesAreEqual(pop) ==
  \A i, k \in DOMAIN pop : pop[i].id = pop[k].id =>
    pop[i].pack = pop[k].pack /\ pop[i].fuel = pop[k].fuel

\* Nobody dominates himself, and who dominates a dominator dominates.
LEMMA DominationIsAnOrder ==
  ASSUME NEW pop, IsPopulation(pop),
         NEW i \in DOMAIN pop, NEW j \in DOMAIN pop, NEW k \in DOMAIN pop
  PROVE  /\ ~Dominates(pop[i], pop[i])
         /\ Dominates(pop[i], pop[j]) /\ Dominates(pop[j], pop[k]) => Dominates(pop[i], pop[k])
<1>1. /\ pop[i].pack \in Nat /\ pop[i].fuel \in Nat
      /\ pop[j].pack \in Nat /\ pop[j].fuel \in Nat
      /\ pop[k].pack \in Nat /\ pop[k].fuel \in Nat
  BY DEF IsPopulation
<1> QED BY <1>1 DEF Dominates

\* Among some individuals there is one that none of them dominates.
LEMMA Foremost ==
  ASSUME NEW pop, IsPopulation(pop), NEW S \in SUBSET DOMAIN pop, S # {}
  PROVE  \E k \in S : \A j \in S : ~Dominates(pop[j], pop[k])
<1> DEFINE above(k) == DominatorsOf(pop, k)
<1>1. \A k \in DOMAIN pop : /\ above(k) \in SUBSET DOMAIN pop
                            /\ IsFiniteSet(above(k)) /\ Cardinality(above(k)) \in Nat
  <2> TAKE k \in DOMAIN pop
  <2>1. above(k) \in SUBSET DOMAIN pop
    BY DEF DominatorsOf
  <2> HIDE DEF above
  <2> QED BY <2>1, UpToN DEF IsPopulation
<1>2. ASSUME NEW j \in DOMAIN pop, NEW k \in DOMAIN pop, Dominates(pop[j], pop[k])
      PROVE  Cardinality(above(j)) < Cardinality(above(k))
  <2>1. above(j) \in SUBSET above(k)
    BY <1>2, DominationIsAnOrder DEF DominatorsOf
  <2>2. j \in above(k) /\ j \notin above(j)
    BY <1>2, DominationIsAnOrder DEF DominatorsOf
  <2> HIDE DEF above
  <2>3. /\ Cardinality(above(j)) <= Cardinality(above(k))
        /\ Cardinality(above(j)) # Cardinality(above(k))
    BY <1>1, <2>1, <2>2, FS_Subset
  <2> QED BY <1>1, <2>3
<1> HIDE DEF above
<1> DEFINE sizes == {Cardinality(above(k)) : k \in S}
<1>3. sizes \in SUBSET Nat /\ sizes # {}
  BY <1>1
<1>4. PICK m \in sizes : \A n \in sizes : m <= n
  BY <1>3, LeastNumber
<1>5. PICK k \in S : m = Cardinality(above(k))
  BY <1>4
<1>6. ASSUME NEW j \in S, Dominates(pop[j], pop[k]) PROVE FALSE
  <2>1. Cardinality(above(j)) < Cardinality(above(k))
    BY <1>2, <1>6
  <2>2. m <= Cardinality(above(j))
    BY <1>4
  <2> QED BY <1>1, <1>5, <2>1, <2>2
<1> QED BY <1>6

\* Everybody is undominated or dominated by somebody undominated.
LEMMA DominatedFromTheFront ==
  ASSUME NEW pop, IsPopulation(pop), NEW i \in DOMAIN pop
  PROVE  \E k \in DOMAIN pop :
           /\ DominatorsOf(pop, k) = {}
           /\ k = i \/ Dominates(pop[k], pop[i])
<1> DEFINE S == DominatorsOf(pop, i) \cup {i}
<1>1. S \in SUBSET DOMAIN pop /\ S # {}
  BY DEF DominatorsOf
<1>2. PICK k \in S : \A j \in S : ~Dominates(pop[j], pop[k])
  BY <1>1, Foremost
<1>3. k \in DOMAIN pop /\ (k = i \/ Dominates(pop[k], pop[i]))
  BY <1>1 DEF DominatorsOf
<1>4. ASSUME NEW j \in DOMAIN pop, Dominates(pop[j], pop[k]) PROVE FALSE
  <2>1. Dominates(pop[j], pop[i])
    BY <1>3, <1>4, DominationIsAnOrder
  <2>2. j \in S
    BY <2>1 DEF DominatorsOf
  <2> QED BY <1>2, <1>4, <2>2
<1>5. DominatorsOf(pop, k) = {}
  BY <1>4 DEF DominatorsOf
<1> QED BY <1>3, <1>5

\* The first front are undominated individuals in their order, and all of them
\* if namesakes are equal.
LEMMA FirstFrontIsUndominated ==
  ASSUME NEW pop, IsPopulation(pop)
  PROVE  /\ FirstFront(pop) \in Seq(DOMAIN pop)
         /\ Len(FirstFront(pop)) <= Len(pop)
         /\ \A k \in DOMAIN FirstFront(pop) : DominatorsOf(pop, FirstFront(pop)[k]) = {}
         /\ \A k, n \in DOMAIN FirstFront(pop) :
              k < n <=> FirstFront(pop)[k] < FirstFront(pop)[n]
         /\ NamesakesAreEqual(pop) =>
              /\ \A i \in DOMAIN pop : DominatorsOf(pop, i) = {} =>
                   \E k \in DOMAIN FirstFront(pop) : FirstFront(pop)[k] = i
              /\ pop # <<>> => FirstFront(pop) # <<>>
<1> DEFINE S == {i \in DOMAIN pop :
              \A k \in 1..i : pop[k].id = pop[i].id => DominatorsOf(pop, k) = {}}
           f == FirstFront(pop)
<1>1. Len(pop) \in Nat /\ DOMAIN pop = 1..Len(pop) /\ S \in SUBSET (1..Len(pop))
  BY DEF IsPopulation
<1>2. f = Ascending(S)
  BY DEF FirstFront
<1> HIDE DEF f, S
<1>3. /\ Cardinality(S) \in Nat /\ Cardinality(S) <= Len(pop)
      /\ Ascending(S) \in Seq(S)
      /\ DOMAIN Ascending(S) = 1..Cardinality(S)
      /\ \A a \in S : \E n \in DOMAIN Ascending(S) : Ascending(S)[n] = a
      /\ \A k, n \in DOMAIN Ascending(S) : k < n <=> Ascending(S)[k] < Ascending(S)[n]
  BY <1>1, AscendingOrder
<1>4. f \in Seq(S) /\ Len(f) = Cardinality(S) /\ \A k \in DOMAIN f : f[k] \in S
  BY <1>2, <1>3
<1>5. \A i \in S : i \in DOMAIN pop /\ DominatorsOf(pop, i) = {}
  <2> TAKE i \in S
  <2>1. i \in 1..i /\ i \in DOMAIN pop
    BY <1>1
  <2> QED BY <2>1 DEF S
<1>6. f \in Seq(DOMAIN pop)
  <2>1. \A k \in 1..Len(f) : f[k] \in DOMAIN pop
    BY <1>4, <1>5
  <2> QED BY <1>4, <2>1
<1>7. ASSUME NamesakesAreEqual(pop), NEW i \in DOMAIN pop, DominatorsOf(pop, i) = {}
      PROVE  \E k \in DOMAIN f : f[k] = i
  <2>1. ASSUME NEW k \in 1..i, pop[k].id = pop[i].id PROVE DominatorsOf(pop, k) = {}
    <3>1. k \in DOMAIN pop
      BY <1>1
    <3>2. pop[k].pack = pop[i].pack /\ pop[k].fuel = pop[i].fuel
      BY <1>7, <2>1, <3>1 DEF NamesakesAreEqual
    <3> QED BY <1>7, <3>2 DEF DominatorsOf, Dominates
  <2>2. i \in S
    BY <2>1 DEF S
  <2> QED BY <1>2, <1>3, <2>2
<1>8. ASSUME NamesakesAreEqual(pop), pop # <<>> PROVE f # <<>>
  <2>1. 1 \in DOMAIN pop
    BY <1>1, <1>8
  <2>2. PICK k \in DOMAIN pop : DominatorsOf(pop, k) = {}
    BY <2>1, DominatedFromTheFront
  <2>3. \E n \in DOMAIN f : f[n] = k
    BY <1>7, <1>8, <2>2
  <2> QED BY <2>3
<1>9. \A k, n \in DOMAIN f : k < n <=> f[k] < f[n]
  BY <1>2, <1>3
<1>10. Len(f) <= Len(pop) /\ \A k \in DOMAIN f : DominatorsOf(pop, f[k]) = {}
  BY <1>3, <1>4, <1>5
<1> QED BY <1>6, <1>7, <1>8, <1>9, <1>10 DEF f

-----------------------------------------------------------------------------
(***************************************************************************)
(* The sweeps of the sort.                                                 *)
(***************************************************************************)
\* The releases of one sweep up to one of them, those of one id, and the last
\* release of each id that runs out of dominators.
ReleasesUpTo(pop, front, r) == {s \in Releases(pop, front) : NotAfter(s, r)}

ReleasesOf(pop, rs, id) == {r \in rs : pop[r[3]].id = id}

LastReleases(pop, sweep) ==
  {r \in Releases(pop, sweep.front) :
     Cardinality(ReleasesOf(pop, ReleasesUpTo(pop, sweep.front, r), pop[r[3]].id))
       = sweep.counts[pop[r[3]].id]}

\* The front lists whom the last releases are of, one for each of them.
ListsTheLast(pop, sweep, front) ==
  \E order \in [DOMAIN front -> LastReleases(pop, sweep)] :
    /\ \A n \in DOMAIN order : front[n] = order[n][3]
    /\ \A r \in LastReleases(pop, sweep) : \E n \in DOMAIN order : order[n] = r
    /\ \A m, n \in DOMAIN order : order[m] = order[n] => m = n

\* The releases of a sweep have an order, and so has each part of them.
LEMMA ReleasesAreOrdered ==
  ASSUME NEW pop, IsPopulation(pop), NEW front \in Seq(DOMAIN pop),
         NEW T \in SUBSET Releases(pop, front)
  PROVE  LET upTo == [r \in T |-> ReleasesUpTo(pop, front, r) \intersect T]
         IN  /\ IsFiniteSet(T)
             /\ upTo \in [T -> SUBSET T]
             /\ \A a \in T : a \in upTo[a]
             /\ \A a, b \in T : a # b =>
                  \/ upTo[a] \subseteq upTo[b] /\ b \notin upTo[a]
                  \/ upTo[b] \subseteq upTo[a] /\ a \notin upTo[b]
<1> DEFINE R == Releases(pop, front)
           N == Len(pop)
           F == Len(front)
           upTo == [r \in T |-> ReleasesUpTo(pop, front, r) \intersect T]
<1>1. N \in Nat /\ F \in Nat /\ DOMAIN pop = 1..N /\ DOMAIN front = 1..F
  BY DEF IsPopulation
<1>2. R \subseteq (1..F) \X (1..N) \X (1..N)
  BY <1>1 DEF Releases
<1>3. IsFiniteSet(T)
  <2>1. IsFiniteSet(1..F) /\ IsFiniteSet(1..N)
    BY <1>1, UpToN
  <2> DEFINE all == {<<p[1][1], p[1][2], p[2]>> : p \in ((1..F) \X (1..N)) \X (1..N)}
  <2>2. IsFiniteSet(((1..F) \X (1..N)) \X (1..N))
    BY <2>1, FS_Product
  <2>3. IsFiniteSet(all)
    <3> DEFINE pairs == ((1..F) \X (1..N)) \X (1..N)
               f == [p \in pairs |-> <<p[1][1], p[1][2], p[2]>>]
    <3>1. f \in Surjection(pairs, all)
      BY DEF Surjection
    <3> HIDE DEF f, pairs, all
    <3> QED BY <2>2, <3>1, FS_Surjection DEF pairs
  <2>4. R \subseteq all
    <3> SUFFICES ASSUME NEW r \in R PROVE r \in all
      OBVIOUS
    <3>1. r \in (1..F) \X (1..N) \X (1..N)
      BY <1>2
    <3>2. PICK a \in 1..F, b \in 1..N, c \in 1..N : r = <<a, b, c>>
      BY <3>1
    <3>3. <<<<a, b>>, c>> \in ((1..F) \X (1..N)) \X (1..N)
      OBVIOUS
    <3> DEFINE p == <<<<a, b>>, c>>
    <3>4. p[1][1] = a /\ p[1][2] = b /\ p[2] = c
      OBVIOUS
    <3> HIDE DEF p
    <3>5. r = <<p[1][1], p[1][2], p[2]>>
      BY <3>2, <3>4
    <3> QED BY <3>3, <3>5 DEF p
  <2>5. T \in SUBSET all
    BY <2>4
  <2> HIDE DEF all
  <2> QED BY <2>3, <2>5, FS_Subset
<1>4. \A a \in T : a[1] \in Nat /\ a[2] \in Nat /\ a[3] \in Nat
  BY <1>1, <1>2
<1>5. \A a, b \in T : a # b => ~(a[1] = b[1] /\ a[2] = b[2] /\ a[3] = b[3])
  BY <1>2
<1>6. \A a \in T : NotAfter(a, a)
  BY <1>4 DEF NotAfter
<1>7. \A a, b, c \in T : NotAfter(a, b) /\ NotAfter(b, c) => NotAfter(a, c)
  BY <1>4 DEF NotAfter
<1>8. \A a, b \in T : a # b =>
        (NotAfter(a, b) /\ ~NotAfter(b, a)) \/ (NotAfter(b, a) /\ ~NotAfter(a, b))
  BY <1>4, <1>5 DEF NotAfter
<1>9. \A a \in T : upTo[a] = {b \in T : NotAfter(b, a)}
  BY DEF ReleasesUpTo
<1>10. upTo \in [T -> SUBSET T]
  OBVIOUS
<1> HIDE DEF upTo
<1>11. \A a \in T : a \in upTo[a]
  BY <1>6, <1>9
<1>12. \A a, b \in T : a # b =>
                  \/ upTo[a] \subseteq upTo[b] /\ b \notin upTo[a]
                  \/ upTo[b] \subseteq upTo[a] /\ a \notin upTo[b]
  BY <1>7, <1>8, <1>9
<1> QED BY <1>3, <1>10, <1>11, <1>12 DEF upTo

\* The next front lists whom the last releases are of, one for each of them.
LEMMA NextFrontIsLast ==
  ASSUME NEW pop, IsPopulation(pop), NEW sweep, sweep.front \in Seq(DOMAIN pop)
  PROVE  /\ NextFront(pop, sweep).front \in Seq(DOMAIN pop)
         /\ DOMAIN NextFront(pop, sweep).counts = DOMAIN sweep.counts
         /\ \A id \in DOMAIN sweep.counts :
              NextFront(pop, sweep).counts[id] =
                sweep.counts[id] - Cardinality(ReleasesOf(pop, Releases(pop, sweep.front), id))
         /\ ListsTheLast(pop, sweep, NextFront(pop, sweep).front)
<1> DEFINE front == sweep.front
           R == Releases(pop, front)
           last == LastReleases(pop, sweep)
           upTo == [r \in last |-> ReleasesUpTo(pop, front, r) \intersect last]
           order == Arranged(last, upTo)
           next == NextFront(pop, sweep)
           N == Cardinality(last)
<1>1. last \in SUBSET R
  BY DEF LastReleases
<1>2. next = [counts |-> [id \in DOMAIN sweep.counts |-> sweep.counts[id] -
                            Cardinality(ReleasesOf(pop, R, id))],
              front  |-> [n \in DOMAIN order |-> order[n][3]]]
  <2> DEFINE Times(rs, id) == Cardinality({r \in rs : pop[r[3]].id = id})
             up == [r \in R |-> {s \in R : NotAfter(s, r)}]
             l == {r \in R : Times(up[r], pop[r[3]].id) = sweep.counts[pop[r[3]].id]}
             u == [r \in l |-> up[r] \intersect l]
  <2>1. next = [counts |-> [id \in DOMAIN sweep.counts |-> sweep.counts[id] - Times(R, id)],
                front  |-> [n \in DOMAIN Arranged(l, u) |-> Arranged(l, u)[n][3]]]
    BY Zenon DEF NextFront
  <2>2. \A r \in R : up[r] = ReleasesUpTo(pop, front, r)
    BY DEF ReleasesUpTo
  <2>3. \A rs, id : Times(rs, id) = Cardinality(ReleasesOf(pop, rs, id))
    BY DEF ReleasesOf
  <2> HIDE DEF up, Times
  <2>4. l = last
    BY <2>2, <2>3 DEF LastReleases
  <2> HIDE DEF l, R
  <2>5. u = upTo
    <3>1. \A r \in l : up[r] \intersect l = ReleasesUpTo(pop, front, r) \intersect last
      BY <1>1, <2>2, <2>4
    <3> HIDE DEF last
    <3> QED BY <2>4, <3>1
  <2> HIDE DEF u, upTo, last
  <2> QED BY <2>1, <2>3, <2>4, <2>5
<1>3. /\ IsFiniteSet(last)
      /\ upTo \in [last -> SUBSET last]
      /\ \A a \in last : a \in upTo[a]
      /\ \A a, b \in last : a # b =>
           \/ upTo[a] \subseteq upTo[b] /\ b \notin upTo[a]
           \/ upTo[b] \subseteq upTo[a] /\ a \notin upTo[b]
  <2> HIDE DEF last
  <2> QED BY <1>1, ReleasesAreOrdered
<1> HIDE DEF next
<1>4. /\ N \in Nat /\ order \in [1..N -> last]
      /\ \A a \in last : \E n \in 1..N : order[n] = a
      /\ \A m, n \in 1..N : m <= n <=> order[m] \in upTo[order[n]]
  <2> HIDE DEF last, upTo
  <2> QED BY <1>3, Arrangement
<1>5. \A n \in 1..N : order[n][3] \in DOMAIN pop
  BY <1>1, <1>4 DEF Releases
<1>6. next.front = [n \in 1..N |-> order[n][3]]
  <2> HIDE DEF order, last
  <2> QED BY <1>2, <1>4
<1>7. next.front \in Seq(DOMAIN pop) /\ DOMAIN next.front = 1..N
  <2> HIDE DEF order, N
  <2> QED BY <1>4, <1>5, <1>6
<1>8. ASSUME NEW m \in 1..N, NEW n \in 1..N, order[m] = order[n] PROVE m = n
  <2> HIDE DEF order, last, upTo
  <2>1. m <= m /\ n <= n
    OBVIOUS
  <2>2. m <= n /\ n <= m
    BY <1>4, <1>8, <2>1
  <2> QED BY <2>2
<1> HIDE DEF order, last, upTo, N
<1>9. /\ order \in [DOMAIN next.front -> last]
      /\ \A n \in DOMAIN order : next.front[n] = order[n][3]
      /\ \A r \in last : \E n \in DOMAIN order : order[n] = r
      /\ \A m, n \in DOMAIN order : order[m] = order[n] => m = n
  BY <1>4, <1>6, <1>7, <1>8
<1>10. /\ DOMAIN next.counts = DOMAIN sweep.counts
       /\ \A id \in DOMAIN sweep.counts :
            next.counts[id] = sweep.counts[id] - Cardinality(ReleasesOf(pop, R, id))
  <2> HIDE DEF R
  <2> QED BY <1>2
<1>11. ListsTheLast(pop, sweep, next.front)
  BY <1>9 DEF ListsTheLast, last
<1> QED BY <1>7, <1>10, <1>11 DEF next

FirstSweep(pop) == [counts |-> DominationCounts(pop), front |-> FirstFront(pop)]

\* The sweeps follow from one another.
LEMMA SweepsFollow ==
  ASSUME NEW pop, Len(pop) \in Nat
  PROVE  /\ DOMAIN Sweeps(pop) = 0..Len(pop)
         /\ Sweeps(pop)[0] = FirstSweep(pop)
         /\ \A k \in 1..Len(pop) : Sweeps(pop)[k] = NextFront(pop, Sweeps(pop)[k - 1])
<1> DEFINE first == FirstSweep(pop)
           Next1(x) == NextFront(pop, x)
           IsSweep(f, n) == f = [k \in 0..n |-> IF k = 0 THEN first ELSE Next1(f[k - 1])]
           missing == {n \in Nat : \A f : ~IsSweep(f, n)}
<1> HIDE DEF first, Next1
<1>1. missing = {}
  <2> SUFFICES ASSUME missing # {} PROVE FALSE
    OBVIOUS
  <2>1. PICK n \in missing : \A j \in missing : n <= j
    BY LeastNumber
  <2>2. CASE n = 0
    <3> DEFINE f == [k \in 0..0 |-> first]
    <3>1. IsSweep(f, 0)
      OBVIOUS
    <3> HIDE DEF IsSweep
    <3> QED BY <2>1, <2>2, <3>1
  <2>3. CASE n # 0
    <3>1. n - 1 \in Nat /\ n - 1 \notin missing /\ n \in Nat
      BY <2>1, <2>3
    <3>2. PICK g : IsSweep(g, n - 1)
      BY <3>1
    <3> DEFINE f == [k \in 0..n |-> IF k = n THEN Next1(g[n - 1]) ELSE g[k]]
    <3>3. ASSUME NEW k \in 0..n
          PROVE  f[k] = IF k = 0 THEN first ELSE Next1(f[k - 1])
      <4>1. \A i \in 0..n - 1 : f[i] = g[i]
        BY <3>1
      <4>2. g[0] = first /\ \A i \in 1..n - 1 : g[i] = Next1(g[i - 1])
        BY <3>1, <3>2
      <4>3. CASE k = n
        <5>1. n - 1 \in 0..n - 1 /\ k # 0
          BY <2>3, <3>1, <4>3
        <5>2. f[n - 1] = g[n - 1] /\ f[k] = Next1(g[n - 1])
          BY <4>1, <4>3, <5>1
        <5> QED BY <4>3, <5>1, <5>2
      <4>4. CASE k = 0
        BY <2>3, <3>1, <4>1, <4>2, <4>4
      <4>5. CASE k # n /\ k # 0
        <5>1. k \in 1..n - 1 /\ k - 1 \in 0..n - 1 /\ k \in 0..n - 1
          BY <3>1, <4>5
        <5>2. f[k] = g[k] /\ f[k - 1] = g[k - 1] /\ g[k] = Next1(g[k - 1])
          BY <4>1, <4>2, <5>1
        <5> QED BY <4>5, <5>2
      <4> QED BY <4>3, <4>4, <4>5
    <3>4. f = [k \in 0..n |-> f[k]]
      OBVIOUS
    <3> HIDE DEF f
    <3>5. IsSweep(f, n)
      BY <3>3, <3>4
    <3> QED BY <2>1, <3>5
  <2> QED BY <2>2, <2>3
<1>2. \E f : IsSweep(f, Len(pop))
  BY <1>1
<1>3. Sweeps(pop) = CHOOSE f : IsSweep(f, Len(pop))
  BY DEF Sweeps, first, FirstSweep, Next1
<1>4. IsSweep(Sweeps(pop), Len(pop))
  <2> HIDE DEF IsSweep
  <2> QED BY <1>2, <1>3
<1>5. \A k \in 1..Len(pop) : k \in 0..Len(pop) /\ k # 0
  OBVIOUS
<1>6. /\ DOMAIN Sweeps(pop) = 0..Len(pop)
      /\ Sweeps(pop)[0] = first
      /\ \A k \in 1..Len(pop) : Sweeps(pop)[k] = Next1(Sweeps(pop)[k - 1])
  BY <1>4, <1>5
<1> QED BY <1>6 DEF first, Next1

\* Every front is a sequence of positions.
LEMMA FrontsArePositions ==
  ASSUME NEW pop, IsPopulation(pop)
  PROVE  \A k \in 0..Len(pop) : Sweeps(pop)[k].front \in Seq(DOMAIN pop)
<1> DEFINE typed(k) == Sweeps(pop)[k].front \in Seq(DOMAIN pop)
           bad == {k \in 0..Len(pop) : ~typed(k)}
<1>1. Len(pop) \in Nat
  BY DEF IsPopulation
<1>2. typed(0)
  <2>1. Sweeps(pop)[0].front = FirstFront(pop)
    <3>1. Sweeps(pop)[0] = FirstSweep(pop)
      BY <1>1, SweepsFollow
    <3> QED BY <3>1 DEF FirstSweep
  <2>2. FirstFront(pop) \in Seq(DOMAIN pop)
    BY FirstFrontIsUndominated
  <2> QED BY <2>1, <2>2
<1>3. ASSUME NEW k \in 1..Len(pop), typed(k - 1) PROVE typed(k)
  <2>1. Sweeps(pop)[k] = NextFront(pop, Sweeps(pop)[k - 1])
    BY <1>1, SweepsFollow
  <2>2. NextFront(pop, Sweeps(pop)[k - 1]).front \in Seq(DOMAIN pop)
    BY <1>3, NextFrontIsLast
  <2> QED BY <2>1, <2>2
<1> HIDE DEF typed
<1>4. bad = {}
  <2> SUFFICES ASSUME bad # {} PROVE FALSE
    OBVIOUS
  <2>1. bad \in SUBSET Nat
    BY <1>1
  <2>2. PICK k \in bad : \A j \in bad : k <= j
    BY <2>1, LeastNumber
  <2>3. k \in 1..Len(pop) /\ k - 1 \in 0..Len(pop) /\ k - 1 < k
    BY <1>1, <1>2, <2>2
  <2>4. k - 1 \notin bad
    BY <2>2, <2>3
  <2> QED BY <1>3, <2>2, <2>3, <2>4
<1> QED BY <1>4 DEF typed

\* The fronts are the sweeps' as far as these have found any.
LEMMA FrontsOfSweeps ==
  ASSUME NEW pop, IsPopulation(pop)
  PROVE  /\ Len(Fronts(pop)) \in Nat /\ DOMAIN Fronts(pop) = 1..Len(Fronts(pop))
         /\ Len(Fronts(pop)) <= Len(pop) + 1
         /\ Len(Fronts(pop)) = Cardinality({n \in 0..Len(pop) : Sweeps(pop)[n].front # <<>>})
         /\ \A n \in DOMAIN Fronts(pop) :
              Fronts(pop)[n] = Sweeps(pop)[n - 1].front /\ Fronts(pop)[n] \in Seq(DOMAIN pop)
<1> DEFINE S == {n \in 0..Len(pop) : Sweeps(pop)[n].front # <<>>}
           c == Cardinality(S)
           f == Fronts(pop)
<1>1. Len(pop) \in Nat
  BY DEF IsPopulation
<1>2. c \in Nat /\ c <= Len(pop) + 1
  <2>1. IsFiniteSet(0..Len(pop)) /\ Cardinality(0..Len(pop)) = Len(pop) + 1
    <3>1. 0 \in Int /\ Len(pop) \in Int
      BY <1>1
    <3>2. /\ IsFiniteSet(0..Len(pop))
          /\ Cardinality(0..Len(pop)) = IF 0 > Len(pop) THEN 0 ELSE Len(pop) - 0 + 1
      BY <3>1, FS_Interval
    <3> QED BY <1>1, <3>2
  <2>2. S \in SUBSET (0..Len(pop))
    OBVIOUS
  <2> HIDE DEF S
  <2> QED BY <2>1, <2>2, FS_Subset, FS_CardinalityType
<1>3. f = [k \in 1..c |-> Sweeps(pop)[k - 1].front]
  BY DEF Fronts
<1>4. \A k \in 1..c : Sweeps(pop)[k - 1].front \in Seq(DOMAIN pop)
  <2> TAKE k \in 1..c
  <2> HIDE DEF c
  <2>1. k - 1 \in 0..Len(pop)
    BY <1>1, <1>2
  <2> QED BY <2>1, FrontsArePositions
<1> HIDE DEF f
<1>5. DOMAIN f = 1..c /\ Len(f) = c
  <2> HIDE DEF c
  <2> QED BY <1>2, <1>3
<1>6. \A n \in 1..c : f[n] = Sweeps(pop)[n - 1].front
  <2> HIDE DEF c
  <2> QED BY <1>3
<1> QED BY <1>2, <1>4, <1>5, <1>6 DEF f

DistinctIds(pop) == \A i, k \in DOMAIN pop : pop[i].id = pop[k].id => i = k

NoTwice(s) == \A k, l \in DOMAIN s : s[k] = s[l] => k = l

\* The releases of one individual: one by each of his dominators in the front, and
\* the n-th of them is the one up to which there are n.
LEMMA ReleasesOfOne ==
  ASSUME NEW pop, IsPopulation(pop), DistinctIds(pop),
         NEW front \in Seq(DOMAIN pop), NoTwice(front), NEW q \in DOMAIN pop
  PROVE  LET id == pop[q].id
             Rq == ReleasesOf(pop, Releases(pop, front), id)
             UpTo(r) == Cardinality(ReleasesOf(pop, ReleasesUpTo(pop, front, r), id))
         IN  /\ Cardinality(Rq) \in Nat
             /\ Cardinality(Rq) = Cardinality(DominatorsOf(pop, q) \intersect ToSet(front))
             /\ \A r \in Rq : UpTo(r) \in 1..Cardinality(Rq)
             /\ Rq # {} => \E r \in Rq : UpTo(r) = Cardinality(Rq)
             /\ \A r, s \in Rq : UpTo(r) = UpTo(s) => r = s
<1> DEFINE id == pop[q].id
           R == Releases(pop, front)
           Rq == ReleasesOf(pop, R, id)
           Before(r) == ReleasesOf(pop, ReleasesUpTo(pop, front, r), id)
           Dq == DominatorsOf(pop, q) \intersect ToSet(front)
           upTo == [r \in Rq |-> ReleasesUpTo(pop, front, r) \intersect Rq]
           order == Arranged(Rq, upTo)
           N == Cardinality(Rq)
<1>1. Rq \in SUBSET R
  BY DEF ReleasesOf
<1>2. \A r \in R : /\ r[1] \in DOMAIN front /\ r[2] \in DOMAIN pop /\ r[3] \in DOMAIN pop
                   /\ r = <<r[1], r[2], r[3]>>
                   /\ pop[r[2]].id = pop[front[r[1]]].id
                   /\ Dominates(pop[r[2]], pop[r[3]])
  BY DEF Releases
<1>3. \A a \in DOMAIN front : front[a] \in DOMAIN pop
  OBVIOUS
<1>4. \A r \in Rq : r[3] = q /\ r[2] = front[r[1]]
  BY <1>1, <1>2, <1>3 DEF ReleasesOf, DistinctIds
<1>5. \A r \in Rq : upTo[r] = Before(r)
  BY DEF ReleasesOf, ReleasesUpTo
<1>6. /\ IsFiniteSet(Rq)
      /\ upTo \in [Rq -> SUBSET Rq]
      /\ \A a \in Rq : a \in upTo[a]
      /\ \A a, b \in Rq : a # b =>
           \/ upTo[a] \subseteq upTo[b] /\ b \notin upTo[a]
           \/ upTo[b] \subseteq upTo[a] /\ a \notin upTo[b]
  <2> HIDE DEF Rq
  <2> QED BY <1>1, ReleasesAreOrdered
<1> HIDE DEF Rq, upTo
<1>7. /\ N \in Nat /\ order \in [1..N -> Rq]
      /\ \A n \in 1..N : Cardinality(upTo[order[n]]) = n
      /\ \A a \in Rq : \E n \in 1..N : order[n] = a
  BY <1>6, Arrangement
<1> HIDE DEF order
<1>8. Cardinality(Rq) = Cardinality(Dq)
  <2> DEFINE f == [r \in Rq |-> r[2]]
  <2>1. ASSUME NEW r \in Rq PROVE f[r] \in Dq
    <3>1. r \in R /\ r[3] = q /\ r[2] = front[r[1]]
      BY <1>1, <1>4
    <3>2. r[1] \in DOMAIN front /\ r[2] \in DOMAIN pop /\ Dominates(pop[r[2]], pop[q])
      BY <1>2, <3>1
    <3> QED BY <3>1, <3>2 DEF DominatorsOf, ToSet
  <2>2. ASSUME NEW r \in Rq, NEW s \in Rq, f[r] = f[s] PROVE r = s
    <3>1. r[2] = s[2] /\ r[3] = s[3] /\ front[r[1]] = front[s[1]]
      BY <1>4, <2>2
    <3>2. r[1] = s[1]
      BY <1>1, <1>2, <3>1 DEF NoTwice
    <3>3. r = <<r[1], r[2], r[3]>> /\ s = <<s[1], s[2], s[3]>>
      BY <1>1, <1>2
    <3> QED BY <3>1, <3>2, <3>3
  <2>3. ASSUME NEW i \in Dq PROVE \E r \in Rq : f[r] = i
    <3>1. PICK a \in DOMAIN front : front[a] = i
      BY DEF ToSet
    <3>2. i \in DOMAIN pop /\ Dominates(pop[i], pop[q])
      BY DEF DominatorsOf
    <3>3. <<a, i, q>> \in R
      BY <3>1, <3>2 DEF Releases
    <3>4. <<a, i, q>> \in Rq
      BY <3>3 DEF ReleasesOf, Rq
    <3> QED BY <3>4
  <2>4. f \in Surjection(Rq, Dq) /\ f \in Injection(Rq, Dq)
    <3>1. f \in [Rq -> Dq]
      BY <2>1
    <3> HIDE DEF f, Dq
    <3> QED BY <2>2, <2>3, <3>1 DEF Surjection, Injection, IsInjective
  <2> HIDE DEF f, Dq
  <2> QED BY <1>6, <2>4, FS_Surjection
<1>9. \A r \in Rq : \E n \in 1..N : order[n] = r /\ Cardinality(Before(r)) = n
  BY <1>5, <1>7
<1>10. Rq # {} => \E r \in Rq : Cardinality(Before(r)) = N
  <2> SUFFICES ASSUME Rq # {} PROVE \E r \in Rq : Cardinality(Before(r)) = N
    OBVIOUS
  <2>1. N \in 1..N
    BY <1>7
  <2> QED BY <1>5, <1>7, <2>1
<1>11. ASSUME NEW r \in Rq, NEW s \in Rq, Cardinality(Before(r)) = Cardinality(Before(s))
       PROVE  r = s
  BY <1>9, <1>11
<1> HIDE DEF N, Before, Dq
<1>12. /\ N \in Nat /\ N = Cardinality(Dq)
       /\ \A r \in Rq : Cardinality(Before(r)) \in 1..N
  BY <1>7, <1>8, <1>9 DEF N
<1> QED BY <1>10, <1>11, <1>12 DEF N, Before, Dq, Rq

\* Who is in one of the first k fronts that the sweeps find.
Placed(pop, k) ==
  {i \in DOMAIN pop : \E j \in 0..k - 1 : i \in ToSet(Sweeps(pop)[j].front)}

\* The k-th sweep finds exactly those whose dominators are placed before, and
\* counts the dominators that are not.
IsLayer(pop, k) ==
  LET sweep == Sweeps(pop)[k]
      placed == Placed(pop, k)
  IN  /\ NoTwice(sweep.front)
      /\ \A q \in DOMAIN pop :
           q \in ToSet(sweep.front) <=> q \notin placed /\ DominatorsOf(pop, q) \subseteq placed
      /\ \A q \in placed : DominatorsOf(pop, q) \subseteq placed
      /\ DOMAIN sweep.counts = {pop[i].id : i \in DOMAIN pop}
      /\ \A q \in DOMAIN pop :
           sweep.counts[pop[q].id] = Cardinality(DominatorsOf(pop, q) \ placed)

\* Positions are finitely many.
LEMMA PositionsAreFinite ==
  ASSUME NEW pop, IsPopulation(pop), NEW S \in SUBSET DOMAIN pop
  PROVE  IsFiniteSet(S) /\ Cardinality(S) \in Nat
BY UpToN DEF IsPopulation

\* Each sweep places its front.
LEMMA PlacedGrows ==
  ASSUME NEW pop, IsPopulation(pop)
  PROVE  /\ Placed(pop, 0) = {}
         /\ \A k \in 0..Len(pop) :
              Placed(pop, k + 1) = Placed(pop, k) \cup ToSet(Sweeps(pop)[k].front)
<1>1. Placed(pop, 0) = {}
  BY DEF Placed
<1>2. ASSUME NEW k \in 0..Len(pop)
      PROVE  Placed(pop, k + 1) = Placed(pop, k) \cup ToSet(Sweeps(pop)[k].front)
  <2>1. Sweeps(pop)[k].front \in Seq(DOMAIN pop)
    BY FrontsArePositions
  <2>2. ToSet(Sweeps(pop)[k].front) \subseteq DOMAIN pop
    BY <2>1 DEF ToSet
  <2>3. k \in Nat /\ (k + 1) - 1 = k
    BY DEF IsPopulation
  <2>4. \A j : j \in 0..(k + 1) - 1 <=> j \in 0..k - 1 \/ j = k
    BY <2>3
  <2> QED BY <2>2, <2>4 DEF Placed
<1> QED BY <1>1, <1>2

\* At first nobody is placed, and all dominators are counted.
LEMMA FirstLayer ==
  ASSUME NEW pop, IsPopulation(pop), DistinctIds(pop)
  PROVE  IsLayer(pop, 0)
<1> DEFINE f == FirstFront(pop)
           ids == {pop[i].id : i \in DOMAIN pop}
<1>1. Len(pop) \in Nat /\ NamesakesAreEqual(pop) /\ DOMAIN pop \subseteq Nat
  BY DEF IsPopulation, DistinctIds, NamesakesAreEqual
<1>2. Sweeps(pop)[0].front = f /\ Sweeps(pop)[0].counts = DominationCounts(pop)
  <2>1. Sweeps(pop)[0] = FirstSweep(pop)
    BY <1>1, SweepsFollow
  <2> QED BY <2>1 DEF FirstSweep
<1>3. /\ f \in Seq(DOMAIN pop)
      /\ \A k \in DOMAIN f : DominatorsOf(pop, f[k]) = {}
      /\ \A k, n \in DOMAIN f : k < n <=> f[k] < f[n]
      /\ \A i \in DOMAIN pop : DominatorsOf(pop, i) = {} => \E k \in DOMAIN f : f[k] = i
  BY <1>1, FirstFrontIsUndominated
<1> HIDE DEF f
<1>4. NoTwice(f)
  <2>1. \A k, n \in DOMAIN f : k \in Nat /\ n \in Nat /\ f[k] \in Nat /\ f[n] \in Nat
    BY <1>1, <1>3
  <2> QED BY <1>3, <2>1 DEF NoTwice
<1>5. \A q \in DOMAIN pop : q \in ToSet(f) <=> DominatorsOf(pop, q) = {}
  BY <1>3 DEF ToSet
<1>6. ASSUME NEW q \in DOMAIN pop
      PROVE  DominationCounts(pop)[pop[q].id] = Cardinality(DominatorsOf(pop, q))
  <2> DEFINE D == DOMAIN pop
             pairs == {ik \in D \X D : pop[ik[1]].id = pop[q].id /\ Dominates(pop[ik[2]], pop[ik[1]])}
             g == [i \in DominatorsOf(pop, q) |-> <<q, i>>]
  <2>1. DominationCounts(pop)[pop[q].id] = Cardinality(pairs)
    BY DEF DominationCounts
  <2>2. g \in [DominatorsOf(pop, q) -> pairs]
    BY DEF DominatorsOf
  <2>3. \A i, k \in DominatorsOf(pop, q) : g[i] = g[k] => i = k
    OBVIOUS
  <2>4. ASSUME NEW ik \in pairs PROVE \E i \in DominatorsOf(pop, q) : g[i] = ik
    <3>1. ik[1] \in D /\ ik[2] \in D /\ ik = <<ik[1], ik[2]>> /\ ik[1] = q
      BY DEF DistinctIds
    <3>2. ik[2] \in DominatorsOf(pop, q)
      BY <3>1 DEF DominatorsOf
    <3> QED BY <3>1, <3>2
  <2>5. IsFiniteSet(DominatorsOf(pop, q))
    BY PositionsAreFinite DEF DominatorsOf
  <2> HIDE DEF g, pairs
  <2>6. g \in Surjection(DominatorsOf(pop, q), pairs) /\ g \in Injection(DominatorsOf(pop, q), pairs)
    BY <2>2, <2>3, <2>4 DEF Surjection, Injection, IsInjective
  <2> QED BY <2>1, <2>5, <2>6, FS_Surjection
<1>7. DOMAIN DominationCounts(pop) = ids
  BY DEF DominationCounts
<1>8. Placed(pop, 0) = {}
  BY PlacedGrows
<1>9. \A q \in DOMAIN pop : /\ DominatorsOf(pop, q) \ Placed(pop, 0) = DominatorsOf(pop, q)
                            /\ DominatorsOf(pop, q) \subseteq Placed(pop, 0)
                                 <=> DominatorsOf(pop, q) = {}
  BY <1>8
<1> QED BY <1>2, <1>4, <1>5, <1>6, <1>7, <1>8, <1>9 DEF IsLayer

\* A sweep brings each count down by the dominators that the front placed, and
\* lists those whose count comes to nothing.
LEMMA NextLayer ==
  ASSUME NEW pop, IsPopulation(pop), DistinctIds(pop), NEW k \in 0..Len(pop) - 1, IsLayer(pop, k)
  PROVE  IsLayer(pop, k + 1)
<1> DEFINE s == Sweeps(pop)[k]
           t == Sweeps(pop)[k + 1]
           F == ToSet(s.front)
           P == Placed(pop, k)
           Q == Placed(pop, k + 1)
           D(q) == DominatorsOf(pop, q)
           Rq(q) == ReleasesOf(pop, Releases(pop, s.front), pop[q].id)
           UpTo(q, r) == Cardinality(ReleasesOf(pop, ReleasesUpTo(pop, s.front, r), pop[q].id))
<1>1. Len(pop) \in Nat /\ k \in 0..Len(pop) /\ k + 1 \in 1..Len(pop) /\ (k + 1) - 1 = k
  BY DEF IsPopulation
<1>2. t = NextFront(pop, s) /\ s.front \in Seq(DOMAIN pop)
  <2>1. Sweeps(pop)[k + 1] = NextFront(pop, Sweeps(pop)[(k + 1) - 1])
    BY <1>1, SweepsFollow
  <2>2. s.front \in Seq(DOMAIN pop)
    BY <1>1, FrontsArePositions
  <2> QED BY <1>1, <2>1, <2>2
<1>3. /\ NoTwice(s.front)
      /\ \A q \in DOMAIN pop : q \in F <=> q \notin P /\ D(q) \subseteq P
      /\ \A q \in P : D(q) \subseteq P
      /\ DOMAIN s.counts = {pop[i].id : i \in DOMAIN pop}
      /\ \A q \in DOMAIN pop : s.counts[pop[q].id] = Cardinality(D(q) \ P)
  BY DEF IsLayer
<1>4. Q = P \cup F /\ P \subseteq DOMAIN pop /\ F \subseteq DOMAIN pop
  <2>1. F \subseteq DOMAIN pop
    BY <1>2 DEF ToSet
  <2> QED BY <1>1, <2>1, PlacedGrows DEF Placed
<1>5. ASSUME NEW q \in DOMAIN pop
      PROVE  /\ Cardinality(Rq(q)) \in Nat
             /\ Cardinality(Rq(q)) = Cardinality(D(q) \intersect F)
             /\ \A r \in Rq(q) : UpTo(q, r) \in 1..Cardinality(Rq(q))
             /\ Rq(q) # {} => \E r \in Rq(q) : UpTo(q, r) = Cardinality(Rq(q))
             /\ \A r, u \in Rq(q) : UpTo(q, r) = UpTo(q, u) => r = u
  BY <1>2, <1>3, ReleasesOfOne
<1>6. /\ t.front \in Seq(DOMAIN pop)
      /\ DOMAIN t.counts = DOMAIN s.counts
      /\ \A id \in DOMAIN s.counts : t.counts[id] =
           s.counts[id] - Cardinality(ReleasesOf(pop, Releases(pop, s.front), id))
      /\ ListsTheLast(pop, s, t.front)
  <2>1. s.front \in Seq(DOMAIN pop) /\ t = NextFront(pop, s)
    BY <1>2
  <2> HIDE DEF s, t
  <2> QED BY <2>1, NextFrontIsLast
<1>7. PICK order \in [DOMAIN t.front -> LastReleases(pop, s)] :
           /\ \A n \in DOMAIN order : t.front[n] = order[n][3]
           /\ \A r \in LastReleases(pop, s) : \E n \in DOMAIN order : order[n] = r
           /\ \A m, n \in DOMAIN order : order[m] = order[n] => m = n
  BY <1>6 DEF ListsTheLast
<1>8. \A q \in DOMAIN pop : \A r : r \in Rq(q) <=> r \in Releases(pop, s.front) /\ r[3] = q
  BY DEF ReleasesOf, Releases, DistinctIds
<1>9. \A r : r \in LastReleases(pop, s) <=>
        \E q \in DOMAIN pop : r[3] = q /\ r \in Rq(q) /\ UpTo(q, r) = s.counts[pop[q].id]
  BY <1>8 DEF LastReleases, Releases
<1> HIDE DEF s, t, F, P, Q, Rq, UpTo
<1>10. ASSUME NEW q \in DOMAIN pop
       PROVE  /\ IsFiniteSet(D(q) \ P)
              /\ D(q) \intersect F \subseteq D(q) \ P
              /\ Cardinality(D(q) \ P) \in Nat
              /\ Cardinality(D(q) \ Q) = Cardinality(D(q) \ P) - Cardinality(D(q) \intersect F)
              /\ Cardinality(D(q) \intersect F) = Cardinality(D(q) \ P) => D(q) \subseteq Q
              /\ D(q) \subseteq Q => Cardinality(D(q) \intersect F) = Cardinality(D(q) \ P)
              /\ Cardinality(D(q) \intersect F) <= Cardinality(D(q) \ P)
  <2>1. D(q) \subseteq DOMAIN pop
    BY DEF DominatorsOf
  <2> HIDE DEF D
  <2>2. IsFiniteSet(D(q) \ P) /\ Cardinality(D(q) \ P) \in Nat
    BY <2>1, PositionsAreFinite
  <2>3. D(q) \intersect F \subseteq D(q) \ P
    BY <1>3, <1>4
  <2>4. D(q) \ Q = (D(q) \ P) \ (D(q) \intersect F)
    BY <1>4
  <2>5. (D(q) \ P) \intersect (D(q) \intersect F) = D(q) \intersect F
    BY <2>3
  <2>6. Cardinality(D(q) \ Q) = Cardinality(D(q) \ P) - Cardinality(D(q) \intersect F)
    <3> DEFINE A == D(q) \ P
               B == D(q) \intersect F
    <3>1. IsFiniteSet(A) /\ A \intersect B = B /\ A \ B = D(q) \ Q
      BY <2>2, <2>4, <2>5
    <3> HIDE DEF A, B
    <3>2. Cardinality(A \ B) = Cardinality(A) - Cardinality(A \intersect B)
      BY <3>1, FS_Difference
    <3>3. Cardinality(D(q) \ Q) = Cardinality(A) - Cardinality(B)
      BY <3>1, <3>2
    <3> QED BY <3>3 DEF A, B
  <2>7. /\ Cardinality(D(q) \intersect F) <= Cardinality(D(q) \ P)
        /\ Cardinality(D(q) \ P) = Cardinality(D(q) \intersect F) => D(q) \ P = D(q) \intersect F
    BY <2>2, <2>3, FS_Subset
  <2>8. D(q) \ P = D(q) \intersect F <=> D(q) \subseteq Q
    BY <1>4, <2>3
  <2> QED BY <2>2, <2>3, <2>6, <2>7, <2>8
<1>11. ASSUME NEW q \in DOMAIN pop, NEW r \in Rq(q), UpTo(q, r) = s.counts[pop[q].id]
       PROVE  q \notin Q /\ D(q) \subseteq Q
  <2> DEFINE c == Cardinality(D(q) \intersect F)
             e == Cardinality(D(q) \ P)
  <2>0. UpTo(q, r) \in 1..c /\ UpTo(q, r) = e /\ c <= e /\ e \in Nat
    BY <1>3, <1>5, <1>10, <1>11
  <2>01. c \in Nat
    BY <1>5
  <2>1. c = e /\ e # 0
    <3> HIDE DEF c, e
    <3> QED BY <2>0, <2>01
  <2>2. D(q) \subseteq Q
    BY <1>10, <2>1
  <2>3. Cardinality(D(q) \ P) # 0
    BY <2>1
  <2>4. D(q) \ P # {}
    BY <1>10, <2>3, FS_EmptySet
  <2>5. q \notin P /\ q \notin F
    BY <1>3, <2>4
  <2> QED BY <1>4, <2>2, <2>5
<1>12. ASSUME NEW q \in DOMAIN pop, q \notin Q, D(q) \subseteq Q
       PROVE  \E r \in Rq(q) : UpTo(q, r) = s.counts[pop[q].id]
  <2>1. Cardinality(D(q) \intersect F) = Cardinality(D(q) \ P)
    BY <1>10, <1>12
  <2>2. D(q) \ P # {}
    BY <1>3, <1>4, <1>12
  <2>3. Cardinality(Rq(q)) # 0
    BY <1>5, <1>10, <2>1, <2>2, FS_EmptySet
  <2>4. Rq(q) # {}
    BY <2>3, FS_EmptySet
  <2> QED BY <1>3, <1>5, <2>1, <2>4
<1>13. \A q \in DOMAIN pop : q \in ToSet(t.front) <=> q \notin Q /\ D(q) \subseteq Q
  <2> TAKE q \in DOMAIN pop
  <2>1. q \in ToSet(t.front) <=> \E r \in LastReleases(pop, s) : r[3] = q
    BY <1>7 DEF ToSet
  <2>2. (\E r \in LastReleases(pop, s) : r[3] = q) <=>
          \E r \in Rq(q) : UpTo(q, r) = s.counts[pop[q].id]
    BY <1>8, <1>9
  <2> QED BY <1>11, <1>12, <2>1, <2>2
<1>14. NoTwice(t.front)
  <2> SUFFICES ASSUME NEW m \in DOMAIN t.front, NEW n \in DOMAIN t.front, t.front[m] = t.front[n]
               PROVE  m = n
    BY DEF NoTwice
  <2>1. order[m][3] = order[n][3] /\ order[m] \in LastReleases(pop, s) /\ order[n] \in LastReleases(pop, s)
    BY <1>7
  <2>2. PICK q \in DOMAIN pop : /\ order[m][3] = q /\ order[m] \in Rq(q)
                                /\ UpTo(q, order[m]) = s.counts[pop[q].id]
    BY <1>9, <2>1
  <2>3. order[n] \in Rq(q) /\ UpTo(q, order[n]) = s.counts[pop[q].id]
    BY <1>9, <2>1, <2>2
  <2>4. order[m] = order[n]
    BY <1>5, <2>2, <2>3
  <2> QED BY <1>7, <2>4
<1>15. \A q \in Q : D(q) \subseteq Q
  BY <1>3, <1>4
<1>16. /\ DOMAIN t.counts = {pop[i].id : i \in DOMAIN pop}
       /\ \A q \in DOMAIN pop : t.counts[pop[q].id] = Cardinality(D(q) \ Q)
  <2>1. DOMAIN t.counts = {pop[i].id : i \in DOMAIN pop}
    BY <1>3, <1>6
  <2>2. ASSUME NEW q \in DOMAIN pop PROVE t.counts[pop[q].id] = Cardinality(D(q) \ Q)
    <3>1. t.counts[pop[q].id] = s.counts[pop[q].id] - Cardinality(Rq(q))
      BY <1>3, <1>6 DEF Rq
    <3> QED BY <1>3, <1>5, <1>10, <3>1
  <2> QED BY <2>1, <2>2
<1> QED BY <1>13, <1>14, <1>15, <1>16 DEF IsLayer, t, Q

\* Every sweep finds a layer.
LEMMA AllLayers ==
  ASSUME NEW pop, IsPopulation(pop), DistinctIds(pop)
  PROVE  \A k \in 0..Len(pop) : IsLayer(pop, k)
<1> DEFINE bad == {k \in 0..Len(pop) : ~IsLayer(pop, k)}
<1>1. Len(pop) \in Nat
  BY DEF IsPopulation
<1>2. bad = {}
  <2> SUFFICES ASSUME bad # {} PROVE FALSE
    OBVIOUS
  <2>1. bad \in SUBSET Nat
    BY <1>1
  <2>2. PICK k \in bad : \A j \in bad : k <= j
    BY <2>1, LeastNumber
  <2>3. k # 0 /\ k \in 0..Len(pop) /\ ~IsLayer(pop, k)
    BY <2>2, FirstLayer
  <2>4. k - 1 \in 0..Len(pop) - 1 /\ k - 1 \in 0..Len(pop) /\ k - 1 < k /\ (k - 1) + 1 = k
    BY <1>1, <2>3
  <2>5. IsLayer(pop, k - 1)
    BY <2>2, <2>4
  <2>6. IsLayer(pop, (k - 1) + 1)
    BY <2>4, <2>5, NextLayer
  <2> QED BY <2>3, <2>4, <2>6
<1> QED BY <1>2

\* A sweep finds nobody only when everybody is placed, and what is placed stays placed.
LEMMA SweepsPlace ==
  ASSUME NEW pop, IsPopulation(pop), DistinctIds(pop)
  PROVE  /\ \A k \in 0..Len(pop) :
              Sweeps(pop)[k].front = <<>> <=> Placed(pop, k) = DOMAIN pop
         /\ \A j, k \in 0..Len(pop) : j <= k => Placed(pop, j) \subseteq Placed(pop, k)
         /\ \A j, k \in 0..Len(pop) : j < k => ToSet(Sweeps(pop)[j].front) \subseteq Placed(pop, k)
<1>1. Len(pop) \in Nat
  BY DEF IsPopulation
<1>2. ASSUME NEW k \in 0..Len(pop)
      PROVE  Sweeps(pop)[k].front = <<>> <=> Placed(pop, k) = DOMAIN pop
  <2> DEFINE f == Sweeps(pop)[k].front
             P == Placed(pop, k)
             rest == DOMAIN pop \ P
  <2>1. f \in Seq(DOMAIN pop) /\ P \in SUBSET DOMAIN pop
    BY FrontsArePositions DEF Placed
  <2>2. \A q \in DOMAIN pop : q \in ToSet(f) <=> q \notin P /\ DominatorsOf(pop, q) \subseteq P
    BY AllLayers DEF IsLayer
  <2> HIDE DEF f, P
  <2>3. ASSUME f = <<>>, rest # {} PROVE FALSE
    <3>1. PICK q \in rest : \A j \in rest : ~Dominates(pop[j], pop[q])
      BY <2>3, Foremost
    <3>2. q \in ToSet(f)
      BY <2>2, <3>1 DEF DominatorsOf
    <3> QED BY <2>3, <3>2 DEF ToSet
  <2>4. ASSUME P = DOMAIN pop PROVE f = <<>>
    <3>1. \A i \in DOMAIN f : f[i] \in DOMAIN pop /\ f[i] \in ToSet(f)
      BY <2>1 DEF ToSet
    <3>2. DOMAIN f = {}
      BY <2>2, <2>4, <3>1
    <3> QED BY <2>1, <3>2
  <2> QED BY <2>1, <2>3, <2>4 DEF f, P
<1>3. \A j, k \in 0..Len(pop) : j <= k => Placed(pop, j) \subseteq Placed(pop, k)
  <2>1. \A j, k \in 0..Len(pop) : j <= k => \A i \in 0..j - 1 : i \in 0..k - 1
    BY <1>1
  <2> QED BY <2>1 DEF Placed
<1>4. ASSUME NEW j \in 0..Len(pop), NEW k \in 0..Len(pop), j < k
      PROVE  ToSet(Sweeps(pop)[j].front) \subseteq Placed(pop, k)
  <2>1. j \in 0..k - 1
    BY <1>1, <1>4
  <2>2. Sweeps(pop)[j].front \in Seq(DOMAIN pop)
    BY FrontsArePositions
  <2>3. ToSet(Sweeps(pop)[j].front) \subseteq DOMAIN pop
    BY <2>2 DEF ToSet
  <2> QED BY <2>1, <2>3 DEF Placed
<1> QED BY <1>2, <1>3, <1>4

\* There are as many fronts as sweeps that find somebody, and they place everybody.
LEMMA FrontsPlaceAll ==
  ASSUME NEW pop, IsPopulation(pop), DistinctIds(pop)
  PROVE  /\ Len(Fronts(pop)) \in 0..Len(pop)
         /\ Placed(pop, Len(Fronts(pop))) = DOMAIN pop
         /\ \A k \in 0..Len(pop) : k < Len(Fronts(pop)) => Sweeps(pop)[k].front # <<>>
<1> DEFINE N == Len(pop)
           f(k) == Sweeps(pop)[k].front
           done == {k \in 0..N : f(k) = <<>>}
           S == {k \in 0..N : f(k) # <<>>}
<1>1. N \in Nat /\ DOMAIN pop = 1..N
  BY DEF IsPopulation
<1>2. done # {}
  <2> SUFFICES ASSUME done = {} PROVE FALSE
    OBVIOUS
  <2> DEFINE lead == [k \in 0..N |-> f(k)[1]]
  <2>1. ASSUME NEW k \in 0..N PROVE lead[k] \in ToSet(f(k)) /\ lead[k] \in 1..N
    <3>1. f(k) \in Seq(DOMAIN pop) /\ f(k) # <<>>
      BY FrontsArePositions
    <3>2. lead[k] = f(k)[1]
      OBVIOUS
    <3> HIDE DEF f, lead
    <3>3. 1 \in DOMAIN f(k) /\ f(k)[1] \in DOMAIN pop
      BY <3>1
    <3> QED BY <1>1, <3>2, <3>3 DEF ToSet
  <2>2. \A j, k \in 0..N : j < k => lead[j] # lead[k]
    <3> SUFFICES ASSUME NEW j \in 0..N, NEW k \in 0..N, j < k PROVE lead[j] # lead[k]
      OBVIOUS
    <3>1. lead[j] \in Placed(pop, k)
      BY <2>1, SweepsPlace
    <3>2. lead[k] \notin Placed(pop, k)
      <4>1. IsLayer(pop, k) /\ lead[k] \in ToSet(Sweeps(pop)[k].front) /\ lead[k] \in DOMAIN pop
        BY <1>1, <2>1, AllLayers
      <4> HIDE DEF lead
      <4> QED BY <4>1 DEF IsLayer
    <3> QED BY <3>1, <3>2
  <2>3. lead \in [0..N -> 1..N]
    BY <2>1
  <2>4. IsFiniteSet(0..N) /\ IsFiniteSet(1..N) /\ Cardinality(1..N) < Cardinality(0..N)
    <3>1. 0 \in Int /\ N \in Int
      BY <1>1
    <3>2. IsFiniteSet(0..N) /\ Cardinality(0..N) = IF 0 > N THEN 0 ELSE N - 0 + 1
      BY <3>1, FS_Interval
    <3>3. IsFiniteSet(1..N) /\ Cardinality(1..N) = N
      BY <1>1, UpToN
    <3> QED BY <1>1, <3>2, <3>3
  <2>5. \E j, k \in 0..N : j # k /\ lead[j] = lead[k]
    <3> DEFINE A == 0..N
               B == 1..N
    <3>1. IsFiniteSet(A) /\ IsFiniteSet(B) /\ Cardinality(B) < Cardinality(A) /\ lead \in [A -> B]
      BY <2>3, <2>4
    <3> HIDE DEF lead, A, B
    <3>2. \E j, k \in A : j # k /\ lead[j] = lead[k]
      BY <3>1, FS_PigeonHole
    <3> QED BY <3>2 DEF A
  <2> HIDE DEF lead, N
  <2> QED BY <1>1, <2>2, <2>5
<1>3. PICK m \in done : \A j \in done : m <= j
  <2>1. done \in SUBSET Nat
    BY <1>1
  <2> HIDE DEF done
  <2> QED BY <1>2, <2>1, LeastNumber
<1>4. m \in 0..N /\ f(m) = <<>> /\ Placed(pop, m) = DOMAIN pop
  BY SweepsPlace
<1>5. \A k \in 0..N : m <= k => f(k) = <<>>
  <2> SUFFICES ASSUME NEW k \in 0..N, m <= k PROVE f(k) = <<>>
    OBVIOUS
  <2>1. Placed(pop, m) \subseteq Placed(pop, k) /\ Placed(pop, k) \subseteq DOMAIN pop
    BY <1>4, SweepsPlace DEF Placed
  <2> QED BY <1>4, <2>1, SweepsPlace
<1>6. S = 0..m - 1
  <2>1. \A k \in 0..N : f(k) # <<>> <=> k < m
    BY <1>1, <1>3, <1>4, <1>5
  <2> HIDE DEF f
  <2> QED BY <1>1, <1>4, <2>1
<1>7. Cardinality(0..m - 1) = m
  <2>1. 0 \in Int /\ m - 1 \in Int /\ m \in Nat
    BY <1>1, <1>4
  <2>2. Cardinality(0..m - 1) = IF 0 > m - 1 THEN 0 ELSE (m - 1) - 0 + 1
    BY <2>1, FS_Interval
  <2> QED BY <2>1, <2>2
<1>8. Len(Fronts(pop)) = Cardinality(S)
  BY FrontsOfSweeps
<1>9. \A k \in 0..N : k < m => f(k) # <<>>
  <2> HIDE DEF f
  <2> QED BY <1>1, <1>3, <1>4
<1> QED BY <1>4, <1>6, <1>7, <1>8, <1>9

\* The fronts are layers: everybody is in one of them, once; whoever dominates him is
\* in an earlier one, and behind the first front somebody of the front before is.
LEMMA FrontsAreLayers ==
  ASSUME NEW pop, IsPopulation(pop), DistinctIds(pop)
  PROVE  LET F == Fronts(pop)
         IN  /\ DOMAIN F = 1..Len(F)
             /\ \A q \in DOMAIN pop : \E k \in DOMAIN F : q \in ToSet(F[k])
             /\ \A k \in DOMAIN F : /\ F[k] \in Seq(DOMAIN pop) /\ F[k] # <<>>
                                    /\ NoTwice(F[k])
             /\ \A k, l \in DOMAIN F : \A q \in DOMAIN pop :
                  q \in ToSet(F[k]) /\ q \in ToSet(F[l]) => k = l
             /\ \A k \in DOMAIN F : \A q \in ToSet(F[k]) : \A p \in DominatorsOf(pop, q) :
                  \E l \in DOMAIN F : l < k /\ p \in ToSet(F[l])
             /\ \A k \in DOMAIN F : \A q \in ToSet(F[k]) : k > 1 =>
                  \E p \in DominatorsOf(pop, q) : k - 1 \in DOMAIN F /\ p \in ToSet(F[k - 1])
<1> DEFINE F == Fronts(pop)
           m == Len(F)
           N == Len(pop)
           P(k) == Placed(pop, k)
           D(q) == DominatorsOf(pop, q)
           f(k) == Sweeps(pop)[k].front
<1>1. N \in Nat /\ m \in 0..N /\ P(m) = DOMAIN pop /\ DOMAIN F = 1..m
  BY FrontsPlaceAll, FrontsOfSweeps DEF IsPopulation
<1>2. \A k \in 1..m : F[k] = f(k - 1) /\ F[k] \in Seq(DOMAIN pop) /\ k - 1 \in 0..N
  <2>1. \A k \in DOMAIN F : F[k] = f(k - 1) /\ F[k] \in Seq(DOMAIN pop)
    BY FrontsOfSweeps
  <2> HIDE DEF F, f
  <2>2. \A k \in 1..m : k - 1 \in 0..N
    BY <1>1
  <2> HIDE DEF m
  <2> QED BY <1>1, <2>1, <2>2
<1>3. \A k \in 0..N : \A i \in P(k) : i \in DOMAIN pop /\ \E j \in 0..k - 1 : i \in ToSet(f(j))
  BY DEF Placed
<1>4. \A k \in 0..N :
        /\ NoTwice(f(k))
        /\ \A q \in DOMAIN pop : q \in ToSet(f(k)) <=> q \notin P(k) /\ D(q) \subseteq P(k)
  BY AllLayers DEF IsLayer
<1>5. \A j, k \in 0..N : j < k => ToSet(f(j)) \subseteq P(k)
  BY SweepsPlace
<1>6. \A j, k \in 0..N : j <= k => P(j) \subseteq P(k)
  BY SweepsPlace
<1>7. \A k \in 0..N : k + 1 \in 0..N => P(k + 1) = P(k) \cup ToSet(f(k))
  BY PlacedGrows
<1>8. \A k \in 0..N : k < m => f(k) # <<>>
  BY FrontsPlaceAll
<1> HIDE DEF F, m, N, P, D, f
<1>9. \A k \in 1..m : ToSet(F[k]) \subseteq DOMAIN pop
  BY <1>2 DEF ToSet
<1>10. ASSUME NEW q \in DOMAIN pop PROVE \E k \in 1..m : q \in ToSet(F[k])
  <2>1. PICK j \in 0..m - 1 : q \in ToSet(f(j))
    BY <1>1, <1>3
  <2>2. j + 1 \in 1..m /\ (j + 1) - 1 = j
    BY <1>1
  <2> QED BY <1>2, <2>1, <2>2
<1>11. ASSUME NEW k \in 1..m PROVE F[k] \in Seq(DOMAIN pop) /\ F[k] # <<>> /\ NoTwice(F[k])
  <2>1. f(k - 1) # <<>>
    BY <1>1, <1>2, <1>8
  <2> QED BY <1>2, <1>4, <2>1
<1>12. ASSUME NEW k \in 1..m, NEW l \in 1..m, k < l, NEW q \in ToSet(F[k]), q \in ToSet(F[l])
       PROVE  FALSE
  <2>1. k - 1 \in 0..N /\ l - 1 \in 0..N /\ k - 1 < l - 1
    BY <1>1, <1>2, <1>12
  <2>2. q \in P(l - 1)
    BY <1>2, <1>5, <2>1
  <2>3. q \in DOMAIN pop /\ q \in ToSet(f(l - 1))
    BY <1>2, <1>9, <1>12
  <2> QED BY <1>4, <2>1, <2>2, <2>3
<1>13. ASSUME NEW k \in 1..m, NEW q \in ToSet(F[k]), NEW p \in D(q)
       PROVE  \E l \in 1..m : l < k /\ p \in ToSet(F[l])
  <2>1. q \in DOMAIN pop /\ q \in ToSet(f(k - 1)) /\ k - 1 \in 0..N
    BY <1>2, <1>9
  <2>2. p \in P(k - 1)
    BY <1>4, <2>1
  <2>3. PICK j \in 0..(k - 1) - 1 : p \in ToSet(f(j))
    BY <1>3, <2>1, <2>2
  <2>4. j + 1 \in 1..m /\ j + 1 < k /\ (j + 1) - 1 = j
    BY <1>1, <2>3
  <2> QED BY <1>2, <2>3, <2>4
<1>14. ASSUME NEW k \in 1..m, k > 1, NEW q \in ToSet(F[k])
       PROVE  \E p \in D(q) : k - 1 \in 1..m /\ p \in ToSet(F[k - 1])
  <2> DEFINE j == k - 2
  <2>1. /\ j \in 0..N /\ j + 1 \in 0..N /\ k - 1 \in 1..m /\ k - 1 = j + 1 /\ (k - 1) - 1 = j
        /\ j < j + 1
    BY <1>1, <1>2, <1>14
  <2> HIDE DEF j
  <2>2. q \in DOMAIN pop /\ q \in ToSet(f(j + 1)) /\ F[k - 1] = f(j)
    BY <1>2, <1>9, <2>1
  <2>3. D(q) \subseteq P(j + 1) /\ q \notin P(j + 1) /\ P(j + 1) = P(j) \cup ToSet(f(j))
    BY <1>4, <1>7, <2>1, <2>2
  <2>4. ~(D(q) \subseteq P(j))
    BY <1>4, <2>1, <2>2, <2>3
  <2>5. PICK p \in D(q) : p \notin P(j)
    BY <2>4
  <2> QED BY <2>1, <2>2, <2>3, <2>5
<1>15. \A k, l \in 1..m : \A q \in DOMAIN pop : q \in ToSet(F[k]) /\ q \in ToSet(F[l]) => k = l
  <2> SUFFICES ASSUME NEW k \in 1..m, NEW l \in 1..m, NEW q \in DOMAIN pop,
                      q \in ToSet(F[k]), q \in ToSet(F[l])
               PROVE  k = l
    OBVIOUS
  <2>1. k < l \/ l < k \/ k = l
    BY <1>1
  <2> QED BY <1>12, <2>1
<1>16. DOMAIN F = 1..m
  BY <1>1
<1> HIDE DEF m
<1>17. /\ \A q \in DOMAIN pop : \E k \in DOMAIN F : q \in ToSet(F[k])
       /\ \A k \in DOMAIN F : F[k] \in Seq(DOMAIN pop) /\ F[k] # <<>> /\ NoTwice(F[k])
       /\ \A k, l \in DOMAIN F : \A q \in DOMAIN pop :
            q \in ToSet(F[k]) /\ q \in ToSet(F[l]) => k = l
       /\ \A k \in DOMAIN F : \A q \in ToSet(F[k]) : \A p \in D(q) :
            \E l \in DOMAIN F : l < k /\ p \in ToSet(F[l])
       /\ \A k \in DOMAIN F : \A q \in ToSet(F[k]) : k > 1 =>
            \E p \in D(q) : k - 1 \in DOMAIN F /\ p \in ToSet(F[k - 1])
  BY <1>10, <1>11, <1>13, <1>14, <1>15, <1>16
<1> QED BY <1>16, <1>17 DEF F, m, D

\* The fronts of a sort are the Pareto ranking of the population.
LEMMA FrontsRank ==
  ASSUME NEW pop, IsPopulation(pop), DistinctIds(pop)
  PROVE  IsRanking(pop, Fronts(pop))
<1> DEFINE F == Fronts(pop)
           rank(i) == CHOOSE k \in DOMAIN F : Contains(F[k], i)
<1>1. /\ DOMAIN F = 1..Len(F)
      /\ \A q \in DOMAIN pop : \E k \in DOMAIN F : q \in ToSet(F[k])
      /\ \A k \in DOMAIN F : F[k] \in Seq(DOMAIN pop) /\ NoTwice(F[k])
      /\ \A k, l \in DOMAIN F : \A q \in DOMAIN pop :
           q \in ToSet(F[k]) /\ q \in ToSet(F[l]) => k = l
      /\ \A k \in DOMAIN F : \A q \in ToSet(F[k]) : \A p \in DominatorsOf(pop, q) :
           \E l \in DOMAIN F : l < k /\ p \in ToSet(F[l])
      /\ \A k \in DOMAIN F : \A q \in ToSet(F[k]) : k > 1 =>
           \E p \in DominatorsOf(pop, q) : k - 1 \in DOMAIN F /\ p \in ToSet(F[k - 1])
  BY FrontsAreLayers
<1> HIDE DEF F
<1>2. \A k \in DOMAIN F : \A i : Contains(F[k], i) <=> i \in ToSet(F[k])
  <2> TAKE k \in DOMAIN F
  <2>1. DOMAIN F[k] = 1..Len(F[k])
    BY <1>1
  <2> QED BY <2>1 DEF Contains, ToSet
<1>3. \A i \in DOMAIN pop : rank(i) \in DOMAIN F /\ i \in ToSet(F[rank(i)])
  <2> TAKE i \in DOMAIN pop
  <2>1. \E k \in DOMAIN F : Contains(F[k], i)
    BY <1>1, <1>2
  <2> QED BY <1>2, <2>1
<1> HIDE DEF rank
<1>4. \A i \in DOMAIN pop : \E k \in DOMAIN F : Contains(F[k], i)
  BY <1>2, <1>3
<1>5. ASSUME NEW k \in DOMAIN F, NEW l \in DOMAIN F, NEW m \in DOMAIN F[k], NEW n \in DOMAIN F[l],
             F[k][m] = F[l][n]
      PROVE  k = l /\ m = n
  <2>1. F[k][m] \in DOMAIN pop /\ F[k][m] \in ToSet(F[k]) /\ F[l][n] \in ToSet(F[l])
    <3>1. F[k] \in Seq(DOMAIN pop)
      BY <1>1
    <3> QED BY <3>1 DEF ToSet
  <2>2. k = l
    BY <1>1, <1>5, <2>1
  <2> QED BY <1>1, <1>5, <2>2 DEF NoTwice
<1>6. ASSUME NEW i \in DOMAIN pop, NEW k \in DOMAIN pop, Dominates(pop[i], pop[k])
      PROVE  rank(i) < rank(k)
  <2>1. i \in DominatorsOf(pop, k)
    BY <1>6 DEF DominatorsOf
  <2>2. PICK l \in DOMAIN F : l < rank(k) /\ i \in ToSet(F[l])
    BY <1>1, <1>3, <2>1
  <2>3. l = rank(i)
    BY <1>1, <1>3, <2>2
  <2> QED BY <2>2, <2>3
<1>7. ASSUME NEW i \in DOMAIN pop, rank(i) > 1
      PROVE  \E k \in ToSet(F[rank(i) - 1]) : Dominates(pop[k], pop[i])
  <2>1. PICK p \in DominatorsOf(pop, i) : p \in ToSet(F[rank(i) - 1])
    BY <1>1, <1>3, <1>7
  <2> QED BY <2>1 DEF DominatorsOf
<1> QED BY <1>4, <1>5, <1>6, <1>7 DEF IsRanking, rank, F

-----------------------------------------------------------------------------
(***************************************************************************)
(* Crowding.                                                               *)
(***************************************************************************)
\* t has the members of s, each as often.
Rearranges(t, s) ==
  /\ DOMAIN t = DOMAIN s
  /\ \A k \in DOMAIN s : \E l \in DOMAIN s : t[l] = s[k]
  /\ \A l \in DOMAIN s : \E k \in DOMAIN s : t[l] = s[k]
  /\ (\A k, l \in DOMAIN s : s[k] = s[l] => k = l)
       => \A k, l \in DOMAIN s : t[k] = t[l] => k = l

\* To rearrange twice is to rearrange.
LEMMA RearrangesTwice ==
  ASSUME NEW s, NEW t, NEW u, Rearranges(t, s), Rearranges(u, t)
  PROVE  Rearranges(u, s)
<1>1. DOMAIN u = DOMAIN s /\ DOMAIN t = DOMAIN s
  BY DEF Rearranges
<1>2. \A k \in DOMAIN s : \E l \in DOMAIN s : u[l] = s[k]
  <2> TAKE k \in DOMAIN s
  <2>1. PICK m \in DOMAIN s : t[m] = s[k]
    BY DEF Rearranges
  <2>2. PICK l \in DOMAIN s : u[l] = t[m]
    BY <1>1 DEF Rearranges
  <2> QED BY <2>1, <2>2
<1>3. \A l \in DOMAIN s : \E k \in DOMAIN s : u[l] = s[k]
  <2> TAKE l \in DOMAIN s
  <2>1. PICK m \in DOMAIN s : u[l] = t[m]
    BY <1>1 DEF Rearranges
  <2>2. PICK k \in DOMAIN s : t[m] = s[k]
    BY DEF Rearranges
  <2> QED BY <2>1, <2>2
<1>4. (\A k, l \in DOMAIN s : s[k] = s[l] => k = l)
       => \A k, l \in DOMAIN s : u[k] = u[l] => k = l
  BY <1>1 DEF Rearranges
<1> QED BY <1>1, <1>2, <1>3, <1>4 DEF Rearranges

\* Sorting rearranges, and orders by the keys.
LEMMA SortRearranges ==
  ASSUME NEW D, NEW s \in Seq(D), NEW key, \A k \in DOMAIN s : key[s[k]] \in Int
  PROVE  /\ StableSort(s, key) \in Seq(D)
         /\ Rearranges(StableSort(s, key), s)
         /\ \A k, l \in DOMAIN s : k < l =>
              key[StableSort(s, key)[k]] <= key[StableSort(s, key)[l]]
<1> DEFINE t == StableSort(s, key)
<1>1. t \in Seq(D) /\ DOMAIN t = DOMAIN s /\ DOMAIN s \subseteq Nat
  BY SortedStably
<1> HIDE DEF t
<1>2. PICK from \in [DOMAIN s -> DOMAIN s] :
        /\ \A k \in DOMAIN s : t[k] = s[from[k]]
        /\ \A i \in DOMAIN s : \E k \in DOMAIN s : from[k] = i
        /\ \A k, l \in DOMAIN s : k < l =>
             \/ key[s[from[k]]] < key[s[from[l]]]
             \/ key[s[from[k]]] = key[s[from[l]]] /\ from[k] < from[l]
  BY SortedStably DEF t
<1>3. ASSUME NEW k \in DOMAIN s, NEW l \in DOMAIN s, k < l
      PROVE  from[k] # from[l] /\ key[t[k]] <= key[t[l]]
  <2>1. from[k] \in DOMAIN s /\ from[l] \in DOMAIN s
    BY <1>2
  <2>2. /\ key[s[from[k]]] \in Int /\ key[s[from[l]]] \in Int
        /\ from[k] \in Nat /\ from[l] \in Nat
    BY <1>1, <2>1
  <2>3. \/ key[s[from[k]]] < key[s[from[l]]]
        \/ key[s[from[k]]] = key[s[from[l]]] /\ from[k] < from[l]
    BY <1>2, <1>3
  <2>4. t[k] = s[from[k]] /\ t[l] = s[from[l]]
    BY <1>2
  <2> QED BY <2>2, <2>3, <2>4
<1>4. ASSUME \A k, l \in DOMAIN s : s[k] = s[l] => k = l
      PROVE  \A k, l \in DOMAIN s : t[k] = t[l] => k = l
  <2> SUFFICES ASSUME NEW k \in DOMAIN s, NEW l \in DOMAIN s, t[k] = t[l], k # l
               PROVE  FALSE
    OBVIOUS
  <2>1. from[k] = from[l]
    BY <1>2, <1>4
  <2>2. k < l \/ l < k
    BY <1>1
  <2> QED BY <1>3, <2>1, <2>2
<1>5. Rearranges(t, s)
  BY <1>1, <1>2, <1>4 DEF Rearranges
<1> QED BY <1>1, <1>3, <1>5 DEF t

\* Two members of a sum of products that fall short of their limits.
LEMMA BelowTheProducts ==
  ASSUME NEW a \in Int, NEW b \in Int, NEW p \in Nat \ {0}, NEW f \in Nat \ {0},
         a <= p, b <= f
  PROVE  /\ a * f + b * p < 2 * p * f + 1
         /\ a * f + b * p \in Int /\ 2 * p * f + 1 \in Int
<1>1. a * f <= p * f
  BY Z3
<1>2. b * p <= f * p
  BY Z3
<1>3. f * p = p * f /\ 2 * p * f = p * f + p * f
  BY Z3
<1> QED BY <1>1, <1>2, <1>3

\* The spans of two sorted fronts, and what lies between neighbours.
LEMMA GapsAreWithinTheSpan ==
  ASSUME NEW D, NEW s \in Seq(D), s # <<>>, NEW key, \A k \in DOMAIN s : key[s[k]] \in Nat,
         \A k, l \in DOMAIN s : k < l => key[s[k]] <= key[s[l]]
  PROVE  /\ Max({1, Span(s, key)}) \in Nat \ {0}
         /\ \A i \in ToSet(s) : Gaps(s, key)[i] \in Int /\ Gaps(s, key)[i] <= Max({1, Span(s, key)})
<1> DEFINE n == Len(s)
           span == Span(s, key)
           lim == Max({1, span})
<1>1. n \in Nat \ {0} /\ DOMAIN s = 1..n /\ 1 \in DOMAIN s /\ n \in DOMAIN s
  OBVIOUS
<1>2. span = key[s[n]] - key[s[1]] /\ key[s[n]] \in Nat /\ key[s[1]] \in Nat
  BY <1>1 DEF Span, Last
<1>3. key[s[1]] <= key[s[n]]
  BY <1>1, <1>2
<1>4. span \in Nat
  BY <1>2, <1>3
<1> HIDE DEF span
<1>5. lim = IF span >= 1 THEN span ELSE 1
  BY <1>4 DEF Max
<1>6. lim \in Nat \ {0} /\ span <= lim
  BY <1>4, <1>5
<1> HIDE DEF lim
<1>7. ASSUME NEW i \in ToSet(s)
      PROVE  Gaps(s, key)[i] \in Int /\ Gaps(s, key)[i] <= lim
  <2> DEFINE p == CHOOSE k \in DOMAIN s : s[k] = i
  <2>1. \E k \in DOMAIN s : s[k] = i
    BY DEF ToSet
  <2>2. p \in DOMAIN s
    BY <2>1
  <2>3. Gaps(s, key)[i] = IF p \in {1, n} THEN 0 ELSE key[s[p + 1]] - key[s[p - 1]]
    BY DEF Gaps
  <2> HIDE DEF p
  <2>4. CASE p \in {1, n}
    BY <1>6, <2>3, <2>4
  <2>5. CASE p \notin {1, n}
    <3>1. p + 1 \in DOMAIN s /\ p - 1 \in DOMAIN s
      BY <1>1, <2>2, <2>5
    <3>2. key[s[p + 1]] \in Nat /\ key[s[p - 1]] \in Nat
      BY <3>1
    <3>3. key[s[p + 1]] <= key[s[n]]
      <4>1. p + 1 = n \/ p + 1 < n
        BY <1>1, <3>1
      <4> QED BY <1>1, <1>2, <3>1, <4>1
    <3>4. key[s[1]] <= key[s[p - 1]]
      <4>1. 1 = p - 1 \/ 1 < p - 1
        BY <1>1, <2>2, <3>1
      <4> QED BY <1>1, <1>2, <3>1, <4>1
    <3> QED BY <1>2, <1>6, <2>3, <2>5, <3>2, <3>3, <3>4
  <2> QED BY <2>4, <2>5
<1> QED BY <1>6, <1>7 DEF lim, span

\* Members of a front do not dominate each other, and are listed once.
IsFront(pop, front) ==
  /\ \A k, l \in DOMAIN front : ~Dominates(pop[front[k]], pop[front[l]])
  /\ \A k, l \in DOMAIN front : front[k] = front[l] => k = l

\* Crowding rearranges a front and gives each member a distance.
LEMMA CrowdingRearranges ==
  ASSUME NEW pop, IsPopulation(pop), NEW front \in Seq(DOMAIN pop)
  PROVE  LET c == Crowding(pop, front)
         IN  /\ c.order \in Seq(DOMAIN pop) /\ Rearranges(c.order, front)
             /\ \A k \in DOMAIN front : c.distance[c.order[k]] \in Int
             /\ IsFront(pop, front) /\ Len(front) > 2 =>
                  /\ \A k \in DOMAIN front :
                       IF k \in {1, Len(front)}
                       THEN \A l \in DOMAIN front :
                              c.distance[c.order[l]] <= c.distance[c.order[k]]
                       ELSE c.distance[c.order[k]] < c.distance[c.order[1]]
                  /\ \A k \in DOMAIN front :
                       /\ pop[c.order[k]].pack <= pop[c.order[Len(front)]].pack
                       /\ pop[c.order[1]].fuel <= pop[c.order[k]].fuel
<1> DEFINE D == DOMAIN pop
           n == Len(front)
           pack == [i \in DOMAIN pop |-> pop[i].pack]
           fuel == [i \in DOMAIN pop |-> pop[i].fuel]
           byPack == StableSort(front, pack)
           byFuel == StableSort(byPack, fuel)
           packSpan == Max({1, Span(byPack, pack)})
           fuelSpan == Max({1, Span(byFuel, fuel)})
           Unreached == 2 * packSpan * fuelSpan + 1
           ends == {byPack[1], Last(byPack), byFuel[1], Last(byFuel)}
           dist == [i \in ToSet(front) |->
                      IF i \in ends THEN Unreached
                      ELSE Gaps(byPack, pack)[i] * fuelSpan + Gaps(byFuel, fuel)[i] * packSpan]
           c == Crowding(pop, front)
<1>1. c = IF Len(front) <= 2
          THEN [order |-> front, distance |-> [i \in ToSet(front) |-> 1]]
          ELSE [order |-> byFuel, distance |-> dist]
  BY DEF Crowding
<1>2. n \in Nat /\ DOMAIN front = 1..n /\ \A k \in 1..n : front[k] \in D /\ front[k] \in ToSet(front)
  BY DEF ToSet
<1>3. \A i \in D : /\ pack[i] = pop[i].pack /\ pop[i].pack \in Nat
                   /\ fuel[i] = pop[i].fuel /\ pop[i].fuel \in Nat
  BY DEF IsPopulation
<1> HIDE DEF c, pack, fuel, D, n
<1>4. byPack \in Seq(D) /\ Rearranges(byPack, front)
      /\ \A k, l \in DOMAIN front : k < l => pack[byPack[k]] <= pack[byPack[l]]
  <2>1. front \in Seq(D) /\ \A k \in DOMAIN front : pack[front[k]] \in Int
    BY <1>2, <1>3 DEF D
  <2> QED BY <2>1, SortRearranges
<1> HIDE DEF byPack
<1>5. DOMAIN byPack = 1..n /\ Len(byPack) = n /\ \A k \in 1..n : byPack[k] \in D
  BY <1>2, <1>4 DEF Rearranges
<1>6. byFuel \in Seq(D) /\ Rearranges(byFuel, byPack)
      /\ \A k, l \in DOMAIN byPack : k < l => fuel[byFuel[k]] <= fuel[byFuel[l]]
  <2>1. byPack \in Seq(D) /\ \A k \in DOMAIN byPack : fuel[byPack[k]] \in Int
    BY <1>3, <1>4, <1>5
  <2> QED BY <2>1, SortRearranges
<1>7. \E from \in [1..n -> 1..n] :
        /\ \A k \in 1..n : byFuel[k] = byPack[from[k]]
        /\ \A i \in 1..n : \E k \in 1..n : from[k] = i
        /\ \A k, l \in 1..n : k < l =>
             \/ fuel[byPack[from[k]]] < fuel[byPack[from[l]]]
             \/ fuel[byPack[from[k]]] = fuel[byPack[from[l]]] /\ from[k] < from[l]
  <2>1. byPack \in Seq(D) /\ \A k \in DOMAIN byPack : fuel[byPack[k]] \in Int
    BY <1>3, <1>4, <1>5
  <2>2. \E from \in [DOMAIN byPack -> DOMAIN byPack] :
        /\ \A k \in DOMAIN byPack : byFuel[k] = byPack[from[k]]
        /\ \A i \in DOMAIN byPack : \E k \in DOMAIN byPack : from[k] = i
        /\ \A k, l \in DOMAIN byPack : k < l =>
             \/ fuel[byPack[from[k]]] < fuel[byPack[from[l]]]
             \/ fuel[byPack[from[k]]] = fuel[byPack[from[l]]] /\ from[k] < from[l]
    BY <2>1, SortedStably
  <2>3. PICK from \in [DOMAIN byPack -> DOMAIN byPack] :
        /\ \A k \in DOMAIN byPack : byFuel[k] = byPack[from[k]]
        /\ \A i \in DOMAIN byPack : \E k \in DOMAIN byPack : from[k] = i
        /\ \A k, l \in DOMAIN byPack : k < l =>
             \/ fuel[byPack[from[k]]] < fuel[byPack[from[l]]]
             \/ fuel[byPack[from[k]]] = fuel[byPack[from[l]]] /\ from[k] < from[l]
    BY <2>2
  <2> HIDE DEF byFuel
  <2>4. from \in [1..n -> 1..n]
    BY <1>5
  <2>5. /\ \A k \in 1..n : byFuel[k] = byPack[from[k]]
        /\ \A i \in 1..n : \E k \in 1..n : from[k] = i
        /\ \A k, l \in 1..n : k < l =>
             \/ fuel[byPack[from[k]]] < fuel[byPack[from[l]]]
             \/ fuel[byPack[from[k]]] = fuel[byPack[from[l]]] /\ from[k] < from[l]
    BY <1>5, <2>3
  <2> QED BY <2>4, <2>5
<1> HIDE DEF byFuel
<1>8. DOMAIN byFuel = 1..n /\ Len(byFuel) = n /\ \A k \in 1..n : byFuel[k] \in D
  BY <1>5, <1>6, <1>2 DEF Rearranges
<1>9. Rearranges(byFuel, front)
  BY <1>4, <1>6, RearrangesTwice
<1>10. \A i \in ToSet(front) : i \in ToSet(byPack) /\ i \in ToSet(byFuel)
  <2> TAKE i \in ToSet(front)
  <2>1. PICK k \in 1..n : front[k] = i
    BY <1>2 DEF ToSet
  <2>2. \E l \in 1..n : byPack[l] = i
    BY <1>2, <1>4, <2>1 DEF Rearranges
  <2>3. \E l \in 1..n : byFuel[l] = i
    BY <1>2, <1>9, <2>1 DEF Rearranges
  <2> QED BY <1>5, <1>8, <2>2, <2>3 DEF ToSet
<1>11. ASSUME n > 2
       PROVE  /\ packSpan \in Nat \ {0} /\ fuelSpan \in Nat \ {0}
              /\ \A i \in ToSet(front) :
                   /\ Gaps(byPack, pack)[i] \in Int /\ Gaps(byPack, pack)[i] <= packSpan
                   /\ Gaps(byFuel, fuel)[i] \in Int /\ Gaps(byFuel, fuel)[i] <= fuelSpan
  <2>1. byPack # <<>> /\ byFuel # <<>>
    BY <1>5, <1>8, <1>11
  <2>2. /\ \A k \in DOMAIN byPack : pack[byPack[k]] \in Nat
        /\ \A k, l \in DOMAIN byPack : k < l => pack[byPack[k]] <= pack[byPack[l]]
    BY <1>2, <1>3, <1>4, <1>5
  <2>3. /\ \A k \in DOMAIN byFuel : fuel[byFuel[k]] \in Nat
        /\ \A k, l \in DOMAIN byFuel : k < l => fuel[byFuel[k]] <= fuel[byFuel[l]]
    BY <1>3, <1>5, <1>6, <1>8
  <2>4. /\ packSpan \in Nat \ {0}
        /\ \A i \in ToSet(byPack) :
             Gaps(byPack, pack)[i] \in Int /\ Gaps(byPack, pack)[i] <= packSpan
    BY <1>4, <2>1, <2>2, GapsAreWithinTheSpan
  <2>5. /\ fuelSpan \in Nat \ {0}
        /\ \A i \in ToSet(byFuel) :
             Gaps(byFuel, fuel)[i] \in Int /\ Gaps(byFuel, fuel)[i] <= fuelSpan
    BY <1>6, <2>1, <2>3, GapsAreWithinTheSpan
  <2> HIDE DEF packSpan, fuelSpan
  <2> QED BY <1>10, <2>4, <2>5
<1> HIDE DEF packSpan, fuelSpan
<1>12. ASSUME n > 2, NEW i \in ToSet(front)
       PROVE  /\ dist[i] \in Int /\ Unreached \in Int
              /\ i \in ends => dist[i] = Unreached
              /\ i \notin ends => dist[i] < Unreached
  <2>1. /\ Gaps(byPack, pack)[i] * fuelSpan + Gaps(byFuel, fuel)[i] * packSpan < Unreached
        /\ Gaps(byPack, pack)[i] * fuelSpan + Gaps(byFuel, fuel)[i] * packSpan \in Int
        /\ Unreached \in Int
    BY <1>11, <1>12, BelowTheProducts
  <2>2. dist[i] = IF i \in ends THEN Unreached
                  ELSE Gaps(byPack, pack)[i] * fuelSpan + Gaps(byFuel, fuel)[i] * packSpan
    BY <1>12
  <2> HIDE DEF dist, Unreached, ends
  <2> QED BY <2>1, <2>2
<1>13. c.order \in Seq(D) /\ Rearranges(c.order, front)
  <2>1. Rearranges(front, front)
    BY DEF Rearranges
  <2>2. front \in Seq(D)
    BY DEF D
  <2> HIDE DEF dist
  <2>3. CASE n <= 2
    <3>1. c.order = front
      BY <1>1, <2>3 DEF n
    <3> QED BY <2>1, <2>2, <3>1
  <2>4. CASE ~(n <= 2)
    <3>1. c.order = byFuel
      BY <1>1, <2>4 DEF n
    <3> QED BY <1>6, <1>9, <3>1
  <2> QED BY <2>3, <2>4
<1>14. ASSUME NEW k \in DOMAIN front PROVE c.order[k] \in ToSet(front)
  <2>1. PICK l \in DOMAIN front : c.order[k] = front[l]
    BY <1>13 DEF Rearranges
  <2> QED BY <1>2, <2>1
<1>15. ASSUME NEW k \in DOMAIN front PROVE c.distance[c.order[k]] \in Int
  <2>1. CASE n <= 2
    <3>1. c.distance = [i \in ToSet(front) |-> 1]
      BY <1>1, <2>1 DEF n
    <3> QED BY <1>14, <1>15, <3>1
  <2>2. CASE ~(n <= 2)
    <3>1. c.distance = dist /\ n > 2
      BY <1>1, <1>2, <2>2 DEF n
    <3> HIDE DEF dist
    <3> QED BY <1>12, <1>14, <1>15, <3>1
  <2> QED BY <2>1, <2>2
<1>16. ASSUME IsFront(pop, front), n > 2
       PROVE  /\ byFuel[1] = byPack[1] /\ byFuel[n] = byPack[n]
              /\ \A k \in 1..n : /\ pop[byFuel[k]].pack <= pop[byFuel[n]].pack
                                 /\ pop[byFuel[1]].fuel <= pop[byFuel[k]].fuel
              /\ \A k \in 1..n : k \notin {1, n} => byFuel[k] \notin ends
              /\ byFuel[1] \in ends /\ byFuel[n] \in ends
  <2>1. PICK from \in [1..n -> 1..n] :
        /\ \A k \in 1..n : byFuel[k] = byPack[from[k]]
        /\ \A i \in 1..n : \E k \in 1..n : from[k] = i
        /\ \A k, l \in 1..n : k < l =>
             \/ fuel[byPack[from[k]]] < fuel[byPack[from[l]]]
             \/ fuel[byPack[from[k]]] = fuel[byPack[from[l]]] /\ from[k] < from[l]
    BY <1>7
  <2>2. \A k \in 1..n : \E l \in 1..n : byPack[k] = front[l]
    BY <1>2, <1>4 DEF Rearranges
  <2>3. \A k, l \in 1..n : ~Dominates(pop[byPack[k]], pop[byPack[l]])
    <3> TAKE k, l \in 1..n
    <3>1. PICK a \in 1..n : byPack[k] = front[a]
      BY <2>2
    <3>2. PICK b \in 1..n : byPack[l] = front[b]
      BY <2>2
    <3> QED BY <1>2, <1>16, <3>1, <3>2 DEF IsFront
  <2>4. \A k \in 1..n : /\ pop[byPack[k]].pack \in Nat /\ pop[byPack[k]].fuel \in Nat
                        /\ pack[byPack[k]] = pop[byPack[k]].pack
                        /\ fuel[byPack[k]] = pop[byPack[k]].fuel
    BY <1>3, <1>5
  <2>5. \A k, l \in 1..n : k < l => pop[byPack[k]].pack <= pop[byPack[l]].pack
    BY <1>2, <1>4, <2>4
  <2>6. 1 \in 1..n /\ n \in 1..n
    BY <1>2, <1>16
  <2>7. from[1] = 1
    <3>1. PICK m \in 1..n : from[m] = 1
      BY <2>1, <2>6
    <3>2. CASE m # 1
      <4>1. from[1] \in 1..n
        BY <2>1, <2>6
      <4>2. fuel[byPack[from[1]]] < fuel[byPack[1]]
        <5>1. 1 < m
          BY <3>2
        <5>2. \/ fuel[byPack[from[1]]] < fuel[byPack[from[m]]]
              \/ fuel[byPack[from[1]]] = fuel[byPack[from[m]]] /\ from[1] < from[m]
          BY <2>1, <2>6, <5>1
        <5> QED BY <3>1, <4>1, <5>2
      <4>3. pop[byPack[1]].pack <= pop[byPack[from[1]]].pack
        <5>1. from[1] = 1 \/ 1 < from[1]
          BY <4>1
        <5> QED BY <2>4, <2>5, <2>6, <4>1, <5>1
      <4>4. Dominates(pop[byPack[from[1]]], pop[byPack[1]])
        BY <2>4, <2>6, <4>1, <4>2, <4>3 DEF Dominates
      <4> QED BY <2>3, <2>6, <4>1, <4>4
    <3> QED BY <3>1, <3>2
  <2>8. from[n] = n
    <3>1. PICK m \in 1..n : from[m] = n
      BY <2>1, <2>6
    <3>2. CASE m # n
      <4>1. from[n] \in 1..n
        BY <2>1, <2>6
      <4>2. fuel[byPack[n]] < fuel[byPack[from[n]]]
        <5>1. m < n
          BY <1>2, <3>2
        <5>2. \/ fuel[byPack[from[m]]] < fuel[byPack[from[n]]]
              \/ fuel[byPack[from[m]]] = fuel[byPack[from[n]]] /\ from[m] < from[n]
          BY <2>1, <2>6, <5>1
        <5> QED BY <1>2, <3>1, <4>1, <5>2
      <4>3. pop[byPack[from[n]]].pack <= pop[byPack[n]].pack
        BY <2>4, <2>5, <2>6, <4>1
      <4>4. Dominates(pop[byPack[n]], pop[byPack[from[n]]])
        BY <2>4, <2>6, <4>1, <4>2, <4>3 DEF Dominates
      <4> QED BY <2>3, <2>6, <4>1, <4>4
    <3> QED BY <3>1, <3>2
  <2>9. byFuel[1] = byPack[1] /\ byFuel[n] = byPack[n]
    BY <2>1, <2>6, <2>7, <2>8
  <2>10. ends = {byFuel[1], byFuel[n]}
    BY <1>5, <1>8, <2>9 DEF Last
  <2>11. ASSUME NEW k \in 1..n
         PROVE  /\ pop[byFuel[k]].pack <= pop[byFuel[n]].pack
                /\ pop[byFuel[1]].fuel <= pop[byFuel[k]].fuel
    <3>1. byFuel[k] = byPack[from[k]] /\ from[k] \in 1..n
      BY <2>1
    <3>2. pop[byPack[from[k]]].pack <= pop[byPack[n]].pack
      BY <2>4, <2>5, <2>6, <3>1
    <3>3. fuel[byFuel[1]] <= fuel[byFuel[k]]
      <4>1. CASE k = 1
        BY <2>4, <2>6, <2>9, <4>1
      <4>2. CASE k # 1
        <5>1. 1 \in 1..n /\ 1 < k
          BY <2>6, <4>2
        <5> QED BY <1>5, <1>6, <2>6, <5>1
      <4> QED BY <4>1, <4>2
    <3>4. byFuel[k] \in D /\ byFuel[1] \in D
      BY <1>8, <2>6
    <3> QED BY <1>3, <2>9, <3>1, <3>2, <3>3, <3>4
  <2>12. \A k, l \in 1..n : byFuel[k] = byFuel[l] => k = l
    BY <1>2, <1>9, <1>16 DEF Rearranges, IsFront
  <2> HIDE DEF ends
  <2>13. \A k \in 1..n : k \notin {1, n} => byFuel[k] \notin ends
    BY <2>6, <2>10, <2>12
  <2> QED BY <2>9, <2>10, <2>11, <2>13
<1>17. ASSUME IsFront(pop, front), n > 2
       PROVE  /\ \A k \in DOMAIN front :
                   IF k \in {1, n}
                   THEN \A l \in DOMAIN front :
                          c.distance[c.order[l]] <= c.distance[c.order[k]]
                   ELSE c.distance[c.order[k]] < c.distance[c.order[1]]
              /\ \A k \in DOMAIN front :
                   /\ pop[c.order[k]].pack <= pop[c.order[n]].pack
                   /\ pop[c.order[1]].fuel <= pop[c.order[k]].fuel
  <2>1. c.order = byFuel /\ c.distance = dist
    BY <1>1, <1>2, <1>17 DEF n
  <2>2. \A k \in 1..n : byFuel[k] \in ToSet(front)
    BY <1>2, <1>14, <2>1
  <2> HIDE DEF dist, ends, Unreached
  <2>3. 1 \in 1..n /\ n \in 1..n
    BY <1>2, <1>17
  <2>4. dist[byFuel[1]] = Unreached /\ dist[byFuel[n]] = Unreached
    BY <1>12, <1>16, <1>17, <2>2, <2>3
  <2>5. \A k \in 1..n : dist[byFuel[k]] \in Int /\ dist[byFuel[k]] <= Unreached /\ Unreached \in Int
    <3> TAKE k \in 1..n
    <3>1. dist[byFuel[k]] \in Int /\ Unreached \in Int
          /\ (dist[byFuel[k]] = Unreached \/ dist[byFuel[k]] < Unreached)
      BY <1>12, <1>17, <2>2
    <3> QED BY <3>1
  <2>6. \A k \in 1..n : k \notin {1, n} => dist[byFuel[k]] < Unreached
    <3> TAKE k \in 1..n
    <3> HAVE k \notin {1, n}
    <3>1. byFuel[k] \notin ends /\ byFuel[k] \in ToSet(front)
      BY <1>16, <1>17, <2>2
    <3> QED BY <1>12, <1>17, <3>1
  <2> QED BY <1>2, <1>16, <1>17, <2>1, <2>3, <2>4, <2>5, <2>6
<1> QED BY <1>2, <1>13, <1>15, <1>17 DEF c, D, n

\* Of a front, the first two by crowding pack best and need the least fuel.
LEMMA EndsComeFirst ==
  ASSUME NEW pop, IsPopulation(pop), NEW front \in Seq(DOMAIN pop)
  PROVE  LET r == ByCrowding(pop, front)
         IN  /\ r \in Seq(DOMAIN pop) /\ Rearranges(r, front)
             /\ IsFront(pop, front) /\ front # <<>> =>
                  /\ \E a \in DOMAIN front : a <= 2 /\
                       \A k \in DOMAIN front : pop[front[k]].pack <= pop[r[a]].pack
                  /\ \E a \in DOMAIN front : a <= 2 /\
                       \A k \in DOMAIN front : pop[r[a]].fuel <= pop[front[k]].fuel
<1> DEFINE D == DOMAIN pop
           n == Len(front)
           o == Crowding(pop, front).order
           dist == Crowding(pop, front).distance
           key == [i \in ToSet(front) |-> -dist[i]]
           r == ByCrowding(pop, front)
<1>1. n \in Nat /\ DOMAIN front = 1..n /\ \A k \in 1..n : front[k] \in D /\ front[k] \in ToSet(front)
  BY DEF ToSet
<1>2. /\ o \in Seq(D) /\ Rearranges(o, front)
      /\ \A k \in DOMAIN front : dist[o[k]] \in Int
  BY CrowdingRearranges
<1>3. IsFront(pop, front) /\ n > 2 =>
                  /\ \A k \in DOMAIN front :
                       IF k \in {1, n}
                       THEN \A l \in DOMAIN front : dist[o[l]] <= dist[o[k]]
                       ELSE dist[o[k]] < dist[o[1]]
                  /\ \A k \in DOMAIN front :
                       /\ pop[o[k]].pack <= pop[o[n]].pack
                       /\ pop[o[1]].fuel <= pop[o[k]].fuel
  BY CrowdingRearranges
<1>4. r = StableSort(o, key)
  BY DEF ByCrowding
<1> HIDE DEF o, dist, r, n, D
<1>5. DOMAIN o = 1..n /\ \A k \in 1..n : o[k] \in ToSet(front) /\ o[k] \in D
  <2>1. DOMAIN o = 1..n
    BY <1>1, <1>2 DEF Rearranges
  <2>2. ASSUME NEW k \in 1..n PROVE o[k] \in ToSet(front) /\ o[k] \in D
    <3>1. PICK l \in DOMAIN front : o[k] = front[l]
      BY <1>1, <1>2 DEF Rearranges
    <3> QED BY <1>1, <3>1
  <2> QED BY <2>1, <2>2
<1>6. \A k \in DOMAIN o : key[o[k]] \in Int /\ key[o[k]] = -dist[o[k]]
  BY <1>1, <1>2, <1>5
<1> HIDE DEF key
<1>7. /\ r \in Seq(D) /\ Rearranges(r, o)
      /\ \A k, l \in DOMAIN o : k < l => key[r[k]] <= key[r[l]]
  BY <1>2, <1>4, <1>6, SortRearranges
<1>8. Rearranges(r, front)
  BY <1>2, <1>7, RearrangesTwice
<1>9. DOMAIN r = 1..n /\ \A k \in 1..n : r[k] \in D
  BY <1>1, <1>7, <1>8 DEF Rearranges
<1>10. \A k \in D : pop[k].pack \in Nat /\ pop[k].fuel \in Nat
  BY DEF IsPopulation, D
<1>11. ASSUME IsFront(pop, front), n > 2, NEW e \in {1, n}
       PROVE  \E a \in DOMAIN front : a <= 2 /\ r[a] = o[e]
  <2>1. e \in 1..n /\ 1 \in 1..n /\ n \in 1..n /\ 2 \in 1..n
    BY <1>1, <1>11
  <2>2. PICK a \in 1..n : r[a] = o[e]
    BY <1>5, <1>7, <2>1 DEF Rearranges
  <2>3. \A k, l \in 1..n : r[k] = r[l] => k = l
    BY <1>1, <1>8, <1>11 DEF Rearranges, IsFront
  <2>4. \A k, l \in 1..n : o[k] = o[l] => k = l
    BY <1>1, <1>2, <1>11 DEF Rearranges, IsFront
  <2>5. CASE ~(a <= 2)
    <3> DEFINE x == IF e = 1 THEN n ELSE 1
    <3>1. PICK b \in 1..n : r[b] = o[x]
      BY <1>5, <1>7, <2>1 DEF Rearranges
    <3> DEFINE c == IF b = 1 THEN 2 ELSE 1
    <3>2. c \in 1..n /\ c < a /\ c # b
      BY <2>1, <2>5
    <3>3. PICK m \in 1..n : r[c] = o[m]
      BY <1>5, <1>7, <3>2 DEF Rearranges
    <3>4. m \notin {1, n}
      <4>1. r[c] # r[a] /\ r[c] # r[b]
        BY <2>3, <3>2
      <4> QED BY <1>11, <2>2, <3>1, <3>3, <4>1
    <3>5. dist[o[m]] < dist[o[1]]
      BY <1>1, <1>3, <1>11, <3>4
    <3>6. dist[o[1]] <= dist[o[e]]
      BY <1>1, <1>3, <1>11, <2>1
    <3>7. key[r[c]] <= key[r[a]]
      BY <1>5, <1>7, <3>2
    <3>8. -dist[o[m]] <= -dist[o[e]]
      BY <1>5, <1>6, <2>1, <2>2, <3>3, <3>7
    <3>9. dist[o[m]] \in Int /\ dist[o[e]] \in Int /\ dist[o[1]] \in Int
      BY <1>1, <1>2, <2>1
    <3> QED BY <3>5, <3>6, <3>8, <3>9
  <2> QED BY <1>1, <2>2, <2>5
<1>12. ASSUME NEW k \in DOMAIN front
       PROVE  \E l \in DOMAIN front : o[l] = front[k]
  BY <1>2, <1>12 DEF Rearranges
<1>13. ASSUME IsFront(pop, front), front # <<>>
       PROVE  /\ \E a \in DOMAIN front : a <= 2 /\
                       \A k \in DOMAIN front : pop[front[k]].pack <= pop[r[a]].pack
              /\ \E a \in DOMAIN front : a <= 2 /\
                       \A k \in DOMAIN front : pop[r[a]].fuel <= pop[front[k]].fuel
  <2>1. CASE n > 2
    <3>1. /\ \A k \in DOMAIN front : pop[front[k]].pack <= pop[o[n]].pack
          /\ \A k \in DOMAIN front : pop[o[1]].fuel <= pop[front[k]].fuel
      BY <1>3, <1>12, <1>13, <2>1
    <3>2. (\E a \in DOMAIN front : a <= 2 /\ r[a] = o[n])
          /\ (\E a \in DOMAIN front : a <= 2 /\ r[a] = o[1])
      BY <1>11, <1>13, <2>1
    <3> QED BY <3>1, <3>2
  <2>2. CASE ~(n > 2)
    <3>1. n \in {1, 2}
      <4>1. n # 0
        BY <1>13 DEF n
      <4> QED BY <1>1, <2>2, <4>1
    <3>2. \A k \in 1..n : \E a \in 1..n : r[a] = front[k]
      BY <1>1, <1>8 DEF Rearranges
    <3>3. \A k \in 1..n : pop[r[k]].pack \in Nat /\ pop[r[k]].fuel \in Nat
      BY <1>9, <1>10
    <3>4. CASE n = 1
      <4>1. \A k \in 1..n : k = 1
        BY <3>4
      <4>2. 1 \in 1..n /\ r[1] = front[1]
        BY <3>2, <3>4, <4>1
      <4> QED BY <1>1, <3>3, <4>1, <4>2
    <3>5. CASE n = 2
      <4>1. 1..n = {1, 2}
        BY <3>5
      <4>2. \A k \in 1..n : front[k] = r[1] \/ front[k] = r[2]
        BY <3>2, <4>1
      <4>3. pop[r[1]].pack \in Nat /\ pop[r[2]].pack \in Nat
            /\ pop[r[1]].fuel \in Nat /\ pop[r[2]].fuel \in Nat
        BY <3>3, <4>1
      <4>4. \E a \in 1..n : a <= 2 /\ \A k \in 1..n : pop[front[k]].pack <= pop[r[a]].pack
        <5>1. CASE pop[r[1]].pack <= pop[r[2]].pack
          BY <4>1, <4>2, <4>3, <5>1
        <5>2. CASE pop[r[2]].pack <= pop[r[1]].pack
          BY <4>1, <4>2, <4>3, <5>2
        <5> QED BY <4>3, <5>1, <5>2
      <4>5. \E a \in 1..n : a <= 2 /\ \A k \in 1..n : pop[r[a]].fuel <= pop[front[k]].fuel
        <5>1. CASE pop[r[1]].fuel <= pop[r[2]].fuel
          BY <4>1, <4>2, <4>3, <5>1
        <5>2. CASE pop[r[2]].fuel <= pop[r[1]].fuel
          BY <4>1, <4>2, <4>3, <5>2
        <5> QED BY <4>3, <5>1, <5>2
      <4> QED BY <1>1, <4>4, <4>5
    <3> QED BY <3>1, <3>4, <3>5
  <2> QED BY <2>1, <2>2
<1> QED BY <1>7, <1>8, <1>13 DEF r, D

\* The undominated contain the best packing and the least fuel.
LEMMA FrontHasTheExtremes ==
  ASSUME NEW pop, IsPopulation(pop), NEW i \in DOMAIN pop
  PROVE  /\ \E k \in DOMAIN pop : DominatorsOf(pop, k) = {} /\ pop[i].pack <= pop[k].pack
         /\ \E k \in DOMAIN pop : DominatorsOf(pop, k) = {} /\ pop[k].fuel <= pop[i].fuel
<1>1. PICK k \in DOMAIN pop : /\ DominatorsOf(pop, k) = {}
                              /\ k = i \/ Dominates(pop[k], pop[i])
  BY DominatedFromTheFront
<1>2. /\ pop[i].pack \in Nat /\ pop[i].fuel \in Nat
      /\ pop[k].pack \in Nat /\ pop[k].fuel \in Nat
  BY DEF IsPopulation
<1> QED BY <1>1, <1>2 DEF Dominates

\* The first front is a front.
LEMMA FirstFrontIsFront ==
  ASSUME NEW pop, IsPopulation(pop)
  PROVE  IsFront(pop, FirstFront(pop))
<1> DEFINE f == FirstFront(pop)
<1>1. /\ f \in Seq(DOMAIN pop)
      /\ \A k \in DOMAIN f : DominatorsOf(pop, f[k]) = {}
      /\ \A k, n \in DOMAIN f : k < n <=> f[k] < f[n]
  BY FirstFrontIsUndominated
<1>2. DOMAIN pop \subseteq Nat
  BY DEF IsPopulation
<1> HIDE DEF f
<1>3. \A k \in DOMAIN f : f[k] \in DOMAIN pop /\ f[k] \in Nat /\ k \in Nat
  BY <1>1, <1>2
<1>4. \A k, l \in DOMAIN f : ~Dominates(pop[f[k]], pop[f[l]])
  BY <1>1, <1>3 DEF DominatorsOf
<1>5. ASSUME NEW k \in DOMAIN f, NEW l \in DOMAIN f, f[k] = f[l] PROVE k = l
  <2>1. ~(f[k] < f[l]) /\ ~(f[l] < f[k])
    BY <1>3, <1>5
  <2> QED BY <1>1, <1>3, <2>1
<1> QED BY <1>4, <1>5 DEF IsFront, f

-----------------------------------------------------------------------------
(***************************************************************************)
(* The truncation of a population.                                         *)
(***************************************************************************)
\* What of a front survives where there is still room.
Taken(pop, front, room) ==
  IF Len(front) <= room THEN Crowding(pop, front).order
  ELSE SubSeq(ByCrowding(pop, front), 1, room)

\* The survivors after each front.
IsKept(pop, size, kept) ==
  LET fronts == Fronts(pop)
  IN  /\ kept[0] = <<>>
      /\ \A n \in 1..Len(fronts) :
           kept[n] = kept[n - 1] \o Taken(pop, fronts[n], size - Len(kept[n - 1]))

\* The survivors follow from front to front.
LEMMA SurvivorsFollow ==
  ASSUME NEW pop, IsPopulation(pop), NEW size
  PROVE  \E kept : IsKept(pop, size, kept) /\ Survivors(pop, size) = kept[Len(Fronts(pop))]
<1> DEFINE fronts == Fronts(pop)
           More(before, front) == before \o Taken(pop, front, size - Len(before))
           IsIt(f, n) == f = [k \in 0..n |-> IF k = 0 THEN <<>> ELSE More(f[k - 1], fronts[k])]
           missing == {n \in Nat : \A f : ~IsIt(f, n)}
           N == Len(fronts)
<1>1. N \in Nat
  BY FrontsOfSweeps
<1>2. Survivors(pop, size) =
        IF fronts = <<>> THEN <<>> ELSE (CHOOSE f : IsIt(f, N))[N]
  BY DEF Survivors, Taken
<1> HIDE DEF More, fronts
<1>3. missing = {}
  <2> SUFFICES ASSUME missing # {} PROVE FALSE
    OBVIOUS
  <2>1. PICK n \in missing : \A j \in missing : n <= j
    BY LeastNumber
  <2>2. CASE n = 0
    <3> DEFINE f == [k \in 0..0 |-> <<>>]
    <3>1. IsIt(f, 0)
      OBVIOUS
    <3> HIDE DEF IsIt
    <3> QED BY <2>1, <2>2, <3>1
  <2>3. CASE n # 0
    <3>1. n - 1 \in Nat /\ n - 1 \notin missing /\ n \in Nat
      BY <2>1, <2>3
    <3>2. PICK g : IsIt(g, n - 1)
      BY <3>1
    <3> DEFINE f == [k \in 0..n |-> IF k = n THEN More(g[n - 1], fronts[n]) ELSE g[k]]
    <3>3. ASSUME NEW k \in 0..n
          PROVE  f[k] = IF k = 0 THEN <<>> ELSE More(f[k - 1], fronts[k])
      <4>1. \A i \in 0..n - 1 : f[i] = g[i]
        BY <3>1
      <4>2. g[0] = <<>> /\ \A i \in 1..n - 1 : g[i] = More(g[i - 1], fronts[i])
        BY <3>1, <3>2
      <4>3. CASE k = n
        <5>1. n - 1 \in 0..n - 1 /\ k # 0
          BY <2>3, <3>1, <4>3
        <5>2. f[n - 1] = g[n - 1] /\ f[k] = More(g[n - 1], fronts[n])
          BY <4>1, <4>3, <5>1
        <5> QED BY <4>3, <5>1, <5>2
      <4>4. CASE k = 0
        BY <2>3, <3>1, <4>1, <4>2, <4>4
      <4>5. CASE k # n /\ k # 0
        <5>1. k \in 1..n - 1 /\ k - 1 \in 0..n - 1 /\ k \in 0..n - 1
          BY <3>1, <4>5
        <5>2. f[k] = g[k] /\ f[k - 1] = g[k - 1] /\ g[k] = More(g[k - 1], fronts[k])
          BY <4>1, <4>2, <5>1
        <5> QED BY <4>5, <5>2
      <4> QED BY <4>3, <4>4, <4>5
    <3>4. f = [k \in 0..n |-> f[k]]
      OBVIOUS
    <3> HIDE DEF f
    <3>5. IsIt(f, n)
      BY <3>3, <3>4
    <3> QED BY <2>1, <3>5
  <2> QED BY <2>2, <2>3
<1> DEFINE kept == CHOOSE f : IsIt(f, N)
<1>4. IsIt(kept, N)
  <2>1. \E f : IsIt(f, N)
    BY <1>1, <1>3
  <2> HIDE DEF IsIt
  <2> QED BY <2>1
<1> HIDE DEF kept
<1>5. kept[0] = <<>> /\ \A k \in 1..N : kept[k] = More(kept[k - 1], fronts[k])
  <2>1. 0 \in 0..N /\ \A k \in 1..N : k \in 0..N /\ k # 0
    BY <1>1
  <2> HIDE DEF N
  <2> QED BY <1>4, <2>1
<1>6. IsKept(pop, size, kept)
  BY <1>5 DEF IsKept, More, fronts
<1>7. Survivors(pop, size) = kept[N]
  <2>1. CASE fronts = <<>>
    <3>1. N = 0
      BY <2>1
    <3> QED BY <1>2, <1>5, <2>1, <3>1
  <2>2. CASE fronts # <<>>
    BY <1>2, <2>2 DEF kept
  <2> QED BY <2>1, <2>2
<1> QED BY <1>6, <1>7 DEF fronts

\* What survives of a front fits and is of the front; of a front of its own the
\* extremes survive where there is room for two.
LEMMA TakenFits ==
  ASSUME NEW pop, IsPopulation(pop), NEW front \in Seq(DOMAIN pop), NEW room \in Nat
  PROVE  /\ Taken(pop, front, room) \in Seq(DOMAIN pop)
         /\ Len(Taken(pop, front, room)) = IF Len(front) <= room THEN Len(front) ELSE room
         /\ \A k \in DOMAIN Taken(pop, front, room) :
              \E l \in DOMAIN front : Taken(pop, front, room)[k] = front[l]
         /\ Len(front) <= room => \A l \in DOMAIN front :
              \E k \in DOMAIN Taken(pop, front, room) : Taken(pop, front, room)[k] = front[l]
         /\ IsFront(pop, front) =>
              \A k, l \in DOMAIN Taken(pop, front, room) :
                Taken(pop, front, room)[k] = Taken(pop, front, room)[l] => k = l
         /\ IsFront(pop, front) /\ room >= 2 => \A l \in DOMAIN front :
              /\ \E k \in DOMAIN Taken(pop, front, room) :
                   pop[front[l]].pack <= pop[Taken(pop, front, room)[k]].pack
              /\ \E k \in DOMAIN Taken(pop, front, room) :
                   pop[Taken(pop, front, room)[k]].fuel <= pop[front[l]].fuel
<1> DEFINE D == DOMAIN pop
           n == Len(front)
           o == Crowding(pop, front).order
           r == ByCrowding(pop, front)
           t == Taken(pop, front, room)
<1>1. n \in Nat /\ DOMAIN front = 1..n
  OBVIOUS
<1>2. o \in Seq(D) /\ Rearranges(o, front)
  BY CrowdingRearranges
<1>3. /\ r \in Seq(D) /\ Rearranges(r, front)
      /\ IsFront(pop, front) /\ front # <<>> =>
                  /\ \E a \in DOMAIN front : a <= 2 /\
                       \A k \in DOMAIN front : pop[front[k]].pack <= pop[r[a]].pack
                  /\ \E a \in DOMAIN front : a <= 2 /\
                       \A k \in DOMAIN front : pop[r[a]].fuel <= pop[front[k]].fuel
  BY EndsComeFirst
<1>4. t = IF n <= room THEN o ELSE SubSeq(r, 1, room)
  BY DEF Taken
<1>5. \A k \in D : pop[k].pack \in Nat /\ pop[k].fuel \in Nat
  BY DEF IsPopulation
<1> HIDE DEF D, n, o, r, t
<1>6. CASE n <= room
  <2>1. t = o /\ DOMAIN o = 1..n /\ Len(o) = n
    BY <1>1, <1>2, <1>4, <1>6 DEF Rearranges
  <2>2. ASSUME NEW l \in DOMAIN front PROVE \E k \in DOMAIN t : t[k] = front[l]
    BY <1>1, <1>2, <2>1 DEF Rearranges
  <2>3. \A k \in DOMAIN t : \E l \in DOMAIN front : t[k] = front[l]
    BY <1>1, <1>2, <2>1 DEF Rearranges
  <2>4. IsFront(pop, front) => \A k, l \in DOMAIN t : t[k] = t[l] => k = l
    BY <1>1, <1>2, <2>1 DEF Rearranges, IsFront
  <2>5. ASSUME NEW l \in DOMAIN front
        PROVE  /\ \E k \in DOMAIN t : pop[front[l]].pack <= pop[t[k]].pack
               /\ \E k \in DOMAIN t : pop[t[k]].fuel <= pop[front[l]].fuel
    <3>1. PICK k \in DOMAIN t : t[k] = front[l]
      BY <2>2
    <3>2. front[l] \in D
      BY DEF D
    <3> QED BY <1>5, <3>1, <3>2
  <2> QED BY <1>2, <1>6, <2>1, <2>2, <2>3, <2>4, <2>5 DEF t, D, n
<1>7. CASE ~(n <= room)
  <2>1. DOMAIN r = 1..n /\ Len(r) = n
    BY <1>1, <1>3 DEF Rearranges
  <2>2. t \in Seq(D) /\ Len(t) = room /\ DOMAIN t = 1..room /\ \A k \in 1..room : t[k] = r[k]
    <3>1. t = SubSeq(r, 1, room) /\ room < n
      BY <1>1, <1>4, <1>7
    <3> QED BY <1>3, <2>1, <3>1
  <2>3. \A k \in DOMAIN t : k \in DOMAIN front
    BY <1>1, <1>7, <2>2
  <2>4. \A k \in DOMAIN t : \E l \in DOMAIN front : t[k] = front[l]
    BY <1>3, <2>2, <2>3 DEF Rearranges
  <2>5. IsFront(pop, front) => \A k, l \in DOMAIN t : t[k] = t[l] => k = l
    BY <1>3, <2>2, <2>3 DEF Rearranges, IsFront
  <2>6. ASSUME IsFront(pop, front), room >= 2, NEW l \in DOMAIN front
        PROVE  /\ \E k \in DOMAIN t : pop[front[l]].pack <= pop[t[k]].pack
               /\ \E k \in DOMAIN t : pop[t[k]].fuel <= pop[front[l]].fuel
    <3>1. front # <<>>
      BY <2>6
    <3>2. PICK a \in DOMAIN front : a <= 2 /\
                       \A k \in DOMAIN front : pop[front[k]].pack <= pop[r[a]].pack
      BY <1>3, <2>6, <3>1
    <3>3. PICK b \in DOMAIN front : b <= 2 /\
                       \A k \in DOMAIN front : pop[r[b]].fuel <= pop[front[k]].fuel
      BY <1>3, <2>6, <3>1
    <3>4. a \in DOMAIN t /\ b \in DOMAIN t
      BY <1>1, <2>2, <2>6, <3>2, <3>3
    <3> QED BY <2>2, <3>2, <3>3, <3>4
  <2> QED BY <1>7, <2>2, <2>4, <2>5, <2>6 DEF t, D, n
<1> QED BY <1>6, <1>7

\* What is kept are positions, no more than fit, and what was taken first stays first.
LEMMA KeptFits ==
  ASSUME NEW pop, IsPopulation(pop), NEW size \in Nat, NEW kept, IsKept(pop, size, kept)
  PROVE  /\ \A n \in 0..Len(Fronts(pop)) : kept[n] \in Seq(DOMAIN pop) /\ Len(kept[n]) <= size
         /\ \A n \in 1..Len(Fronts(pop)) : \A k \in 1..Len(kept[1]) :
              k \in DOMAIN kept[n] /\ kept[n][k] = kept[1][k]
<1> DEFINE N == Len(Fronts(pop))
           D == DOMAIN pop
           Fine(n) == kept[n] \in Seq(D) /\ Len(kept[n]) <= size
           Starts(n) == \A k \in 1..Len(kept[1]) : k \in DOMAIN kept[n] /\ kept[n][k] = kept[1][k]
           bad == {n \in 0..N : ~(Fine(n) /\ (n > 0 => Starts(n)))}
<1>1. N \in Nat /\ \A n \in 1..N : Fronts(pop)[n] \in Seq(D)
  BY FrontsOfSweeps
<1>2. kept[0] = <<>> /\ \A n \in 1..N :
        kept[n] = kept[n - 1] \o Taken(pop, Fronts(pop)[n], size - Len(kept[n - 1]))
  BY DEF IsKept
<1>3. Fine(0)
  BY <1>2
<1> HIDE DEF N, D
<1>4. ASSUME NEW n \in 1..N, Fine(n - 1)
      PROVE  Fine(n) /\ \A k \in 1..Len(kept[n - 1]) :
                          k \in DOMAIN kept[n] /\ kept[n][k] = kept[n - 1][k]
  <2> DEFINE s == kept[n - 1]
             room == size - Len(s)
             t == Taken(pop, Fronts(pop)[n], room)
  <2>1. s \in Seq(D) /\ Len(s) \in Nat /\ room \in Nat
    BY <1>4
  <2>2. t \in Seq(D) /\ Len(t) <= room /\ Len(t) \in Nat
    <3>1. Fronts(pop)[n] \in Seq(D) /\ Len(Fronts(pop)[n]) \in Nat
      BY <1>1
    <3>2. \A f \in Seq(D), m \in Nat :
            /\ Taken(pop, f, m) \in Seq(D)
            /\ Len(Taken(pop, f, m)) = IF Len(f) <= m THEN Len(f) ELSE m
      BY TakenFits DEF D
    <3>3. /\ t \in Seq(D)
          /\ Len(t) = IF Len(Fronts(pop)[n]) <= room THEN Len(Fronts(pop)[n]) ELSE room
      BY <2>1, <3>1, <3>2
    <3> HIDE DEF t, room
    <3> QED BY <2>1, <3>1, <3>3
  <2>3. kept[n] = s \o t
    BY <1>2
  <2> HIDE DEF s, t
  <2>4. kept[n] \in Seq(D) /\ Len(kept[n]) = Len(s) + Len(t)
    BY <2>1, <2>2, <2>3
  <2>5. Len(kept[n]) <= size
    BY <2>1, <2>2, <2>4
  <2>6. \A k \in 1..Len(s) : k \in DOMAIN kept[n] /\ kept[n][k] = s[k]
    BY <2>1, <2>2, <2>3, <2>4
  <2> QED BY <2>4, <2>5, <2>6 DEF s
<1>5. ASSUME NEW n \in 1..N, Fine(n - 1), n - 1 > 0 => Starts(n - 1) PROVE Fine(n) /\ Starts(n)
  <2>1. Fine(n)
    BY <1>4, <1>5
  <2>2. CASE n = 1
    BY <2>1, <2>2
  <2>3. CASE n # 1
    <3>1. Starts(n - 1)
      BY <1>1, <1>5, <2>3
    <3>2. Len(kept[n - 1]) \in Nat /\ DOMAIN kept[n - 1] = 1..Len(kept[n - 1])
      BY <1>5
    <3> QED BY <1>4, <1>5, <2>1, <3>1, <3>2
  <2> QED BY <2>2, <2>3
<1> HIDE DEF Fine, Starts
<1>6. bad = {}
  <2> SUFFICES ASSUME bad # {} PROVE FALSE
    OBVIOUS
  <2>1. bad \in SUBSET Nat
    BY <1>1
  <2>2. PICK n \in bad : \A j \in bad : n <= j
    BY <2>1, LeastNumber
  <2>3. n \in 1..N /\ n - 1 \in 0..N /\ n - 1 < n
    BY <1>1, <1>3, <2>2
  <2>4. n - 1 \notin bad
    BY <2>2, <2>3
  <2>5. Fine(n) /\ Starts(n)
    BY <1>5, <2>3, <2>4
  <2> QED BY <2>2, <2>5
<1>7. \A n \in 0..N : Fine(n)
  BY <1>6
<1>8. \A n \in 1..N : Starts(n)
  BY <1>1, <1>6
<1> QED BY <1>7, <1>8 DEF Fine, Starts, N, D

\* The first of the fronts is the first front.
LEMMA FrontsStart ==
  ASSUME NEW pop, IsPopulation(pop), FirstFront(pop) # <<>>
  PROVE  1 \in DOMAIN Fronts(pop) /\ Fronts(pop)[1] = FirstFront(pop)
<1> DEFINE S == {n \in 0..Len(pop) : Sweeps(pop)[n].front # <<>>}
<1>1. Len(pop) \in Nat
  BY DEF IsPopulation
<1>2. Sweeps(pop)[0].front = FirstFront(pop)
  <2>1. Sweeps(pop)[0] = FirstSweep(pop)
    BY <1>1, SweepsFollow
  <2>2. FirstSweep(pop).front = FirstFront(pop)
    BY DEF FirstSweep
  <2> QED BY <2>1, <2>2
<1>3. 0 \in S
  BY <1>1, <1>2
<1>4. IsFiniteSet(S)
  <2>1. 0 \in Int /\ Len(pop) \in Int
    BY <1>1
  <2>2. IsFiniteSet(0..Len(pop))
    BY <2>1, FS_Interval
  <2> QED BY <2>2, FS_Subset
<1>5. Cardinality(S) \in Nat /\ Cardinality(S) # 0
  <2> HIDE DEF S
  <2> QED BY <1>3, <1>4, FS_CardinalityType, FS_EmptySet
<1>6. Len(Fronts(pop)) = Cardinality(S) /\ DOMAIN Fronts(pop) = 1..Len(Fronts(pop))
  BY FrontsOfSweeps
<1> HIDE DEF S
<1>7. 1 \in DOMAIN Fronts(pop)
  BY <1>5, <1>6
<1>8. Fronts(pop)[1] = Sweeps(pop)[1 - 1].front
  BY <1>7, FrontsOfSweeps
<1> QED BY <1>2, <1>7, <1>8

\* The survivors are positions, and fit.
LEMMA SurvivorsFit ==
  ASSUME NEW pop, IsPopulation(pop), NEW size \in Nat
  PROVE  Survivors(pop, size) \in Seq(DOMAIN pop) /\ Len(Survivors(pop, size)) <= size
<1>1. PICK kept : IsKept(pop, size, kept) /\ Survivors(pop, size) = kept[Len(Fronts(pop))]
  BY SurvivorsFollow
<1>2. Len(Fronts(pop)) \in 0..Len(Fronts(pop))
  BY FrontsOfSweeps
<1>3. \A n \in 0..Len(Fronts(pop)) : kept[n] \in Seq(DOMAIN pop) /\ Len(kept[n]) <= size
  BY <1>1, KeptFits
<1> QED BY <1>1, <1>2, <1>3

\* What is left after a truncation fits, and was in the population.
LEMMA TruncateSelects ==
  ASSUME NEW pop, IsPopulation(pop), NEW size \in Nat
  PROVE  /\ Len(Truncate(pop, size)) \in Nat
         /\ DOMAIN Truncate(pop, size) = 1..Len(Truncate(pop, size))
         /\ Len(Truncate(pop, size)) <= size
         /\ \A k \in DOMAIN Truncate(pop, size) :
              \E i \in DOMAIN pop : Truncate(pop, size)[k] = pop[i]
         /\ \A S : pop \in Seq(S) => Truncate(pop, size) \in Seq(S)
<1> DEFINE kept == Survivors(pop, size)
           t == Truncate(pop, size)
<1>1. Len(pop) \in Nat /\ DOMAIN pop = 1..Len(pop)
  BY DEF IsPopulation
<1>2. kept \in Seq(DOMAIN pop) /\ Len(kept) <= size
  BY SurvivorsFit
<1>3. t = IF Len(pop) <= size THEN pop ELSE [k \in DOMAIN kept |-> pop[kept[k]]]
  BY DEF Truncate
<1> HIDE DEF kept, t
<1>4. CASE Len(pop) <= size
  <2>1. t = pop
    BY <1>3, <1>4
  <2> QED BY <1>1, <1>4, <2>1 DEF t
<1>5. CASE ~(Len(pop) <= size)
  <2>1. t = [k \in DOMAIN kept |-> pop[kept[k]]]
    BY <1>3, <1>5
  <2>2. Len(kept) \in Nat /\ DOMAIN kept = 1..Len(kept)
        /\ \A k \in DOMAIN kept : kept[k] \in DOMAIN pop
    BY <1>2
  <2>3. DOMAIN t = 1..Len(kept) /\ Len(t) = Len(kept)
    BY <2>1, <2>2
  <2>4. ASSUME NEW S, pop \in Seq(S) PROVE t \in Seq(S)
    <3>1. \A k \in 1..Len(kept) : pop[kept[k]] \in S
      BY <2>2, <2>4
    <3>2. t = [k \in 1..Len(kept) |-> pop[kept[k]]]
      BY <2>1, <2>2
    <3> QED BY <2>2, <3>1, <3>2
  <2>5. \A k \in DOMAIN t : \E i \in DOMAIN pop : t[k] = pop[i]
    BY <2>1, <2>2
  <2> QED BY <1>2, <2>2, <2>3, <2>4, <2>5 DEF t
<1> QED BY <1>4, <1>5

\* A truncation to two or more spares whoever packs best and whoever is cheapest.
LEMMA TruncateSparesTheExtremes ==
  ASSUME NEW pop, IsPopulation(pop), NamesakesAreEqual(pop),
         NEW size \in Nat, size >= 2, NEW i \in DOMAIN pop
  PROVE  /\ \E k \in DOMAIN Truncate(pop, size) : pop[i].pack <= Truncate(pop, size)[k].pack
         /\ \E k \in DOMAIN Truncate(pop, size) : Truncate(pop, size)[k].fuel <= pop[i].fuel
<1> DEFINE kept == Survivors(pop, size)
           t == Truncate(pop, size)
           f == FirstFront(pop)
<1>1. Len(pop) \in Nat /\ DOMAIN pop = 1..Len(pop) /\ pop # <<>>
      /\ \A k \in DOMAIN pop : pop[k].pack \in Nat /\ pop[k].fuel \in Nat
  BY DEF IsPopulation
<1>2. t = IF Len(pop) <= size THEN pop ELSE [k \in DOMAIN kept |-> pop[kept[k]]]
  BY DEF Truncate
<1>3. CASE Len(pop) <= size
  <2>1. t = pop
    BY <1>2, <1>3
  <2> HIDE DEF t
  <2> QED BY <1>1, <2>1 DEF t
<1>4. CASE ~(Len(pop) <= size)
  <2>1. PICK all : IsKept(pop, size, all) /\ kept = all[Len(Fronts(pop))]
    BY SurvivorsFollow
  <2>2. /\ f \in Seq(DOMAIN pop) /\ f # <<>> /\ IsFront(pop, f)
        /\ \A k \in DOMAIN pop : DominatorsOf(pop, k) = {} => \E l \in DOMAIN f : f[l] = k
    BY <1>1, FirstFrontIsUndominated, FirstFrontIsFront
  <2>3. /\ 1 \in DOMAIN Fronts(pop) /\ Fronts(pop)[1] = f
        /\ Len(Fronts(pop)) \in Nat /\ DOMAIN Fronts(pop) = 1..Len(Fronts(pop))
    BY <2>2, FrontsStart, FrontsOfSweeps
  <2> DEFINE N == Len(Fronts(pop))
             first == Taken(pop, f, size)
  <2>4. N \in 1..N
    BY <2>3
  <2>5. all[1] = first
    <3>1. all[0] = <<>> /\ all[1] = all[1 - 1] \o Taken(pop, f, size - Len(all[1 - 1]))
      BY <2>1, <2>3 DEF IsKept
    <3>2. all[1 - 1] = <<>> /\ size - Len(all[1 - 1]) = size
      BY <3>1
    <3>3. all[1] = <<>> \o first
      BY <3>1, <3>2
    <3>4. first \in Seq(DOMAIN pop)
      BY <2>2, TakenFits
    <3> HIDE DEF first
    <3> QED BY <3>3, <3>4
  <2>6. \A k \in 1..Len(all[1]) : k \in DOMAIN all[N] /\ all[N][k] = all[1][k]
    <3>1. \A n \in 1..N : \A k \in 1..Len(all[1]) : k \in DOMAIN all[n] /\ all[n][k] = all[1][k]
      BY <2>1, KeptFits
    <3> HIDE DEF N
    <3> QED BY <2>4, <3>1
  <2>7. first \in Seq(DOMAIN pop) /\ \A l \in DOMAIN f :
              /\ \E k \in DOMAIN first : pop[f[l]].pack <= pop[first[k]].pack
              /\ \E k \in DOMAIN first : pop[first[k]].fuel <= pop[f[l]].fuel
    BY <2>2, TakenFits
  <2>8. \A k \in DOMAIN first : k \in DOMAIN kept /\ kept[k] = first[k]
    <3>1. DOMAIN first = 1..Len(first)
      BY <2>7
    <3> HIDE DEF first, kept
    <3> QED BY <2>1, <2>5, <2>6, <3>1
  <2>9. \A l \in DOMAIN f : f[l] \in DOMAIN pop
    BY <2>2
  <2>10. \A k \in DOMAIN first : k \in DOMAIN t /\ t[k] = pop[first[k]]
    BY <1>2, <1>4, <2>8
  <2>11. \A k \in DOMAIN first : first[k] \in DOMAIN pop
    BY <2>7
  <2> HIDE DEF first, t, f, kept
  <2>12. \E k \in DOMAIN t : pop[i].pack <= t[k].pack
    <3>1. PICK k \in DOMAIN pop : DominatorsOf(pop, k) = {} /\ pop[i].pack <= pop[k].pack
      BY FrontHasTheExtremes
    <3>2. PICK l \in DOMAIN f : f[l] = k
      BY <2>2, <3>1
    <3>3. PICK j \in DOMAIN first : pop[f[l]].pack <= pop[first[j]].pack
      BY <2>7
    <3> QED BY <1>1, <2>10, <2>11, <3>1, <3>2, <3>3
  <2>13. \E k \in DOMAIN t : t[k].fuel <= pop[i].fuel
    <3>1. PICK k \in DOMAIN pop : DominatorsOf(pop, k) = {} /\ pop[k].fuel <= pop[i].fuel
      BY FrontHasTheExtremes
    <3>2. PICK l \in DOMAIN f : f[l] = k
      BY <2>2, <3>1
    <3>3. PICK j \in DOMAIN first : pop[first[j]].fuel <= pop[f[l]].fuel
      BY <2>7
    <3> QED BY <1>1, <2>10, <2>11, <3>1, <3>2, <3>3
  <2> QED BY <2>12, <2>13 DEF t
<1> QED BY <1>3, <1>4

\* What may be selected from the first n fronts: nobody twice, all of them or as many
\* as fit, and with somebody of a front all of the fronts before.
IsSelection(pop, size, n, s) ==
  LET F == Fronts(pop)
  IN  /\ s \in Seq(DOMAIN pop) /\ Len(s) <= size /\ NoTwice(s)
      /\ \A i \in ToSet(s) : \E l \in 1..n : i \in ToSet(F[l])
      /\ Len(s) = size \/ \A l \in 1..n : ToSet(F[l]) \subseteq ToSet(s)
      /\ \A l \in 1..n : \A i \in ToSet(s) : i \in ToSet(F[l]) =>
           \A j \in 1..l - 1 : ToSet(F[j]) \subseteq ToSet(s)

\* Who is in one of two sequences is in the two together.
LEMMA Together ==
  ASSUME NEW D, NEW s \in Seq(D), NEW t \in Seq(D)
  PROVE  /\ s \o t \in Seq(D) /\ Len(s \o t) = Len(s) + Len(t)
         /\ ToSet(s \o t) = ToSet(s) \cup ToSet(t)
         /\ NoTwice(s) /\ NoTwice(t) /\ ToSet(s) \intersect ToSet(t) = {} => NoTwice(s \o t)
<1> DEFINE u == s \o t
           m == Len(s)
           n == Len(t)
<1>1. /\ m \in Nat /\ n \in Nat /\ DOMAIN s = 1..m /\ DOMAIN t = 1..n
      /\ u \in Seq(D) /\ Len(u) = m + n /\ DOMAIN u = 1..m + n
      /\ \A k \in 1..m : u[k] = s[k]
      /\ \A k \in 1..m + n : k > m => k - m \in 1..n /\ u[k] = t[k - m]
  OBVIOUS
<1> HIDE DEF u, m, n
<1>2. \A k \in 1..n : k + m \in 1..m + n /\ u[k + m] = t[k]
  BY <1>1
<1>3. ToSet(u) = ToSet(s) \cup ToSet(t)
  <2>1. \A k \in 1..m : k \in 1..m + n
    BY <1>1
  <2>2. \A k \in 1..m + n : k \in 1..m \/ k > m
    BY <1>1
  <2>3. ToSet(u) \subseteq ToSet(s) \cup ToSet(t)
    BY <1>1, <2>2 DEF ToSet
  <2>4. ToSet(s) \subseteq ToSet(u)
    BY <1>1, <2>1 DEF ToSet
  <2>5. ToSet(t) \subseteq ToSet(u)
    <3>1. \A k \in DOMAIN t : \E l \in DOMAIN u : u[l] = t[k]
      BY <1>1, <1>2
    <3> QED BY <3>1 DEF ToSet
  <2> QED BY <2>3, <2>4, <2>5
<1>4. ASSUME NoTwice(s), NoTwice(t), ToSet(s) \intersect ToSet(t) = {} PROVE NoTwice(u)
  <2>1. ASSUME NEW k \in 1..m + n, NEW l \in 1..m + n, u[k] = u[l] PROVE k = l
    <3>1. k \in 1..m /\ l \in 1..m => k = l
      BY <1>1, <1>4, <2>1 DEF NoTwice
    <3>2. k > m /\ l > m => k = l
      <4> SUFFICES ASSUME k > m, l > m PROVE k = l
        OBVIOUS
      <4>1. k - m \in 1..n /\ l - m \in 1..n /\ t[k - m] = t[l - m]
        BY <1>1, <2>1
      <4>2. k - m = l - m
        BY <1>1, <1>4, <4>1 DEF NoTwice
      <4> QED BY <1>1, <4>2
    <3>3. \A a \in 1..m, b \in 1..n : s[a] # t[b]
      BY <1>1, <1>4 DEF ToSet
    <3>4. ~(k \in 1..m /\ l > m) /\ ~(l \in 1..m /\ k > m)
      BY <1>1, <2>1, <3>3
    <3>5. (k \in 1..m \/ k > m) /\ (l \in 1..m \/ l > m)
      BY <1>1
    <3> QED BY <3>1, <3>2, <3>4, <3>5
  <2> QED BY <1>1, <2>1 DEF NoTwice
<1> QED BY <1>1, <1>3, <1>4 DEF u, m, n

\* Each front extends the selection.
LEMMA SelectionGrows ==
  ASSUME NEW pop, IsPopulation(pop), DistinctIds(pop), NEW size \in Nat,
         NEW n \in 1..Len(Fronts(pop)), NEW s, IsSelection(pop, size, n - 1, s)
  PROVE  IsSelection(pop, size, n, s \o Taken(pop, Fronts(pop)[n], size - Len(s)))
<1> DEFINE F == Fronts(pop)
           room == size - Len(s)
           t == Taken(pop, F[n], room)
           u == s \o t
           D == DOMAIN pop
<1>1. /\ DOMAIN F = 1..Len(F)
      /\ \A k \in DOMAIN F : F[k] \in Seq(D) /\ F[k] # <<>> /\ NoTwice(F[k])
      /\ \A k, l \in DOMAIN F : \A q \in D : q \in ToSet(F[k]) /\ q \in ToSet(F[l]) => k = l
      /\ \A k \in DOMAIN F : \A q \in ToSet(F[k]) : \A p \in DominatorsOf(pop, q) :
           \E l \in DOMAIN F : l < k /\ p \in ToSet(F[l])
  BY FrontsAreLayers
<1>2. Len(F) \in Nat
  BY FrontsOfSweeps
<1>3. /\ s \in Seq(D) /\ Len(s) <= size /\ NoTwice(s)
      /\ \A i \in ToSet(s) : \E l \in 1..n - 1 : i \in ToSet(F[l])
      /\ Len(s) = size \/ \A l \in 1..n - 1 : ToSet(F[l]) \subseteq ToSet(s)
      /\ \A l \in 1..n - 1 : \A i \in ToSet(s) : i \in ToSet(F[l]) =>
           \A j \in 1..l - 1 : ToSet(F[j]) \subseteq ToSet(s)
  BY DEF IsSelection
<1> HIDE DEF F, D
<1>4. Len(s) \in Nat /\ room \in Nat /\ (room = 0 <=> Len(s) = size)
  BY <1>3
<1>5. n \in DOMAIN F /\ n \in Nat /\ \A l \in 1..n - 1 : l \in DOMAIN F /\ l < n
  BY <1>1, <1>2 DEF F
<1>6. F[n] \in Seq(D) /\ F[n] # <<>> /\ IsFront(pop, F[n])
  <2>1. F[n] \in Seq(D) /\ F[n] # <<>> /\ NoTwice(F[n])
    BY <1>1, <1>5
  <2>2. \A k, l \in DOMAIN F[n] : ~Dominates(pop[F[n][k]], pop[F[n][l]])
    <3> SUFFICES ASSUME NEW k \in DOMAIN F[n], NEW l \in DOMAIN F[n],
                        Dominates(pop[F[n][k]], pop[F[n][l]])
                 PROVE  FALSE
      OBVIOUS
    <3>1. /\ F[n][k] \in D /\ F[n][k] \in DominatorsOf(pop, F[n][l])
          /\ F[n][k] \in ToSet(F[n]) /\ F[n][l] \in ToSet(F[n])
      BY <2>1 DEF DominatorsOf, ToSet, D
    <3>2. PICK j \in DOMAIN F : j < n /\ F[n][k] \in ToSet(F[j])
      BY <1>1, <1>5, <3>1
    <3>3. j = n
      BY <1>1, <1>5, <3>1, <3>2
    <3> QED BY <1>5, <3>2, <3>3
  <2> QED BY <2>1, <2>2 DEF IsFront, NoTwice
<1>7. /\ t \in Seq(D) /\ Len(t) = (IF Len(F[n]) <= room THEN Len(F[n]) ELSE room)
      /\ ToSet(t) \subseteq ToSet(F[n]) /\ NoTwice(t)
      /\ Len(F[n]) <= room => ToSet(F[n]) \subseteq ToSet(t)
  <2>1. /\ t \in Seq(D) /\ Len(t) = (IF Len(F[n]) <= room THEN Len(F[n]) ELSE room)
        /\ \A k \in DOMAIN t : \E l \in DOMAIN F[n] : t[k] = F[n][l]
        /\ Len(F[n]) <= room => \A l \in DOMAIN F[n] : \E k \in DOMAIN t : t[k] = F[n][l]
        /\ \A k, l \in DOMAIN t : t[k] = t[l] => k = l
    <3>1. \A f \in Seq(D), r \in Nat :
            /\ Taken(pop, f, r) \in Seq(D)
            /\ Len(Taken(pop, f, r)) = IF Len(f) <= r THEN Len(f) ELSE r
            /\ \A k \in DOMAIN Taken(pop, f, r) :
                 \E l \in DOMAIN f : Taken(pop, f, r)[k] = f[l]
            /\ Len(f) <= r => \A l \in DOMAIN f :
                 \E k \in DOMAIN Taken(pop, f, r) : Taken(pop, f, r)[k] = f[l]
            /\ IsFront(pop, f) => \A k, l \in DOMAIN Taken(pop, f, r) :
                 Taken(pop, f, r)[k] = Taken(pop, f, r)[l] => k = l
      BY TakenFits DEF D
    <3> HIDE DEF room
    <3> QED BY <1>4, <1>6, <3>1
  <2> HIDE DEF t
  <2> QED BY <2>1 DEF ToSet, NoTwice
<1>8. Len(F[n]) \in Nat \ {0} /\ Len(t) \in Nat
  BY <1>4, <1>6, <1>7
<1> HIDE DEF t
<1>9. ToSet(s) \intersect ToSet(t) = {}
  <2> SUFFICES ASSUME NEW i \in ToSet(s), i \in ToSet(t) PROVE FALSE
    OBVIOUS
  <2>1. PICK l \in 1..n - 1 : i \in ToSet(F[l])
    BY <1>3
  <2>2. i \in ToSet(F[n])
    BY <1>7
  <2>3. i \in D
    BY <1>3 DEF ToSet
  <2>4. l = n /\ l < n
    BY <1>1, <1>5, <2>1, <2>2, <2>3
  <2> QED BY <1>5, <2>4
<1>10. /\ u \in Seq(D) /\ Len(u) = Len(s) + Len(t) /\ NoTwice(u)
       /\ ToSet(u) = ToSet(s) \cup ToSet(t)
  <2>1. s \in Seq(D) /\ t \in Seq(D) /\ NoTwice(s) /\ NoTwice(t)
    BY <1>3, <1>7
  <2> HIDE DEF D
  <2> QED BY <1>9, <2>1, Together
<1> HIDE DEF u
<1>11. Len(u) <= size
  BY <1>4, <1>7, <1>8, <1>10
<1>12. \A i \in ToSet(u) : \E l \in 1..n : i \in ToSet(F[l])
  <2>1. n \in 1..n /\ \A l \in 1..n - 1 : l \in 1..n
    BY <1>5
  <2> QED BY <1>3, <1>7, <1>10, <2>1
<1>13. ASSUME room = 0 PROVE IsSelection(pop, size, n, u)
  <2>1. Len(t) = 0 /\ Len(s) = size
    BY <1>4, <1>7, <1>8, <1>13
  <2>2. ToSet(t) = {}
    BY <1>7, <2>1 DEF ToSet
  <2>3. ToSet(u) = ToSet(s) /\ Len(u) = size
    BY <1>4, <1>10, <2>1, <2>2
  <2>4. ASSUME NEW l \in 1..n, NEW i \in ToSet(u), i \in ToSet(F[l]), NEW j \in 1..l - 1
        PROVE  ToSet(F[j]) \subseteq ToSet(u)
    <3>1. PICK k \in 1..n - 1 : i \in ToSet(F[k])
      BY <1>3, <2>3
    <3>2. i \in D /\ k \in DOMAIN F /\ l \in DOMAIN F
      BY <1>3, <1>5, <2>3 DEF ToSet
    <3>3. k = l
      BY <1>1, <2>4, <3>1, <3>2
    <3> QED BY <1>3, <2>3, <2>4, <3>1, <3>3
  <2> QED BY <1>10, <1>11, <1>12, <2>3, <2>4 DEF IsSelection, F, D
<1>14. ASSUME room # 0 PROVE IsSelection(pop, size, n, u)
  <2>1. \A l \in 1..n - 1 : ToSet(F[l]) \subseteq ToSet(u)
    BY <1>3, <1>4, <1>10, <1>14
  <2>2. Len(u) = size \/ \A l \in 1..n : ToSet(F[l]) \subseteq ToSet(u)
    <3>1. CASE Len(F[n]) <= room
      <4>1. \A l \in 1..n : l \in 1..n - 1 \/ l = n
        BY <1>5
      <4> QED BY <1>7, <1>10, <2>1, <3>1, <4>1
    <3>2. CASE ~(Len(F[n]) <= room)
      BY <1>4, <1>7, <1>10, <3>2
    <3> QED BY <3>1, <3>2
  <2>3. \A l \in 1..n : \A j \in 1..l - 1 : j \in 1..n - 1
    BY <1>5
  <2> QED BY <1>10, <1>11, <1>12, <2>1, <2>2, <2>3 DEF IsSelection, F, D
<1> QED BY <1>13, <1>14 DEF u, t, room, F

\* The survivors are a selection from all fronts.
LEMMA SurvivorsAreASelection ==
  ASSUME NEW pop, IsPopulation(pop), DistinctIds(pop), NEW size \in Nat
  PROVE  IsSelection(pop, size, Len(Fronts(pop)), Survivors(pop, size))
<1> DEFINE N == Len(Fronts(pop))
<1>1. PICK kept : IsKept(pop, size, kept) /\ Survivors(pop, size) = kept[N]
  BY SurvivorsFollow
<1>2. N \in Nat
  BY FrontsOfSweeps
<1> DEFINE bad == {n \in 0..N : ~IsSelection(pop, size, n, kept[n])}
<1>3. IsSelection(pop, size, 0, kept[0])
  <2>1. kept[0] = <<>>
    BY <1>1 DEF IsKept
  <2> QED BY <2>1 DEF IsSelection, NoTwice, ToSet
<1>4. bad = {}
  <2> SUFFICES ASSUME bad # {} PROVE FALSE
    OBVIOUS
  <2>1. bad \in SUBSET Nat
    BY <1>2
  <2>2. PICK n \in bad : \A j \in bad : n <= j
    BY <2>1, LeastNumber
  <2>3. n \in 1..N /\ n - 1 \in 0..N /\ n - 1 < n
    BY <1>2, <1>3, <2>2
  <2>4. IsSelection(pop, size, n - 1, kept[n - 1])
    BY <2>2, <2>3
  <2>5. kept[n] = kept[n - 1] \o Taken(pop, Fronts(pop)[n], size - Len(kept[n - 1]))
    BY <1>1, <2>3 DEF IsKept
  <2>6. IsSelection(pop, size, n, kept[n])
    BY <2>3, <2>4, <2>5, SelectionGrows
  <2> QED BY <2>2, <2>6
<1>5. IsSelection(pop, size, N, kept[N])
  BY <1>2, <1>4
<1> QED BY <1>1, <1>5

\* A truncation keeps as many as fit, nobody twice, and gives up nobody who dominates
\* one of those it keeps.
LEMMA TruncateIsFair ==
  ASSUME NEW pop, IsPopulation(pop), DistinctIds(pop), NEW size \in Nat
  PROVE  /\ DistinctIds(Truncate(pop, size))
         /\ Len(pop) > size => Len(Truncate(pop, size)) = size
         /\ \A i \in DOMAIN pop : ~Contains(Truncate(pop, size), pop[i]) =>
              \A k \in DOMAIN Truncate(pop, size) : ~Dominates(pop[i], Truncate(pop, size)[k])
<1> DEFINE t == Truncate(pop, size)
           s == Survivors(pop, size)
           F == Fronts(pop)
           D == DOMAIN pop
<1>1. Len(pop) \in Nat /\ D = 1..Len(pop)
  BY DEF IsPopulation
<1>2. t = IF Len(pop) <= size THEN pop ELSE [k \in DOMAIN s |-> pop[s[k]]]
  BY DEF Truncate
<1>3. /\ s \in Seq(D) /\ Len(s) <= size /\ NoTwice(s)
      /\ Len(s) = size \/ \A l \in 1..Len(F) : ToSet(F[l]) \subseteq ToSet(s)
      /\ \A l \in 1..Len(F) : \A i \in ToSet(s) : i \in ToSet(F[l]) =>
           \A j \in 1..l - 1 : ToSet(F[j]) \subseteq ToSet(s)
  BY SurvivorsAreASelection DEF IsSelection
<1>4. /\ DOMAIN F = 1..Len(F) /\ Len(F) \in Nat
      /\ \A q \in D : \E k \in DOMAIN F : q \in ToSet(F[k])
      /\ \A k \in DOMAIN F : \A q \in ToSet(F[k]) : \A p \in DominatorsOf(pop, q) :
           \E l \in DOMAIN F : l < k /\ p \in ToSet(F[l])
  BY FrontsAreLayers, FrontsOfSweeps
<1> HIDE DEF t, s, F, D
<1>5. ASSUME Len(pop) <= size
      PROVE  DistinctIds(t) /\ ~(Len(pop) > size) /\ \A i \in D : Contains(t, pop[i])
  <2>1. t = pop
    BY <1>2, <1>5
  <2>2. \A i \in D : Contains(t, pop[i])
    BY <1>1, <2>1 DEF Contains
  <2> QED BY <1>1, <1>5, <2>1, <2>2
<1>6. ASSUME ~(Len(pop) <= size)
      PROVE  /\ DistinctIds(t) /\ Len(t) = size
             /\ \A i \in D : ~Contains(t, pop[i]) =>
                  \A k \in DOMAIN t : ~Dominates(pop[i], t[k])
  <2>1. /\ Len(s) \in Nat /\ DOMAIN s = 1..Len(s) /\ \A k \in DOMAIN s : s[k] \in D
        /\ t = [k \in DOMAIN s |-> pop[s[k]]]
    BY <1>2, <1>3, <1>6
  <2>2. DOMAIN t = DOMAIN s /\ Len(t) = Len(s) /\ \A k \in DOMAIN s : t[k] = pop[s[k]]
    BY <2>1
  <2>3. DistinctIds(t)
    BY <1>3, <2>1, <2>2 DEF DistinctIds, NoTwice, D
  <2>4. Len(s) = size
    <3> SUFFICES ASSUME Len(s) # size PROVE FALSE
      OBVIOUS
    <3>1. \A q \in D : \E k \in DOMAIN s : s[k] = q
      BY <1>3, <1>4 DEF ToSet
    <3>2. s \in Surjection(1..Len(s), 1..Len(pop))
      <4>1. s \in [1..Len(s) -> D]
        BY <1>3
      <4>2. s \in Surjection(1..Len(s), D)
        BY <2>1, <3>1, <4>1 DEF Surjection
      <4> QED BY <1>1, <4>2
    <3>3. IsFiniteSet(1..Len(s)) /\ Cardinality(1..Len(s)) = Len(s)
      BY <2>1, UpToN
    <3>4. Cardinality(1..Len(pop)) = Len(pop)
      BY <1>1, UpToN
    <3>5. Cardinality(1..Len(pop)) <= Cardinality(1..Len(s))
      BY <3>2, <3>3, FS_Surjection
    <3>6. Len(pop) <= Len(s)
      BY <3>3, <3>4, <3>5
    <3>7. Len(s) \in Nat /\ Len(pop) \in Nat /\ Len(s) <= size /\ ~(Len(pop) <= size)
      BY <1>1, <1>3, <1>6, <2>1
    <3> DEFINE a == Len(s)
               b == Len(pop)
    <3> HIDE DEF a, b
    <3> QED BY <3>6, <3>7 DEF a, b
  <2>5. ASSUME NEW i \in D, ~Contains(t, pop[i]), NEW k \in DOMAIN t, Dominates(pop[i], t[k])
        PROVE  FALSE
    <3>1. i \notin ToSet(s)
      <4>1. \A a \in 1..Len(t) : t[a] # pop[i]
        BY <2>5 DEF Contains
      <4> QED BY <2>1, <2>2, <4>1 DEF ToSet
    <3>2. k \in DOMAIN s /\ s[k] \in D /\ s[k] \in ToSet(s) /\ i \in DominatorsOf(pop, s[k])
      BY <2>1, <2>2, <2>5 DEF ToSet, DominatorsOf, D
    <3>3. PICK l \in DOMAIN F : s[k] \in ToSet(F[l])
      BY <1>4, <3>2
    <3>4. PICK j \in DOMAIN F : j < l /\ i \in ToSet(F[j])
      BY <1>4, <3>2, <3>3
    <3>5. j \in 1..l - 1 /\ l \in 1..Len(F)
      BY <1>4, <3>4
    <3> QED BY <1>3, <3>1, <3>2, <3>3, <3>4, <3>5
  <2> QED BY <2>2, <2>3, <2>4, <2>5
<1> QED BY <1>5, <1>6 DEF t, D

-----------------------------------------------------------------------------
(***************************************************************************)
(* Individuals and newcomers.                                              *)
(***************************************************************************)
\* The best packing ratio of a population is the one of somebody, and nobody's is better.
LEMMA BestPackIsReached ==
  ASSUME NEW pop, IsPopulation(pop)
  PROVE  /\ BestPack(pop) \in Nat
         /\ \A i \in DOMAIN pop : pop[i].pack <= BestPack(pop)
         /\ BestPack(pop) = 0 \/ \E i \in DOMAIN pop : pop[i].pack = BestPack(pop)
<1> DEFINE P == {pop[k].pack : k \in DOMAIN pop} \cup {0}
           flat == [k \in DOMAIN pop |-> [pack |-> pop[k].pack, fuel |-> 0]]
<1>1. \A k \in DOMAIN pop : pop[k].pack \in Nat
  BY DEF IsPopulation
<1>2. \E m \in P : \A x \in P : m >= x
  <2>1. CASE DOMAIN pop = {}
    BY <2>1
  <2>2. CASE DOMAIN pop # {}
    <3>1. IsPopulation(flat) /\ DOMAIN flat = DOMAIN pop
      BY <1>1 DEF IsPopulation
    <3>2. PICK k \in DOMAIN pop : \A j \in DOMAIN pop : ~Dominates(flat[j], flat[k])
      <4> HIDE DEF flat
      <4> QED BY <2>2, <3>1, Foremost
    <3>3. \A j \in DOMAIN pop : pop[k].pack >= pop[j].pack
      <4>1. \A j \in DOMAIN pop : flat[j].pack = pop[j].pack /\ flat[j].fuel = 0
        OBVIOUS
      <4> HIDE DEF flat
      <4> QED BY <1>1, <3>2, <4>1 DEF Dominates
    <3> QED BY <1>1, <3>3
  <2> QED BY <2>1, <2>2
<1>3. BestPack(pop) = CHOOSE m \in P : \A x \in P : m >= x
  BY DEF BestPack, Max
<1> DEFINE b == BestPack(pop)
<1>4. b \in P /\ \A x \in P : b >= x
  <2> HIDE DEF P, b
  <2> QED BY <1>2, <1>3 DEF b
<1> HIDE DEF b
<1>5. b \in Nat
  BY <1>1, <1>4
<1>6. \A i \in DOMAIN pop : pop[i].pack <= b
  BY <1>1, <1>4, <1>5
<1>7. b = 0 \/ \E i \in DOMAIN pop : pop[i].pack = b
  BY <1>4
<1> QED BY <1>5, <1>6, <1>7 DEF b

\* The least fuel of a population is somebody's.
LEMMA LeastFuelIsReached ==
  ASSUME NEW pop, IsPopulation(pop), pop # <<>>
  PROVE  /\ LeastFuel(pop) \in Nat
         /\ \A i \in DOMAIN pop : LeastFuel(pop) <= pop[i].fuel
         /\ \E i \in DOMAIN pop : pop[i].fuel = LeastFuel(pop)
<1> DEFINE F == {pop[k].fuel : k \in DOMAIN pop}
           b == LeastFuel(pop)
<1>1. \A k \in DOMAIN pop : pop[k].fuel \in Nat
  BY DEF IsPopulation
<1>2. F \in SUBSET Nat /\ F # {}
  BY <1>1 DEF IsPopulation
<1>3. \E m \in F : \A x \in F : m <= x
  <2> HIDE DEF F
  <2> QED BY <1>2, LeastNumber
<1>4. b = CHOOSE m \in F : \A x \in F : m <= x
  BY DEF LeastFuel, Min
<1>5. b \in F /\ \A x \in F : b <= x
  <2> HIDE DEF F, b
  <2> QED BY <1>3, <1>4
<1> HIDE DEF b
<1> QED BY <1>1, <1>5 DEF b

\* Where everybody is matched in packing, or in fuel, the best one is.
LEMMA MatchedExtremes ==
  ASSUME NEW pop, IsPopulation(pop), NEW t, IsPopulation(t)
  PROVE  /\ (\A i \in DOMAIN pop : \E k \in DOMAIN t : pop[i].pack <= t[k].pack)
              => BestPack(t) >= BestPack(pop)
         /\ pop # <<>> /\ (\A i \in DOMAIN pop : \E k \in DOMAIN t : t[k].fuel <= pop[i].fuel)
              => LeastFuel(t) <= LeastFuel(pop)
<1>1. /\ BestPack(t) \in Nat /\ \A k \in DOMAIN t : t[k].pack <= BestPack(t)
      /\ BestPack(pop) \in Nat
      /\ BestPack(pop) = 0 \/ \E i \in DOMAIN pop : pop[i].pack = BestPack(pop)
      /\ \A k \in DOMAIN t : t[k].pack \in Nat
  BY BestPackIsReached DEF IsPopulation
<1>2. ASSUME \A i \in DOMAIN pop : \E k \in DOMAIN t : pop[i].pack <= t[k].pack
      PROVE  BestPack(t) >= BestPack(pop)
  <2>1. CASE BestPack(pop) = 0
    BY <1>1, <2>1
  <2>2. ASSUME NEW i \in DOMAIN pop, pop[i].pack = BestPack(pop)
        PROVE  BestPack(t) >= BestPack(pop)
    <3>1. PICK k \in DOMAIN t : pop[i].pack <= t[k].pack
      BY <1>2
    <3> QED BY <1>1, <2>2, <3>1
  <2> QED BY <1>1, <2>1, <2>2
<1>3. ASSUME pop # <<>>, \A i \in DOMAIN pop : \E k \in DOMAIN t : t[k].fuel <= pop[i].fuel
      PROVE  LeastFuel(t) <= LeastFuel(pop)
  <2>1. LeastFuel(pop) \in Nat /\ \E i \in DOMAIN pop : pop[i].fuel = LeastFuel(pop)
    BY <1>3, LeastFuelIsReached
  <2>2. PICK i \in DOMAIN pop : pop[i].fuel = LeastFuel(pop)
    BY <2>1
  <2>3. PICK k \in DOMAIN t : t[k].fuel <= pop[i].fuel
    BY <1>3
  <2>4. t # <<>>
    BY <2>3
  <2>5. LeastFuel(t) \in Nat /\ LeastFuel(t) <= t[k].fuel /\ t[k].fuel \in Nat
    BY <2>4, LeastFuelIsReached DEF IsPopulation
  <2> QED BY <2>1, <2>2, <2>3, <2>5
<1> QED BY <1>2, <1>3

\* A sequence of individuals is a population.
LEMMA IndividualsArePopulation ==
  ASSUME NEW S, \A x \in S : x.pack \in Nat /\ x.fuel \in Nat, NEW pop \in Seq(S)
  PROVE  IsPopulation(pop)
<1>1. Len(pop) \in Nat /\ DOMAIN pop = 1..Len(pop) /\ \A i \in DOMAIN pop : pop[i] \in S
  OBVIOUS
<1> QED BY <1>1 DEF IsPopulation

\* A population with one more.
LEMMA Newcomer ==
  ASSUME NEW S, \A x \in S : x.pack \in Nat /\ x.fuel \in Nat,
         NEW pop \in Seq(S), NEW ind \in S
  PROVE  /\ Append(pop, ind) \in Seq(S)
         /\ \A k \in DOMAIN Append(pop, ind) :
              Append(pop, ind)[k] = ind \/ \E i \in DOMAIN pop : Append(pop, ind)[k] = pop[i]
         /\ \A i \in DOMAIN pop : i \in DOMAIN Append(pop, ind) /\ Append(pop, ind)[i] = pop[i]
         /\ Len(pop) + 1 \in DOMAIN Append(pop, ind) /\ Append(pop, ind)[Len(pop) + 1] = ind
         /\ Len(Append(pop, ind)) = Len(pop) + 1
         /\ NamesakesAreEqual(pop)
              /\ (\A i \in DOMAIN pop : pop[i].id = ind.id =>
                    pop[i].pack = ind.pack /\ pop[i].fuel = ind.fuel)
              => NamesakesAreEqual(Append(pop, ind))
<1> DEFINE grown == Append(pop, ind)
           n == Len(pop)
<1>1. n \in Nat /\ DOMAIN pop = 1..n /\ \A i \in DOMAIN pop : pop[i] \in S
  OBVIOUS
<1>2. /\ grown \in Seq(S) /\ Len(grown) = n + 1 /\ DOMAIN grown = 1..(n + 1)
      /\ grown[n + 1] = ind /\ \A i \in 1..n : grown[i] = pop[i]
  OBVIOUS
<1> HIDE DEF grown, n
<1>3. \A i \in DOMAIN pop : i \in DOMAIN grown /\ grown[i] = pop[i]
  BY <1>1, <1>2
<1>4. \A k \in DOMAIN grown : grown[k] = ind \/ \E i \in DOMAIN pop : grown[k] = pop[i]
  BY <1>1, <1>2
<1>5. ASSUME NamesakesAreEqual(pop),
             \A i \in DOMAIN pop : pop[i].id = ind.id =>
               pop[i].pack = ind.pack /\ pop[i].fuel = ind.fuel
      PROVE  NamesakesAreEqual(grown)
  BY <1>4, <1>5 DEF NamesakesAreEqual
<1> QED BY <1>1, <1>2, <1>3, <1>4, <1>5 DEF grown, n

\* register_heuristic: the newcomer is admitted and the population truncated.
LEMMA Registered ==
  ASSUME NEW S, \A x \in S : x.pack \in Nat /\ x.fuel \in Nat,
         NEW pop \in Seq(S), NEW ind \in S, NEW size \in Nat,
         NEW t, t = Truncate(Append(pop, ind), size)
  PROVE  /\ t \in Seq(S) /\ Len(t) <= size
         /\ \A k \in DOMAIN t : t[k] = ind \/ \E i \in DOMAIN pop : t[k] = pop[i]
         /\ NamesakesAreEqual(Append(pop, ind)) =>
              /\ NamesakesAreEqual(t)
              /\ size >= 2 =>
                   /\ BestPack(t) >= BestPack(pop)
                   /\ BestPack(t) >= ind.pack
                   /\ pop # <<>> => LeastFuel(t) <= LeastFuel(pop)
<1> DEFINE grown == Append(pop, ind)
<1>1. /\ grown \in Seq(S)
      /\ \A k \in DOMAIN grown : grown[k] = ind \/ \E i \in DOMAIN pop : grown[k] = pop[i]
      /\ \A i \in DOMAIN pop : i \in DOMAIN grown /\ grown[i] = pop[i]
      /\ Len(pop) + 1 \in DOMAIN grown /\ grown[Len(pop) + 1] = ind
  BY Newcomer
<1>2. IsPopulation(pop) /\ IsPopulation(grown)
  BY <1>1, IndividualsArePopulation
<1>3. /\ t \in Seq(S) /\ Len(t) <= size
      /\ \A k \in DOMAIN t : \E i \in DOMAIN grown : t[k] = grown[i]
  <2>1. t = Truncate(grown, size)
    OBVIOUS
  <2> HIDE DEF grown
  <2>2. /\ Truncate(grown, size) \in Seq(S) /\ Len(Truncate(grown, size)) <= size
        /\ \A k \in DOMAIN Truncate(grown, size) :
             \E i \in DOMAIN grown : Truncate(grown, size)[k] = grown[i]
    BY <1>1, <1>2, TruncateSelects
  <2> QED BY <2>1, <2>2
<1>4. IsPopulation(t)
  BY <1>3, IndividualsArePopulation
<1>5. \A k \in DOMAIN t : t[k] = ind \/ \E i \in DOMAIN pop : t[k] = pop[i]
  BY <1>1, <1>3
<1>6. ASSUME NamesakesAreEqual(grown) PROVE NamesakesAreEqual(t)
  <2> HIDE DEF grown
  <2> SUFFICES ASSUME NEW a \in DOMAIN t, NEW b \in DOMAIN t, t[a].id = t[b].id
               PROVE  t[a].pack = t[b].pack /\ t[a].fuel = t[b].fuel
    BY DEF NamesakesAreEqual
  <2>1. PICK i \in DOMAIN grown : t[a] = grown[i]
    BY <1>3
  <2>2. PICK k \in DOMAIN grown : t[b] = grown[k]
    BY <1>3
  <2> QED BY <1>6, <2>1, <2>2 DEF NamesakesAreEqual
<1>7. ASSUME NamesakesAreEqual(grown), size >= 2
      PROVE  /\ BestPack(t) >= BestPack(pop)
             /\ BestPack(t) >= ind.pack
             /\ pop # <<>> => LeastFuel(t) <= LeastFuel(pop)
  <2>1. \A i \in DOMAIN grown :
          /\ \E k \in DOMAIN t : grown[i].pack <= t[k].pack
          /\ \E k \in DOMAIN t : t[k].fuel <= grown[i].fuel
    BY <1>2, <1>7, TruncateSparesTheExtremes
  <2>2. \A i \in DOMAIN pop :
          /\ \E k \in DOMAIN t : pop[i].pack <= t[k].pack
          /\ \E k \in DOMAIN t : t[k].fuel <= pop[i].fuel
    BY <1>1, <2>1
  <2>3. /\ BestPack(t) >= BestPack(pop)
        /\ pop # <<>> => LeastFuel(t) <= LeastFuel(pop)
    BY <1>2, <1>4, <2>2, MatchedExtremes
  <2>4. PICK k \in DOMAIN t : ind.pack <= t[k].pack
    BY <1>1, <2>1
  <2>5. t[k].pack \in Nat /\ t[k].pack <= BestPack(t) /\ BestPack(t) \in Nat /\ ind.pack \in Nat
    BY <1>4, BestPackIsReached DEF IsPopulation
  <2>6. BestPack(t) >= ind.pack
    BY <2>4, <2>5
  <2> QED BY <2>3, <2>6
<1> QED BY <1>3, <1>5, <1>6, <1>7

-----------------------------------------------------------------------------
(***************************************************************************)
(* The remedies of the profiler.                                           *)
(***************************************************************************)
\* The unbroken run of close scores is found, and is the longest one.
LEMMA StagnationRun ==
  ASSUME NEW h, Len(h) \in Nat \ {0}, NEW n \in 0..Len(h) - 1,
         \A k \in 1..n : Close(h[Len(h) - k], Last(h)),
         n = Len(h) - 1 \/ ~Close(h[Len(h) - (n + 1)], Last(h))
  PROVE  StagnationCount(h) = n
<1> DEFINE runs == {m \in 0..Len(h) - 1 : \A k \in 1..m : Close(h[Len(h) - k], Last(h))}
<1>1. n \in runs
  OBVIOUS
<1>2. ASSUME NEW m \in runs PROVE m <= n
  <2>1. m \in 0..Len(h) - 1 /\ \A k \in 1..m : Close(h[Len(h) - k], Last(h))
    OBVIOUS
  <2>2. CASE m > n
    <3>1. n + 1 \in 1..m /\ n # Len(h) - 1
      BY <2>1, <2>2
    <3>2. Close(h[Len(h) - (n + 1)], Last(h))
      BY <2>1, <3>1
    <3> QED BY <3>1, <3>2
  <2> QED BY <2>1, <2>2
<1>3. \A m \in runs : m \in Nat
  OBVIOUS
<1>4. StagnationCount(h) = Max(runs)
  BY DEF StagnationCount
<1> HIDE DEF runs
<1>5. Max(runs) \in runs /\ Max(runs) >= n
  BY <1>1, <1>2, <1>3 DEF Max
<1> QED BY <1>2, <1>3, <1>4, <1>5

\* More than two windows of close scores before the newest one are a flat history.
LEMMA StagnationIsFlat ==
  ASSUME NEW h, Len(h) \in Nat \ {0}
  PROVE  StagnationCount(h) > 2 * Window <=> IsFlat(h)
<1> DEFINE stops == {m \in 0..Len(h) - 1 :
                      m = Len(h) - 1 \/ ~Close(h[Len(h) - (m + 1)], Last(h))}
<1>1. Window \in Nat \ {0}
  BY ProfilerAssumption
<1>2. PICK n \in stops : \A m \in stops : n <= m
  <2>1. stops \in SUBSET Nat /\ Len(h) - 1 \in stops
    OBVIOUS
  <2> HIDE DEF stops
  <2> QED BY <2>1, LeastNumber
<1>3. \A k \in 1..n : Close(h[Len(h) - k], Last(h))
  <2> TAKE k \in 1..n
  <2>1. /\ k - 1 \in 0..Len(h) - 1 /\ k - 1 < n /\ (k - 1) + 1 = k
        /\ k - 1 \in Int /\ n \in Int
    BY <1>2
  <2>2. k - 1 \notin stops
    <3>1. ~(n <= k - 1)
      BY <2>1
    <3> HIDE DEF stops
    <3> QED BY <1>2, <3>1
  <2> QED BY <2>1, <2>2
<1>4. StagnationCount(h) = n
  BY <1>2, <1>3, StagnationRun
<1>5. CASE n > 2 * Window
  <2>1. Len(h) > 2 * Window + 1 /\ \A k \in 1..2 * Window + 1 : k \in 1..n
    BY <1>1, <1>2, <1>5
  <2> QED BY <1>3, <1>4, <1>5, <2>1 DEF IsFlat
<1>6. CASE ~(n > 2 * Window)
  <2>1. ASSUME IsFlat(h) PROVE FALSE
    <3>1. n + 1 \in 1..2 * Window + 1 /\ n # Len(h) - 1
      BY <1>1, <1>2, <1>6, <2>1 DEF IsFlat
    <3>2. Close(h[Len(h) - (n + 1)], Last(h))
      BY <2>1, <3>1 DEF IsFlat
    <3> QED BY <1>2, <3>1, <3>2
  <2> QED BY <1>4, <1>6, <2>1
<1> QED BY <1>5, <1>6

\* A full window has as many entries as it is wide, and only so many can stray.
LEMMA FullWindow ==
  ASSUME NEW h, Len(h) \in Nat, Len(h) >= Window, NEW e
  PROVE  /\ Len(LastWindow(h)) = Window
         /\ Cardinality(Strays(h, e)) \in Nat
<1>1. Window \in Nat \ {0}
  BY ProfilerAssumption
<1>2. LastWindow(h) = SubSeq(h, Len(h) - Window + 1, Len(h))
  BY DEF LastWindow
<1>3. DOMAIN LastWindow(h) = 1..Window /\ Len(LastWindow(h)) = Window
  BY <1>1, <1>2
<1>4. Strays(h, e) \in SUBSET (1..Window)
  BY <1>3 DEF Strays
<1> QED BY <1>1, <1>3, <1>4, UpToN

\* What the profiler suggests for a history of any length: nothing before a window is
\* full; where few stray from one phenotype a migration, and after two more flat
\* windows a restart; never a restart where many stray from every phenotype, or on a
\* score that beats all the others.
LEMMA RemediesOfAnyHistory ==
  ASSUME NEW P, NEW h \in Seq([fitness : Nat, print : P]), h # <<>>
  PROVE  Escalates(h)
<1>1. /\ Window \in Nat \ {0} /\ Window <= 20 /\ Epsilon \in Nat \ {0}
      /\ Len(h) \in Nat \ {0} /\ DOMAIN h = 1..Len(h)
  BY ProfilerAssumption
<1> DEFINE Scores == [fitness : Nat, print : P]
           share(e) == Cardinality(Strays(h, e))
           kinds(e) == Cardinality({LastWindow(h)[k].print : k \in Strays(h, e)})
           window == ToSet(LastWindow(h))
<1>2. \A i \in 1..Len(h) : h[i] \in Scores
  <2>1. h \in Seq(Scores)
    OBVIOUS
  <2> HIDE DEF Scores
  <2> QED BY <2>1
<1>3. Last(h) = h[Len(h)]
  BY DEF Last
<1>4. Len(h) < Window => SuggestedAction(h) = "NOMINAL"
  BY DEF SuggestedAction
<1>5. EntropyCollapsed(h) <=>
        \E e \in window :
            \/ share(e) = 0
            \/ share(e) = 1 /\ Window >= 7
            \/ share(e) = 2 /\ Window >= (IF kinds(e) = 1 THEN 14 ELSE 19)
  BY DEF EntropyCollapsed
<1>6. ASSUME Len(h) >= Window, NEW e \in window, 10 * share(e) <= Window
      PROVE  SuggestedAction(h) = IF IsFlat(h) THEN "CATACLYSMIC_RESTART" ELSE "RING_MIGRATION"
  <2>1. share(e) \in Nat
    BY <1>1, <1>6, FullWindow
  <2> HIDE DEF share, kinds
  <2>2. share(e) = 0 \/ (share(e) = 1 /\ Window >= 7) \/ (share(e) = 2 /\ Window >= 19)
    BY <1>1, <1>6, <2>1
  <2>3. Window >= 19 => Window >= (IF kinds(e) = 1 THEN 14 ELSE 19)
    BY <1>1
  <2>4. EntropyCollapsed(h)
    BY <1>5, <1>6, <2>2, <2>3
  <2>5. ~(Len(h) < Window)
    BY <1>1, <1>6
  <2> QED BY <1>1, <2>4, <2>5, StagnationIsFlat DEF SuggestedAction
<1>7. ASSUME Len(h) >= Window, \A e \in window : 6 * share(e) >= Window
      PROVE  SuggestedAction(h) # "CATACLYSMIC_RESTART"
  <2>1. ASSUME NEW e \in window
        PROVE  /\ share(e) # 0
               /\ ~(share(e) = 1 /\ Window >= 7)
               /\ ~(share(e) = 2 /\ Window >= (IF kinds(e) = 1 THEN 14 ELSE 19))
    <3>1. share(e) \in Nat /\ 6 * share(e) >= Window
      BY <1>1, <1>7, <2>1, FullWindow
    <3> HIDE DEF share, kinds
    <3> QED BY <1>1, <3>1
  <2>2. ~EntropyCollapsed(h)
    BY <1>5, <2>1
  <2> QED BY <2>2 DEF SuggestedAction
<1>8. ASSUME Len(h) > 1, \A i \in 1..Len(h) - 1 : Last(h).fitness >= h[i].fitness + Epsilon
      PROVE  SuggestedAction(h) # "CATACLYSMIC_RESTART"
  <2>1. ~Close(h[Len(h) - (0 + 1)], Last(h))
    <3>1. Len(h) - 1 \in 1..Len(h) - 1 /\ Len(h) - 1 \in 1..Len(h) /\ Len(h) - (0 + 1) = Len(h) - 1
      BY <1>1, <1>8
    <3>2. Last(h).fitness >= h[Len(h) - 1].fitness + Epsilon
      BY <1>8, <3>1
    <3>3. Last(h).fitness \in Nat /\ h[Len(h) - 1].fitness \in Nat
      BY <1>1, <1>2, <1>3, <3>1
    <3>4. ~(Last(h).fitness - h[Len(h) - 1].fitness < Epsilon)
      BY <1>1, <3>2, <3>3
    <3> QED BY <3>1, <3>4 DEF Close
  <2>2. 0 \in 0..Len(h) - 1 /\ \A k \in 1..0 : Close(h[Len(h) - k], Last(h))
    BY <1>1
  <2>3. StagnationCount(h) = 0
    BY <1>1, <2>1, <2>2, StagnationRun
  <2>4. ~(StagnationCount(h) > 2 * Window)
    BY <1>1, <2>3
  <2> QED BY <2>4 DEF SuggestedAction
<1>9. Len(h) >= Window =>
        /\ (\E e \in window : 10 * share(e) <= Window) =>
             SuggestedAction(h) = IF IsFlat(h) THEN "CATACLYSMIC_RESTART" ELSE "RING_MIGRATION"
        /\ (\A e \in window : 6 * share(e) >= Window) =>
             SuggestedAction(h) # "CATACLYSMIC_RESTART"
  BY <1>6, <1>7
<1> QED BY <1>4, <1>8, <1>9 DEF Escalates

-----------------------------------------------------------------------------
(***************************************************************************)
(* The sweep of the dashboard.                                             *)
(***************************************************************************)
\* The order of the sweep: by fuel, the leads packing first where it is the same.
SweepOrder(pop) ==
  StableSort(StableSort(Positions(pop), [i \in DOMAIN pop |-> -pop[i].pack]),
             [i \in DOMAIN pop |-> pop[i].fuel])

\* The order of the sweep has everybody once, by fuel and then by packing.
LEMMA SweepOrderIsLexicographic ==
  ASSUME NEW pop, IsPopulation(pop)
  PROVE  /\ SweepOrder(pop) \in Seq(DOMAIN pop)
         /\ DOMAIN SweepOrder(pop) = DOMAIN pop
         /\ \A i \in DOMAIN pop : \E k \in DOMAIN pop : SweepOrder(pop)[k] = i
         /\ \A k, l \in DOMAIN pop : k < l =>
              /\ SweepOrder(pop)[k] # SweepOrder(pop)[l]
              /\ pop[SweepOrder(pop)[k]].fuel <= pop[SweepOrder(pop)[l]].fuel
              /\ pop[SweepOrder(pop)[k]].fuel = pop[SweepOrder(pop)[l]].fuel =>
                   pop[SweepOrder(pop)[l]].pack <= pop[SweepOrder(pop)[k]].pack
<1> DEFINE D == DOMAIN pop
           p == Positions(pop)
           packs == [i \in DOMAIN pop |-> -pop[i].pack]
           fuels == [i \in DOMAIN pop |-> pop[i].fuel]
           s == StableSort(p, packs)
           t == StableSort(s, fuels)
<1>1. /\ Len(pop) \in Nat /\ D = 1..Len(pop)
      /\ \A i \in D : pop[i].pack \in Nat /\ pop[i].fuel \in Nat
  BY DEF IsPopulation
<1>2. p \in Seq(D) /\ DOMAIN p = D /\ \A i \in D : p[i] = i
  BY <1>1 DEF Positions
<1>3. \A i \in D : /\ packs[i] \in Int /\ packs[i] = -pop[i].pack
                   /\ fuels[i] \in Int /\ fuels[i] = pop[i].fuel
  BY <1>1
<1> HIDE DEF p, packs, fuels, s, t, D
<1>4. \A k \in DOMAIN p : packs[p[k]] \in Int
  BY <1>2, <1>3
<1>5. /\ s \in Seq(D) /\ DOMAIN s = DOMAIN p
      /\ \E from \in [DOMAIN p -> DOMAIN p] :
              /\ \A k \in DOMAIN p : s[k] = p[from[k]]
              /\ \A i \in DOMAIN p : \E k \in DOMAIN p : from[k] = i
              /\ \A k, l \in DOMAIN p : k < l =>
                   \/ packs[p[from[k]]] < packs[p[from[l]]]
                   \/ packs[p[from[k]]] = packs[p[from[l]]] /\ from[k] < from[l]
  BY <1>2, <1>4, SortedStably DEF s
<1>6. PICK f \in [D -> D] :
              /\ \A k \in D : s[k] = f[k]
              /\ \A i \in D : \E k \in D : f[k] = i
              /\ \A k, l \in D : k < l =>
                   \/ packs[f[k]] < packs[f[l]]
                   \/ packs[f[k]] = packs[f[l]] /\ f[k] < f[l]
  <2>1. DOMAIN p = D
    BY <1>2
  <2>2. PICK f \in [DOMAIN p -> DOMAIN p] :
              /\ \A k \in DOMAIN p : s[k] = p[f[k]]
              /\ \A i \in DOMAIN p : \E k \in DOMAIN p : f[k] = i
              /\ \A k, l \in DOMAIN p : k < l =>
                   \/ packs[p[f[k]]] < packs[p[f[l]]]
                   \/ packs[p[f[k]]] = packs[p[f[l]]] /\ f[k] < f[l]
    BY <1>5
  <2>3. \A k \in D : p[f[k]] = f[k]
    BY <1>2
  <2>4. \A k, l \in D : k < l =>
                   \/ packs[f[k]] < packs[f[l]]
                   \/ packs[f[k]] = packs[f[l]] /\ f[k] < f[l]
    BY <2>1, <2>2, <2>3
  <2> QED BY <2>1, <2>2, <2>3, <2>4
<1>7. \A k \in DOMAIN s : fuels[s[k]] \in Int
  BY <1>2, <1>3, <1>5
<1>8. /\ t \in Seq(D) /\ DOMAIN t = DOMAIN s
      /\ \E from \in [DOMAIN s -> DOMAIN s] :
              /\ \A k \in DOMAIN s : t[k] = s[from[k]]
              /\ \A i \in DOMAIN s : \E k \in DOMAIN s : from[k] = i
              /\ \A k, l \in DOMAIN s : k < l =>
                   \/ fuels[s[from[k]]] < fuels[s[from[l]]]
                   \/ fuels[s[from[k]]] = fuels[s[from[l]]] /\ from[k] < from[l]
  <2>1. s \in Seq(D)
    BY <1>5
  <2> QED BY <1>7, <2>1, SortedStably DEF t
<1>9. PICK g \in [D -> D] :
              /\ \A k \in D : t[k] = f[g[k]]
              /\ \A i \in D : \E k \in D : g[k] = i
              /\ \A k, l \in D : k < l =>
                   \/ fuels[f[g[k]]] < fuels[f[g[l]]]
                   \/ fuels[f[g[k]]] = fuels[f[g[l]]] /\ g[k] < g[l]
  <2>1. DOMAIN s = D
    BY <1>2, <1>5
  <2>2. PICK g \in [D -> D] :
              /\ \A k \in D : t[k] = s[g[k]]
              /\ \A i \in D : \E k \in D : g[k] = i
              /\ \A k, l \in D : k < l =>
                   \/ fuels[s[g[k]]] < fuels[s[g[l]]]
                   \/ fuels[s[g[k]]] = fuels[s[g[l]]] /\ g[k] < g[l]
    BY <1>8, <2>1
  <2>3. \A k \in D : s[g[k]] = f[g[k]]
    BY <1>6
  <2>4. \A k, l \in D : k < l =>
                   \/ fuels[f[g[k]]] < fuels[f[g[l]]]
                   \/ fuels[f[g[k]]] = fuels[f[g[l]]] /\ g[k] < g[l]
    <3> TAKE k, l \in D
    <3>1. s[g[k]] = f[g[k]] /\ s[g[l]] = f[g[l]]
      BY <2>3
    <3> QED BY <2>2, <3>1
  <2>5. \A k \in D : t[k] = f[g[k]]
    BY <2>2, <2>3
  <2> QED BY <2>2, <2>4, <2>5
<1>10. ASSUME NEW i \in D PROVE \E k \in D : t[k] = i
  <2>1. PICK j \in D : f[j] = i
    BY <1>6
  <2>2. PICK k \in D : g[k] = j
    BY <1>9
  <2> QED BY <1>9, <2>1, <2>2
<1>11. ASSUME NEW k \in D, NEW l \in D, k < l
       PROVE  /\ t[k] # t[l]
              /\ pop[t[k]].fuel <= pop[t[l]].fuel
              /\ pop[t[k]].fuel = pop[t[l]].fuel => pop[t[l]].pack <= pop[t[k]].pack
  <2> DEFINE a == f[g[k]]
             b == f[g[l]]
  <2>1. a \in D /\ b \in D /\ g[k] \in D /\ g[l] \in D /\ t[k] = a /\ t[l] = b
    BY <1>9
  <2>2. fuels[a] < fuels[b] \/ (fuels[a] = fuels[b] /\ g[k] < g[l])
    BY <1>9, <1>11
  <2>3. g[k] < g[l] => packs[a] < packs[b] \/ (packs[a] = packs[b] /\ a < b)
    BY <1>6, <2>1
  <2>4. /\ pop[a].fuel \in Nat /\ pop[b].fuel \in Nat /\ pop[a].pack \in Nat /\ pop[b].pack \in Nat
        /\ fuels[a] = pop[a].fuel /\ fuels[b] = pop[b].fuel
        /\ packs[a] = -pop[a].pack /\ packs[b] = -pop[b].pack
        /\ a \in Nat /\ b \in Nat
    <3> HIDE DEF a, b
    <3> QED BY <1>1, <1>3, <2>1
  <2> HIDE DEF a, b
  <2>5. CASE fuels[a] < fuels[b]
    BY <2>1, <2>4, <2>5
  <2>6. CASE fuels[a] = fuels[b] /\ (packs[a] < packs[b] \/ (packs[a] = packs[b] /\ a < b))
    BY <2>1, <2>4, <2>6
  <2> QED BY <2>2, <2>3, <2>5, <2>6
<1>12. t = SweepOrder(pop)
  BY DEF t, s, p, packs, fuels, SweepOrder
<1>13. t \in Seq(D) /\ DOMAIN t = D
  BY <1>2, <1>5, <1>8
<1> QED BY <1>10, <1>11, <1>12, <1>13 DEF D

\* Where namesakes are equal, the sweep finds the points of the first front, each
\* of them once.
LEMMA SweepFindsTheFront ==
  ASSUME NEW pop, IsPopulation(pop), NamesakesAreEqual(pop)
  PROVE  LET Point(i) == <<pop[i].pack, pop[i].fuel>>
         IN  /\ {Point(i) : i \in Sweep(pop)} = {Point(i) : i \in ToSet(FirstFront(pop))}
             /\ \A i, k \in Sweep(pop) : i # k => Point(i) # Point(k)
<1> DEFINE D == DOMAIN pop
           t == SweepOrder(pop)
           Ahead(k) == \A j \in 1..k - 1 : pop[t[j]].pack < pop[t[k]].pack
           leads == {k \in D : Ahead(k)}
           front == ToSet(FirstFront(pop))
           Point(i) == <<pop[i].pack, pop[i].fuel>>
<1>1. /\ Len(pop) \in Nat /\ D = 1..Len(pop)
      /\ \A i \in D : pop[i].pack \in Nat /\ pop[i].fuel \in Nat
  BY DEF IsPopulation
<1>2. t \in Seq(D) /\ DOMAIN t = D /\ \A i \in D : \E k \in D : t[k] = i
  BY SweepOrderIsLexicographic
<1>3. \A k, l \in D : k < l =>
              /\ t[k] # t[l]
              /\ pop[t[k]].fuel <= pop[t[l]].fuel
              /\ pop[t[k]].fuel = pop[t[l]].fuel => pop[t[l]].pack <= pop[t[k]].pack
  BY SweepOrderIsLexicographic
<1>4. Sweep(pop) = {t[k] : k \in leads}
  BY <1>2 DEF Sweep, SweepOrder
<1>5. front = {i \in D : DominatorsOf(pop, i) = {}}
  <2>1. /\ FirstFront(pop) \in Seq(D)
        /\ \A k \in DOMAIN FirstFront(pop) : DominatorsOf(pop, FirstFront(pop)[k]) = {}
        /\ \A i \in D : DominatorsOf(pop, i) = {} =>
             \E k \in DOMAIN FirstFront(pop) : FirstFront(pop)[k] = i
    BY FirstFrontIsUndominated
  <2> QED BY <2>1 DEF ToSet
<1> HIDE DEF t
<1>6. \A k \in D : t[k] \in D
  BY <1>2
<1>7. ASSUME NEW k \in leads PROVE t[k] \in front
  <2>1. k \in D /\ t[k] \in D /\ Ahead(k)
    BY <1>6
  <2>2. ASSUME NEW j \in D, Dominates(pop[j], pop[t[k]]) PROVE FALSE
    <3>1. PICK m \in D : t[m] = j
      BY <1>2
    <3>2. /\ pop[j].pack >= pop[t[k]].pack /\ pop[j].fuel <= pop[t[k]].fuel
          /\ pop[j].pack > pop[t[k]].pack \/ pop[j].fuel < pop[t[k]].fuel
      BY <2>2 DEF Dominates
    <3>3. /\ pop[j].pack \in Nat /\ pop[j].fuel \in Nat
          /\ pop[t[k]].pack \in Nat /\ pop[t[k]].fuel \in Nat
          /\ m \in Nat /\ k \in Nat
      BY <1>1, <2>1
    <3>4. CASE m < k
      <4>1. m \in 1..k - 1
        BY <1>1, <3>3, <3>4
      <4>2. pop[t[m]].pack < pop[t[k]].pack
        BY <2>1, <4>1
      <4> QED BY <3>1, <3>2, <3>3, <4>2
    <3>5. CASE k < m
      <4>1. /\ pop[t[k]].fuel <= pop[t[m]].fuel
            /\ pop[t[k]].fuel = pop[t[m]].fuel => pop[t[m]].pack <= pop[t[k]].pack
        BY <1>3, <2>1, <3>5
      <4> QED BY <3>1, <3>2, <3>3, <4>1
    <3>6. CASE k = m
      BY <3>1, <3>2, <3>3, <3>6
    <3> QED BY <3>3, <3>4, <3>5, <3>6
  <2> QED BY <1>5, <2>1, <2>2 DEF DominatorsOf
<1>8. ASSUME NEW i \in front PROVE \E k \in leads : Point(t[k]) = Point(i)
  <2>1. i \in D /\ DominatorsOf(pop, i) = {}
    BY <1>5
  <2> DEFINE same == {k \in D : pop[t[k]].pack = pop[i].pack /\ pop[t[k]].fuel = pop[i].fuel}
  <2>2. same \in SUBSET Nat /\ same # {}
    <3>1. PICK k \in D : t[k] = i
      BY <1>2, <2>1
    <3>2. k \in same
      BY <3>1
    <3> QED BY <1>1, <3>2
  <2>3. PICK k \in same : \A j \in same : k <= j
    BY <2>2, LeastNumber
  <2>4. k \in D /\ t[k] \in D /\ pop[t[k]].pack = pop[i].pack /\ pop[t[k]].fuel = pop[i].fuel
    BY <1>6
  <2>5. ASSUME NEW j \in 1..k - 1 PROVE pop[t[j]].pack < pop[t[k]].pack
    <3>1. j \in D /\ j < k /\ t[j] \in D
      BY <1>1, <1>6, <2>4
    <3>2. pop[t[j]].fuel <= pop[t[k]].fuel
      BY <1>3, <2>4, <3>1
    <3>3. j \notin same
      BY <1>1, <2>3, <2>4, <3>1
    <3>4. ~Dominates(pop[t[j]], pop[i])
      BY <2>1, <3>1 DEF DominatorsOf
    <3>5. /\ pop[t[j]].pack \in Nat /\ pop[t[j]].fuel \in Nat
          /\ pop[i].pack \in Nat /\ pop[i].fuel \in Nat
      BY <1>1, <2>1, <3>1
    <3> QED BY <2>4, <3>1, <3>2, <3>3, <3>4, <3>5 DEF Dominates
  <2>6. k \in leads
    BY <2>4, <2>5
  <2> QED BY <2>1, <2>4, <2>6
<1>9. ASSUME NEW k \in leads, NEW l \in leads, t[k] # t[l] PROVE Point(t[k]) # Point(t[l])
  <2>1. k \in D /\ l \in D /\ t[k] \in D /\ t[l] \in D /\ Ahead(k) /\ Ahead(l)
    BY <1>6
  <2>2. pop[t[k]].pack # pop[t[l]].pack
    <3>1. /\ k \in Nat /\ l \in Nat /\ k # l
          /\ pop[t[k]].pack \in Nat /\ pop[t[l]].pack \in Nat
      BY <1>1, <1>9, <2>1
    <3>2. CASE k < l
      <4>1. k \in 1..l - 1
        BY <1>1, <2>1, <3>1, <3>2
      <4>2. pop[t[k]].pack < pop[t[l]].pack
        BY <2>1, <4>1
      <4> QED BY <3>1, <4>2
    <3>3. CASE l < k
      <4>1. l \in 1..k - 1
        BY <1>1, <2>1, <3>1, <3>3
      <4>2. pop[t[l]].pack < pop[t[k]].pack
        BY <2>1, <4>1
      <4> QED BY <3>1, <4>2
    <3> QED BY <3>1, <3>2, <3>3
  <2> QED BY <2>1, <2>2
<1> HIDE DEF leads, front
<1>10. {Point(i) : i \in Sweep(pop)} = {Point(i) : i \in front}
  BY <1>4, <1>7, <1>8
<1>11. \A i, k \in Sweep(pop) : i # k => Point(i) # Point(k)
  BY <1>4, <1>9
<1> QED BY <1>10, <1>11 DEF front

-----------------------------------------------------------------------------
(***************************************************************************)
(* The island.                                                             *)
(***************************************************************************)
\* What an island of different ids keeps: nobody has an id that another has.
IslandIsSound == PopulationOK /\ DistinctIds(population)

\* Without namesakes, namesakes are equal.
LEMMA NoNamesakesAtAll ==
  ASSUME NEW pop, DistinctIds(pop)
  PROVE  NamesakesAreEqual(pop)
BY DEF DistinctIds, NamesakesAreEqual

\* A newcomer leaves the ids different and the best objectives no worse, and drives
\* out nobody unfairly.
LEMMA AdmitIsFair ==
  ASSUME IslandIsSound, IslandNext
  PROVE  /\ IslandIsSound'
         /\ BestPack(population') >= BestPack(population)
         /\ population # <<>> => LeastFuel(population') <= LeastFuel(population)
         /\ Len(population) = MaxCapacity =>
              /\ Len(population') = MaxCapacity
              /\ \A i \in DOMAIN population :
                   ~Contains(population', population[i]) =>
                     \A k \in DOMAIN population' : ~Dominates(population[i], population'[k])
<1> DEFINE All == [id : Names, pack : Packs, fuel : Fuels]
<1>1. PICK id \in Names, pack \in Packs, fuel \in Fuels : Admit(id, pack, fuel)
  BY DEF IslandNext
<1> DEFINE ind == [id |-> id, pack |-> pack, fuel |-> fuel]
           grown == Append(population, ind)
           t == Truncate(grown, MaxCapacity)
<1>2. /\ population \in Seq(All) /\ DistinctIds(population) /\ Len(population) <= MaxCapacity
      /\ ind \in All /\ ind.id \in Unused /\ population' = t
  BY <1>1 DEF IslandIsSound, PopulationOK, Admit
<1>3. MaxCapacity \in Nat /\ MaxCapacity >= 2 /\ \A x \in All : x.pack \in Nat /\ x.fuel \in Nat
  <2>1. MaxCapacity \in Nat /\ MaxCapacity >= 2
    BY IslandAssumption
  <2>2. \A x \in All : x.pack \in Nat /\ x.fuel \in Nat
    BY IslandAssumption
  <2> QED BY <2>1, <2>2
<1>4. \A i \in DOMAIN population : population[i].id # ind.id
  BY <1>2 DEF Unused
<1> HIDE DEF All, ind, t
<1>5. /\ Len(population) \in Nat /\ DOMAIN population = 1..Len(population)
      /\ grown \in Seq(All) /\ Len(grown) = Len(population) + 1
      /\ DOMAIN grown = 1..Len(population) + 1 /\ grown[Len(population) + 1] = ind
      /\ \A i \in DOMAIN population : i \in DOMAIN grown /\ grown[i] = population[i]
  BY <1>2
<1> HIDE DEF grown
<1>6. IsPopulation(grown)
  BY <1>3, <1>5, IndividualsArePopulation
<1>7. DistinctIds(grown)
  <2>1. \A i \in DOMAIN grown : i \in DOMAIN population \/ i = Len(population) + 1
    BY <1>5
  <2> QED BY <1>2, <1>4, <1>5, <2>1 DEF DistinctIds
<1>8. /\ DistinctIds(t)
      /\ Len(grown) > MaxCapacity => Len(t) = MaxCapacity
      /\ \A i \in DOMAIN grown : ~Contains(t, grown[i]) =>
           \A k \in DOMAIN t : ~Dominates(grown[i], t[k])
  BY <1>3, <1>6, <1>7, TruncateIsFair DEF t
<1>9. /\ t \in Seq(All) /\ Len(t) <= MaxCapacity
      /\ BestPack(t) >= BestPack(population)
      /\ population # <<>> => LeastFuel(t) <= LeastFuel(population)
  <2>1. NamesakesAreEqual(grown) /\ t = Truncate(Append(population, ind), MaxCapacity)
    BY <1>7, NoNamesakesAtAll DEF t, grown
  <2>2. NamesakesAreEqual(Append(population, ind))
    BY <2>1 DEF grown
  <2> QED BY <1>2, <1>3, <2>1, <2>2, Registered
<1>10. IslandIsSound'
  <2>1. population' \in Seq(All) /\ Len(population') <= MaxCapacity /\ DistinctIds(population')
    BY <1>2, <1>8, <1>9
  <2> QED BY <2>1 DEF IslandIsSound, PopulationOK, DistinctIds, All
<1>11. ASSUME Len(population) = MaxCapacity
       PROVE  /\ Len(population') = MaxCapacity
              /\ \A i \in DOMAIN population :
                   ~Contains(population', population[i]) =>
                     \A k \in DOMAIN population' : ~Dominates(population[i], population'[k])
  <2>1. Len(grown) > MaxCapacity
    BY <1>3, <1>5, <1>11
  <2> QED BY <1>2, <1>5, <1>8, <2>1
<1> QED BY <1>2, <1>9, <1>10, <1>11

\* The invariant of an island is inductive,
LEMMA IslandStaysSound == IslandIsSound /\ [IslandNext]_population => IslandIsSound'
<1>1. ASSUME IslandIsSound, population' = population PROVE IslandIsSound'
  BY <1>1 DEF IslandIsSound, PopulationOK, DistinctIds
<1> QED BY <1>1, AdmitIsFair

\* and holds at first.
LEMMA IslandIsSoundAtFirst == IslandInit => IslandIsSound
<1> SUFFICES ASSUME IslandInit PROVE IslandIsSound
  OBVIOUS
<1>1. population = <<>>
  BY DEF IslandInit
<1> QED BY <1>1, IslandAssumption DEF IslandIsSound, PopulationOK, DistinctIds

\* Ids never run out: more of them than fit.
LEMMA SomeNameIsUnused ==
  ASSUME IslandIsSound
  PROVE  Unused # {}
<1> DEFINE taken == {population[i].id : i \in DOMAIN population}
           n == Len(population)
           f == [i \in 1..n |-> population[i].id]
<1>1. n \in Nat /\ DOMAIN population = 1..n /\ n <= MaxCapacity /\ MaxCapacity \in Nat
      /\ IsFiniteSet(Names) /\ Cardinality(Names) > MaxCapacity
  <2>1. population \in Seq([id : Names, pack : Packs, fuel : Fuels])
    BY DEF IslandIsSound, PopulationOK
  <2> QED BY <2>1, IslandAssumption DEF IslandIsSound, PopulationOK
<1>2. f \in Surjection(1..n, taken)
  <2>1. f \in [1..n -> taken] /\ \A x \in taken : \E i \in 1..n : f[i] = x
    BY <1>1
  <2> HIDE DEF f, taken, n
  <2> QED BY <2>1 DEF Surjection
<1>3. IsFiniteSet(1..n) /\ Cardinality(1..n) = n
  BY <1>1, UpToN
<1> HIDE DEF f, n, taken
<1>4. IsFiniteSet(taken) /\ Cardinality(taken) <= n
  BY <1>2, <1>3, FS_Surjection
<1>5. ASSUME Names \subseteq taken PROVE FALSE
  <2>1. Cardinality(Names) <= Cardinality(taken)
    BY <1>4, <1>5, FS_Subset
  <2>2. Cardinality(Names) \in Nat /\ Cardinality(taken) \in Nat
    BY <1>1, <1>4, FS_CardinalityType
  <2> QED BY <1>1, <1>4, <2>1, <2>2
<1> QED BY <1>5 DEF Unused, taken

\* The supervisor's remedies escalate, for every window up to the 20 of the code, every
\* tolerance and every set of histories.
THEOREM Remedies == IslandSpec => []RemediesEscalate
<1>1. RemediesEscalate
  <2>1. \A h \in Histories : h \in Seq([fitness : Nat, print : STRING]) /\ h # <<>>
    BY IslandAssumption
  <2> QED BY <2>1, RemediesOfAnyHistory DEF RemediesEscalate
<1> QED BY <1>1, PTL

\* The frontier that the dashboard draws is the first front of the selection, but that
\* it shows one of several equals.
THEOREM SweepAgrees == IslandSpec => []SweepIsTheFirstFront
<1>1. ASSUME IslandIsSound PROVE SweepIsTheFirstFront
  <2> DEFINE Point(i) == <<population[i].pack, population[i].fuel>>
             first == IF population = <<>> THEN <<>> ELSE Fronts(population)[1]
  <2>1. IsPopulation(population) /\ NamesakesAreEqual(population)
    <3>1. population \in Seq([id : Names, pack : Packs, fuel : Fuels])
      BY <1>1 DEF IslandIsSound, PopulationOK
    <3> QED BY <1>1, <3>1, IndividualsArePopulation, NoNamesakesAtAll, IslandAssumption
          DEF IslandIsSound
  <2>2. first = FirstFront(population)
    <3>1. CASE population = <<>>
      <4>1. DOMAIN population = {}
        BY <3>1
      <4>2. FirstFront(population) \in Seq(DOMAIN population)
        BY <2>1, FirstFrontIsUndominated
      <4>3. FirstFront(population) = <<>>
        BY <4>1, <4>2
      <4> QED BY <3>1, <4>3
    <3>2. CASE population # <<>>
      <4>1. FirstFront(population) # <<>>
        BY <2>1, <3>2, FirstFrontIsUndominated
      <4> QED BY <2>1, <3>2, <4>1, FrontsStart
    <3> QED BY <3>1, <3>2
  <2>3. /\ {Point(i) : i \in Sweep(population)} = {Point(i) : i \in ToSet(FirstFront(population))}
        /\ \A i, k \in Sweep(population) : i # k => Point(i) # Point(k)
    BY <2>1, SweepFindsTheFront
  <2> HIDE DEF first, Point
  <2>4. /\ {Point(i) : i \in Sweep(population)} = {Point(i) : i \in ToSet(first)}
        /\ \A i, k \in Sweep(population) : i # k => Point(i) # Point(k)
    BY <2>2, <2>3
  <2> QED BY <2>4 DEF SweepIsTheFirstFront, first, Point
<1> QED BY <1>1, IslandIsSoundAtFirst, IslandStaysSound, PTL DEF IslandSpec

\* fast_non_dominated_sort ranks every population, the overflowing one included: its
\* fronts are the Pareto ranking.
THEOREM Ranks == IslandSpec => []FrontsAreRanks
<1>1. ASSUME IslandIsSound, NEW pack \in Packs, NEW fuel \in Fuels
      PROVE  LET grown == Append(population,
                   [id |-> CHOOSE id \in Unused : TRUE, pack |-> pack, fuel |-> fuel])
             IN  IsRanking(grown, Fronts(grown))
  <2> DEFINE All == [id : Names, pack : Packs, fuel : Fuels]
             id == CHOOSE id \in Unused : TRUE
             ind == [id |-> id, pack |-> pack, fuel |-> fuel]
             grown == Append(population, ind)
  <2>1. id \in Unused
    BY <1>1, SomeNameIsUnused
  <2> HIDE DEF id
  <2>2. /\ population \in Seq(All) /\ DistinctIds(population) /\ ind \in All
        /\ \A i \in DOMAIN population : population[i].id # ind.id
    BY <1>1, <2>1 DEF IslandIsSound, PopulationOK, Unused
  <2>3. \A x \in All : x.pack \in Nat /\ x.fuel \in Nat
    BY IslandAssumption
  <2> HIDE DEF All, ind
  <2>4. /\ Len(population) \in Nat /\ DOMAIN population = 1..Len(population)
        /\ grown \in Seq(All) /\ DOMAIN grown = 1..Len(population) + 1
        /\ grown[Len(population) + 1] = ind
        /\ \A i \in DOMAIN population : grown[i] = population[i]
    BY <2>2
  <2> HIDE DEF grown
  <2>5. IsPopulation(grown)
    BY <2>3, <2>4, IndividualsArePopulation
  <2>6. DistinctIds(grown)
    <3>1. \A i \in DOMAIN grown : i \in DOMAIN population \/ i = Len(population) + 1
      BY <2>4
    <3> QED BY <2>2, <2>4, <3>1 DEF DistinctIds
  <2>7. IsRanking(grown, Fronts(grown))
    BY <2>5, <2>6, FrontsRank
  <2> QED BY <2>7 DEF grown, ind, id
<1>2. IslandIsSound => FrontsAreRanks
  BY <1>1 DEF FrontsAreRanks, IslandIsSound
<1> QED BY <1>2, IslandIsSoundAtFirst, IslandStaysSound, PTL DEF IslandSpec

\* A full island stays full, never gets worse in either objective, and gives up nobody
\* who dominates one of those it keeps.
THEOREM FairTruncation == IslandSpec => TruncationIsFair
<1>1. IslandIsSound /\ [IslandNext]_population =>
        [population # <<>> =>
           /\ BestPack(population') >= BestPack(population)
           /\ LeastFuel(population') <= LeastFuel(population)]_population
  BY AdmitIsFair
<1>2. IslandIsSound /\ [IslandNext]_population =>
        [Len(population) = MaxCapacity =>
           /\ Len(population') = MaxCapacity
           /\ \A i \in DOMAIN population :
                ~Contains(population', population[i]) =>
                  \A k \in DOMAIN population' :
                    ~Dominates(population[i], population'[k])]_population
  BY AdmitIsFair
<1>3. IslandSpec => ExtremesSurvive
  BY <1>1, IslandIsSoundAtFirst, IslandStaysSound, PTL DEF IslandSpec, ExtremesSurvive
<1>4. IslandSpec => EvictsTheDominated
  BY <1>2, IslandIsSoundAtFirst, IslandStaysSound, PTL DEF IslandSpec, EvictsTheDominated
<1> QED BY <1>3, <1>4, PTL DEF TruncationIsFair

-----------------------------------------------------------------------------
(***************************************************************************)
(* The FunSearch service.                                                  *)
(***************************************************************************)
\* The smaller one of two numbers.
LEMMA MinOfTwo ==
  ASSUME NEW a \in Nat, NEW b \in Nat
  PROVE  Min({a, b}) = IF a <= b THEN a ELSE b
BY DEF Min

\* There is a front to take elites from.  Nobody dominates its first member, or nobody
\* packs better than it; when no two of one id differ nobody dominates one of it.
LEMMA FrontierIsThere ==
  ASSUME NEW pop, IsPopulation(pop), pop # <<>>
  PROVE  /\ Frontier(pop) \in Seq(DOMAIN pop) /\ Frontier(pop) # <<>>
         /\ \/ DominatorsOf(pop, Frontier(pop)[1]) = {}
            \/ \A i \in DOMAIN pop : pop[i].pack <= pop[Frontier(pop)[1]].pack
         /\ NamesakesAreEqual(pop) =>
              /\ IsFront(pop, Frontier(pop))
              /\ \A k \in DOMAIN Frontier(pop) : DominatorsOf(pop, Frontier(pop)[k]) = {}
              /\ \A i \in DOMAIN pop : DominatorsOf(pop, i) = {} =>
                   \E k \in DOMAIN Frontier(pop) : Frontier(pop)[k] = i
<1>1. Len(pop) \in Nat /\ DOMAIN pop = 1..Len(pop) /\ \A i \in DOMAIN pop : pop[i].pack \in Nat
  BY DEF IsPopulation
<1> DEFINE key == [i \in DOMAIN pop |-> -pop[i].pack]
           s == ByPacking(pop)
<1>2. /\ s \in Seq(DOMAIN pop) /\ s # <<>>
      /\ \A i \in DOMAIN pop : pop[i].pack <= pop[s[1]].pack
  <2>1. Positions(pop) \in Seq(DOMAIN pop) /\ DOMAIN Positions(pop) = DOMAIN pop
    BY <1>1 DEF Positions
  <2>2. \A k \in DOMAIN Positions(pop) : key[Positions(pop)[k]] \in Int
    BY <1>1 DEF Positions
  <2>3. s = StableSort(Positions(pop), key)
    BY DEF ByPacking
  <2>4. \A i \in DOMAIN pop : key[i] = -pop[i].pack
    OBVIOUS
  <2> HIDE DEF key, s
  <2>5. /\ s \in Seq(DOMAIN pop) /\ DOMAIN s = DOMAIN pop
        /\ \A i \in DOMAIN pop : \E k \in DOMAIN s : s[k] = Positions(pop)[i]
        /\ \A k, l \in DOMAIN s : k < l => key[s[k]] <= key[s[l]]
    <3>1. /\ s \in Seq(DOMAIN pop) /\ Rearranges(s, Positions(pop))
          /\ \A k, l \in DOMAIN Positions(pop) : k < l => key[s[k]] <= key[s[l]]
      BY <2>1, <2>2, <2>3, SortRearranges
    <3>2. DOMAIN s = DOMAIN Positions(pop)
      BY <3>1 DEF Rearranges
    <3>3. \A i \in DOMAIN Positions(pop) : \E k \in DOMAIN Positions(pop) : s[k] = Positions(pop)[i]
      BY <3>1 DEF Rearranges
    <3> QED BY <2>1, <3>1, <3>2, <3>3
  <2>6. 1 \in DOMAIN s /\ s # <<>>
    BY <1>1, <2>5
  <2>7. ASSUME NEW i \in DOMAIN pop PROVE pop[i].pack <= pop[s[1]].pack
    <3>1. PICK k \in DOMAIN s : s[k] = i
      BY <2>5 DEF Positions
    <3>2. k = 1 \/ 1 < k
      BY <1>1, <2>5
    <3>3. key[s[1]] <= key[i] \/ s[1] = i
      BY <2>5, <2>6, <3>1, <3>2
    <3>4. s[1] \in DOMAIN pop
      BY <2>5, <2>6
    <3> QED BY <1>1, <2>4, <3>3, <3>4
  <2> QED BY <2>5, <2>6, <2>7
<1>3. FirstFront(pop) \in Seq(DOMAIN pop)
  BY FirstFrontIsUndominated
<1>4. Frontier(pop) = IF FirstFront(pop) # <<>> THEN FirstFront(pop) ELSE s
  BY DEF Frontier
<1> HIDE DEF s
<1>5. NamesakesAreEqual(pop) => Frontier(pop) = FirstFront(pop)
  BY <1>4, FirstFrontIsUndominated
<1>6. \/ DominatorsOf(pop, Frontier(pop)[1]) = {}
      \/ \A i \in DOMAIN pop : pop[i].pack <= pop[Frontier(pop)[1]].pack
  <2>1. CASE FirstFront(pop) # <<>>
    <3> DEFINE f == FirstFront(pop)
    <3>1. f = Frontier(pop) /\ \A k \in DOMAIN f : DominatorsOf(pop, f[k]) = {}
      BY <1>4, <2>1, FirstFrontIsUndominated
    <3>2. f \in Seq(DOMAIN pop) /\ f # <<>>
      BY <1>3, <2>1
    <3> HIDE DEF f
    <3>3. 1 \in DOMAIN f
      BY <3>2
    <3> QED BY <3>1, <3>3
  <2>2. CASE FirstFront(pop) = <<>>
    BY <1>2, <1>4, <2>2
  <2> QED BY <2>1, <2>2
<1> QED BY <1>2, <1>3, <1>4, <1>5, <1>6, FirstFrontIsUndominated, FirstFrontIsFront

\* The elites are of the population; of two or more, one packs best.
LEMMA ElitesAreOfThePopulation ==
  ASSUME NEW pop, IsPopulation(pop)
  PROVE  /\ Len(Elites(pop)) \in Nat /\ Len(Elites(pop)) <= EliteCount
         /\ DOMAIN Elites(pop) = 1..Len(Elites(pop))
         /\ \A k \in DOMAIN Elites(pop) : \E i \in DOMAIN pop : Elites(pop)[k] = pop[i]
         /\ NamesakesAreEqual(pop) /\ pop # <<>> /\ EliteCount >= 2 =>
              \E k \in DOMAIN Elites(pop) : \A i \in DOMAIN pop :
                pop[i].pack <= Elites(pop)[k].pack
<1> DEFINE e == Elites(pop)
<1>1. CASE pop = <<>>
  <2>1. e = <<>>
    BY <1>1 DEF Elites
  <2>2. EliteCount \in Nat
    BY FunSearchAssumption
  <2> HIDE DEF e
  <2> QED BY <1>1, <2>1, <2>2 DEF e
<1>2. CASE pop # <<>>
  <2> DEFINE f == Frontier(pop)
             r == ByCrowding(pop, f)
             m == Min({EliteCount, Len(f)})
             chosen == SubSeq(r, 1, m)
  <2>1. f \in Seq(DOMAIN pop) /\ f # <<>>
    BY <1>2, FrontierIsThere
  <2>2. r \in Seq(DOMAIN pop) /\ DOMAIN r = DOMAIN f
    BY <2>1, EndsComeFirst DEF Rearranges
  <2>3. /\ m \in Nat /\ m <= Len(f) /\ m <= EliteCount
        /\ \A a \in DOMAIN f : EliteCount >= 2 /\ a <= 2 => a <= m
    <3>1. EliteCount \in Nat /\ Len(f) \in Nat /\ DOMAIN f = 1..Len(f)
      BY <2>1, FunSearchAssumption
    <3> DEFINE n == Len(f)
    <3> HIDE DEF f
    <3>2. m = IF EliteCount <= n THEN EliteCount ELSE n
      BY <3>1, MinOfTwo
    <3> HIDE DEF m, n
    <3>3. n \in Nat /\ EliteCount \in Nat /\ DOMAIN f = 1..n
      BY <3>1 DEF n
    <3>4. /\ m \in Nat /\ m <= n /\ m <= EliteCount
          /\ \A a \in DOMAIN f : EliteCount >= 2 /\ a <= 2 => a <= m
      BY <3>2, <3>3
    <3> QED BY <3>4 DEF n
  <2>4. e = [k \in DOMAIN chosen |-> pop[chosen[k]]]
    BY <1>2 DEF Elites
  <2>5. Len(r) = Len(f) /\ Len(f) \in Nat
    <3>1. DOMAIN f = 1..Len(f) /\ Len(f) \in Nat /\ DOMAIN r = 1..Len(r) /\ Len(r) \in Nat
      BY <2>1, <2>2
    <3> HIDE DEF f, r
    <3> QED BY <2>2, <3>1
  <2> HIDE DEF m
  <2>6. chosen \in Seq(DOMAIN pop) /\ DOMAIN chosen = 1..m /\ \A k \in 1..m : chosen[k] = r[k]
    <3> HIDE DEF r, f
    <3> QED BY <2>2, <2>3, <2>5
  <2> HIDE DEF chosen, e
  <2>7. Len(e) = m /\ DOMAIN e = 1..m
    <3>1. e = [k \in 1..m |-> pop[chosen[k]]]
      BY <2>4, <2>6
    <3> QED BY <2>3, <3>1
  <2>8. \A k \in 1..m : chosen[k] \in DOMAIN pop /\ e[k] = pop[chosen[k]]
    <3>1. \A k \in 1..m : chosen[k] \in DOMAIN pop
      <4> DEFINE D == DOMAIN pop
      <4>1. chosen \in Seq(D)
        BY <2>6
      <4> HIDE DEF D
      <4>2. \A k \in DOMAIN chosen : chosen[k] \in D
        BY <4>1
      <4> QED BY <2>6, <4>2 DEF D
    <3>2. \A k \in DOMAIN chosen : e[k] = pop[chosen[k]]
      BY <2>4
    <3> QED BY <2>6, <3>1, <3>2
  <2>9. ASSUME NamesakesAreEqual(pop), EliteCount >= 2
        PROVE  \E k \in DOMAIN e : \A i \in DOMAIN pop : pop[i].pack <= e[k].pack
    <3>1. IsFront(pop, f) /\ \A i \in DOMAIN pop : DominatorsOf(pop, i) = {} =>
            \E k \in DOMAIN f : f[k] = i
      BY <1>2, <2>9, FrontierIsThere
    <3>2. PICK a \in DOMAIN f : a <= 2 /\
            \A k \in DOMAIN f : pop[f[k]].pack <= pop[r[a]].pack
      BY <2>1, <3>1, EndsComeFirst
    <3>3. a \in 1..m
      <4>1. a \in Nat /\ a >= 1
        BY <2>1
      <4> QED BY <2>3, <2>9, <3>2, <4>1
    <3>4. e[a] = pop[r[a]]
      BY <2>6, <2>8, <3>3
    <3>5. ASSUME NEW i \in DOMAIN pop PROVE pop[i].pack <= e[a].pack
      <4>1. PICK k \in DOMAIN pop : DominatorsOf(pop, k) = {} /\ pop[i].pack <= pop[k].pack
        BY FrontHasTheExtremes
      <4>2. PICK l \in DOMAIN f : f[l] = k
        BY <3>1, <4>1
      <4>3. pop[k].pack <= e[a].pack
        BY <3>2, <3>4, <4>2
      <4>4. pop[i].pack \in Nat /\ pop[k].pack \in Nat /\ e[a].pack \in Nat
        BY <2>8, <3>3 DEF IsPopulation
      <4> QED BY <4>1, <4>3, <4>4
    <3> QED BY <2>7, <3>3, <3>5
  <2> QED BY <1>2, <2>3, <2>7, <2>8, <2>9 DEF e
<1> QED BY <1>1, <1>2

\* What leaves the islands is all their elites, each with the island it is of.
LEMMA LeavingAreTheElites ==
  ASSUME \A i \in Islands : IsPopulation(individuals[i])
  PROVE  /\ Len(Leaving) \in Nat /\ DOMAIN Leaving = 1..Len(Leaving)
         /\ \A n \in DOMAIN Leaving :
              /\ Leaving[n] = [src |-> Leaving[n].src, ind |-> Leaving[n].ind]
              /\ Leaving[n].src \in Islands
              /\ \E k \in DOMAIN individuals[Leaving[n].src] :
                   Leaving[n].ind = individuals[Leaving[n].src][k]
         /\ \A i \in Islands : \A k \in DOMAIN Elites(individuals[i]) :
              \E n \in DOMAIN Leaving :
                Leaving[n].src = i /\ Leaving[n].ind = Elites(individuals[i])[k]
<1> DEFINE elites == [i \in Islands |-> Elites(individuals[i])]
           places == {p \in Islands \X (1..EliteCount) : p[2] <= Len(elites[p[1]])}
           NotLater(q, p) == q[1] < p[1] \/ (q[1] = p[1] /\ q[2] <= p[2])
           upTo == [p \in places |-> {q \in places : NotLater(q, p)}]
           order == Arranged(places, upTo)
<1>1. Leaving = [n \in DOMAIN order |->
         [src |-> order[n][1], ind |-> elites[order[n][1]][order[n][2]]]]
  BY DEF Leaving
<1>2. \A i \in Islands :
        /\ elites[i] = Elites(individuals[i])
        /\ Len(elites[i]) \in Nat /\ Len(elites[i]) <= EliteCount
        /\ DOMAIN elites[i] = 1..Len(elites[i])
        /\ \A k \in DOMAIN elites[i] : \E l \in DOMAIN individuals[i] :
             elites[i][k] = individuals[i][l]
  BY ElitesAreOfThePopulation
<1>3. EliteCount \in Nat /\ NumIslands \in Nat
  BY FunSearchAssumption
<1>4. \A p \in places : /\ p[1] \in Islands /\ p[2] \in Nat /\ p[1] \in Nat
                        /\ p[2] \in DOMAIN elites[p[1]]
                        /\ p = <<p[1], p[2]>>
  BY <1>2, <1>3 DEF Islands
<1>5. \A i \in Islands : \A k \in DOMAIN elites[i] : <<i, k>> \in places
  <2> TAKE i \in Islands
  <2> TAKE k \in DOMAIN elites[i]
  <2>1. k \in 1..EliteCount /\ k <= Len(elites[i])
    BY <1>2, <1>3
  <2> QED BY <2>1
<1>6. IsFiniteSet(places)
  <2>1. IsFiniteSet(Islands)
    <3>1. 0 \in Int /\ NumIslands - 1 \in Int
      BY <1>3
    <3> QED BY <3>1, FS_Interval DEF Islands
  <2>2. IsFiniteSet(1..EliteCount)
    BY <1>3, UpToN
  <2>3. IsFiniteSet(Islands \X (1..EliteCount))
    BY <2>1, <2>2, FS_Product
  <2> QED BY <2>3, FS_Subset
<1> HIDE DEF elites, places
<1>7. upTo \in [places -> SUBSET places]
  OBVIOUS
<1>8. \A p \in places : upTo[p] = {q \in places : NotLater(q, p)}
  OBVIOUS
<1> HIDE DEF upTo
<1>9. \A p \in places : p \in upTo[p]
  BY <1>4, <1>8
<1>10. \A p, q, r \in places : NotLater(p, q) /\ NotLater(q, r) => NotLater(p, r)
  BY <1>4
<1>11. \A p, q \in places : p # q =>
         (NotLater(p, q) /\ ~NotLater(q, p)) \/ (NotLater(q, p) /\ ~NotLater(p, q))
  BY <1>4
<1> HIDE DEF NotLater
<1>12. \A p, q \in places : p # q => \/ upTo[p] \subseteq upTo[q] /\ q \notin upTo[p]
                                     \/ upTo[q] \subseteq upTo[p] /\ p \notin upTo[q]
  BY <1>8, <1>10, <1>11
<1> DEFINE N == Cardinality(places)
<1>13. /\ N \in Nat /\ order \in [1..N -> places]
       /\ \A p \in places : \E n \in 1..N : order[n] = p
  BY <1>6, <1>7, <1>9, <1>12, Arrangement
<1> HIDE DEF N, order
<1>14. DOMAIN Leaving = 1..N /\ Len(Leaving) = N
  BY <1>1, <1>13
<1>15. \A n \in 1..N : /\ order[n] \in places
                       /\ Leaving[n] = [src |-> order[n][1],
                                        ind |-> elites[order[n][1]][order[n][2]]]
  BY <1>1, <1>13
<1>16. ASSUME NEW n \in DOMAIN Leaving
       PROVE  /\ Leaving[n] = [src |-> Leaving[n].src, ind |-> Leaving[n].ind]
              /\ Leaving[n].src \in Islands
              /\ \E k \in DOMAIN individuals[Leaving[n].src] :
                   Leaving[n].ind = individuals[Leaving[n].src][k]
  <2>1. PICK p \in places : /\ order[n] = p
                            /\ Leaving[n] = [src |-> p[1], ind |-> elites[p[1]][p[2]]]
    BY <1>14, <1>15
  <2>2. Leaving[n].src = p[1] /\ Leaving[n].ind = elites[p[1]][p[2]]
    BY <2>1
  <2>3. p[1] \in Islands /\ p[2] \in DOMAIN elites[p[1]]
    BY <1>4
  <2>4. \E k \in DOMAIN individuals[p[1]] : elites[p[1]][p[2]] = individuals[p[1]][k]
    BY <1>2, <2>3
  <2> QED BY <2>1, <2>2, <2>3, <2>4
<1>17. ASSUME NEW i \in Islands, NEW k \in DOMAIN Elites(individuals[i])
       PROVE  \E n \in DOMAIN Leaving :
                Leaving[n].src = i /\ Leaving[n].ind = Elites(individuals[i])[k]
  <2>1. <<i, k>> \in places
    BY <1>2, <1>5
  <2>2. PICK n \in 1..N : order[n] = <<i, k>>
    BY <1>13, <2>1
  <2> QED BY <1>2, <1>14, <1>15, <2>2
<1> QED BY <1>13, <1>14, <1>16, <1>17

\* The scores are numbers, and the table of workers has one entry per island.
ScoreTypes ==
  /\ best \in [Islands -> Nat]
  /\ top \in Nat
  /\ champion \in [fitness : Nat, origin : Islands \union {-1}]

\* What a worker is about to save was never migrated.
SavesItsOwn ==
  /\ worker = [i \in Islands |-> worker[i]]
  /\ \A i \in Islands :
       worker[i].pc \in {"connecting", "writing"} => ~IsMigrant(worker[i].saved)

\* The greater one of two numbers.
LEMMA MaxOfTwo ==
  ASSUME NEW a \in Nat, NEW b \in Nat
  PROVE  Max({a, b}) = IF a >= b THEN a ELSE b
BY DEF Max

\* There is an island, and the candidates have a score.
LEMMA ConstantTypes ==
  /\ 0 \in Islands
  /\ -1 \notin Islands
  /\ Seed \in Nat
  /\ \A c \in Candidates : c.pack \in Nat
BY FunSearchAssumption DEF Islands

-----------------------------------------------------------------------------
\* A candidate that a worker accepts becomes champion exactly when no island has
\* seen a better one: Accepted keeps the champion the best.
LEMMA AcceptedChampion ==
  ASSUME ScoreTypes, ChampionIsTheBest,
         NEW i \in Islands, NEW c \in Candidates, Accepted(i, c)
  PROVE  ScoreTypes' /\ ChampionIsTheBest'
<1>1. c.pack \in Nat /\ -1 \notin Islands
  BY ConstantTypes
<1>2. best[i] \in Nat /\ best[i] <= top /\ top \in Nat
  BY DEF ScoreTypes, ChampionIsTheBest
<1>3. /\ best' = [best EXCEPT ![i] = Max({best[i], c.pack})]
      /\ top' = Max({top, c.pack})
      /\ champion' = IF c.pack > top THEN [fitness |-> c.pack, origin |-> i] ELSE champion
  BY DEF Accepted
<1>4. Max({best[i], c.pack}) = IF best[i] >= c.pack THEN best[i] ELSE c.pack
  BY <1>1, <1>2, MaxOfTwo
<1>5. Max({top, c.pack}) = IF top >= c.pack THEN top ELSE c.pack
  BY <1>1, <1>2, MaxOfTwo
<1>6. CASE c.pack > top
  <2>1. /\ best' = [best EXCEPT ![i] = c.pack]
        /\ top' = c.pack
        /\ champion' = [fitness |-> c.pack, origin |-> i]
    <3>1. ~(best[i] >= c.pack) /\ ~(top >= c.pack)
      BY <1>1, <1>2, <1>6
    <3>2. Max({best[i], c.pack}) = c.pack /\ Max({top, c.pack}) = c.pack
      BY <3>1, <1>4, <1>5
    <3> QED BY <1>3, <1>6, <3>2
  <2>2. best'[i] = c.pack /\ \A k \in Islands : k # i => best'[k] = best[k]
    BY <2>1 DEF ScoreTypes
  <2>3. ScoreTypes'
    BY <1>1, <2>1 DEF ScoreTypes
  <2>4. \A k \in Islands : best'[k] <= top'
    BY <1>1, <1>2, <1>6, <2>1, <2>2 DEF ScoreTypes, ChampionIsTheBest
  <2> QED BY <2>1, <2>2, <2>3, <2>4 DEF ChampionIsTheBest
<1>7. CASE ~(c.pack > top)
  <2>1. top' = top /\ champion' = champion
    BY <1>1, <1>2, <1>3, <1>5, <1>7
  <2>2. best'[i] \in Nat /\ best[i] <= best'[i] /\ best'[i] <= top
    BY <1>1, <1>2, <1>3, <1>4, <1>7 DEF ScoreTypes
  <2>3. \A k \in Islands : k # i => best'[k] = best[k]
    BY <1>3 DEF ScoreTypes
  <2>4. ScoreTypes'
    BY <1>3, <2>1, <2>2 DEF ScoreTypes
  <2>5. \A k \in Islands : best'[k] <= top /\ (best[k] = top => best'[k] = top)
    BY <1>2, <2>2, <2>3 DEF ScoreTypes, ChampionIsTheBest
  <2> QED BY <2>1, <2>4, <2>5 DEF ChampionIsTheBest, ScoreTypes
<1> QED BY <1>6, <1>7

\* The champion stays the best.
LEMMA ChampionStep ==
  ScoreTypes /\ ChampionIsTheBest /\ [Next]_vars => ScoreTypes' /\ ChampionIsTheBest'
<1> SUFFICES ASSUME ScoreTypes, ChampionIsTheBest, [Next]_vars
             PROVE  ScoreTypes' /\ ChampionIsTheBest'
  OBVIOUS
<1>1. CASE UNCHANGED <<best, top, champion>>
  BY <1>1 DEF ScoreTypes, ChampionIsTheBest
<1>2. CASE Start
  BY <1>2, ConstantTypes DEF Start, ScoreTypes, ChampionIsTheBest
<1>3. ASSUME NEW i \in Islands, NEW c \in Candidates, Accepted(i, c)
      PROVE  ScoreTypes' /\ ChampionIsTheBest'
  BY <1>3, AcceptedChampion
<1>4. CASE Stop
  BY <1>1, <1>4 DEF Stop
<1>5. ASSUME NEW i \in Islands, Rejected(i) \/ FindsItGone(i) \/ Saved(i) \/ SaveFails(i)
      PROVE  ScoreTypes' /\ ChampionIsTheBest'
  BY <1>1, <1>5 DEF Rejected, FindsItGone, Saved, SaveFails
<1>6. ASSUME NEW i \in Islands, LooksUp(i)
      PROVE  ScoreTypes' /\ ChampionIsTheBest'
  BY <1>1, <1>6 DEF LooksUp, search
<1>7. CASE Supervise
  BY <1>1, <1>7 DEF Supervise, MigrationCollects, MigrationTransfers,
     MigrationCommits, MigrationFails, CataclysmicRestart, search
<1>8. CASE UNCHANGED vars
  BY <1>1, <1>8 DEF vars
<1> QED BY <1>2, <1>3, <1>4, <1>5, <1>6, <1>7, <1>8 DEF Next, Work

\* At any time between two awaits, whatever was started, stopped, migrated or
\* restarted, the champion is the best program any island has seen in this search.
THEOREM Champion == Spec => []ChampionIsTheBest
<1>1. Init => ScoreTypes /\ ChampionIsTheBest
  BY ConstantTypes DEF Init, ScoreTypes, ChampionIsTheBest
<1> QED BY <1>1, ChampionStep, PTL DEF Spec

-----------------------------------------------------------------------------
\* A worker goes on with a round, or ends, and has nothing to save.
LEMMA NextRoundSaves ==
  ASSUME SavesItsOwn, NEW i \in Islands, NextRound(i)
  PROVE  SavesItsOwn'
<1>1. \A k \in Islands : k # i => worker'[k] = worker[k]
  BY DEF NextRound, SavesItsOwn
<1>2. worker'[i] = Mutating \/ worker'[i] = NotWorking
  BY DEF NextRound, SavesItsOwn
<1>3. worker' = [k \in Islands |-> worker'[k]]
  BY DEF NextRound, SavesItsOwn
<1> QED BY <1>1, <1>2, <1>3 DEF SavesItsOwn, Mutating, NotWorking

\* A worker saves what it has made itself.
LEMMA SavesStep == SavesItsOwn /\ [Next]_vars => SavesItsOwn'
<1> SUFFICES ASSUME SavesItsOwn, [Next]_vars PROVE SavesItsOwn'
  OBVIOUS
<1>1. CASE Start \/ Stop
  BY <1>1 DEF Start, Stop, SavesItsOwn, NotWorking, Mutating
<1>2. ASSUME NEW i \in Islands, NEW c \in Candidates, Accepted(i, c)
      PROVE  SavesItsOwn'
  <2>1. PICK ind : /\ ind.id.path = <<>>
                   /\ worker' = [worker EXCEPT ![i] = [pc |-> "connecting", saved |-> ind]]
    BY <1>2 DEF Accepted, HeuristicId
  <2> QED BY <2>1 DEF SavesItsOwn, IsMigrant
<1>3. ASSUME NEW i \in Islands, LooksUp(i) PROVE SavesItsOwn'
  <2>1. PICK ind : /\ ind.id = worker[i].saved.id
                   /\ worker' = [worker EXCEPT ![i] = [pc |-> "writing", saved |-> ind]]
    BY <1>3 DEF LooksUp
  <2>2. ~IsMigrant(ind)
    BY <1>3, <2>1 DEF LooksUp, SavesItsOwn, IsMigrant
  <2> QED BY <2>1, <2>2 DEF SavesItsOwn
<1>4. ASSUME NEW i \in Islands, Rejected(i) \/ FindsItGone(i) \/ Saved(i) \/ SaveFails(i)
      PROVE  SavesItsOwn'
  BY <1>4, NextRoundSaves DEF Rejected, FindsItGone, Saved, SaveFails
<1>5. CASE Supervise \/ UNCHANGED vars
  BY <1>5 DEF Supervise, MigrationCollects, MigrationTransfers, MigrationCommits,
     MigrationFails, CataclysmicRestart, SavesItsOwn, vars
<1> QED BY <1>1, <1>2, <1>3, <1>4, <1>5 DEF Next, Work

\* Only the commit of a migration brings rows of migrants.
LEMMA OnlyCommitsBringMigrants ==
  ASSUME SavesItsOwn, [Next]_vars, NEW r \in rows' \ rows, IsMigrant(r)
  PROVE  MigrationCommits
<1>1. CASE rows' = rows
  BY <1>1
<1>2. ASSUME NEW i \in Islands, Saved(i) PROVE MigrationCommits
  <2>1. r = worker[i].saved
    BY <1>2 DEF Saved, Upsert
  <2> QED BY <1>2, <2>1 DEF Saved, SavesItsOwn
<1>3. CASE Stop
  <2>1. PICK i \in Islands : worker[i].pc = "writing" /\ r = worker[i].saved
    BY <1>3 DEF Stop, Upsert, Writing
  <2> QED BY <2>1 DEF SavesItsOwn
<1>4. ASSUME NEW i \in Islands, Rejected(i) \/ FindsItGone(i) \/ SaveFails(i)
      PROVE  MigrationCommits
  BY <1>1, <1>4 DEF Rejected, FindsItGone, SaveFails
<1>5. ASSUME NEW i \in Islands, NEW c \in Candidates, Accepted(i, c)
      PROVE  MigrationCommits
  BY <1>1, <1>5 DEF Accepted
<1>6. ASSUME NEW i \in Islands, LooksUp(i) PROVE MigrationCommits
  BY <1>1, <1>6 DEF LooksUp
<1>7. CASE Start \/ UNCHANGED vars
  BY <1>1, <1>7 DEF Start, vars
<1>8. CASE Supervise
  BY <1>1, <1>8 DEF Supervise, MigrationCollects, MigrationTransfers,
     MigrationFails, CataclysmicRestart
<1> QED BY <1>2, <1>3, <1>4, <1>5, <1>6, <1>7, <1>8 DEF Next, Work

\* The rows of a migration appear in one step, when its last migrant has moved:
\* a migration that fails half-way leaves none of them.
THEOREM MigrantsTogether == Spec => MigrantsAreSavedTogether
<1>1. Init => SavesItsOwn
  BY DEF Init, SavesItsOwn, NotWorking
<1>2. ASSUME SavesItsOwn, [Next]_vars
      PROVE  [\A r \in rows' \ rows : IsMigrant(r) =>
                /\ migration.active
                /\ migration.done = Len(migration.transfers)
                /\ \A m \in migration.staged : \E q \in rows' : q.id = m.id]_vars
  <2>1. ASSUME NEW r \in rows' \ rows, IsMigrant(r)
        PROVE  /\ migration.active
               /\ migration.done = Len(migration.transfers)
               /\ \A m \in migration.staged : \E q \in rows' : q.id = m.id
    <3>1. MigrationCommits
      BY <1>2, <2>1, OnlyCommitsBringMigrants
    <3> QED BY <3>1 DEF MigrationCommits, Upsert
  <2> QED BY <2>1
<1> QED BY <1>1, <1>2, SavesStep, PTL DEF Spec, MigrantsAreSavedTogether

\* A worker that is at work has a round to finish; what it has made in a round
\* comes on top of its generations when the round is over.
WorkOK ==
  /\ isRunning \in BOOLEAN
  /\ worker \in [Islands -> Workers]
  /\ evalsLeft \in [Islands -> 0..MaxEvals]
  /\ generation \in [Islands -> 0..(MaxEvals + 1)]
  /\ \A i \in Islands : worker[i].pc # "none" =>
       /\ isRunning
       /\ evalsLeft[i] >= 1
       /\ generation[i] + evalsLeft[i] <=
            IF worker[i].pc = "mutating" THEN MaxEvals + 1 ELSE MaxEvals + 2

PopulationsOK ==
  /\ individuals = [i \in Islands |-> individuals[i]]
  /\ \A i \in Islands : individuals[i] \in Seq(Individuals) /\ Len(individuals[i]) <= Capacity

\* The rows, and the migration under way.
TableOK ==
  /\ rows \subseteq Individuals
  /\ migration = [active |-> migration.active, transfers |-> migration.transfers,
                  done |-> migration.done, staged |-> migration.staged,
                  promised |-> migration.promised]
  /\ migration.staged \subseteq Individuals
  /\ Len(migration.transfers) \in Nat
  /\ DOMAIN migration.transfers = 1..Len(migration.transfers)
  /\ migration.done \in 0..Len(migration.transfers)
  /\ \A k \in DOMAIN migration.transfers :
       migration.transfers[k] \in [src : Islands, ind : Individuals]

\* A search that runs has been started.
BoundsOK ==
  /\ starts \in 0..MaxStarts
  /\ isRunning => starts >= 1
  /\ accepted \in 0..MaxAccepted
  /\ migrations \in 0..MaxMigrations
  /\ errors \in 0..MaxErrors

MixedOK == mixed \subseteq Islands

SearchOK == WorkOK /\ PopulationsOK /\ TableOK /\ ScoreTypes /\ BoundsOK /\ MixedOK

\* The type invariant of the module is part of the one that is proved.
LEMMA SearchIsTyped == SearchOK => TypeOK
BY DEF SearchOK, WorkOK, PopulationsOK, TableOK, ScoreTypes, BoundsOK, MixedOK, TypeOK

\* The bounds are numbers, an island has a neighbour, and individuals have scores.
LEMMA SearchConstants ==
  /\ Capacity \in Nat /\ EliteCount \in Nat /\ MaxEvals \in Nat
  /\ MaxStarts \in Nat /\ MaxAccepted \in Nat /\ MaxMigrations \in Nat /\ MaxErrors \in Nat
  /\ \A i \in Islands : Downstream(i) \in Islands
  /\ \A x \in Individuals : x.pack \in Nat /\ x.fuel \in Nat
<1>1. /\ Capacity \in Nat /\ EliteCount \in Nat /\ MaxEvals \in Nat
      /\ MaxStarts \in Nat /\ MaxAccepted \in Nat /\ MaxMigrations \in Nat /\ MaxErrors \in Nat
  BY FunSearchAssumption
<1>2. ASSUME NEW i \in Islands PROVE Downstream(i) \in Islands
  <2>1. NumIslands \in Nat \ {0} /\ i + 1 \in Nat
    BY FunSearchAssumption DEF Islands
  <2>2. (i + 1) % NumIslands \in 0..(NumIslands - 1)
    BY <2>1
  <2> QED BY <2>2 DEF Downstream, Islands
<1>3. ASSUME NEW x \in Individuals PROVE x.pack \in Nat /\ x.fuel \in Nat
  <2>1. x.pack \in {c.pack : c \in Candidates} /\ x.fuel \in {c.fuel : c \in Candidates}
    BY DEF Individuals
  <2> QED BY <2>1, FunSearchAssumption
<1> QED BY <1>1, <1>2, <1>3

\* The individual that a worker makes of a candidate.
Newborn(i, c) ==
  [id |-> HeuristicId(i, generation[i] + 1, c.print), pack |-> c.pack, fuel |-> c.fuel,
   search |-> starts]

\* What a candidate becomes is an individual,
LEMMA NewbornIsTyped ==
  ASSUME SearchOK, NEW i \in Islands, NEW c \in Candidates, worker[i].pc = "mutating"
  PROVE  Newborn(i, c) \in Individuals
<1>1. generation[i] + 1 \in Generations
  <2>1. generation[i] \in 0..(MaxEvals + 1) /\ evalsLeft[i] \in 0..MaxEvals /\ evalsLeft[i] >= 1
        /\ generation[i] + evalsLeft[i] <= MaxEvals + 1
    BY DEF SearchOK, WorkOK
  <2> QED BY <2>1, SearchConstants DEF Generations
<1>2. <<>> \in Seq(Islands)
  OBVIOUS
<1>3. HeuristicId(i, generation[i] + 1, c.print) \in Ids
  BY <1>1, <1>2 DEF HeuristicId, Ids
<1>4. starts \in 1..MaxStarts
  BY SearchConstants DEF SearchOK, WorkOK, BoundsOK
<1> QED BY <1>3, <1>4 DEF Newborn, Individuals

\* and so is what a migrant becomes.
LEMMA MigrantIsTyped ==
  ASSUME NEW t \in [src : Islands, ind : Individuals]
  PROVE  /\ Migrant(t) \in Individuals
         /\ Migrant(t).id.home = t.ind.id.home /\ Migrant(t).id.gen = t.ind.id.gen
         /\ Migrant(t).id.print = t.ind.id.print
         /\ Migrant(t).pack = t.ind.pack /\ Migrant(t).fuel = t.ind.fuel
         /\ Migrant(t).search = t.ind.search
<1>1. t.src \in Islands /\ t.ind \in Individuals /\ t.ind.id \in Ids
  BY DEF Individuals
<1>2. Append(t.ind.id.path, t.src) \in Seq(Islands)
  BY <1>1 DEF Ids
<1> DEFINE new == MigratedId(t.ind.id, t.src)
<1>3. /\ new \in Ids
      /\ new.home = t.ind.id.home /\ new.gen = t.ind.id.gen /\ new.print = t.ind.id.print
  BY <1>1, <1>2 DEF MigratedId, Ids
<1>4. Migrant(t) = [t.ind EXCEPT !.id = new]
  BY DEF Migrant
<1> HIDE DEF new
<1>5. /\ Migrant(t) \in Individuals /\ Migrant(t).id = new
      /\ Migrant(t).pack = t.ind.pack /\ Migrant(t).fuel = t.ind.fuel
      /\ Migrant(t).search = t.ind.search
  BY <1>1, <1>3, <1>4 DEF Individuals
<1> QED BY <1>3, <1>5

\* The next one to move.
LEMMA NextTransferIsTyped ==
  ASSUME SearchOK, migration.done < Len(migration.transfers)
  PROVE  /\ migration.done + 1 \in DOMAIN migration.transfers
         /\ migration.transfers[migration.done + 1] \in [src : Islands, ind : Individuals]
<1>1. /\ Len(migration.transfers) \in Nat
      /\ DOMAIN migration.transfers = 1..Len(migration.transfers)
      /\ migration.done \in 0..Len(migration.transfers)
  BY DEF SearchOK, TableOK
<1>2. migration.done + 1 \in DOMAIN migration.transfers
  BY <1>1
<1> QED BY <1>2 DEF SearchOK, TableOK

\* Registering changes the population of one island, as a truncation does.
LEMMA RegisterChanges ==
  ASSUME PopulationsOK, NEW i \in Islands, NEW ind \in Individuals,
         individuals' = Register(i, ind)
  PROVE  /\ PopulationsOK'
         /\ \A k \in Islands : k # i => individuals'[k] = individuals[k]
         /\ individuals'[i] = Truncate(Append(individuals[i], ind), Capacity)
         /\ \A k \in DOMAIN individuals'[i] :
              individuals'[i][k] = ind \/ \E l \in DOMAIN individuals[i] :
                individuals'[i][k] = individuals[i][l]
         /\ NamesakesAreEqual(Append(individuals[i], ind)) /\ Capacity >= 2 =>
              /\ BestPack(individuals'[i]) >= BestPack(individuals[i])
              /\ BestPack(individuals'[i]) >= ind.pack
<1> DEFINE pop == individuals[i]
           t == Truncate(Append(pop, ind), Capacity)
<1>1. pop \in Seq(Individuals) /\ individuals = [k \in Islands |-> individuals[k]]
  BY DEF PopulationsOK
<1>2. individuals' = [individuals EXCEPT ![i] = t]
  BY DEF Register
<1> HIDE DEF t
<1>3. /\ individuals' = [k \in Islands |-> individuals'[k]]
      /\ individuals'[i] = t /\ \A k \in Islands : k # i => individuals'[k] = individuals[k]
  BY <1>1, <1>2
<1> HIDE DEF pop
<1>4. /\ t \in Seq(Individuals) /\ Len(t) <= Capacity
      /\ \A k \in DOMAIN t : t[k] = ind \/ \E l \in DOMAIN pop : t[k] = pop[l]
      /\ NamesakesAreEqual(Append(pop, ind)) /\ Capacity >= 2 =>
           BestPack(t) >= BestPack(pop) /\ BestPack(t) >= ind.pack
  <2>1. t = Truncate(Append(pop, ind), Capacity)
    BY DEF t
  <2>2. Capacity \in Nat /\ \A x \in Individuals : x.pack \in Nat /\ x.fuel \in Nat
    BY SearchConstants
  <2> QED BY <1>1, <2>1, <2>2, Registered
<1>5. PopulationsOK'
  BY <1>3, <1>4 DEF PopulationsOK
<1> QED BY <1>3, <1>4, <1>5 DEF t, pop

-----------------------------------------------------------------------------
\* The head of a worker's loop.
LEMMA NextRoundIsTyped ==
  ASSUME SearchOK, NEW i \in Islands, worker[i].pc # "none", NextRound(i),
         UNCHANGED <<isRunning, generation>>
  PROVE  WorkOK'
<1>1. /\ worker \in [Islands -> Workers] /\ evalsLeft \in [Islands -> 0..MaxEvals]
      /\ generation \in [Islands -> 0..(MaxEvals + 1)] /\ isRunning \in BOOLEAN
      /\ isRunning /\ evalsLeft[i] >= 1 /\ generation[i] + evalsLeft[i] <= MaxEvals + 2
  BY SearchConstants DEF SearchOK, WorkOK
<1>2. /\ worker' = [worker EXCEPT ![i] = IF evalsLeft[i] > 1 THEN Mutating ELSE NotWorking]
      /\ evalsLeft' = [evalsLeft EXCEPT ![i] = @ - 1]
  BY <1>1 DEF NextRound
<1>3. evalsLeft' \in [Islands -> 0..MaxEvals] /\ evalsLeft'[i] = evalsLeft[i] - 1
  BY <1>1, <1>2, SearchConstants
<1>4. worker' \in [Islands -> Workers]
  BY <1>1, <1>2 DEF Workers
<1>5. ASSUME NEW k \in Islands, worker'[k].pc # "none"
      PROVE  /\ isRunning' /\ evalsLeft'[k] >= 1
             /\ generation'[k] + evalsLeft'[k] <=
                  IF worker'[k].pc = "mutating" THEN MaxEvals + 1 ELSE MaxEvals + 2
  <2>1. CASE k = i
    <3>1. worker'[i] = IF evalsLeft[i] > 1 THEN Mutating ELSE NotWorking
      BY <1>1, <1>2
    <3>2. evalsLeft[i] > 1 /\ worker'[i].pc = "mutating"
      BY <1>5, <2>1, <3>1 DEF NotWorking, Mutating
    <3> QED BY <1>1, <1>3, <2>1, <3>2, SearchConstants
  <2>2. CASE k # i
    BY <1>1, <1>2, <1>5, <2>2 DEF SearchOK, WorkOK
  <2> QED BY <2>1, <2>2
<1> QED BY <1>1, <1>3, <1>4, <1>5 DEF WorkOK

\* A worker at work has a round to finish, after every step.
LEMMA WorkStep == SearchOK /\ [Next]_vars => WorkOK'
<1> SUFFICES ASSUME SearchOK, [Next]_vars PROVE WorkOK'
  OBVIOUS
<1> USE SearchConstants
<1>1. CASE UNCHANGED <<isRunning, worker, evalsLeft, generation>>
  BY <1>1 DEF SearchOK, WorkOK
<1>2. CASE Start
  <2> DEFINE turns == Evals[starts + 1]
  <2>1. /\ isRunning' = TRUE
        /\ worker' = [k \in Islands |-> IF turns = 0 THEN NotWorking ELSE Mutating]
        /\ evalsLeft' = [k \in Islands |-> turns] /\ generation' = [k \in Islands |-> 1]
    BY <1>2 DEF Start
  <2>2. turns \in 0..MaxEvals
    <3>1. starts \in 0..MaxStarts /\ starts < MaxStarts
      BY <1>2 DEF Start, SearchOK, BoundsOK
    <3>2. starts + 1 \in 1..MaxStarts
      BY <3>1
    <3> QED BY <3>2, FunSearchAssumption
  <2> HIDE DEF turns
  <2> QED BY <2>1, <2>2 DEF WorkOK, Workers, NotWorking, Mutating
<1>3. CASE Stop
  <2>1. /\ isRunning' = FALSE /\ worker' = [k \in Islands |-> NotWorking]
        /\ evalsLeft' = [k \in Islands |-> 0] /\ generation' = generation
    BY <1>3 DEF Stop
  <2>2. worker' \in [Islands -> Workers] /\ \A k \in Islands : worker'[k].pc = "none"
    BY <2>1 DEF Workers, NotWorking
  <2>3. evalsLeft' \in [Islands -> 0..MaxEvals]
    BY <2>1
  <2> QED BY <2>1, <2>2, <2>3 DEF SearchOK, WorkOK
<1>4. ASSUME NEW i \in Islands, NEW c \in Candidates, Accepted(i, c) PROVE WorkOK'
  <2>1. /\ worker[i].pc = "mutating"
        /\ generation' = [generation EXCEPT ![i] = @ + 1]
        /\ worker' = [worker EXCEPT ![i] = [pc |-> "connecting", saved |-> Newborn(i, c)]]
        /\ UNCHANGED <<isRunning, evalsLeft>>
    BY <1>4 DEF Accepted, Newborn
  <2>2. Newborn(i, c) \in Individuals
    BY <2>1, NewbornIsTyped
  <2>3. /\ worker \in [Islands -> Workers] /\ evalsLeft \in [Islands -> 0..MaxEvals]
        /\ generation \in [Islands -> 0..(MaxEvals + 1)] /\ isRunning \in BOOLEAN
        /\ isRunning /\ evalsLeft[i] >= 1 /\ generation[i] + evalsLeft[i] <= MaxEvals + 1
    BY <2>1 DEF SearchOK, WorkOK
  <2>4. worker' \in [Islands -> Workers]
    BY <2>1, <2>2, <2>3 DEF Workers
  <2>5. generation' \in [Islands -> 0..(MaxEvals + 1)] /\ generation'[i] = generation[i] + 1
    BY <2>1, <2>3
  <2>6. ASSUME NEW k \in Islands, worker'[k].pc # "none"
        PROVE  /\ isRunning' /\ evalsLeft'[k] >= 1
               /\ generation'[k] + evalsLeft'[k] <=
                    IF worker'[k].pc = "mutating" THEN MaxEvals + 1 ELSE MaxEvals + 2
    <3>1. CASE k = i
      <4>1. worker'[i].pc = "connecting"
        BY <2>1, <2>3
      <4> QED BY <2>1, <2>3, <2>5, <3>1, <4>1
    <3>2. CASE k # i
      BY <2>1, <2>3, <2>6, <3>2 DEF SearchOK, WorkOK
    <3> QED BY <3>1, <3>2
  <2> QED BY <2>1, <2>3, <2>4, <2>5, <2>6 DEF WorkOK
<1>5. ASSUME NEW i \in Islands, LooksUp(i) PROVE WorkOK'
  <2>1. PICK k \in DOMAIN individuals[i] :
          worker' = [worker EXCEPT ![i] = [pc |-> "writing", saved |-> individuals[i][k]]]
    BY <1>5 DEF LooksUp
  <2>2. worker[i].pc = "connecting" /\ UNCHANGED <<isRunning, evalsLeft, generation>>
    BY <1>5 DEF LooksUp, search
  <2>3. individuals[i][k] \in Individuals
    BY <2>1 DEF SearchOK, PopulationsOK
  <2>4. worker \in [Islands -> Workers]
    BY DEF SearchOK, WorkOK
  <2>5. worker' \in [Islands -> Workers] /\ worker'[i].pc = "writing"
        /\ \A j \in Islands : j # i => worker'[j] = worker[j]
    BY <2>1, <2>3, <2>4 DEF Workers
  <2> QED BY <2>2, <2>5 DEF SearchOK, WorkOK
<1>6. ASSUME NEW i \in Islands, Rejected(i) \/ FindsItGone(i) \/ Saved(i) \/ SaveFails(i)
      PROVE  WorkOK'
  <2>1. worker[i].pc # "none" /\ NextRound(i) /\ UNCHANGED <<isRunning, generation>>
    BY <1>6 DEF Rejected, FindsItGone, Saved, SaveFails
  <2> QED BY <2>1, NextRoundIsTyped
<1>7. CASE Supervise \/ UNCHANGED vars
  BY <1>1, <1>7 DEF Supervise, MigrationCollects, MigrationTransfers, MigrationCommits,
     MigrationFails, CataclysmicRestart, search, vars
<1> QED BY <1>2, <1>3, <1>4, <1>5, <1>6, <1>7 DEF Next, Work

\* What is saved is an individual.
LEMMA SavedIsTyped ==
  ASSUME SearchOK, NEW i \in Islands, worker[i].pc \in {"connecting", "writing"}
  PROVE  worker[i].saved \in Individuals
<1>1. worker[i] \in Workers
  BY DEF SearchOK, WorkOK
<1> QED BY <1>1 DEF Workers, NotWorking, Mutating

\* The populations of the islands are populations.
LEMMA PopulationsArePopulations ==
  ASSUME SearchOK, NEW i \in Islands
  PROVE  IsPopulation(individuals[i])
<1>1. individuals[i] \in Seq(Individuals) /\ \A x \in Individuals : x.pack \in Nat /\ x.fuel \in Nat
  BY SearchConstants DEF SearchOK, PopulationsOK
<1> QED BY <1>1, IndividualsArePopulation

\* A restart leaves one individual, which nobody dominated or which packs best.
LEMMA RestartLeavesOne ==
  ASSUME SearchOK, NEW i \in Islands, CataclysmicRestart(i)
  PROVE  /\ \A k \in Islands : k # i => individuals'[k] = individuals[k]
         /\ individuals' = [k \in Islands |-> individuals'[k]]
         /\ \E k \in DOMAIN individuals[i] :
              /\ individuals'[i] = <<individuals[i][k]>>
              /\ \/ DominatorsOf(individuals[i], k) = {}
                 \/ \A j \in DOMAIN individuals[i] : individuals[i][j].pack <= individuals[i][k].pack
<1> DEFINE f == Frontier(individuals[i])
<1>1. individuals[i] # <<>> /\ IsPopulation(individuals[i])
  BY PopulationsArePopulations DEF CataclysmicRestart
<1>2. /\ f \in Seq(DOMAIN individuals[i]) /\ f # <<>>
      /\ \/ DominatorsOf(individuals[i], f[1]) = {}
         \/ \A j \in DOMAIN individuals[i] : individuals[i][j].pack <= individuals[i][f[1]].pack
  BY <1>1, FrontierIsThere
<1>3. individuals' = [individuals EXCEPT ![i] = <<individuals[i][f[1]]>>]
  BY DEF CataclysmicRestart
<1>4. individuals = [k \in Islands |-> individuals[k]]
  BY DEF SearchOK, PopulationsOK
<1> HIDE DEF f
<1>5. 1 \in DOMAIN f /\ f[1] \in DOMAIN individuals[i]
  BY <1>2
<1>6. /\ individuals' = [k \in Islands |-> individuals'[k]]
      /\ individuals'[i] = <<individuals[i][f[1]]>>
      /\ \A k \in Islands : k # i => individuals'[k] = individuals[k]
  BY <1>3, <1>4
<1> QED BY <1>2, <1>5, <1>6

\* Populations stay what they are and within the capacity.
LEMMA PopulationsStep == SearchOK /\ [Next]_vars => PopulationsOK'
<1> SUFFICES ASSUME SearchOK, [Next]_vars PROVE PopulationsOK'
  OBVIOUS
<1>0. PopulationsOK
  BY DEF SearchOK
<1>1. CASE individuals' = individuals
  BY <1>0, <1>1 DEF PopulationsOK
<1>2. ASSUME NEW i \in Islands, NEW c \in Candidates, Accepted(i, c) PROVE PopulationsOK'
  <2>1. individuals' = Register(i, Newborn(i, c)) /\ worker[i].pc = "mutating"
    BY <1>2 DEF Accepted, Newborn
  <2> QED BY <1>0, <2>1, NewbornIsTyped, RegisterChanges
<1>3. CASE MigrationTransfers
  <2> DEFINE t == migration.transfers[migration.done + 1]
  <2>1. migration.done < Len(migration.transfers) /\ individuals' = Register(Downstream(t.src), Migrant(t))
    BY <1>3 DEF MigrationTransfers
  <2>2. t \in [src : Islands, ind : Individuals]
    BY <2>1, NextTransferIsTyped
  <2> HIDE DEF t
  <2>3. Migrant(t) \in Individuals /\ Downstream(t.src) \in Islands
    BY <2>2, MigrantIsTyped, SearchConstants
  <2> QED BY <1>0, <2>1, <2>3, RegisterChanges
<1>4. ASSUME NEW i \in Islands, CataclysmicRestart(i) PROVE PopulationsOK'
  <2>1. PICK k \in DOMAIN individuals[i] : individuals'[i] = <<individuals[i][k]>>
    BY <1>4, RestartLeavesOne
  <2>2. individuals[i][k] \in Individuals /\ Capacity \in Nat \ {0}
    BY <1>0, FunSearchAssumption DEF PopulationsOK
  <2>3. individuals'[i] \in Seq(Individuals) /\ Len(individuals'[i]) <= Capacity
    BY <2>1, <2>2
  <2> QED BY <1>0, <1>4, <2>3, RestartLeavesOne DEF PopulationsOK
<1>5. ASSUME NEW i \in Islands, Rejected(i) \/ LooksUp(i) \/ FindsItGone(i) \/ Saved(i) \/ SaveFails(i)
      PROVE  PopulationsOK'
  BY <1>1, <1>5 DEF Rejected, LooksUp, FindsItGone, Saved, SaveFails
<1>6. CASE Start \/ Stop \/ MigrationCollects \/ MigrationCommits \/ MigrationFails \/ UNCHANGED vars
  BY <1>1, <1>6 DEF Start, Stop, MigrationCollects, MigrationCommits, MigrationFails, vars
<1> QED BY <1>2, <1>3, <1>4, <1>5, <1>6 DEF Next, Work, Supervise

\* Nothing is under way when there is no migration.
LEMMA NoMigrationIsTyped ==
  ASSUME rows' \subseteq Individuals, migration' = NoMigration
  PROVE  TableOK'
<1>1. /\ migration' = [active |-> FALSE, transfers |-> <<>>, done |-> 0, staged |-> {},
                       promised |-> [i \in Islands |-> 0]]
  BY DEF NoMigration
<1>2. /\ migration' = [active |-> migration'.active, transfers |-> migration'.transfers,
                       done |-> migration'.done, staged |-> migration'.staged,
                       promised |-> migration'.promised]
      /\ migration'.staged = {} /\ migration'.transfers = <<>> /\ migration'.done = 0
  BY <1>1
<1> QED BY <1>2 DEF TableOK

\* What leaves is typed.
LEMMA CollectIsTyped ==
  ASSUME SearchOK, MigrationCollects
  PROVE  TableOK'
<1> DEFINE best0 == [i \in Islands |-> BestPack(individuals[i])]
<1>1. migration' = [active |-> TRUE, transfers |-> Leaving, done |-> 0, staged |-> {},
                    promised |-> best0]
  BY DEF MigrationCollects, NoMigration
<1> HIDE DEF best0
<1>2. /\ migration' = [active |-> migration'.active, transfers |-> migration'.transfers,
                       done |-> migration'.done, staged |-> migration'.staged,
                       promised |-> migration'.promised]
      /\ migration'.staged = {} /\ migration'.transfers = Leaving /\ migration'.done = 0
  BY <1>1
<1>3. /\ Len(Leaving) \in Nat /\ DOMAIN Leaving = 1..Len(Leaving)
      /\ \A n \in DOMAIN Leaving :
              /\ Leaving[n] = [src |-> Leaving[n].src, ind |-> Leaving[n].ind]
              /\ Leaving[n].src \in Islands
              /\ \E k \in DOMAIN individuals[Leaving[n].src] :
                   Leaving[n].ind = individuals[Leaving[n].src][k]
  BY PopulationsArePopulations, LeavingAreTheElites
<1>4. ASSUME NEW n \in DOMAIN Leaving PROVE Leaving[n] \in [src : Islands, ind : Individuals]
  <2>1. Leaving[n].src \in Islands
    BY <1>3
  <2>2. PICK k \in DOMAIN individuals[Leaving[n].src] :
          Leaving[n].ind = individuals[Leaving[n].src][k]
    BY <1>3
  <2>3. Leaving[n].ind \in Individuals
    BY <2>1, <2>2 DEF SearchOK, PopulationsOK
  <2> QED BY <1>3, <2>1, <2>3
<1>5. rows' \subseteq Individuals
  BY DEF MigrationCollects, SearchOK, TableOK
<1> QED BY <1>2, <1>3, <1>4, <1>5 DEF TableOK

\* The table holds individuals, after every step.
LEMMA TableStep == SearchOK /\ [Next]_vars => TableOK'
<1> SUFFICES ASSUME SearchOK, [Next]_vars PROVE TableOK'
  OBVIOUS
<1>0. TableOK
  BY DEF SearchOK
<1>1. CASE migration' = migration /\ rows' \subseteq Individuals
  BY <1>0, <1>1 DEF TableOK
<1>2. CASE UNCHANGED <<rows, migration>>
  BY <1>0, <1>1, <1>2 DEF TableOK
<1>3. CASE Stop
  <2>1. \A i \in Writing : worker[i].saved \in Individuals
    BY SavedIsTyped DEF Writing
  <2>2. migration' = migration /\ rows' \subseteq Individuals
    BY <1>0, <1>3, <2>1 DEF Stop, Upsert, TableOK
  <2> QED BY <1>1, <2>2
<1>4. ASSUME NEW i \in Islands, Saved(i) PROVE TableOK'
  <2>1. worker[i].saved \in Individuals
    BY <1>4, SavedIsTyped DEF Saved
  <2>2. migration' = migration /\ rows' \subseteq Individuals
    BY <1>0, <1>4, <2>1 DEF Saved, Upsert, TableOK
  <2> QED BY <1>1, <2>2
<1>5. CASE MigrationTransfers
  <2> DEFINE t == migration.transfers[migration.done + 1]
             moved == migration.done + 1
             staged == Upsert(migration.staged, {Migrant(t)})
  <2>1. /\ migration.done < Len(migration.transfers) /\ rows' = rows
        /\ migration' = [migration EXCEPT !.done = moved, !.staged = staged]
    BY <1>5 DEF MigrationTransfers
  <2>2. t \in [src : Islands, ind : Individuals]
    BY <2>1, NextTransferIsTyped
  <2>3. staged \subseteq Individuals
    BY <1>0, <2>2, MigrantIsTyped DEF Upsert, TableOK
  <2>4. moved \in 0..Len(migration.transfers)
    BY <1>0, <2>1 DEF TableOK
  <2> HIDE DEF moved, staged, t
  <2>5. /\ migration' = [active |-> migration'.active, transfers |-> migration'.transfers,
                         done |-> migration'.done, staged |-> migration'.staged,
                         promised |-> migration'.promised]
        /\ migration'.transfers = migration.transfers
        /\ migration'.done = moved /\ migration'.staged = staged
    BY <1>0, <2>1 DEF TableOK
  <2> QED BY <1>0, <2>1, <2>3, <2>4, <2>5 DEF TableOK
<1>6. CASE MigrationCommits \/ MigrationFails
  <2>1. migration' = NoMigration /\ rows' \subseteq Individuals
    BY <1>0, <1>6 DEF MigrationCommits, MigrationFails, Upsert, TableOK
  <2> QED BY <2>1, NoMigrationIsTyped
<1>7. ASSUME NEW i \in Islands, Rejected(i) \/ FindsItGone(i) \/ SaveFails(i) \/ CataclysmicRestart(i)
      PROVE  TableOK'
  BY <1>2, <1>7 DEF Rejected, FindsItGone, SaveFails, CataclysmicRestart
<1>8. ASSUME NEW i \in Islands, LooksUp(i) PROVE TableOK'
  BY <1>2, <1>8 DEF LooksUp
<1>9. ASSUME NEW i \in Islands, NEW c \in Candidates, Accepted(i, c) PROVE TableOK'
  BY <1>2, <1>9 DEF Accepted
<1>10. CASE Start \/ UNCHANGED vars
  BY <1>2, <1>10 DEF Start, vars
<1> QED BY <1>3, <1>4, <1>5, <1>6, <1>7, <1>8, <1>9, <1>10, CollectIsTyped DEF Next, Work, Supervise

\* The scores are numbers whatever happens.
LEMMA ScoresStep == SearchOK /\ [Next]_vars => ScoreTypes'
<1> SUFFICES ASSUME SearchOK, [Next]_vars PROVE ScoreTypes'
  OBVIOUS
<1>0. ScoreTypes
  BY DEF SearchOK
<1>1. CASE UNCHANGED <<best, top, champion>>
  BY <1>0, <1>1 DEF ScoreTypes
<1>2. CASE Start
  BY <1>2, ConstantTypes DEF Start, ScoreTypes
<1>3. ASSUME NEW i \in Islands, NEW c \in Candidates, Accepted(i, c) PROVE ScoreTypes'
  <2> DEFINE better == Max({best[i], c.pack})
             highest == Max({top, c.pack})
  <2>1. /\ best' = [best EXCEPT ![i] = better] /\ top' = highest
        /\ champion' = IF c.pack > top THEN [fitness |-> c.pack, origin |-> i] ELSE champion
    BY <1>3 DEF Accepted
  <2>2. better \in Nat /\ highest \in Nat /\ c.pack \in Nat
    BY <1>0, ConstantTypes, MaxOfTwo DEF ScoreTypes
  <2> HIDE DEF better, highest
  <2> QED BY <1>0, <2>1, <2>2 DEF ScoreTypes
<1>4. CASE Stop
  BY <1>1, <1>4 DEF Stop
<1>5. ASSUME NEW i \in Islands, Rejected(i) \/ FindsItGone(i) \/ Saved(i) \/ SaveFails(i)
      PROVE  ScoreTypes'
  BY <1>1, <1>5 DEF Rejected, FindsItGone, Saved, SaveFails
<1>6. ASSUME NEW i \in Islands, LooksUp(i) PROVE ScoreTypes'
  BY <1>1, <1>6 DEF LooksUp, search
<1>7. CASE Supervise \/ UNCHANGED vars
  BY <1>1, <1>7 DEF Supervise, MigrationCollects, MigrationTransfers,
     MigrationCommits, MigrationFails, CataclysmicRestart, search, vars
<1> QED BY <1>2, <1>3, <1>4, <1>5, <1>6, <1>7 DEF Next, Work

\* Searches are counted, and run only once they have started.
LEMMA StartsCount ==
  ASSUME SearchOK, [Next]_vars
  PROVE  /\ starts' \in Nat /\ starts <= starts'
         /\ Start => starts' > 0 /\ starts < MaxStarts
         /\ ~Start => starts' = starts /\ (isRunning' => isRunning)
<1>0. starts \in Nat
  BY DEF SearchOK, BoundsOK
<1>1. CASE Start
  BY <1>0, <1>1 DEF Start
<1>2. ASSUME ~Start PROVE starts' = starts /\ (isRunning' => isRunning)
  <2>1. CASE UNCHANGED <<starts, isRunning>>
    BY <2>1
  <2>2. CASE Stop
    BY <2>2 DEF Stop
  <2>3. ASSUME NEW i \in Islands, NEW c \in Candidates, Accepted(i, c)
        PROVE  UNCHANGED <<starts, isRunning>>
    BY <2>3 DEF Accepted
  <2>4. ASSUME NEW i \in Islands, Rejected(i) \/ FindsItGone(i) \/ Saved(i) \/ SaveFails(i)
        PROVE  UNCHANGED <<starts, isRunning>>
    BY <2>4 DEF Rejected, FindsItGone, Saved, SaveFails
  <2>5. ASSUME NEW i \in Islands, LooksUp(i) PROVE UNCHANGED <<starts, isRunning>>
    BY <2>5 DEF LooksUp, search
  <2>6. CASE Supervise \/ UNCHANGED vars
    BY <2>6 DEF Supervise, MigrationCollects, MigrationTransfers, MigrationCommits,
       MigrationFails, CataclysmicRestart, search, vars
  <2> QED BY <1>2, <2>1, <2>2, <2>3, <2>4, <2>5, <2>6 DEF Next, Work
<1> QED BY <1>0, <1>1, <1>2

\* The bounds are kept.
LEMMA BoundsStep == SearchOK /\ [Next]_vars => BoundsOK'
<1> SUFFICES ASSUME SearchOK, [Next]_vars PROVE BoundsOK'
  OBVIOUS
<1> DEFINE Counts == /\ starts' \in 0..MaxStarts
                     /\ accepted' \in 0..MaxAccepted
                     /\ migrations' \in 0..MaxMigrations
                     /\ errors' \in 0..MaxErrors
<1>0. /\ starts \in 0..MaxStarts /\ accepted \in 0..MaxAccepted
      /\ migrations \in 0..MaxMigrations /\ errors \in 0..MaxErrors
      /\ MaxStarts \in Nat /\ MaxAccepted \in Nat /\ MaxMigrations \in Nat /\ MaxErrors \in Nat
  BY SearchConstants DEF SearchOK, BoundsOK
<1>1. isRunning' => starts' >= 1
  <2>1. starts' \in Nat /\ (isRunning => starts >= 1)
    BY <1>0, StartsCount DEF SearchOK, BoundsOK
  <2> QED BY <1>0, <2>1, StartsCount
<1>2. ASSUME UNCHANGED <<starts, accepted, migrations, errors>> PROVE Counts
  BY <1>0, <1>2
<1>3. ASSUME UNCHANGED <<starts, accepted, migrations>> /\ DatabaseError PROVE Counts
  BY <1>0, <1>3 DEF DatabaseError
<1>4. ASSUME Start PROVE Counts
  BY <1>0, <1>4 DEF Start
<1>5. ASSUME Stop PROVE Counts
  BY <1>2, <1>5 DEF Stop
<1>6. ASSUME NEW i \in Islands, NEW c \in Candidates, Accepted(i, c) PROVE Counts
  BY <1>0, <1>6 DEF Accepted
<1>7. ASSUME NEW i \in Islands, Rejected(i) \/ FindsItGone(i) \/ Saved(i) PROVE Counts
  BY <1>2, <1>7 DEF Rejected, FindsItGone, Saved
<1>8. ASSUME NEW i \in Islands, LooksUp(i) PROVE Counts
  BY <1>2, <1>8 DEF LooksUp, search
<1>9. ASSUME NEW i \in Islands, SaveFails(i) PROVE Counts
  BY <1>3, <1>9 DEF SaveFails
<1>10. ASSUME MigrationCollects PROVE Counts
  BY <1>0, <1>10 DEF MigrationCollects, search
<1>11. ASSUME MigrationFails PROVE Counts
  BY <1>3, <1>11 DEF MigrationFails, search
<1>12. ASSUME MigrationTransfers \/ MigrationCommits \/ \E i \in Islands : CataclysmicRestart(i) PROVE Counts
  BY <1>2, <1>12 DEF MigrationTransfers, MigrationCommits, CataclysmicRestart, search
<1>13. ASSUME UNCHANGED vars PROVE Counts
  BY <1>2, <1>13 DEF vars
<1>14. Counts
  BY <1>4, <1>5, <1>6, <1>7, <1>8, <1>9, <1>10, <1>11, <1>12, <1>13 DEF Next, Work, Supervise
<1> QED BY <1>1, <1>14 DEF BoundsOK

\* Namesakes can only have been on islands.
LEMMA MixedStep == SearchOK /\ [Next]_vars => MixedOK'
<1> SUFFICES ASSUME SearchOK, [Next]_vars PROVE MixedOK'
  OBVIOUS
<1>0. mixed \subseteq Islands
  BY DEF SearchOK, MixedOK
<1>1. CASE mixed' = mixed
  BY <1>0, <1>1 DEF MixedOK
<1>2. ASSUME NEW i \in Islands, NEW ind, mixed' = MixedBy(i, ind) PROVE MixedOK'
  BY <1>0, <1>2 DEF MixedBy, MixedOK
<1>3. ASSUME NEW i \in Islands, NEW c \in Candidates, Accepted(i, c) PROVE MixedOK'
  BY <1>2, <1>3 DEF Accepted
<1>4. CASE MigrationTransfers
  <2> DEFINE t == migration.transfers[migration.done + 1]
  <2>1. migration.done < Len(migration.transfers) /\ mixed' = MixedBy(Downstream(t.src), Migrant(t))
    BY <1>4 DEF MigrationTransfers
  <2>2. t \in [src : Islands, ind : Individuals]
    BY <2>1, NextTransferIsTyped
  <2> HIDE DEF t
  <2>3. Downstream(t.src) \in Islands
    BY <2>2, SearchConstants
  <2> QED BY <1>2, <2>1, <2>3
<1>5. CASE MigrationCollects
  BY <1>5 DEF MigrationCollects, MixedOK
<1>6. ASSUME NEW i \in Islands,
             \/ Rejected(i) \/ LooksUp(i) \/ FindsItGone(i) \/ Saved(i) \/ SaveFails(i)
             \/ CataclysmicRestart(i)
      PROVE  mixed' = mixed
  BY <1>6 DEF Rejected, LooksUp, FindsItGone, Saved, SaveFails, CataclysmicRestart
<1>7. CASE Start \/ Stop \/ MigrationCommits \/ MigrationFails \/ UNCHANGED vars
  BY <1>1, <1>7 DEF Start, Stop, MigrationCommits, MigrationFails, vars
<1> QED BY <1>1, <1>3, <1>4, <1>5, <1>6, <1>7 DEF Next, Work, Supervise

\* The types are kept by every step,
LEMMA SearchStep == SearchOK /\ [Next]_vars => SearchOK'
BY WorkStep, PopulationsStep, TableStep, ScoresStep, BoundsStep, MixedStep DEF SearchOK

\* and are there at first.
LEMMA SearchStarts == Init => SearchOK
<1> SUFFICES ASSUME Init PROVE SearchOK
  OBVIOUS
<1>1. WorkOK
  <2>1. worker \in [Islands -> Workers] /\ \A i \in Islands : worker[i].pc = "none"
    BY DEF Init, Workers, NotWorking
  <2>2. evalsLeft \in [Islands -> 0..MaxEvals] /\ generation \in [Islands -> 0..(MaxEvals + 1)]
    BY SearchConstants DEF Init
  <2> QED BY <2>1, <2>2 DEF Init, WorkOK
<1>2. PopulationsOK
  BY SearchConstants DEF Init, PopulationsOK
<1>3. TableOK
  BY DEF Init, TableOK, NoMigration
<1>4. ScoreTypes /\ BoundsOK /\ MixedOK
  BY SearchConstants DEF Init, ScoreTypes, BoundsOK, MixedOK
<1> QED BY <1>1, <1>2, <1>3, <1>4 DEF SearchOK

InPopulations == UNION {{individuals[i][k] : k \in DOMAIN individuals[i]} : i \in Islands}

\* All the individuals there are: in the table, in a population, on the way to
\* another island, or about to be saved.
Known ==
  rows \cup migration.staged \cup InPopulations
    \cup {migration.transfers[k].ind : k \in DOMAIN migration.transfers}
    \cup {worker[i].saved : i \in {i \in Islands : worker[i].pc \in {"connecting", "writing"}}}

\* What one id is mistaken for within a search: the same island, generation and
\* fingerprint.
SameBirth(p, q) ==
  /\ p.id.home = q.id.home /\ p.id.gen = q.id.gen /\ p.id.print = q.id.print
  /\ p.search = q.search

\* p is q, or a copy of it that has migrated.
CopyOf(p, q) == SameBirth(p, q) /\ p.pack = q.pack /\ p.fuel = q.fuel

\* Every individual was born of a candidate in a search that has started, and in the
\* latest one not later than its island has come.
Births ==
  \A p \in Known :
    /\ \E c \in Candidates : p.id.print = c.print /\ p.pack = c.pack /\ p.fuel = c.fuel
    /\ p.search <= starts
    /\ p.search = starts => p.id.gen <= generation[p.id.home]

OneOfABirth == \A p, q \in Known : SameBirth(p, q) => p.pack = q.pack /\ p.fuel = q.fuel

\* All that is known is an individual.
LEMMA KnownAreIndividuals == SearchOK => Known \subseteq Individuals
<1> SUFFICES ASSUME SearchOK, NEW p \in Known PROVE p \in Individuals
  OBVIOUS
<1>1. CASE p \in rows \/ p \in migration.staged
  BY <1>1 DEF SearchOK, TableOK
<1>2. CASE p \in InPopulations
  BY <1>2 DEF InPopulations, SearchOK, PopulationsOK
<1>3. ASSUME NEW k \in DOMAIN migration.transfers, p = migration.transfers[k].ind
      PROVE  p \in Individuals
  <2>1. migration.transfers[k] \in [src : Islands, ind : Individuals]
    BY DEF SearchOK, TableOK
  <2> QED BY <1>3, <2>1
<1>4. ASSUME NEW i \in Islands, worker[i].pc \in {"connecting", "writing"}, p = worker[i].saved
      PROVE  p \in Individuals
  BY <1>4, SavedIsTyped
<1> QED BY <1>1, <1>2, <1>3, <1>4 DEF Known

\* What happens to the individuals when a worker finishes or abandons a round.
LEMMA NextRoundSavesNothing ==
  ASSUME SearchOK, NEW i \in Islands, NextRound(i), NEW k \in Islands,
         worker'[k].pc \in {"connecting", "writing"}
  PROVE  worker'[k] = worker[k]
<1>1. worker \in [Islands -> Workers]
  BY DEF SearchOK, WorkOK
<1> QED BY <1>1 DEF NextRound, Mutating, NotWorking

\* An accepted candidate is new; all others are what was known.
LEMMA AcceptedIsNew ==
  ASSUME SearchOK, NEW i \in Islands, NEW c \in Candidates, Accepted(i, c), NEW p \in Known'
  PROVE  p \in Known \/ p = Newborn(i, c)
<1>1. /\ worker[i].pc = "mutating" /\ individuals' = Register(i, Newborn(i, c))
      /\ worker' = [worker EXCEPT ![i] = [pc |-> "connecting", saved |-> Newborn(i, c)]]
      /\ UNCHANGED <<rows, migration>>
  BY DEF Accepted, Newborn
<1>2. CASE p \in rows' \/ p \in migration'.staged
           \/ \E k \in DOMAIN migration'.transfers : p = migration'.transfers[k].ind
  BY <1>1, <1>2 DEF Known
<1>3. ASSUME NEW j \in Islands, NEW k \in DOMAIN individuals'[j], p = individuals'[j][k]
      PROVE  p \in Known \/ p = Newborn(i, c)
  <2>1. PopulationsOK /\ Newborn(i, c) \in Individuals
    BY <1>1, NewbornIsTyped DEF SearchOK
  <2>2. CASE j = i
    BY <1>1, <1>3, <2>1, <2>2, RegisterChanges DEF Known, InPopulations
  <2>3. CASE j # i
    BY <1>1, <1>3, <2>1, <2>3, RegisterChanges DEF Known, InPopulations
  <2> QED BY <2>2, <2>3
<1>4. ASSUME NEW j \in Islands, worker'[j].pc \in {"connecting", "writing"}, p = worker'[j].saved
      PROVE  p \in Known \/ p = Newborn(i, c)
  <2>1. worker \in [Islands -> Workers]
    BY DEF SearchOK, WorkOK
  <2>2. CASE j = i
    BY <1>1, <1>4, <2>1, <2>2
  <2>3. CASE j # i
    BY <1>1, <1>4, <2>1, <2>3 DEF Known
  <2> QED BY <2>2, <2>3
<1> QED BY <1>2, <1>3, <1>4 DEF Known, InPopulations

\* A transfer brings a copy of an elite.
LEMMA TransferCopies ==
  ASSUME SearchOK, MigrationTransfers, NEW p \in Known'
  PROVE  \E q \in Known : CopyOf(p, q)
<1> DEFINE t == migration.transfers[migration.done + 1]
           staged == Upsert(migration.staged, {Migrant(t)})
<1>1. /\ migration.done < Len(migration.transfers)
      /\ individuals' = Register(Downstream(t.src), Migrant(t))
      /\ migration' = [migration EXCEPT !.done = @ + 1, !.staged = staged]
      /\ UNCHANGED <<rows, worker>>
  BY DEF MigrationTransfers
<1>2. migration.done + 1 \in DOMAIN migration.transfers /\ t \in [src : Islands, ind : Individuals]
  BY <1>1, NextTransferIsTyped
<1>3. t.ind \in Known
  BY <1>2 DEF Known
<1>4. migration'.staged = staged /\ migration'.transfers = migration.transfers
  <2> HIDE DEF staged
  <2> QED BY <1>1 DEF SearchOK, TableOK
<1> HIDE DEF t
<1>5. CopyOf(Migrant(t), t.ind) /\ Migrant(t) \in Individuals /\ Downstream(t.src) \in Islands
  BY <1>2, MigrantIsTyped, SearchConstants DEF CopyOf, SameBirth
<1>6. \A q \in Known : CopyOf(q, q)
  BY DEF CopyOf, SameBirth
<1>7. CASE p \in rows' \/ p \in migration'.staged
           \/ \E k \in DOMAIN migration'.transfers : p = migration'.transfers[k].ind
  <2>1. p \in Known \/ p = Migrant(t)
    BY <1>1, <1>4, <1>7 DEF Known, Upsert
  <2> QED BY <1>3, <1>5, <1>6, <2>1
<1>8. ASSUME NEW j \in Islands, NEW k \in DOMAIN individuals'[j], p = individuals'[j][k]
      PROVE  \E q \in Known : CopyOf(p, q)
  <2>1. p \in Known \/ p = Migrant(t)
    <3>1. PopulationsOK
      BY DEF SearchOK
    <3>2. CASE j = Downstream(t.src)
      BY <1>1, <1>5, <1>8, <3>1, <3>2, RegisterChanges DEF Known, InPopulations
    <3>3. CASE j # Downstream(t.src)
      BY <1>1, <1>5, <1>8, <3>1, <3>3, RegisterChanges DEF Known, InPopulations
    <3> QED BY <3>2, <3>3
  <2> QED BY <1>3, <1>5, <1>6, <2>1
<1>9. ASSUME NEW j \in Islands, worker'[j].pc \in {"connecting", "writing"}, p = worker'[j].saved
      PROVE  \E q \in Known : CopyOf(p, q)
  <2>1. p \in Known
    BY <1>1, <1>9 DEF Known
  <2> QED BY <1>6, <2>1
<1> QED BY <1>7, <1>8, <1>9 DEF Known, InPopulations

\* Only an accepted candidate is new: all other individuals are known, or copies.
LEMMA OthersAreCopies ==
  ASSUME SearchOK, [Next]_vars, \A i \in Islands, c \in Candidates : ~Accepted(i, c),
         NEW p \in Known'
  PROVE  \E q \in Known : CopyOf(p, q)
<1> SUFFICES ASSUME ~MigrationTransfers PROVE p \in Known
  BY TransferCopies DEF CopyOf, SameBirth
<1>0. /\ worker \in [Islands -> Workers]
      /\ rows \subseteq Known /\ migration.staged \subseteq Known
      /\ \A i \in Islands : \A k \in DOMAIN individuals[i] : individuals[i][k] \in Known
      /\ \A k \in DOMAIN migration.transfers : migration.transfers[k].ind \in Known
      /\ \A i \in Islands : worker[i].pc \in {"connecting", "writing"} => worker[i].saved \in Known
  BY DEF SearchOK, WorkOK, Known, InPopulations
<1> DEFINE RowsKnown == rows' \subseteq Known
           MigrationKnown == /\ migration'.staged \subseteq Known
                             /\ \A k \in DOMAIN migration'.transfers :
                                  migration'.transfers[k].ind \in Known
           PopulationsKnown == \A i \in Islands : \A k \in DOMAIN individuals'[i] :
                                 individuals'[i][k] \in Known
           SavedKnown == \A i \in Islands : worker'[i].pc \in {"connecting", "writing"} =>
                           worker'[i].saved \in Known
<1>1. SUFFICES RowsKnown /\ MigrationKnown /\ PopulationsKnown /\ SavedKnown
  BY DEF Known, InPopulations
<1>2. rows' = rows => RowsKnown
  BY <1>0
<1>3. migration' = migration => MigrationKnown
  BY <1>0
<1>4. individuals' = individuals => PopulationsKnown
  BY <1>0
<1>5. worker' = worker => SavedKnown
  BY <1>0
<1>6. migration' = NoMigration => MigrationKnown
  BY DEF NoMigration
<1> HIDE DEF MigrationKnown, PopulationsKnown, SavedKnown
<1>7. CASE Start
  <2>1. SavedKnown
    BY <1>7 DEF Start, SavedKnown, NotWorking, Mutating
  <2> QED BY <1>2, <1>3, <1>4, <1>7, <2>1 DEF Start
<1>8. CASE Stop
  <2>1. SavedKnown
    BY <1>8 DEF Stop, SavedKnown, NotWorking
  <2>2. RowsKnown
    BY <1>0, <1>8 DEF Stop, Upsert, Writing
  <2> QED BY <1>3, <1>4, <1>8, <2>1, <2>2 DEF Stop
<1>9. ASSUME NEW i \in Islands, Rejected(i) \/ FindsItGone(i) \/ Saved(i) \/ SaveFails(i)
      PROVE  RowsKnown /\ MigrationKnown /\ PopulationsKnown /\ SavedKnown
  <2>1. NextRound(i) /\ UNCHANGED <<migration, individuals>>
    BY <1>9 DEF Rejected, FindsItGone, Saved, SaveFails
  <2>2. SavedKnown
    BY <1>0, <2>1, NextRoundSavesNothing DEF SavedKnown
  <2>3. RowsKnown
    BY <1>0, <1>9 DEF Rejected, FindsItGone, Saved, SaveFails, Upsert
  <2> QED BY <1>3, <1>4, <2>1, <2>2, <2>3
<1>10. ASSUME NEW i \in Islands, LooksUp(i)
       PROVE  RowsKnown /\ MigrationKnown /\ PopulationsKnown /\ SavedKnown
  <2>1. /\ UNCHANGED <<rows, migration, individuals>>
        /\ \E k \in DOMAIN individuals[i] :
             worker' = [worker EXCEPT ![i] = [pc |-> "writing", saved |-> individuals[i][k]]]
    BY <1>10 DEF LooksUp
  <2>2. SavedKnown
    BY <1>0, <2>1 DEF SavedKnown
  <2> QED BY <1>2, <1>3, <1>4, <2>1, <2>2
<1>11. CASE MigrationCollects
  <2>1. /\ migration'.staged = {} /\ migration'.transfers = Leaving
        /\ UNCHANGED <<rows, individuals, worker>>
    BY <1>11 DEF MigrationCollects, NoMigration
  <2>2. MigrationKnown
    BY <1>0, <2>1, PopulationsArePopulations, LeavingAreTheElites DEF MigrationKnown
  <2> QED BY <1>2, <1>4, <1>5, <2>1, <2>2
<1>12. CASE MigrationCommits \/ MigrationFails
  <2>1. migration' = NoMigration /\ UNCHANGED <<individuals, worker>>
    BY <1>12 DEF MigrationCommits, MigrationFails
  <2>2. RowsKnown
    BY <1>0, <1>12 DEF MigrationCommits, MigrationFails, Upsert
  <2> QED BY <1>4, <1>5, <1>6, <2>1, <2>2
<1>13. ASSUME NEW i \in Islands, CataclysmicRestart(i)
       PROVE  RowsKnown /\ MigrationKnown /\ PopulationsKnown /\ SavedKnown
  <2>1. UNCHANGED <<rows, migration, worker>>
    BY <1>13 DEF CataclysmicRestart
  <2>2. PICK k \in DOMAIN individuals[i] : individuals'[i] = <<individuals[i][k]>>
    BY <1>13, RestartLeavesOne
  <2>3. \A j \in Islands : j # i => individuals'[j] = individuals[j]
    BY <1>13, RestartLeavesOne
  <2>4. PopulationsKnown
    BY <1>0, <2>2, <2>3 DEF PopulationsKnown
  <2> QED BY <1>2, <1>3, <1>5, <2>1, <2>4
<1>14. CASE UNCHANGED vars
  BY <1>2, <1>3, <1>4, <1>5, <1>14 DEF vars
<1> QED BY <1>7, <1>8, <1>9, <1>10, <1>11, <1>12, <1>13, <1>14 DEF Next, Work, Supervise

\* Only Accepted makes an island older, and only Start may set it back.
LEMMA GenerationsGrow ==
  ASSUME SearchOK, [Next]_vars, ~Start, NEW i \in Islands
  PROVE  generation[i] <= generation'[i]
<1>0. generation \in [Islands -> 0..(MaxEvals + 1)] /\ MaxEvals \in Nat
  BY SearchConstants DEF SearchOK, WorkOK
<1>1. CASE generation' = generation
  BY <1>0, <1>1
<1>2. ASSUME NEW j \in Islands, NEW c \in Candidates, Accepted(j, c)
      PROVE  generation[i] <= generation'[i]
  BY <1>0, <1>2 DEF Accepted
<1>3. ASSUME NEW j \in Islands, Rejected(j) \/ FindsItGone(j) \/ Saved(j) \/ SaveFails(j)
      PROVE  generation' = generation
  BY <1>3 DEF Rejected, FindsItGone, Saved, SaveFails
<1>4. ASSUME NEW j \in Islands, LooksUp(j) PROVE generation' = generation
  BY <1>4 DEF LooksUp, search
<1>5. CASE Stop \/ Supervise \/ UNCHANGED vars
  BY <1>1, <1>5 DEF Stop, Supervise, MigrationCollects, MigrationTransfers, MigrationCommits,
     MigrationFails, CataclysmicRestart, search, vars
<1> QED BY <1>1, <1>2, <1>3, <1>4, <1>5 DEF Next, Work

\* A newborn is not mistaken for another individual of its search.
LEMMA NewbornIsNew ==
  ASSUME SearchOK, Births, NEW i \in Islands, NEW c \in Candidates, NEW q \in Known
  PROVE  ~SameBirth(Newborn(i, c), q)
<1> SUFFICES ASSUME SameBirth(Newborn(i, c), q) PROVE FALSE
  OBVIOUS
<1>1. q.id.home = i /\ q.id.gen = generation[i] + 1 /\ q.search = starts
  BY DEF SameBirth, Newborn, HeuristicId
<1>2. q.id.gen <= generation[i]
  BY <1>1 DEF Births
<1>3. generation[i] \in Nat
  BY SearchConstants DEF SearchOK, WorkOK
<1> QED BY <1>1, <1>2, <1>3

\* Known individuals are of an island.
LEMMA BornOnAnIsland ==
  ASSUME SearchOK, NEW p \in Known
  PROVE  p.id.home \in Islands /\ p.id.gen \in Nat /\ p.search \in Nat
<1>1. p \in Individuals
  BY KnownAreIndividuals
<1>2. p.id \in Ids /\ p.search \in 1..MaxStarts
  BY <1>1 DEF Individuals
<1> QED BY <1>2, SearchConstants DEF Ids, Generations

\* Nobody is born in a generation that is still to come, after every step.
LEMMA BirthsStep == SearchOK /\ Births /\ [Next]_vars => Births'
<1> SUFFICES ASSUME SearchOK, Births, [Next]_vars PROVE Births'
  OBVIOUS
<1> DEFINE OfACandidate(p) == \E c \in Candidates :
             p.id.print = c.print /\ p.pack = c.pack /\ p.fuel = c.fuel
           InTime(p) == /\ p.search <= starts'
                        /\ p.search = starts' => p.id.gen <= generation'[p.id.home]
<1>0. /\ \A i \in Islands : generation[i] \in Nat /\ generation'[i] \in Nat
      /\ starts \in Nat /\ starts' \in Nat
  BY SearchStep, SearchConstants DEF SearchOK, WorkOK, BoundsOK
<1>1. \A p \in Known : OfACandidate(p)
  BY DEF Births
<1>2. ASSUME NEW p \in Known PROVE InTime(p)
  <2>1. /\ p.id.home \in Islands /\ p.id.gen \in Nat /\ p.search \in Nat
        /\ p.search <= starts /\ (p.search = starts => p.id.gen <= generation[p.id.home])
    BY BornOnAnIsland DEF Births
  <2>2. CASE Start
    <3>1. starts' = starts + 1
      BY <2>2 DEF Start
    <3> QED BY <1>0, <2>1, <3>1
  <2>3. CASE ~Start
    <3>1. starts' = starts /\ generation[p.id.home] <= generation'[p.id.home]
      BY <2>1, <2>3, StartsCount, GenerationsGrow
    <3> QED BY <1>0, <2>1, <3>1
  <2> QED BY <2>2, <2>3
<1>3. ASSUME NEW i \in Islands, NEW c \in Candidates, Accepted(i, c) PROVE Births'
  <2>1. /\ worker[i].pc = "mutating" /\ generation'[i] = generation[i] + 1
        /\ starts' = starts
    BY <1>3 DEF Accepted, SearchOK, WorkOK
  <2>2. OfACandidate(Newborn(i, c)) /\ InTime(Newborn(i, c))
    <3>1. /\ Newborn(i, c).search = starts /\ Newborn(i, c).id.home = i
          /\ Newborn(i, c).id.gen = generation[i] + 1
      BY DEF Newborn, HeuristicId
    <3>2. OfACandidate(Newborn(i, c))
      BY DEF Newborn, HeuristicId
    <3> HIDE DEF OfACandidate
    <3> QED BY <1>0, <2>1, <3>1, <3>2
  <2> HIDE DEF OfACandidate, InTime
  <2>3. \A p \in Known' : OfACandidate(p) /\ InTime(p)
    BY <1>1, <1>2, <1>3, <2>2, AcceptedIsNew
  <2> QED BY <2>3 DEF Births, OfACandidate, InTime
<1>4. CASE \A i \in Islands, c \in Candidates : ~Accepted(i, c)
  <2>1. \A p \in Known' : OfACandidate(p) /\ InTime(p)
    <3> TAKE p \in Known'
    <3>1. PICK q \in Known : CopyOf(p, q)
      BY <1>4, OthersAreCopies
    <3>2. OfACandidate(q) /\ InTime(q)
      BY <1>1, <1>2
    <3> QED BY <3>1, <3>2 DEF CopyOf, SameBirth
  <2> QED BY <2>1 DEF Births
<1> QED BY <1>3, <1>4

\* Individuals of one birth stay the same.
LEMMA OneOfABirthStep ==
  SearchOK /\ Births /\ OneOfABirth /\ [Next]_vars => OneOfABirth'
<1> SUFFICES ASSUME SearchOK, Births, OneOfABirth, [Next]_vars,
                    NEW p \in Known', NEW q \in Known', SameBirth(p, q)
             PROVE  p.pack = q.pack /\ p.fuel = q.fuel
  BY DEF OneOfABirth
<1>1. ASSUME NEW i \in Islands, NEW c \in Candidates, Accepted(i, c)
      PROVE  p.pack = q.pack /\ p.fuel = q.fuel
  <2> DEFINE new == Newborn(i, c)
  <2>1. (p \in Known \/ p = new) /\ (q \in Known \/ q = new)
    BY <1>1, AcceptedIsNew
  <2>2. \A r \in Known : ~SameBirth(new, r)
    BY NewbornIsNew
  <2> HIDE DEF new
  <2>3. SameBirth(q, p)
    BY DEF SameBirth
  <2> QED BY <2>1, <2>2, <2>3 DEF OneOfABirth
<1>2. CASE \A i \in Islands, c \in Candidates : ~Accepted(i, c)
  <2>1. PICK r \in Known : CopyOf(p, r)
    BY <1>2, OthersAreCopies
  <2>2. PICK s \in Known : CopyOf(q, s)
    BY <1>2, OthersAreCopies
  <2>3. SameBirth(r, s)
    BY <2>1, <2>2 DEF CopyOf, SameBirth
  <2> QED BY <2>1, <2>2, <2>3 DEF OneOfABirth, CopyOf
<1> QED BY <1>1, <1>2

SearchInv == SearchOK /\ Births /\ OneOfABirth

\* The inductive invariant of the search is kept,
LEMMA SearchInvStep == SearchInv /\ [Next]_vars => SearchInv'
BY SearchStep, BirthsStep, OneOfABirthStep DEF SearchInv

\* and holds at first.
LEMMA SearchInvStarts == Init => SearchInv
<1> SUFFICES ASSUME Init PROVE SearchInv
  OBVIOUS
<1>1. SearchOK
  BY SearchStarts
<1>2. Known = {}
  BY DEF Init, Known, InPopulations, NoMigration, NotWorking
<1> QED BY <1>1, <1>2 DEF SearchInv, Births, OneOfABirth, Init

\* Wherever an id is met, in a population, in the table or on the way there, it stands
\* for one heuristic of each search, however many searches there are.
THEOREM OneHeuristicPerId == Spec => []SameIdSameHeuristic
<1>1. ASSUME SearchInv PROVE SameIdSameHeuristic
  <2> DEFINE known == rows \cup UNION {ToSet(individuals[i]) : i \in Islands}
  <2>1. known \subseteq Known
    BY DEF Known, InPopulations, ToSet
  <2>2. ASSUME NEW p \in known, NEW q \in known, p.id = q.id, p.search = q.search PROVE p = q
    <3>1. p \in Individuals /\ q \in Individuals /\ p \in Known /\ q \in Known
      BY <1>1, <2>1, KnownAreIndividuals DEF SearchInv
    <3>2. p.pack = q.pack /\ p.fuel = q.fuel
      BY <1>1, <2>2, <3>1 DEF SearchInv, OneOfABirth, SameBirth
    <3> QED BY <2>2, <3>1, <3>2 DEF Individuals
  <2>3. TypeOK
    BY <1>1, SearchIsTyped DEF SearchInv
  <2> HIDE DEF known
  <2>4. \A p, q \in known : p.id = q.id /\ p.search = q.search => p = q
    BY <2>2
  <2> QED BY <2>3, <2>4 DEF SameIdSameHeuristic, known
<1> QED BY <1>1, SearchInvStep, SearchInvStarts, PTL DEF Spec

\* On an island where no namesakes of two searches meet, individuals of one id are the
\* same.
LEMMA NamesakesOfAnIsland ==
  ASSUME SearchInv, NEW i \in Islands, ~Mixed(individuals[i])
  PROVE  NamesakesAreEqual(individuals[i])
BY DEF SearchInv, OneOfABirth, SameBirth, NamesakesAreEqual, Known, InPopulations, Mixed

\* Who is mistaken for nobody of the same search may be registered where he meets no
\* namesake of another one.
LEMMA RegisteredAmongKnown ==
  ASSUME SearchInv, NEW i \in Islands, NEW ind \in Individuals,
         \A q \in Known : SameBirth(ind, q) => q.pack = ind.pack /\ q.fuel = ind.fuel,
         ~Mixed(Append(individuals[i], ind))
  PROVE  NamesakesAreEqual(Append(individuals[i], ind))
<1> DEFINE pop == individuals[i]
           grown == Append(pop, ind)
<1>1. pop \in Seq(Individuals) /\ \A x \in Individuals : x.pack \in Nat /\ x.fuel \in Nat
  BY SearchConstants DEF SearchInv, SearchOK, PopulationsOK
<1>2. \A k \in DOMAIN pop : pop[k] \in Known
  BY DEF Known, InPopulations
<1> HIDE DEF pop
<1>3. /\ \A k \in DOMAIN pop : k \in DOMAIN grown /\ grown[k] = pop[k]
      /\ Len(pop) + 1 \in DOMAIN grown /\ grown[Len(pop) + 1] = ind
  BY <1>1
<1>4. \A k, l \in DOMAIN grown : grown[k].id = grown[l].id => grown[k].search = grown[l].search
  BY DEF Mixed, pop
<1> HIDE DEF grown
<1>5. NamesakesAreEqual(pop)
  <2>1. ~Mixed(pop)
    BY <1>3, <1>4 DEF Mixed
  <2> QED BY <2>1, NamesakesOfAnIsland DEF pop
<1>6. \A k \in DOMAIN pop : pop[k].id = ind.id => pop[k].pack = ind.pack /\ pop[k].fuel = ind.fuel
  BY <1>2, <1>3, <1>4 DEF SameBirth
<1> QED BY <1>1, <1>5, <1>6, Newcomer DEF pop, grown

\* A migrant packs as well as the elite it is a copy of, and the island it comes
\* to does not get worse by it, unless it meets a namesake there.
LEMMA TransferImproves ==
  ASSUME SearchInv, Capacity >= 2, MigrationTransfers
  PROVE  LET t == migration.transfers[migration.done + 1]
         IN  /\ t.src \in Islands
             /\ \/ BestPack(individuals'[Downstream(t.src)]) >= t.ind.pack
                \/ Downstream(t.src) \in mixed'
             /\ \A k \in Islands : \/ BestPack(individuals'[k]) >= BestPack(individuals[k])
                                   \/ NamesakesMeet(k) /\ k \in mixed'
<1> DEFINE t == migration.transfers[migration.done + 1]
<1>1. /\ migration.done < Len(migration.transfers)
      /\ individuals' = Register(Downstream(t.src), Migrant(t))
      /\ mixed' = MixedBy(Downstream(t.src), Migrant(t))
  BY DEF MigrationTransfers
<1>2. SearchOK /\ PopulationsOK
  BY DEF SearchInv, SearchOK
<1>3. migration.done + 1 \in DOMAIN migration.transfers /\ t \in [src : Islands, ind : Individuals]
  BY <1>1, <1>2, NextTransferIsTyped
<1>4. t.ind \in Known
  BY <1>3 DEF Known
<1>11. Mixed(Append(individuals[Downstream(t.src)], Migrant(t))) =>
         NamesakesMeet(Downstream(t.src)) /\ Downstream(t.src) \in mixed'
  BY <1>1, <1>3 DEF NamesakesMeet, MixedBy
<1> HIDE DEF t
<1>5. /\ SameBirth(Migrant(t), t.ind) /\ Migrant(t).pack = t.ind.pack /\ Migrant(t).fuel = t.ind.fuel
      /\ Migrant(t) \in Individuals /\ Downstream(t.src) \in Islands /\ t.src \in Islands
  BY <1>3, MigrantIsTyped, SearchConstants DEF SameBirth
<1>6. \A q \in Known : SameBirth(Migrant(t), q) =>
        q.pack = Migrant(t).pack /\ q.fuel = Migrant(t).fuel
  <2> TAKE q \in Known
  <2>1. SameBirth(Migrant(t), q) => SameBirth(t.ind, q)
    BY <1>5 DEF SameBirth
  <2>2. SameBirth(t.ind, q) => t.ind.pack = q.pack /\ t.ind.fuel = q.fuel
    BY <1>4 DEF SearchInv, OneOfABirth
  <2> QED BY <1>5, <2>1, <2>2
<1>7. \/ NamesakesAreEqual(Append(individuals[Downstream(t.src)], Migrant(t)))
      \/ NamesakesMeet(Downstream(t.src)) /\ Downstream(t.src) \in mixed'
  BY <1>5, <1>6, <1>11, RegisteredAmongKnown
<1>8. /\ \/ /\ BestPack(individuals'[Downstream(t.src)]) >= BestPack(individuals[Downstream(t.src)])
            /\ BestPack(individuals'[Downstream(t.src)]) >= Migrant(t).pack
         \/ NamesakesMeet(Downstream(t.src)) /\ Downstream(t.src) \in mixed'
      /\ \A k \in Islands : k # Downstream(t.src) => individuals'[k] = individuals[k]
  BY <1>1, <1>2, <1>5, <1>7, RegisterChanges
<1>9. \A k \in Islands : BestPack(individuals[k]) \in Nat
  BY <1>2, PopulationsArePopulations, BestPackIsReached
<1>10. ASSUME NEW k \in Islands
       PROVE  \/ BestPack(individuals'[k]) >= BestPack(individuals[k])
              \/ NamesakesMeet(k) /\ k \in mixed'
  BY <1>8, <1>9
<1> QED BY <1>5, <1>8, <1>10 DEF t

\* Only a restart lowers the best packing ratio of an island where no namesakes meet.
LEMMA PackingIsKept ==
  ASSUME SearchInv, Capacity >= 2, [Next]_vars,
         NEW k \in Islands, ~CataclysmicRestart(k)
  PROVE  \/ BestPack(individuals'[k]) >= BestPack(individuals[k])
         \/ NamesakesMeet(k) /\ k \in mixed'
<1>0. SearchOK /\ PopulationsOK /\ Births
  BY DEF SearchInv, SearchOK
<1>1. BestPack(individuals[k]) \in Nat
  BY <1>0, PopulationsArePopulations, BestPackIsReached
<1>2. CASE individuals'[k] = individuals[k]
  BY <1>1, <1>2
<1>3. ASSUME NEW i \in Islands, NEW c \in Candidates, Accepted(i, c)
      PROVE  \/ BestPack(individuals'[k]) >= BestPack(individuals[k])
             \/ NamesakesMeet(k) /\ k \in mixed'
  <2>1. /\ individuals' = Register(i, Newborn(i, c)) /\ worker[i].pc = "mutating"
        /\ mixed' = MixedBy(i, Newborn(i, c))
        /\ worker' = [worker EXCEPT ![i] = [pc |-> "connecting", saved |-> Newborn(i, c)]]
    BY <1>3 DEF Accepted, Newborn
  <2>2. Newborn(i, c) \in Individuals
    BY <1>0, <2>1, NewbornIsTyped
  <2>3. \A q \in Known : SameBirth(Newborn(i, c), q) =>
          q.pack = Newborn(i, c).pack /\ q.fuel = Newborn(i, c).fuel
    BY <1>0, NewbornIsNew
  <2>6. Mixed(Append(individuals[i], Newborn(i, c))) => NamesakesMeet(i) /\ i \in mixed'
    <3>1. worker'[i].pc = "connecting" /\ worker'[i].saved = Newborn(i, c)
      BY <1>0, <2>1 DEF SearchOK, WorkOK
    <3> HIDE DEF Newborn
    <3> QED BY <2>1, <3>1 DEF NamesakesMeet, MixedBy
  <2>4. \/ NamesakesAreEqual(Append(individuals[i], Newborn(i, c)))
        \/ NamesakesMeet(i) /\ i \in mixed'
    BY <2>2, <2>3, <2>6, RegisteredAmongKnown
  <2>5. /\ \/ BestPack(individuals'[i]) >= BestPack(individuals[i])
           \/ NamesakesMeet(i) /\ i \in mixed'
        /\ \A j \in Islands : j # i => individuals'[j] = individuals[j]
    BY <1>0, <2>1, <2>2, <2>4, RegisterChanges
  <2> QED BY <1>1, <2>5
<1>4. CASE MigrationTransfers
  BY <1>4, TransferImproves
<1>5. ASSUME NEW i \in Islands, CataclysmicRestart(i)
      PROVE  individuals'[k] = individuals[k]
  BY <1>0, <1>5, RestartLeavesOne
<1>6. ASSUME NEW i \in Islands, Rejected(i) \/ LooksUp(i) \/ FindsItGone(i) \/ Saved(i) \/ SaveFails(i)
      PROVE  individuals' = individuals
  BY <1>6 DEF Rejected, LooksUp, FindsItGone, Saved, SaveFails
<1>7. CASE Start \/ Stop \/ MigrationCollects \/ MigrationCommits \/ MigrationFails \/ UNCHANGED vars
  BY <1>2, <1>7 DEF Start, Stop, MigrationCollects, MigrationCommits, MigrationFails, vars
<1> QED BY <1>2, <1>3, <1>4, <1>5, <1>6, <1>7 DEF Next, Work, Supervise

\* What an island has reached it keeps, whoever is registered and whoever immigrates:
\* only a restart makes its best worse, or a step in which namesakes of two searches
\* meet.
THEOREM FitnessIsKept ==
  ASSUME Capacity >= 2
  PROVE  Spec => FitnessAccumulates
<1>1. ASSUME SearchInv, [Next]_vars, NEW i \in Islands
      PROVE  \/ BestPack(individuals'[i]) >= BestPack(individuals[i])
             \/ NamesakesMeet(i)
             \/ /\ CataclysmicRestart(i)
                /\ Len(individuals'[i]) = 1
                /\ \A k \in DOMAIN individuals[i] :
                     ~Dominates(individuals[i][k], individuals'[i][1])
  <2>1. CASE ~CataclysmicRestart(i)
    BY <1>1, <2>1, PackingIsKept
  <2>2. CASE CataclysmicRestart(i)
    <3>1. SearchOK /\ SearchOK'
      BY <1>1, SearchStep DEF SearchInv
    <3>2. PICK k \in DOMAIN individuals[i] :
            /\ individuals'[i] = <<individuals[i][k]>>
            /\ \/ DominatorsOf(individuals[i], k) = {}
               \/ \A j \in DOMAIN individuals[i] : individuals[i][j].pack <= individuals[i][k].pack
      BY <2>2, <3>1, RestartLeavesOne
    <3>3. Len(individuals'[i]) = 1 /\ individuals'[i][1] = individuals[i][k]
      BY <3>2
    <3>4. CASE DominatorsOf(individuals[i], k) = {}
      BY <2>2, <3>3, <3>4 DEF DominatorsOf
    <3>5. CASE \A j \in DOMAIN individuals[i] : individuals[i][j].pack <= individuals[i][k].pack
      <4>1. IsPopulation(individuals[i]) /\ IsPopulation(individuals'[i])
        <5>1. individuals'[i] \in Seq(Individuals)
          BY <3>1 DEF SearchOK, PopulationsOK
        <5> QED BY <3>1, <5>1, PopulationsArePopulations, SearchConstants, IndividualsArePopulation
      <4>2. /\ BestPack(individuals[i]) \in Nat /\ BestPack(individuals'[i]) \in Nat
            /\ BestPack(individuals[i]) = 0 \/ \E j \in DOMAIN individuals[i] :
                 individuals[i][j].pack = BestPack(individuals[i])
            /\ individuals[i][k].pack <= BestPack(individuals'[i])
        <5>1. 1 \in DOMAIN individuals'[i]
          BY <3>2
        <5> QED BY <3>3, <4>1, <5>1, BestPackIsReached
      <4>3. individuals[i][k].pack \in Nat
        BY <4>1 DEF IsPopulation
      <4> QED BY <3>5, <4>2, <4>3
    <3> QED BY <3>2, <3>4, <3>5
  <2> QED BY <2>1, <2>2
<1>2. SearchInv /\ [Next]_vars =>
        [\A i \in Islands :
           \/ BestPack(individuals'[i]) >= BestPack(individuals[i])
           \/ NamesakesMeet(i)
           \/ /\ CataclysmicRestart(i)
              /\ Len(individuals'[i]) = 1
              /\ \A k \in DOMAIN individuals[i] :
                   ~Dominates(individuals[i][k], individuals'[i][1])]_vars
  BY <1>1
<1> QED BY <1>2, SearchInvStep, SearchInvStarts, PTL DEF Spec, FitnessAccumulates

-----------------------------------------------------------------------------
\* Two neighbours that have held no namesakes of two searches.
Unmixed(i) == {i, Downstream(i)} \intersect mixed = {}

\* Only a migration that begins forgets where namesakes have been.
LEMMA MixedGrows ==
  ASSUME [Next]_vars, ~MigrationCollects
  PROVE  mixed \subseteq mixed'
<1>1. CASE mixed' = mixed
  BY <1>1
<1>2. ASSUME NEW i \in Islands, NEW c \in Candidates, Accepted(i, c) PROVE mixed \subseteq mixed'
  BY <1>2 DEF Accepted, MixedBy
<1>3. CASE MigrationTransfers
  BY <1>3 DEF MigrationTransfers, MixedBy
<1>4. ASSUME NEW i \in Islands,
             \/ Rejected(i) \/ LooksUp(i) \/ FindsItGone(i) \/ Saved(i) \/ SaveFails(i)
             \/ CataclysmicRestart(i)
      PROVE  mixed' = mixed
  BY <1>4 DEF Rejected, LooksUp, FindsItGone, Saved, SaveFails, CataclysmicRestart
<1>5. CASE Start \/ Stop \/ MigrationCommits \/ MigrationFails \/ UNCHANGED vars
  BY <1>1, <1>5 DEF Start, Stop, MigrationCommits, MigrationFails, vars
<1> QED BY <1>1, <1>2, <1>3, <1>4, <1>5 DEF Next, Work, Supervise

\* What an unmixed island was promised is there, or on its way.
PromisesHold ==
  /\ migration.active \in BOOLEAN
  /\ migration.active =>
       \A i \in Islands :
         \/ ~Unmixed(i)
         \/ BestPack(individuals[Downstream(i)]) >= migration.promised[i]
         \/ \E k \in DOMAIN migration.transfers :
              /\ k > migration.done
              /\ migration.transfers[k].src = i
              /\ migration.transfers[k].ind.pack >= migration.promised[i]
  /\ migration.active => \A i \in Islands : migration.promised[i] \in Nat

\* The elites that are collected keep the promises.
LEMMA CollectPromises ==
  ASSUME SearchInv, EliteCount >= 2, MigrationCollects
  PROVE  PromisesHold'
<1>0. SearchOK /\ \A i \in Islands : IsPopulation(individuals[i])
  BY PopulationsArePopulations DEF SearchInv
<1>1. /\ migration'.active = TRUE /\ migration'.transfers = Leaving /\ migration'.done = 0
      /\ migration'.promised = [i \in Islands |-> BestPack(individuals[i])]
      /\ individuals' = individuals
      /\ mixed' = {i \in Islands : Mixed(individuals[i])}
  BY DEF MigrationCollects, NoMigration
<1>2. \A i \in Islands : BestPack(individuals[i]) \in Nat
  BY <1>0, BestPackIsReached
<1>3. ASSUME NEW i \in Islands, ~Mixed(individuals[i])
      PROVE  \/ BestPack(individuals[Downstream(i)]) >= BestPack(individuals[i])
             \/ \E k \in DOMAIN Leaving :
                  k > 0 /\ Leaving[k].src = i /\ Leaving[k].ind.pack >= BestPack(individuals[i])
  <2>1. CASE BestPack(individuals[i]) = 0
    BY <1>2, <2>1, SearchConstants
  <2>2. CASE BestPack(individuals[i]) # 0
    <3>1. PICK j \in DOMAIN individuals[i] : individuals[i][j].pack = BestPack(individuals[i])
      BY <1>0, <2>2, BestPackIsReached
    <3>2. individuals[i] # <<>>
      BY <3>1
    <3>3. PICK l \in DOMAIN Elites(individuals[i]) :
            individuals[i][j].pack <= Elites(individuals[i])[l].pack
      BY <1>0, <1>3, <3>2, NamesakesOfAnIsland, ElitesAreOfThePopulation
    <3>4. PICK k \in DOMAIN Leaving :
            Leaving[k].src = i /\ Leaving[k].ind = Elites(individuals[i])[l]
      BY <1>0, LeavingAreTheElites
    <3>5. k > 0
      BY <1>0, LeavingAreTheElites
    <3>6. PICK m \in DOMAIN individuals[i] : Elites(individuals[i])[l] = individuals[i][m]
      BY <1>0, ElitesAreOfThePopulation
    <3>7. Elites(individuals[i])[l].pack \in Nat
      BY <1>0, <3>6 DEF IsPopulation
    <3> QED BY <1>2, <3>1, <3>3, <3>4, <3>5, <3>7
  <2> QED BY <2>1, <2>2
<1>4. \A i \in Islands : migration'.promised[i] = BestPack(individuals[i])
  BY <1>1
<1>6. \A i \in Islands : Mixed(individuals[i]) => ~Unmixed(i)'
  BY <1>1 DEF Unmixed
<1>5. \A i \in Islands :
        \/ ~Unmixed(i)'
        \/ BestPack(individuals'[Downstream(i)]) >= migration'.promised[i]
        \/ \E k \in DOMAIN migration'.transfers :
             /\ k > migration'.done
             /\ migration'.transfers[k].src = i
             /\ migration'.transfers[k].ind.pack >= migration'.promised[i]
  BY <1>1, <1>3, <1>4, <1>6
<1> QED BY <1>1, <1>2, <1>4, <1>5 DEF PromisesHold

\* A transfer keeps one of them; a worker takes none back.
LEMMA PromisesStep ==
  ASSUME SearchInv, Capacity >= 2, EliteCount >= 2, PromisesHold, [Next]_vars
  PROVE  PromisesHold'
<1>0. /\ SearchOK /\ SearchInv'
      /\ \A i \in Islands : Downstream(i) \in Islands
      /\ \A i \in Islands : BestPack(individuals[i]) \in Nat /\ BestPack(individuals'[i]) \in Nat
  <2>1. SearchInv'
    BY SearchInvStep
  <2>2. \A i \in Islands : IsPopulation(individuals'[i])
    <3>1. SearchInv' => \A i \in Islands : individuals'[i] \in Seq(Individuals)
      BY DEF SearchInv, SearchOK, PopulationsOK
    <3> QED BY <2>1, <3>1, SearchConstants, IndividualsArePopulation
  <2> QED BY <2>1, <2>2, PopulationsArePopulations, BestPackIsReached, SearchConstants DEF SearchInv
<1>9. ASSUME ~MigrationCollects, NEW i \in Islands, Unmixed(i)'
      PROVE  Unmixed(i) /\ i \notin mixed' /\ Downstream(i) \notin mixed'
  BY <1>9, MixedGrows DEF Unmixed
<1>1. CASE MigrationCollects
  BY <1>1, CollectPromises
<1>2. CASE MigrationCommits \/ MigrationFails
  <2>1. migration'.active = FALSE
    BY <1>2 DEF MigrationCommits, MigrationFails, NoMigration
  <2> QED BY <2>1 DEF PromisesHold
<1>3. CASE MigrationTransfers /\ ~MigrationCollects
  <2> DEFINE t == migration.transfers[migration.done + 1]
  <2>1. /\ t.src \in Islands
        /\ \/ BestPack(individuals'[Downstream(t.src)]) >= t.ind.pack
           \/ Downstream(t.src) \in mixed'
        /\ \A k \in Islands : k \notin mixed' =>
             BestPack(individuals'[k]) >= BestPack(individuals[k])
    BY <1>3, TransferImproves
  <2>2. /\ migration'.active = migration.active /\ migration'.promised = migration.promised
        /\ migration'.transfers = migration.transfers /\ migration'.done = migration.done + 1
    BY <1>0, <1>3 DEF MigrationTransfers, SearchOK, TableOK
  <2>3. /\ Len(migration.transfers) \in Nat
        /\ DOMAIN migration.transfers = 1..Len(migration.transfers)
        /\ migration.done \in Nat
        /\ \A k \in DOMAIN migration.transfers : migration.transfers[k].ind.pack \in Nat
    <3>1. \A k \in DOMAIN migration.transfers : migration.transfers[k].ind \in Individuals
      BY <1>0 DEF SearchOK, TableOK
    <3> QED BY <1>0, <3>1, SearchConstants DEF SearchOK, TableOK
  <2>4. ASSUME migration.active, NEW i \in Islands, Unmixed(i)'
        PROVE  \/ BestPack(individuals'[Downstream(i)]) >= migration.promised[i]
               \/ \E k \in DOMAIN migration.transfers :
                    /\ k > migration.done + 1
                    /\ migration.transfers[k].src = i
                    /\ migration.transfers[k].ind.pack >= migration.promised[i]
    <3>0. /\ migration.promised[i] \in Nat
          /\ Unmixed(i) /\ Downstream(i) \notin mixed'
      BY <1>3, <1>9, <2>4 DEF PromisesHold
    <3>1. CASE BestPack(individuals[Downstream(i)]) >= migration.promised[i]
      BY <1>0, <2>1, <3>0, <3>1
    <3>2. ASSUME NEW k \in DOMAIN migration.transfers, k > migration.done,
                 migration.transfers[k].src = i,
                 migration.transfers[k].ind.pack >= migration.promised[i]
          PROVE  \/ BestPack(individuals'[Downstream(i)]) >= migration.promised[i]
                 \/ k > migration.done + 1
      <4>1. CASE k = migration.done + 1
        <5>1. t.src = i /\ t.ind.pack >= migration.promised[i] /\ t.ind.pack \in Nat
          BY <2>3, <3>2, <4>1
        <5> HIDE DEF t
        <5>2. BestPack(individuals'[Downstream(i)]) >= t.ind.pack
          BY <2>1, <3>0, <5>1
        <5> QED BY <1>0, <3>0, <5>1, <5>2
      <4>2. CASE k # migration.done + 1
        BY <2>3, <3>2, <4>2
      <4> QED BY <4>1, <4>2
    <3> QED BY <2>4, <3>0, <3>1, <3>2 DEF PromisesHold
  <2> QED BY <2>2, <2>4 DEF PromisesHold
<1>4. CASE migration' = migration /\ ~MigrationCollects /\ \A k \in Islands : ~CataclysmicRestart(k)
  <2>1. \A k \in Islands : k \notin mixed' => BestPack(individuals'[k]) >= BestPack(individuals[k])
    BY <1>4, PackingIsKept
  <2>2. ASSUME migration.active, NEW i \in Islands, Unmixed(i)'
        PROVE  \/ BestPack(individuals'[Downstream(i)]) >= migration.promised[i]
               \/ \E k \in DOMAIN migration.transfers :
                    /\ k > migration.done
                    /\ migration.transfers[k].src = i
                    /\ migration.transfers[k].ind.pack >= migration.promised[i]
    <3>1. migration.promised[i] \in Nat /\ Unmixed(i) /\ Downstream(i) \notin mixed'
      BY <1>4, <1>9, <2>2 DEF PromisesHold
    <3> QED BY <1>0, <2>1, <2>2, <3>1 DEF PromisesHold
  <2> QED BY <1>4, <2>2 DEF PromisesHold
<1>5. ASSUME NEW i \in Islands, CataclysmicRestart(i) PROVE PromisesHold'
  BY <1>5 DEF CataclysmicRestart, PromisesHold
<1>6. ASSUME NEW i \in Islands, NEW c \in Candidates, Accepted(i, c) PROVE migration' = migration
  BY <1>6 DEF Accepted
<1>7. ASSUME NEW i \in Islands, Rejected(i) \/ LooksUp(i) \/ FindsItGone(i) \/ Saved(i) \/ SaveFails(i)
      PROVE  migration' = migration
  BY <1>7 DEF Rejected, LooksUp, FindsItGone, Saved, SaveFails
<1>8. CASE Start \/ Stop \/ UNCHANGED vars
  BY <1>1, <1>4, <1>5, <1>8 DEF Start, Stop, vars
<1> QED BY <1>1, <1>2, <1>3, <1>4, <1>5, <1>6, <1>7, <1>8 DEF Next, Work, Supervise

\* The best of an island arrives at the next one: when a migration has moved its last
\* migrant, no island is worse than the best of its predecessor was at the collection,
\* unless namesakes of two searches have been in one of the two.
THEOREM ElitesArrive ==
  ASSUME Capacity >= 2, EliteCount >= 2
  PROVE  Spec => []EliteArrives
<1>1. Init => PromisesHold
  BY DEF Init, NoMigration, PromisesHold
<1>2. SearchInv /\ PromisesHold /\ [Next]_vars => SearchInv' /\ PromisesHold'
  BY SearchInvStep, PromisesStep
<1>3. ASSUME SearchInv, PromisesHold PROVE EliteArrives
  <2>1. /\ Len(migration.transfers) \in Nat
        /\ DOMAIN migration.transfers = 1..Len(migration.transfers)
    BY <1>3 DEF SearchInv, SearchOK, TableOK
  <2>2. migration.done = Len(migration.transfers) =>
          \A k \in DOMAIN migration.transfers : ~(k > migration.done)
    BY <2>1
  <2> QED BY <1>3, <2>2 DEF PromisesHold, EliteArrives, Unmixed
<1> QED BY <1>1, <1>2, <1>3, SearchInvStarts, PTL DEF Spec
=============================================================================
