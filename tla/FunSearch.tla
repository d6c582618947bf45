----------------------------- MODULE FunSearch -----------------------------
(***************************************************************************)
(* The evolutionary search of agent/funsearch_service.py: one worker task  *)
(* per island evaluates candidates, the supervisor migrates elites along   *)
(* the ring of islands or restarts an island, and the operator starts and  *)
(* stops the workers.                                                      *)
(*                                                                         *)
(* An action is the code between two awaits.  A program is its fitness     *)
(* (packing ratio, with 0 for minus infinity), its fuel and its            *)
(* fingerprint; the clusters of restartable_island.py only offer parents,  *)
(* and every parent may yield every candidate.                             *)
(***************************************************************************)
EXTENDS NSGA2

CONSTANTS
  NumIslands,     \* num_islands
  Capacity,       \* max_capacity of a population
  EliteCount,     \* elite_count of a migration
  Seed,           \* the fitness of the first program
  Candidates,     \* [pack, fuel, print] of the programs a mutation may yield
  MaxStarts,      \* bound: searches started
  Evals,          \* evals_per_island of each search
  MaxEvals,       \* bound: the most of them
  MaxAccepted,    \* bound: candidates accepted
  MaxMigrations,  \* bound: ring migrations
  MaxErrors       \* bound: errors of the database

Islands == 0..(NumIslands - 1)

ASSUME FunSearchAssumption ==
  /\ NumIslands \in Nat \ {0}
  /\ Capacity \in Nat \ {0}
  /\ EliteCount \in Nat \ {0}
  /\ Seed \in Nat \ {0}
  /\ \A c \in Candidates : c.pack \in Nat \ {0} /\ c.fuel \in Nat
  /\ MaxStarts \in Nat
  /\ MaxEvals \in Nat
  /\ Evals \in [1..MaxStarts -> 0..MaxEvals]
  /\ MaxAccepted \in Nat
  /\ MaxMigrations \in Nat
  /\ MaxErrors \in Nat

VARIABLES
  isRunning,    \* is_running
  worker,       \* pc of the worker of each island, and what it awaits to save
  evalsLeft,    \* the rounds of its loop
  generation,   \* generation_count of the cluster island
  best,         \* best_fitness of the cluster island
  champion,     \* champion_program: its fitness and origin
  top,          \* top_fitness_score
  individuals,  \* the NSGA-II population of each island
  rows,         \* table heuristics
  migration,    \* the ring migration under way
  starts,       \* history: searches started
  mixed,        \* history: the islands where namesakes of two searches have been
                \* since the last migration began
  accepted,     \* history: candidates accepted
  migrations,   \* history: migrations begun
  errors        \* history: errors of the database

search == <<isRunning, evalsLeft, generation, best, champion, top, starts, accepted>>
vars == <<isRunning, worker, evalsLeft, generation, best, champion, top,
          individuals, rows, migration, starts, mixed, accepted, migrations, errors>>

Downstream(i) == (i + 1) % NumIslands

NoMigration ==
  [active |-> FALSE, transfers |-> <<>>, done |-> 0, staged |-> {},
   promised |-> [i \in Islands |-> 0]]

NotWorking == [pc |-> "none"]
Mutating == [pc |-> "mutating"]

-----------------------------------------------------------------------------
(***************************************************************************)
(* Populations and the table.                                              *)
(***************************************************************************)

\* Fault: the generation is left out.
HeuristicId_NoGeneration(i, gen, print) ==
  [home |-> i, gen |-> 0, print |-> print, path |-> <<>>]

\* h_isl{i}_gen{g}_{fp}; a migration appends the islands it comes from.
HeuristicId(i, gen, print) == [home |-> i, gen |-> gen, print |-> print, path |-> <<>>]

MigratedId(id, src) == [id EXCEPT !.path = Append(@, src)]

\* Two individuals with one id, of different searches: NSGA-II takes them for one.
\* The search is history, the code does not know it.
Mixed(pop) == \E k, l \in DOMAIN pop : pop[k].id = pop[l].id /\ pop[k].search # pop[l].search

\* register_heuristic
Register(i, ind) ==
  [individuals EXCEPT ![i] = Truncate(Append(@, ind), Capacity)]

\* The islands where namesakes have been, once ind is registered in i.
MixedBy(i, ind) == mixed \union {j \in {i} : Mixed(Append(individuals[j], ind))}

\* INSERT .. ON CONFLICT(id): the objectives of a row are never updated.
Upsert(table, inds) ==
  table \union {ind \in inds : \A r \in table : r.id # ind.id}

\* A connection, a statement or a commit raises.
DatabaseError == errors < MaxErrors /\ errors' = errors + 1

-----------------------------------------------------------------------------
(***************************************************************************)
(* start and stop.                                                         *)
(***************************************************************************)
Init ==
  /\ isRunning = FALSE
  /\ worker = [i \in Islands |-> NotWorking]
  /\ evalsLeft = [i \in Islands |-> 0]
  /\ generation = [i \in Islands |-> 0]
  /\ best = [i \in Islands |-> 0]
  /\ champion = [fitness |-> 0, origin |-> -1]
  /\ top = 0
  /\ individuals = [i \in Islands |-> <<>>]
  /\ rows = {}
  /\ migration = NoMigration
  /\ starts = 0
  /\ mixed = {}
  /\ accepted = 0
  /\ migrations = 0
  /\ errors = 0

\* start of a stopped service: new cluster islands with the seed in each, and
\* new workers, on the populations of the last search.
Start ==
  /\ ~isRunning
  /\ starts < MaxStarts
  /\ isRunning' = TRUE
  /\ worker' = [i \in Islands |-> IF Evals[starts + 1] = 0 THEN NotWorking ELSE Mutating]
  /\ evalsLeft' = [i \in Islands |-> Evals[starts + 1]]
  /\ generation' = [i \in Islands |-> 1]
  /\ best' = [i \in Islands |-> Seed]
  /\ champion' = [fitness |-> Seed, origin |-> -1]
  /\ top' = Seed
  /\ starts' = starts + 1
  /\ UNCHANGED <<individuals, rows, migration, mixed, accepted, migrations, errors>>

Writing == {i \in Islands : worker[i].pc = "writing"}

\* stop: the workers are cancelled where they stand, and SQLite may or may not
\* finish the statements it was given.
Stop ==
  /\ isRunning
  /\ isRunning' = FALSE
  /\ worker' = [i \in Islands |-> NotWorking]
  /\ \E finished \in SUBSET Writing :
       rows' = Upsert(rows, {worker[i].saved : i \in finished})
  /\ evalsLeft' = [i \in Islands |-> 0]
  /\ UNCHANGED <<generation, best, champion, top, individuals, migration,
                 starts, mixed, accepted, migrations, errors>>

-----------------------------------------------------------------------------
(***************************************************************************)
(* _island_worker.                                                         *)
(***************************************************************************)

\* The head of the loop.
NextRound(i) ==
  /\ worker' = [worker EXCEPT ![i] =
       IF evalsLeft[i] > 1 /\ isRunning THEN Mutating ELSE NotWorking]
  /\ evalsLeft' = [evalsLeft EXCEPT ![i] = @ - 1]

\* The mutation fails, or the pipeline rejects the candidate.
Rejected(i) ==
  /\ worker[i].pc = "mutating"
  /\ NextRound(i)
  /\ UNCHANGED <<isRunning, generation, best, champion, top, individuals, rows,
                 migration, starts, mixed, accepted, migrations, errors>>

\* Fault: a candidate becomes champion when it is the best of its island.
Accepted_IslandBest(i, c) ==
  LET ind == [id |-> HeuristicId(i, generation[i] + 1, c.print),
              pack |-> c.pack, fuel |-> c.fuel, search |-> starts]
  IN  /\ worker[i].pc = "mutating"
      /\ accepted < MaxAccepted
      /\ accepted' = accepted + 1
      /\ generation' = [generation EXCEPT ![i] = @ + 1]
      /\ best' = [best EXCEPT ![i] = Max({@, c.pack})]
      /\ top' = IF c.pack > best[i] THEN c.pack ELSE top
      /\ champion' = IF c.pack > best[i]
                     THEN [fitness |-> c.pack, origin |-> i] ELSE champion
      /\ individuals' = Register(i, ind)
      /\ mixed' = MixedBy(i, ind)
      /\ worker' = [worker EXCEPT ![i] = [pc |-> "connecting", saved |-> ind]]
      /\ UNCHANGED <<isRunning, evalsLeft, rows, migration, starts, migrations, errors>>

\* The pipeline accepts the candidate c: from the end of the mutation to the
\* connection to the database there is no await.
Accepted(i, c) ==
  LET ind == [id |-> HeuristicId(i, generation[i] + 1, c.print),
              pack |-> c.pack, fuel |-> c.fuel, search |-> starts]
  IN  /\ worker[i].pc = "mutating"
      /\ accepted < MaxAccepted
      /\ accepted' = accepted + 1
      /\ generation' = [generation EXCEPT ![i] = @ + 1]
      /\ best' = [best EXCEPT ![i] = Max({@, c.pack})]
      /\ top' = Max({top, c.pack})
      /\ champion' = IF c.pack > top
                     THEN [fitness |-> c.pack, origin |-> i] ELSE champion
      /\ individuals' = Register(i, ind)
      /\ mixed' = MixedBy(i, ind)
      /\ worker' = [worker EXCEPT ![i] = [pc |-> "connecting", saved |-> ind]]
      /\ UNCHANGED <<isRunning, evalsLeft, rows, migration, starts, migrations, errors>>

\* The first individual of that id is saved, which need not be the same one.
LooksUp(i) ==
  /\ worker[i].pc = "connecting"
  /\ \E k \in DOMAIN individuals[i] :
       /\ individuals[i][k].id = worker[i].saved.id
       /\ \A j \in 1..(k - 1) : individuals[i][j].id # worker[i].saved.id
       /\ worker' = [worker EXCEPT ![i] = [pc |-> "writing", saved |-> individuals[i][k]]]
  /\ UNCHANGED <<search, individuals, rows, migration, mixed, migrations, errors>>

\* A migration or a restart has evicted it meanwhile, or it never survived.
FindsItGone(i) ==
  /\ worker[i].pc = "connecting"
  /\ \A k \in DOMAIN individuals[i] : individuals[i][k].id # worker[i].saved.id
  /\ NextRound(i)
  /\ UNCHANGED <<isRunning, generation, best, champion, top, individuals, rows,
                 migration, starts, mixed, accepted, migrations, errors>>

\* persist_individual, once no migration holds the write lock of SQLite.
Saved(i) ==
  /\ worker[i].pc = "writing"
  /\ migration.staged = {}
  /\ rows' = Upsert(rows, {worker[i].saved})
  /\ NextRound(i)
  /\ UNCHANGED <<isRunning, generation, best, champion, top, individuals,
                 migration, starts, mixed, accepted, migrations, errors>>

\* Errors of the database are swallowed.
SaveFails(i) ==
  /\ worker[i].pc \in {"connecting", "writing"}
  /\ DatabaseError
  /\ NextRound(i)
  /\ UNCHANGED <<isRunning, generation, best, champion, top, individuals, rows,
                 migration, starts, mixed, accepted, migrations>>

-----------------------------------------------------------------------------
(***************************************************************************)
(* execute_ring_migration and execute_cataclysmic_restart, called one      *)
(* after the other by the supervisor, whose criteria are left open.        *)
(***************************************************************************)

\* The front the code works on, with its fallback.
Frontier(pop) == IF FirstFront(pop) # <<>> THEN FirstFront(pop) ELSE ByPacking(pop)

\* Fault: one elite short.
Elites_OneShort(pop) ==
  IF pop = <<>> THEN <<>>
  ELSE LET chosen == SubSeq(ByCrowding(pop, Frontier(pop)), 1,
                            Min({EliteCount - 1, Len(Frontier(pop))}))
       IN  [k \in DOMAIN chosen |-> pop[chosen[k]]]

\* Copies of the elites that leave an island.
Elites(pop) ==
  IF pop = <<>> THEN <<>>
  ELSE LET chosen == SubSeq(ByCrowding(pop, Frontier(pop)), 1,
                            Min({EliteCount, Len(Frontier(pop))}))
       IN  [k \in DOMAIN chosen |-> pop[chosen[k]]]

\* The elites of all islands, one island after the other.
Leaving ==
  LET elites == [i \in Islands |-> Elites(individuals[i])]
      places == {p \in Islands \X (1..EliteCount) : p[2] <= Len(elites[p[1]])}
      order == Arranged(places, [p \in places |->
                 {q \in places : q[1] < p[1] \/ (q[1] = p[1] /\ q[2] <= p[2])}])
  IN  [n \in DOMAIN order |-> [src |-> order[n][1], ind |-> elites[order[n][1]][order[n][2]]]]

\* All elites are collected before the first one moves.
MigrationCollects ==
  /\ ~migration.active
  /\ migrations < MaxMigrations
  /\ NumIslands >= 2
  /\ migration' = [NoMigration EXCEPT
       !.active = TRUE,
       !.transfers = Leaving,
       !.promised = [i \in Islands |-> BestPack(individuals[i])]]
  /\ mixed' = {i \in Islands : Mixed(individuals[i])}
  /\ migrations' = migrations + 1
  /\ UNCHANGED <<search, worker, individuals, rows, errors>>

\* The copy of an elite as its neighbour gets it.
Migrant(transfer) == [transfer.ind EXCEPT !.id = MigratedId(@, transfer.src)]

\* Fault: every transfer is committed at once.
MigrationTransfers_Commits ==
  /\ migration.active
  /\ migration.done < Len(migration.transfers)
  /\ LET next == migration.transfers[migration.done + 1]
         ind == Migrant(next)
     IN  /\ individuals' = Register(Downstream(next.src), ind)
         /\ mixed' = MixedBy(Downstream(next.src), ind)
         /\ rows' = Upsert(rows, {ind})
         /\ migration' = [migration EXCEPT !.done = @ + 1]
  /\ UNCHANGED <<search, worker, migrations, errors>>

\* One migrant: registered under its new id, then given to the transaction.
MigrationTransfers ==
  /\ migration.active
  /\ migration.done < Len(migration.transfers)
  /\ LET next == migration.transfers[migration.done + 1]
         ind == Migrant(next)
     IN  /\ individuals' = Register(Downstream(next.src), ind)
         /\ mixed' = MixedBy(Downstream(next.src), ind)
         /\ migration' = [migration EXCEPT !.done = @ + 1,
                                           !.staged = Upsert(@, {ind})]
  /\ UNCHANGED <<search, worker, rows, migrations, errors>>

MigrationCommits ==
  /\ migration.active
  /\ migration.done = Len(migration.transfers)
  /\ rows' = Upsert(rows, migration.staged)
  /\ migration' = NoMigration
  /\ UNCHANGED <<search, worker, individuals, mixed, migrations, errors>>

\* An error at any await: the rows are rolled back, the migrants stay.
MigrationFails ==
  /\ migration.active
  /\ DatabaseError
  /\ migration' = NoMigration
  /\ UNCHANGED <<search, worker, individuals, rows, mixed, migrations>>

\* keep_pareto_elites = 1: the first of the front in the order of the population.
\* The paradigm that is rotated with it is read by nothing.
CataclysmicRestart(i) ==
  /\ ~migration.active
  /\ individuals[i] # <<>>
  /\ individuals' = [individuals EXCEPT ![i] = <<@[Frontier(@)[1]]>>]
  /\ UNCHANGED <<search, worker, rows, migration, mixed, migrations, errors>>

-----------------------------------------------------------------------------
Work(i) ==
  \/ Rejected(i)
  \/ \E c \in Candidates : Accepted(i, c)
  \/ LooksUp(i) \/ FindsItGone(i) \/ Saved(i) \/ SaveFails(i)

Supervise ==
  \/ MigrationCollects \/ MigrationTransfers \/ MigrationCommits \/ MigrationFails
  \/ \E i \in Islands : CataclysmicRestart(i)

Next == Start \/ Stop \/ (\E i \in Islands : Work(i)) \/ Supervise

Spec == Init /\ [][Next]_vars

-----------------------------------------------------------------------------
(***************************************************************************)
(* Properties.                                                             *)
(***************************************************************************)
Generations == 1..(MaxEvals + 1)

Ids == [home : Islands, gen : Generations, print : {c.print : c \in Candidates},
        path : Seq(Islands)]

Individuals == [id : Ids, pack : {c.pack : c \in Candidates},
                fuel : {c.fuel : c \in Candidates}, search : 1..MaxStarts]

Workers == {NotWorking, Mutating} \union [pc : {"connecting", "writing"}, saved : Individuals]

TypeOK ==
  /\ isRunning \in BOOLEAN
  /\ worker \in [Islands -> Workers]
  /\ evalsLeft \in [Islands -> 0..MaxEvals]
  /\ generation \in [Islands -> 0..(MaxEvals + 1)]
  /\ best \in [Islands -> Nat]
  /\ champion \in [fitness : Nat, origin : Islands \union {-1}]
  /\ top \in Nat
  /\ \A i \in Islands : individuals[i] \in Seq(Individuals) /\ Len(individuals[i]) <= Capacity
  /\ rows \subseteq Individuals
  /\ migration.staged \subseteq Individuals
  /\ migration.done \in 0..Len(migration.transfers)
  /\ \A k \in DOMAIN migration.transfers :
       migration.transfers[k] \in [src : Islands, ind : Individuals]
  /\ starts \in 0..MaxStarts
  /\ accepted \in 0..MaxAccepted
  /\ mixed \subseteq Islands
  /\ migrations \in 0..MaxMigrations
  /\ errors \in 0..MaxErrors

\* The champion that the nightly run publishes is the best program any island
\* has seen in this search, and top_fitness_score is its score.
ChampionIsTheBest ==
  /\ champion.fitness = top
  /\ \A i \in Islands : best[i] <= top
  /\ \E i \in Islands : best[i] = top
  /\ champion.origin # -1 => best[champion.origin] = top

\* Within a search an id stands for one heuristic, however many searches there
\* are: copies that migrations have made, and the row under the id, have its
\* objectives.  A second start() counts the generations from 1 again and keeps
\* the populations, so that heuristics of two searches may be namesakes.
SameIdSameHeuristic ==
  LET known == rows \union UNION {ToSet(individuals[i]) : i \in Islands}
  IN  /\ TypeOK
      /\ \A p, q \in known : p.id = q.id /\ p.search = q.search => p = q

\* What is registered in island i in this step meets a namesake of another
\* search there, or joins two of them.
NamesakesMeet(i) ==
  \E ind \in {worker'[j].saved : j \in {j \in Islands : worker'[j].pc = "connecting"}}
            \union {Migrant(migration.transfers[k]) : k \in DOMAIN migration.transfers} :
    /\ individuals' = Register(i, ind)
    /\ Mixed(Append(individuals[i], ind))

\* "injecting novel decision phenotypes without losing accumulated elite
\* fitness": in any number of searches, only a cataclysmic restart lowers the
\* best packing ratio of an island, and it leaves an individual that nobody it
\* gave up dominates.  Excepted are the steps in which namesakes of two searches
\* meet: then NSGA-II may even give up all of them.
FitnessAccumulates ==
  [][\A i \in Islands :
       \/ BestPack(individuals'[i]) >= BestPack(individuals[i])
       \/ NamesakesMeet(i)
       \/ /\ CataclysmicRestart(i)
          /\ Len(individuals'[i]) = 1
          /\ \A k \in DOMAIN individuals[i] :
               ~Dominates(individuals[i][k], individuals'[i][1])]_vars

\* A migration that gets to its end has brought each island at least the best
\* packing ratio that its neighbour had when the elites were collected, although
\* the workers of both go on meanwhile, and even another search may begin.  It
\* is excepted where namesakes of two searches have been in one of the two.
EliteArrives ==
  migration.active /\ migration.done = Len(migration.transfers) =>
    \A i \in Islands :
      {i, Downstream(i)} \intersect mixed = {} =>
        BestPack(individuals[Downstream(i)]) >= migration.promised[i]

IsMigrant(ind) == ind.id.path # <<>>

\* The rows of a migration appear together, when its last migrant has moved.
MigrantsAreSavedTogether ==
  [][\A r \in rows' \ rows : IsMigrant(r) =>
       /\ migration.active
       /\ migration.done = Len(migration.transfers)
       /\ \A m \in migration.staged : \E q \in rows' : q.id = m.id]_vars
=============================================================================
