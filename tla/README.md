# TLA+ verification of continuous-agent

TLA+ modules, TLC configurations and TLAPS proofs about the program in `src/`: an
autonomous agent that runs a heartbeat of model-and-tool cycles, a service that
evolves bin-packing heuristics, and the scripts that keep its SQLite database.

All of it is one Python process with one asyncio event loop (plus the offline
scripts). A task runs without interference from one `await` to the next, so the
unit of interleaving in every module is the segment of code between two awaits, and
an action is one such segment with everything it changes.

## Inventory

| Component | State | Operations | Talks to | What makes it hard | What makes it correct |
|---|---|---|---|---|---|
| Heartbeat (`agent/core.py`, `main.py`) | running and paused flags, pause and trigger events, step lock, failure streak, `agent_state.iteration`, `execution_logs` | `run`, `step`, `pause`, `resume`, `trigger_cycle`, `stop` | memory, executor, reflection, dashboard | two sources of cycles behind one lock, a gate checked before the lock, failures and cancellation at any await | one cycle at a time, rows in order, every accepted trigger served, the loop ends only for a reason |
| Tool executor (`agent/executor.py`) | semaphore, domain locks | `execute_single_tool_call`, gathered per turn | rate limiter | three kinds of waiting nested in each other, failures before and inside the semaphore | no deadlock, bounds on what is in flight, no handler of one domain beside another |
| Rate limiter (`agent/rate_limiter.py`, `cooldown_store.py`) | buckets, registry lock, `domain_cooldowns` | `acquire`, `check_and_consume`, `pause_domain` | executor, scheduler | a table lookup inside the registry lock, sleepers, pauses in any order, restarts | the promised rate in every window, no request during a cooldown, bounded sleeps |
| Cognitive memory (`agent/cognitive_memory.py`, `reflection.py`, `memory.py`) | summaries, rules, core memory | `maybe_compact`, `evaluate_and_learn`, CRUD | heartbeat, vector memory | a model call between read and write, pruning before compaction, a rule deleted by an id read earlier | no cycle summarised twice, none skipped by the high-water mark, pruning takes the summarised first |
| Vector memory (`agent/vector_memory.py`, `vector_sync.py`, `migrations.py`) | Chroma collection | index, batch index, backfill | cognitive memory, `main.py` | swallowed errors, a backfill beside the agent's own indexing, a sync check by counting | the index holds what the table says; a backfill that ends leaves no gap |
| FunSearch (`agent/funsearch_service.py`, `restartable_island.py`, `nsga2.py`) | islands, populations, champion, worker tasks | workers, ring migration, cataclysmic restart, `start`, `stop` | scheduler, nightly discovery, dashboard | migration interleaves with workers, ids repeat, ranks are keyed by id | fronts partition the population, elites survive, the champion is the best |
| Scheduler (`agent/scheduler.py`, `nightly_discovery.py`) | cron, reschedule event, `is_executing` | loop, `update_cron`, pipeline, trigger by hand | FunSearch, GitOps | one run at a time from two callers, a service already running, a pipeline that raises | one pipeline at a time, no sleep towards an old cron, what is published is what was proved |
| GitOps publisher (`agent/gitops.py`) | branches, files, pull requests on GitHub | five requests in a row | scheduler, dashboard | branches named by the second, uploads that fail unnoticed | publications do not share a branch |
| Island profiler (`agent/island_profiler.py`) | none | frontier, stagnation, remedy | FunSearch supervisor, dashboard | off-by-one at twice the window | remedies escalate, the frontier is the first front |
| Staged pipeline (`agent/staged_pipeline.py`, `ast_cache.py`, `ast_guard.py`, `cegis_*.py`, the WebAssembly and Python engines) | memo cache in memory and in SQLite, counterexamples | `evaluate`, the dashboard's probe | FunSearch workers, dashboard | a cached verdict is computed in another way than a fresh one, three engines score one text, restarts with another engine | a verdict is stable, was measured, and passed the guard |
| Events (`agent/events.py`, `dashboard.py`) | subscribers, connections | publish, subscribe, broadcast | everything | connections come and go during a broadcast, one of them fails under it | a client gets an event once, in order, and misses one only by a departure |
| Backup and restore (`scripts/*.py`) | main file, write-ahead log, emergency copy, archives | backup and rotation, restore with rollback | operator | failures and crashes between file operations, repeated runs | no commit is lost, success is the snapshot, a rollback is exact |
| Others | | circuit breaker (called by nobody), Lean and mutation text generators, containers, metrics, auth, tools, offline scripts | | mostly text and external processes | not modelled, see the end |

`PROJECT.json` lists the hazards of these parts line by line, with the properties
that cover them or the reason why none does.

How the modules compose:

```
Heartbeat ----implements----> CycleLog
Restore ------implements----> Replacement <--EXTENDS-- Recovery --EXTENDS--> Backup
FunSearch --EXTENDS--> NSGA2 <--EXTENDS-- IslandProfiler <--EXTENDS-- Island
Evaluation --EXTENDS--> Heuristics
Nightly     (scheduler, FunSearch as it sees it, GitOps)
CognitiveMemory, RateLimiter, ToolExecution, Events
```

## Modules

### `Heartbeat` and `CycleLog`

`Heartbeat` is class `ContinuousAgent`. A task is the loop or one of the isolated
cycles `trigger_cycle` creates while the agent is paused. `pc` says at which await a
task stands:

| `pc` | await |
|---|---|
| `gate`, `woken` | `_pause_event.wait()` (core.py:171), before and after the event is set |
| `lock` | entering `_step_lock` (78, 176) |
| `incr`, `turn`, `record`, `compact` | inside `step()` (85, 114-140, 146, 159-165) |
| `wait`, `cut` | the heartbeat wait (188); `cut`: the trigger was set already, so the timer cannot win |
| `new` | an isolated task not yet scheduled |
| `idle`, `done` | no task; the loop has returned |

`asyncio.Lock` is modelled with its queue (`waiters`): it is taken at once only when
it is free and nobody queues, and between a release and the wake-up of its next owner
it is free, which is what makes `locked()` at core.py:68 answer False. `LoopStepFailed`
covers an exception at any await of the step, `Cancelled` the CancelledError of the
shutdown at any await, with or without the effect of a statement that SQLite was
already executing. Reflection swallows its errors and compaction is the last await of a
step: both are within the segment that ends in `LoopStepDone`, `LoopStepFailed` or
`JobStepEnds`. The database starts empty (`iteration = 0`); a later start of the process
only changes the number from which the counter goes on.

`CycleLog` says what all this amounts to for a reader of `execution_logs`: a cycle
opens, is counted, and leaves at most one row under its own number. `Heartbeat` is
shown to implement it with the refinement mapping `open <- openCycle`, the number that
the holder of the lock carries until its row is written.

### `RateLimiter`

Calls of `acquire`, `check_and_consume` and `pause_domain` over the buckets of
`AsyncTokenBucket` and the table `domain_cooldowns`. `LookupMisses`/`Load` are the two
halves of `get_bucket` around its database await, inside the registry lock; `Grant`,
`Sleep` and `Deny` are the outcomes of one look at the bucket; `Pause` and `Save` are
the two halves of `pause_domain`. The bucket's own lock is held over no await, so it
needs no state. Tokens are counted in parts (`Token` parts make 1.0, `Rate` parts per
unit of time), so that fractional refills are exact integers; a sleep is rounded up to
the next unit. One clock stands for `time.monotonic` and `time.time`, which differ by a
constant within a process. `Restart` drops the buckets and the calls and keeps the
table. `opened`, `spent` and `known` are history: the window of an observer, the tokens
granted in it, the latest end of a cooldown this process was told of. `Observe` opens a
new window at any time, so a bound on the window is a bound on every window.

### `Restore`

`restore_database` step by step, with the rollback, over the four things on disk: the main
file, the `-wal` file, `.emergency_bak` and the archives. Copies are two steps, because
`shutil.copyfile` truncates its destination first and may fail or die half-way. `View`
is what a reader sees: SQLite replays whatever log stands beside the main file.
`Checkpoint` is what happens when the script's own connection closes: the log moves into
the main file unless another process has the database open. The script may be run up to
`MaxRuns` times on what an earlier run has left.

### `NSGA2`, `Island` and `FunSearch`

`NSGA2` is `agent/nsga2.py` as operators without state: sorting, crowding and truncation
of a population, a sequence of records of an id and two objectives. The objects of the
code are positions; its tables are keyed by id, so the operators keep that too, and two
positions with one id share a counter exactly as in the code. Fronts are peeled off with
the same counters, in the same order, because the order decides among equals: a sweep of the
loop at nsga2.py:42 is the set of its decrements (`Releases`) with the order they are made in
(`NotAfter`), and the next front are the decrements that bring a counter to zero. Each
operator is a set or a function, without a fold, so that it can be reasoned about.
The two normalised gaps of the crowding distance are brought to the common denominator of
the two spans, so that they compare as integers. The code compares floats, which may
order two sums that differ by a rounding error in either way; the model compares them
exactly. (`pack_span > 1e-9` is "the span is not zero".)

`Island` registers candidates of any quality in one population with distinct ids, and
checks the operators against what a Pareto ranking is by definition. It also evaluates
`IslandProfiler`, the pure decisions of `agent/island_profiler.py`: the sweep that finds
the dashboard's frontier in another way than the selection does, and the remedy for an
island's history of scores and phenotypes. The entropy is modelled as far as its
threshold tells: whether `< 0.6` bits holds of a window depends on how many of its entries
stray from the commonest phenotype, and of how many kinds they are. `EntropyCollapsed` is the
table of that, exact for every window up to the code's 20, where one outlier always and two
still count as collapsed (comparing it with the entropy of every partition of every window up
to 20 in floating point found no difference).

`FunSearch` is the service. `worker[i].pc` is `mutating` (the sleep and the mutation,
funsearch_service.py:402-412), `connecting` (455), `writing` (inside `persist_individual`)
or `none`. `Accepted` is everything between the mutation and the connection to the
database, since the lock at line 437 is never contended: no holder of it awaits.
A migration is collected in one step and then moves one elite per await
(`MigrationTransfers`), with its rows staged in the transaction until
`MigrationCommits`; while rows are staged no worker can write. `Stop` cancels the
workers, with or without the statement SQLite was executing. The criteria of the
supervisor are left open: it migrates or restarts at any time, one after the other,
as its single task does. `Upsert` never changes the objectives of a row, as its
`ON CONFLICT` clause does not. An id is the record of what its text is made of, and the
list of islands a migrated copy came from. Parents are left out: any candidate may
follow any parent. `search`, `mixed` and `accepted` are history. `start()` keeps the
populations and counts the generations from 1 again (funsearch_service.py:369-395), as the
nightly run has it do every time. So an individual of a later search may have the
id of an older one, and NSGA-II, whose counters are keyed by id, takes the two for one:
`search` tells them apart, and `mixed` are the islands where such namesakes have met since
the last migration began. The properties hold for any number of searches and name
this as their one exception; without the exception TLC refutes them.

### `ToolExecution`

The calls of a turn, from `asyncio.gather` (core.py:139) down to the handler:

| `pc` | await |
|---|---|
| `new` | a task not yet scheduled |
| `queued`, `granted` | entering the semaphore (executor.py:39): asleep, or handed a slot |
| `limiting` | `rate_limiter.acquire` (40) |
| `waiting` | the lock of the domain (43) |
| `running` | the handler (49) |
| `answered`, `failed` | ended, and the turn has not gone on yet |

The semaphore is the one of Python 3.11, the version of the Dockerfile: a release hands
the slot to the first waiter, a newcomer queues behind waiters that were woken and have
not run, and who resumes passes further free slots on. `locks_mutex` is never contended.
`Fails` is `gather` raising: the other calls of the batch go on, `Outcome` says that
nobody asks for their answer, and a later batch shares slots and locks with them. The
limiter is abstract here (it lets a call through at some time, or raises); when it does
so is the business of `RateLimiter`.

### `Replacement`, `Backup` and `Recovery`

`Replacement` says what a restore does to the database as a reader sees it: nothing while
it prepares, anything while it replaces, the snapshot when it reports success. `Restore`
implements it (`ReplacesOnly`), and `Recovery` composes it with the backups.

`Backup` is `perform_online_backup` and `rotate_old_backups`. The folder is a set of files;
jobs run one after the other and each writes its raw copy and then its archive, so the
number of the job and the kind of the file say which of two was modified later (`Older`). A
file's body is complete, partial, or empty. The last matters because SQLite and gzip both read it as a database without
tables, which passes the integrity check. A job fails (its handler removes the raw copy
and re-raises, so nothing is pruned) or is killed (nothing is tidied up) at any step.

`Recovery` lets the timer's jobs run before, between and during restores. A job copies
what a reader sees at that time, which may be what a restore has truncated; a restore
picks a file by modification time or by `--source`, which may be the one a job is writing.
`best`, `newer`, `unpruned`, `expected` and `doubtful` are history.

### `CognitiveMemory`

The agent's cycle (`agent.at`), one synchronisation (`sync.at`: the start-up backfill or
the one under the coordinator's lock), one status request (`status.at`) and the pages of
the dashboard change places at every await, over two stores without a common
transaction: SQLite (`iteration`, `logs`, `summaries`, `rules`) and Chroma (`chroma`).
`RecordsCycle` inserts and prunes in one statement sequence, as the code does.
`CompactionReads` takes its rows, `CompactionInserts` comes after the model's answer.
Listing the index may answer the empty set (the exception is swallowed), indexing may fail
silently, and without an API key both do nothing. A crash loses everything but the stores.
The text of a summary is the set of cycles it was made from; what a compaction has read and
what a backfill has left to do are sets. `Better` is the order of
`hybrid_search`, with the fractions compared exactly.

### `Nightly`

`loop` is `AutonomousTaskScheduler`'s loop, asleep until the time of the cron expression it
read, or executing. A publisher (`pub`) is the loop, a task of
`POST /scheduler/trigger-now`, or the dashboard's `POST /gitops/create-pr`; its `at` is the
await it stands at: `created`, `launched` and `sleeping` (nightly_discovery.py: the search
is started and given its time), `proving` (Lean), then the five requests to GitHub. A
request is answered, refused, or raises, before or after its effect: the code looks at the
answers of the first two and of none of the uploads. `fs` is what the pipeline sees of
FunSearch: whether one runs, and the champion, which the dashboard may replace by
starting another search. `PipelineRaises` is an exception in the middle of the pipeline:
`is_executing` is cleared by the `finally`, and the scheduler loop dies when it was the one
that ran it (scheduler.py:162). Branches are named by the second, hence the clock.

### `Heuristics` and `Evaluation`

`Heuristics` is what a candidate's text means to each part that reads it: the guard, the
compiler to WebAssembly (which must leave one value), the Python simulation, the fingerprint,
the solver, and the cache key. Programs are expressions over two parameters, with a
conditional or, as the whole value, a comparison (for which compiler and solver have no
visitor: the one leaves two values, the other refutes it as a `VerificationCrash`,
cegis_verifier.py:176-182); numbers are
fractions with infinities and NaN, since the parts differ exactly there. An expression is the
sequence of its nodes in the order the visitors leave them, each with the places of its
operands, so that every reader is a recursive function over the places (`Values`): one that
the proofs can follow. `Size` is at most 100, since an efficiency is kept in whole percent and
one item in an empty bin must count. Some stream has an item, as the benchmark's have.
In the run, bins have the size 4 instead of 100. The solver's two questions
are asked of the grid `1..Size`; for the candidates of the run, quotients of linear
expressions with their poles on the grid, the reals give the same answers.

`Evaluation` is `StagedEvaluationPipeline.evaluate` (one action: it never yields) over the
memory layer and the SQLite layer of the cache, with the solver's timeout (in a probe of the
dashboard too), a lost read or write of the table, and a restart that may find another engine; and the tracker of
counterexamples, which the dashboard's probe writes too. `sandbox.py` falls back to the
local simulation when it is called inside a running event loop, as it always is here.

### `Events`

`publish` puts a message into the queue of the one listener; the listener iterates the list
of connections by position across the awaits of `send_json`, while handlers append to the
list and remove from it: a peer that goes with `list.remove` (`RemoveFirst`), those whose
send raised when the broadcast ends (`Without`). A send may raise for any reason, also while
the peer is there; then the peer is taken off the list and its socket stays open. `present`, `due` and `departures` are history: who was connected
when the broadcast began, what a peer is owed, and the removals under the iterator.
`subscribed` is chosen once, in `Init`: dashboard.py subscribes at start-up, and main.py
replaces that start-up (see below).

## Runs

| Run | Properties | Shows |
|---|---|---|
| `heartbeat` | `LockAndGateAreExact`, `ImplementsCycleLog`, `TriggersAreServed`, `HeartbeatContinues` | One cycle at a time, an exact queue, gate and flag agree, the loop ends only for a reason; the refinement; accepted triggers are served and the heartbeat goes on. |
| `rate_limiter` | `RateBound`, `SleepIsBounded`, `NoGrantDuringCooldown` | The rate in every window, sleeps that do not outlast a bucket's need, no grant in a cooldown, over restarts. |
| `restore` | `DatabaseIsSafe`, `OutcomesAreTrue`, `ReplacesOnly` | No commit lost, no foreign write-ahead log, the three ends of a run are what they report, `Restore` implements `Replacement`. |
| `recovery` | `SoundBackupOutlives`, `RestoresTheLastBackup` | How long a sound archive outlives later failures, and what a restore of the newest file gives back. |
| `island` | `FrontsAreRanks`, `SweepIsTheFirstFront`, `RemediesEscalate`, `TruncationIsFair` | The fronts are the Pareto ranking, two computations of the frontier agree, remedies escalate, truncation keeps the extremes and evicts nobody who dominates a survivor. |
| `funsearch` | `ChampionIsTheBest`, `SameIdSameHeuristic`, `EliteArrives`, `FitnessAccumulates`, `MigrantsAreSavedTogether` | Workers, migration, restarts and failing writes under every interleaving, over two searches on the same populations. |
| `tool_execution` | `SemaphoreIsExact`, `OneHandlerPerDomain`, `EveryCallEnds` | Slots, wake-ups and domain locks are exact, detached calls included; README.md:296 "Deadlock-Free Lock Ordering" holds. |
| `memory` | `SummariesFollow`, `IndexIsSound`, `AgreementWins`, `SyncLeavesNoGap`, `DeletesForAReason` | Compaction, pruning, index, backfill, status and rules, over crashes. |
| `nightly` | `SchedulerIsExact`, `PublishesWhatWasProved`, `BranchesAreOnesOwn`, `NightlyGoesOn` | One pipeline at a time, the proof is of what is published, branches are not shared, pipelines end and a new cron is heard. |
| `evaluation` | `EnginesAgree`, `FitnessWasMeasured`, `AcceptedPassesTheGuard`, `VerdictsAreStable` | Thirteen candidates through cache, guard, solver and engines, over faults and restarts. |
| `events` | `EventsAreForwarded`, `MissesAreDepartures`, `ListenerCatchesUp` | Delivery in order and once; what a peer can miss, and why; no failure stops the listener. |
| `evaluation_cache` | `AcceptedIsNotRefuted` | **Violated.** A candidate whose names the solver cannot read is accepted unproved; its canonical form is that of one the solver refutes, which is then accepted from the cache. |

Several properties are conjunctions of named parts, so that a counterexample names the
part: `LockAndGateAreExact` of `TypeOK`, `OneCycleAtATime`, `QueueIsExact`, `GateAgrees` and
`LoopEndsForAReason`; `DatabaseIsSafe` of `TypeOK`, `NothingLost` and `NoForeignLog`;
`OutcomesAreTrue` of `SuccessIsTheSnapshot`, `AbortLeavesDatabase` and
`RollbackFromSoundCopy`; `SoundBackupOutlives` includes `RetentionHolds`;
`TruncationIsFair` is `ExtremesSurvive` and `EvictsTheDominated`; `SemaphoreIsExact` of
`TypeOK`, `SlotsAreAccountedFor` and `NoWakeupIsLost`; `SchedulerIsExact` of `TypeOK`,
`ExecutingIsExact` and `WaitsForTheCurrentCron`; `NightlyGoesOn` of `PipelinesEnd` and
`NewCronIsHeard`; `VerdictsAreStable` includes `TypeOK` and `ReportedOnce`. The type
invariants of the other modules are the first conjunct of `SummariesFollow`,
`FrontsAreRanks`, `SameIdSameHeuristic` and `EventsAreForwarded`; that of `RateLimiter` is
proved.

### Bounds, and why they are enough

- `Heartbeat`: two isolated cycles and the loop make a queue of two behind a
  holder, with the loop in the middle and a cancellation on either side of it; a third
  job repeats one of these positions. `MaxFailures = 2` has a failure that is not the last,
  a success that resets the streak, and the last. `MaxTurns = 1` has a turn with tools and
  the end of the turns. `IterationCap = 2`, `KeepLogs = 2`: the counter saturates instead of
  growing, and an equality of two logged numbers is tolerated only at the cap. Pruning of a
  full log is proved for every cap (`HeartbeatProofs`) and met by the run `memory`.
- `RateLimiter`: one domain (domains share only the registry lock, which the second and
  third call contend for anyway), three calls, so that one can pause while one sleeps and one
  loads; `Backoffs = {1, 4}` and `MaxTime = 5` let a short pause follow a long one and
  the long one end within the run; `Capacity = 3`, `Token = 2` is a capacity that is no
  multiple of a token.
- `Restore`: `MaxRuns = 3` lets a run fail on what a crashed run has left and a third one
  succeed on that.
- `Recovery`: `Retain = 2` and `MaxJobs = 3` is one job more than archives are kept, so the
  folder is pruned with and without failures before it; a second restore meets what the first
  one and the jobs in between have left.
- `Island`: three fit and a fourth overflows, so there are fronts of one to four, chains
  of fronts, ties, and crowding inside a front of four; four ratios and three costs. Ids are
  symmetric: they are only compared for equality. `Window = 20` as in the code; the histories
  have the lengths on both sides of each threshold of the ladder (one less than a window, a
  window, twice the window and one, and two), up to four entries that stray inside the window and
  one just behind it, of one or two kinds, and a newest run of scores that rose by the
  tolerance or by less.
- `FunSearch`: two islands make a ring in which each is source and target. `Capacity = 2`
  overflows with the third registration, which a worker reaches with a migration and two
  evaluations. Two candidates between which nobody dominates, one of them in a slow
  measurement too, and a seed below them make a champion of another island; one
  migration and one database error meet every position of both workers.
  With `Capacity = 2` a front of elites is never longer than `EliteCount`; which elites
  are chosen of a longer front is a matter of `ByCrowding`, checked by `island`, and `ElitesArrive`
  is proved for all.
  `MaxStarts = 2`, with two evaluations an island in the first search and one in the second
  (`Evals`), and three accepted candidates in all (`MaxAccepted`): the second search meets
  full populations and gives ids away again, to the same program, to another measurement of it,
  or to none, while a migration of the first search may still be under way. A third search
  would meet what the second one does.
- `ToolExecution`: four calls on two slots queue up two behind the semaphore while two are
  inside, and a failed batch may leave three detached beside a new one. All of them want one
  domain, so they also contend for its lock; a second domain only lets more of them through.
  The safety theorems hold for any.
- `CognitiveMemory`: `Threshold = 2`, `KeepLogs = 3` and five cycles give two compactions,
  and five failed ones prune what was never summarised; `ChunkSize = 1` makes a backfill of
  several requests, between which the agent indexes; one crash, with or without a key on
  either side; two pages that may be about to delete the same rule. `AgreementWins` is
  about rankings only and is evaluated where the rest is idle.
- `Nightly`: the loop, one task and the dashboard meet pairwise in every position. Two
  pipelines let one begin where another has failed or left a branch; two searches let one
  replace the champion of the other; two seconds let two publications fall into one second
  or into different ones; one cron change falls into every position of the loop.
- `Evaluation`: the thirteen candidates have one of each thing a reader can trip over: a pole,
  a pole under other names, a removable hole, a guard by a conditional, a call of `max`, an
  undefined name, a comparison, a statement that raises, an unsafe node, no function, no Python, the best
  and the worst fit. Two reach one entry of the cache and a third evaluation sees what both
  left; one probe, give-up, lost statement and restart each.
- `Events`: three connections: one may leave before the iterator, one be skipped and one be
  served. Three messages let a broadcast meet what the last one left while a third is queued.
- `CHECK_DEADLOCK FALSE` in `restore`, `recovery`, `funsearch`, `nightly`, `evaluation`,
  `evaluation_cache` and `events`: the scripts end, the others have then used up the bounds on
  what comes from outside. In `heartbeat`, `rate_limiter`, `island`, `tool_execution` and
  `memory` deadlock is checked.

### Fairness

- `heartbeat`: weak fairness of the loop and of each isolated cycle. The event loop runs
  every ready task; a model call, a tool call and a statement end or raise (the client and the
  limiter have timeouts and bounded waits); the heartbeat timer fires. Nothing is assumed of
  the operator, who may pause or trigger for ever or never.
- `tool_execution`: weak fairness of each call and of the end of the `gather`: ready tasks
  run, the limiter's sleeps are bounded (`SleepIsBounded`), and handlers return or raise,
  since the tools have timeouts of their own. That locks and slots are handed out in the order
  of their queues is in the model, not in the fairness.
- `nightly`: weak fairness of the rescheduled loop, of each created task, of each pipeline
  (its sleep and the Lean process end: both have a time limit) and of each publication (the
  HTTP client has a timeout). Nothing is assumed of cron times, the dashboard or the search.
- `events`: weak fairness of the listener: it is scheduled, and a `send_json` returns or
  raises, since uvicorn's keep-alive closes a connection whose peer does not answer its pings.
  Peers and handlers may do nothing for ever.

## Proofs

| Module | Theorems |
|---|---|
| `HeartbeatProofs` | `TypeCorrect`, `MutualExclusion`, `QueueExactness`, `GateAgreement`, `LoopEnd`, and `LockAndGate` of them all; `Refinement` (Heartbeat implements CycleLog), `LogInOrder` (through the refinement) |
| `RateLimiterProofs` | `TypeCorrect`, `RateIsBounded`, `CooldownsAreKept`, `SleepsAreBounded` |
| `ScriptProofs` | of `Restore`: `CommitsSurvive`, `OutcomesHold`, `RestoreImplementsReplacement`; of `Recovery`: `SoundBackupStays`, `RestoreFindsTheBackup` |
| `MemoryProofs` | `SummariesInOrder`, `IndexSound`, `BackfillLeavesNoGap`, `RowsGoForAReason`, `AgreementOutranks` |
| `SearchProofs` | of `Island`, with `NSGA2` and `IslandProfiler`: `Ranks`, `FairTruncation`, `SweepAgrees`, `Remedies`; of `FunSearch`: `Champion`, `MigrantsTogether`, `OneHeuristicPerId`, `FitnessIsKept`, `ElitesArrive` |
| `ToolExecutionProofs` | `TypeCorrect`, `SlotsExact`, `WakeupsExact`, `DomainExclusion`, and `SemaphoreExact` |
| `PipelineProofs` | of `Evaluation`, with `Heuristics`: `EnginesAlwaysAgree`, `FitnessIsMeasured`, `GuardIsPassed`, `VerdictsStay`; of `Nightly`: `SchedulerExact`, `ProvedIsPublished`, `BranchesUnshared` |
| `EventsProofs` | `EventsForwarded`, `MissesCounted` |

They hold for every set of jobs, domains, calls, candidates, pages, tasks and connections,
every program text of the language of `Heuristics`, dataset and baseline, every number of islands, slots, backups and runs of a script, every limit, rate, capacity and
bound that meets the `ASSUME` of the module; the runs evaluate those assumptions. `CycleLog`
is only used through `Heartbeat`, whose assumption covers its own.
Three theorems add hypotheses, which the code meets or which "Known divergences" is about:

- `AgreementOutranks`: `SearchLimit <= RrfK + 1`, see below.
- `FitnessIsKept` and `ElitesArrive`: `Capacity >= 2` (the code's is 30), since a population of
  one cannot keep both its best packer and its cheapest. `Island` assumes the same.
- `ElitesArrive`: `EliteCount >= 2`, which is what the scheduler asks for (scheduler.py:135). The
  two ends of a front are infinitely far from the others; with one elite the end that
  leaves may be the cheap one.

None of the theorems about `FunSearch` limits the number of searches, and `Remedies` is about every
window the module admits: 1 to 20, for which the table of `EntropyCollapsed` is exact, and of
which the code uses the last.

- *Heartbeat.* Mutual exclusion is inductive only together with the types, the exact
  queue (the head of the queue awaits the lock, so granting it puts exactly one task
  into `step()`), and the agreement of flag and gate. Each action is one step of the
  proof, and each conjunct it can disturb one step below.
- *Refinement.* The abstract `open` is the number carried by the lock's holder. The proof
  uses the invariants above to show that a step of any other task leaves it alone, and that
  the holder's own steps are `Open`, `Log`, `Abandon` or a stutter; a cancelled increment
  whose statement still commits is `CountOnly`. `LogInOrder` is the order of
  the rows proved of `CycleLog` (`LogOrder`, where `open` is any variable) and carried back.
- *Rate limiter.* `spent * Token <= Capacity + Rate * (now - opened)` is not inductive:
  it says nothing of the tokens still in the bucket. The strengthening adds them (a grant
  moves a token from one side of the sum to the other), says that while a call loads a
  bucket it holds the registry lock and the bucket is missing (so nobody's bucket is
  replaced), and that a bucket's refill time is never before the end of its pause. For
  the cooldowns it says that a bucket is paused at least until every known end. For the
  sleeps it says that who sleeps does so on a bucket that stays until the restart, and that
  the time it computed was of a look at that bucket: later looks by others can only move
  the pause up.
- *Restore.* A run touches what readers see only from the swap on, so before it what they see
  is `original`; the swap is reached with an archive of it when the run did not skip that
  (`promised`), and with an emergency copy that is `original` when it is sound. `NoForeignLog`
  needs that the log is removed before the new file gets a name. Each group of actions
  (`Prepare`, `Swap`, `Rescue`) is a step of the proof. The refinement mapping is what readers
  see (`Database`) and the coarse `Phase`: a step that
  only prepares stutters, entering the swap is `Swaps`, and a step of the swap or the rollback that
  changes the main file or its log is a `Rewrites`.
- *Backup and recovery.* `NamesAreUnique` (a file is known by job and kind) makes the folder
  an order, in which a job's file is the youngest. `FinishedIsSound` says that a file whose job
  neither runs nor was interrupted is an archive, with data and not younger than `best` unless a
  job was misled;
  `BestStands` that the archive of `best` is there or at least `Retain` were begun after it,
  which pruning keeps since it removes only files with `Retain` younger archives;
  `PickStands` that what a restore knew of its file when it picked it is still true, because a
  settled job never changes its files.
- *Memory.* The log is in order and behind the counter, and what the model was asked to
  compress is still what no summary covers when its answer comes, since only the agent's own
  cycle inserts rows and summaries: so a compaction appends a
  range behind all others, and `MAX(end_iteration)` skips nothing. The index is sound
  because every writer takes rows it read from a table that is only appended to. The
  theorem about the order of `hybrid_search` compares two sums of reciprocals by
  cross-multiplication: two hits at the worst rank, `2 / (RrfK + SearchLimit)`, against one at
  the best, `1 / (RrfK + 1)`. That needs `SearchLimit <= RrfK + 1`.
- *The sort.* `fast_non_dominated_sort` is a loop over counters, and its correctness is an
  induction over the sweeps, made by the least sweep for which the claim would fail
  (`LeastNumber`). `IsLayer(pop, k)`: the k-th sweep finds, each once, exactly those who are not
  placed while all who dominate them are, and its counters are the numbers of dominators
  that are not placed. A sweep releases an individual once for each of its
  dominators in the front (`ReleasesOfOne`), so the next front lists exactly those whose last
  dominator it was (`ListsTheLast`, `NextLayer`). No sweep is empty before everybody is
  placed, since somebody left is dominated by nobody left (`SweepsPlace`), and by counting there
  are no more sweeps than individuals (`FrontsPlaceAll`). `FrontsRank` concludes with `IsRanking`, which
  mentions no counter. It needs distinct ids. Of repeated ids only so much is proved, and
  used for `FunSearch`: while namesakes have equal objectives, the first front is the undominated ones.
- *The truncation.* `Arrangement` says that a set ordered by the chain of its initial segments
  is listed by `Arranged`, each member once: by it, sorts are permutations in order
  (`SortedStably`). In a front that does not dominate within itself the order by cost is the order
  by packing, so its two ends are the best packer and the cheapest, and their distance exceeds
  every other, because a gap is at most its span (`GapsAreWithinTheSpan`): whatever of a front
  is cut to two or more keeps both. `IsSelection` is the invariant of taking whole
  fronts and then the most isolated of one: as many as fit, each once, and with one of a
  front all of the fronts before.
- *FunSearch.* The champion is inductive with the types of the scores: a candidate that
  is better than the champion is better than every island's best, and one that is not leaves both.
  The rows of migrants need that what a worker is about to save was never migrated: it
  looks its own id up, and that id has no origin.
  `SameIdSameHeuristic` speaks of populations and the table, which is not inductive: an
  individual also waits to be saved, to be moved, or to be committed. `Known` is all of these,
  and `OneOfABirth` says that two of them with one birth (search, island, generation,
  fingerprint) have one score and cost, whatever path they took; `Births` that no generation of
  this search that is still to come is known, which makes a newborn's id new within its search.
  `MixedOK` says that `mixed` has every island whose population holds namesakes, so where an
  island is not in it, all truncations since the migration began were of namesakes with equal
  objectives; a restart mixes nobody.
  `FitnessIsKept` is then what a truncation keeps, and `EliteArrives` needs `PromisesHold`: as
  long as the migration goes on, what was promised of an island is either still among its
  transfers to come, or reached in the next island and kept there.
- *Remedies.* `RemediesOfAnyHistory` is about a history of any length with any scores and
  phenotypes. `StagnationIsFlat` finds the length of the run of close scores
  (`StagnationRun`) and compares it with the ladder; the table of `EntropyCollapsed` is compared with
  the share of the window that strays: a tenth or less collapses it, a sixth or more does not.
  The sweep of the dashboard goes through the population by cost and then by packing
  (`SweepOrderIsLexicographic`); it stops at somebody exactly when nobody dominates him, the first
  of his equals (`SweepFindsTheFront`).
- *Tool execution.* `free + Cardinality(Inside) = Slots` needs the exact queue (the head
  of the queue is asleep, so that waking it brings exactly one call inside), and the queue needs
  that a free slot beside a queue has a woken waiter. Each step that moves a slot has a
  lemma, and the steps between the slots share one (`CallMoves`).
- *Nightly.* The heart is `OneInside`: a set-theoretic form of "at most one pipeline is
  inside, exactly when `is_executing` is set, and it is the loop exactly when the loop is
  executing", from which the cardinality of `ExecutingIsExact` follows. With it the
  champion a pipeline holds cannot be replaced by another pipeline's, and `SearchesCounted`
  bounds the searches. `HoldsItsProof` says that from the proof on, the program held is the
  one proved and was good; `HoldsItsBranch` that a publisher between its second and its last
  request holds a branch that exists, that carries files of its program only and no pull
  request yet, and that nobody else holds. A branch is created only where none exists: this
  is what GitHub's refusal contributes, and dropping it breaks the proof and the run alike.
  Moves that touch one publisher share `OneMoves`, endings share `Leaving`, beginnings
  share `Beginning`.
- *Evaluation.* Two halves. What is remembered: `IsRow` says what a key may be kept with, a
  diagnostic that is a success exactly when it has a fitness, which was then measured of a
  candidate with that key that passed the guard. Every row of the memory, the table and the
  answers is one, since a hit only moves rows, and `success` is derived again from the fitness
  (which is why `FitnessIsPositive` is needed: a bin is never more than `Size` full, so that no
  measured fitness is rounded to nothing). `KeysAreForms` and `OneKeyPerForm` turn the equality of two
  canonical texts into `SameForm`, node by node. A row of the memory is never changed within a
  process, because its key is looked up before it is written (`AnswersAreKept`); and what the
  deck reported is in memory, so it is not reported twice (`DeckIsNumbered`). What is
  computed: each reader is a recursive function, which exists and is unique by induction over the
  places (`Iterates`, `ValuesFollow`). If the solver found no divisor that is zero at a point
  (`ArithType`), the readers have equal values at every node, by induction over the nodes
  (`ReadersAgree`); and the simulations ask only about points, since every bin of a stream has a
  room between 0 and `Size` (`PlacesAnItem`, `PacksTheStream`). `VerifiedAgrees` concludes that
  the fitnesses are equal and the fingerprint exists; the state only adds that `proved` are
  programs the solver verified.
- *Events.* An event that a peer is owed is in the queue, or it is being sent and the peer,
  who was there when the broadcast began, has not got it (`DueIsToCome`); a peer that a failed send took
  off the list is owed nothing. The connections at
  the iterator's place and after it have not got the event, so that nobody gets it twice
  (`IterationIsExact`): a removal only moves connections forward, past the iterator. It moves
  at most one past it without a send and adds one to `departures`; `PassedAreCounted`
  compares the two, and when the iterator is exhausted all who were skipped are among those
  passed. The list is rebuilt by places (`RemoveFirst`, `Without`), and
  `RemoveFirstShifts`, `WithoutLists` and `AppendLists` say what that does to the place of
  each connection.

Only model-checked is liveness (`TriggersAreServed`, `HeartbeatContinues`, `EveryCallEnds`,
`NightlyGoesOn`, `ListenerCatchesUp`): there is no rule for fairness in the prover used. Every
other property of a passing run is a theorem.

## Known divergences

One disagreement is a run of its own, `evaluation_cache`. These others were met while
modelling. The models follow the code, and the properties are stated so that they hold of
it; what they leave room for is listed here.

- README.md:233 "Resume agent heartbeat loop": after the breaker has ended the loop
  (core.py:185), a resume publishes RUNNING and no loop runs. `HeartbeatContinues` excepts
  the breaker.
- README.md:232 "Pause agent heartbeat loop": the gate is not checked again after the wait
  for the step lock, so one cycle may begin after a pause. `GateAgrees` is about the gate.
- restore_db.py:317-319 rolls back from the emergency copy whenever there is one, a torn one
  included, although the complete archive stands beside it. `RollbackFromSoundCopy` is
  about complete copies.
- funsearch_service.py:322 "Extract and preserve the primary Pareto frontier" keeps one member
  of it (line 327, with the default of one). `FitnessAccumulates` asks for that one.
- A search that is started a second time keeps its populations and resets its generation
  counters: ids repeat, the domination counters, which are keyed by id, mix namesakes up, and
  an overflow may even empty an island (nsga2.py:27, 94). `funsearch` runs two searches and
  meets this; `FitnessAccumulates` and `EliteArrives` except the steps and the islands where
  namesakes of two searches are together, and `SameIdSameHeuristic` is about each search.
- When all workers have ended, `is_running` stays set, and the next start is ignored until
  somebody stops the service (dashboard.py:181). `Nightly` models it: a pipeline may
  get the champion of an earlier search.
- main.py:94 replaces the application's lifespan, and with it the `startup_event` that starts
  the listener: under this entry point `/ws/telemetry` forwards nothing, although
  README.md:155 and :250 promise real-time telemetry. `Events` starts in either state and
  `EventsAreForwarded` is about a subscribed listener.
- A peer whose send has raised is taken off the list even if it is still there
  (dashboard.py:55-58): its socket stays open, its handler goes on reading, and no event reaches
  it any more. `EventsAreForwarded` is about the others.
- `python main.py` (README.md:147) makes main.py the module `__main__`; the handlers'
  `from main import agent_instance` (dashboard.py:79 on) import a second copy, in which
  `agent_instance` is None, and answer as if they had done what they were asked. `Heartbeat` models the handlers with the agent they mean.
- `POST /gitops/create-pr` publishes what it is given under a text that says it was verified;
  `PublishesWhatWasProved` is about pipelines.
- `record_counterexample` reads `cap`, while the counterexample's field is `bin_capacity`
  (the deck shows 0); a SyntaxError becomes a SecurityError, so `LLM_MALFORMED` is never
  reported; and a solver that reaches its timeout counts as verified, as does one that cannot
  read the expression. The last is modelled (`SolverSays`).
- The compiler and the solver know the parameters by their names (wat_compiler.py:12-18,
  cegis_verifier.py:20-27), the simulations pass them by position: a function that calls its
  first parameter `bin_capacity` and its second `item` is read the other way round by the two.
  `EnginesAgree` is about programs whose names are their own (`OwnNames`).
- hybrid_search.py fuses the ranks of two searches, so that what both find outranks what one
  of them finds; with `rrf_k = 60` and `top_k * 4` hits a side this holds up to a `top_k` of 15. Neither
  memory_tools.py:22 nor dashboard.py:158 bounds `top_k` (their defaults are small).
- After a restore of the database, ids of summaries are given again while Chroma keeps the
  documents of the old ones. The run `memory` has no restore.

## Plan

1. *Done:* `Heartbeat` over `CycleLog`, `RateLimiter`, `Restore` over `Replacement`,
   `Backup` and `Recovery`, `NSGA2` with `IslandProfiler` and `Island`, `FunSearch`,
   `ToolExecution`, `CognitiveMemory`, `Nightly` with GitOps, `Heuristics` with
   `Evaluation`, `Events`; proofs of all of them.
2. Compositions left: `CognitiveMemory` with `Recovery` (the ids that a restore brings back),
   and `Events` with two broadcasters, should a second one be added to the code.

## Not modelled

- The adaptive temperature and sampling policies, metrics, audit rows, notifications, auth,
  schemas and the HTML dashboard: they compute or show values and decide nothing that
  interacts. Most of dashboard.py is one string of HTML and JavaScript.
- The expression mutator, the Lean synthesizer and transpiler, the AlphaCode ensemble, the
  frontier router and the reports generate text. The Lean kernel, gVisor, Docker and Z3 are
  outside the repository; their verdicts are outcomes or computed from the expression.
- `agent/circuit_breaker.py` is called by nobody, and neither are the `step_mutation`
  functions of an island, `sample_prompt_exemplars` with its crowded tournament, and
  `drain_inbox`; `check_and_consume` and `pause_domain` of the limiter, which are modelled,
  are called by tests only.
- `cegis_loop.py`, `agent/dynamic_suite.py` and `benchmark_efficacy.py` are offline scripts
  without state that anything reads back; the tools start external programs; `config.py`,
  `preflight.py` and the systemd notifier set up a process. Schema creation and
  `migrate_nsga2_schema.py` are fixed sequences of idempotent statements.
- The core memory is a table of keys and values written by single statements.
