-------------------------- MODULE CognitiveMemory --------------------------
(***************************************************************************)
(* The memory of the agent: cycle logs (agent/memory.py) that are          *)
(* compacted into episodic summaries (agent/cognitive_memory.py), the      *)
(* vector index of the summaries and its backfill (agent/vector_memory.py, *)
(* vector_sync.py, migrations.py), the learned rules (agent/reflection.py) *)
(* and the hybrid search (agent/hybrid_search.py).                         *)
(*                                                                         *)
(* SQLite and ChromaDB are persistent and share no transaction; the agent, *)
(* one synchronisation at a time and one status request run on one event   *)
(* loop and change places at every await.  A crash may come at any time,   *)
(* and the next process may run with or without an API key.                *)
(*                                                                         *)
(* The text of a summary is the set of cycles it was made from.            *)
(***************************************************************************)
EXTENDS Integers, SequencesExt

CONSTANTS
    Threshold,      \* config.MEMORY_COMPACTION_THRESHOLD
    KeepLogs,       \* 500: rows that the pruning keeps
    ChunkSize,      \* 50: milestones per request of the backfill
    RrfK,           \* 60: rrf_k of the search
    SearchLimit,    \* top_k * 4: hits asked from each search
    Pages,          \* open pages of the dashboard
    MaxCycles,      \* bound of the model: cycles begun
    MaxRules,       \* bound of the model: rules recorded
    MaxCrashes      \* bound of the model: restarts

ASSUME MemoryAssumption ==
    /\ {Threshold, KeepLogs, ChunkSize, RrfK, SearchLimit} \subseteq Nat \ {0}
    /\ {MaxCycles, MaxRules, MaxCrashes} \subseteq Nat

VARIABLES
    iteration,  \* agent_state.iteration
    logs,       \* execution_logs: iterations, in the order of the ids
    summaries,  \* episodic_summaries by id: start, end, and the text
    rules,      \* learned_heuristics: their id, and which lesson it is
    lastRule,   \* sqlite_sequence of learned_heuristics
    chroma,     \* the vector index: id -> summary
    client,     \* is an API key set in this process?
    up,         \* has the start-up backfill ended?
    agent,      \* the cycle: where it is, the rows read for compaction
    sync,       \* run_sync: where it is, ids listed, milestones missing
    status,     \* get_sync_status: where it is, the count, the answer
    seen,       \* the rule that a page of the dashboard is about to delete
    crashes

store == <<iteration, logs, summaries>>
ruleVars == <<rules, lastRule, seen>>
process == <<client, up, crashes>>
vars == <<iteration, logs, summaries, rules, lastRule, chroma, client, up,
          agent, sync, status, seen, crashes>>

SummaryIds == DOMAIN summaries
Indexed == DOMAIN chroma
LastCompacted == IF summaries = <<>> THEN 0 ELSE Last(summaries).end
Idle == [at |-> "idle", batch |-> {}]
NoSync == [at |-> "idle", ids |-> {}, todo |-> {}]
NoStatus == [at |-> "idle", count |-> 0, inSync |-> FALSE]
NoRule == [id |-> 0, lesson |-> 0]

Init ==
    /\ iteration = 0 /\ logs = <<>> /\ summaries = <<>>
    /\ rules = {} /\ lastRule = 0 /\ seen = [p \in Pages |-> NoRule]
    /\ chroma = <<>>
    /\ client \in BOOLEAN /\ up = FALSE /\ crashes = 0
    /\ agent = Idle /\ sync = NoSync /\ status = NoStatus
----------------------------------------------------------------------------
\* The cycle of the agent, from its increment to the compaction.
BeginsCycle ==
    /\ up /\ agent.at = "idle" /\ iteration < MaxCycles
    /\ iteration' = iteration + 1
    /\ agent' = [agent EXCEPT !.at = "working"]
    /\ UNCHANGED <<logs, summaries, chroma, sync, status, ruleVars, process>>

\* Fault: ORDER BY id ASC.
Pruned_Oldest(rows) ==
    SubSeq(rows, 1, IF Len(rows) > KeepLogs THEN KeepLogs ELSE Len(rows))

\* The newest KeepLogs rows.
Pruned(rows) ==
    SubSeq(rows, IF Len(rows) > KeepLogs THEN Len(rows) - KeepLogs + 1 ELSE 1, Len(rows))

RecordsCycle ==
    /\ agent.at = "working"
    /\ logs' = Pruned(Append(logs, iteration))
    /\ agent' = [agent EXCEPT !.at = "recorded"]
    /\ UNCHANGED <<iteration, summaries, chroma, sync, status, ruleVars, process>>

\* An exception before the record: the number is used up, no row is written.
CycleFails ==
    /\ agent.at = "working"
    /\ agent' = Idle
    /\ UNCHANGED <<store, chroma, sync, status, ruleVars, process>>

\* AUTOINCREMENT: an id is never used a second time.
NextRuleId == lastRule + 1

RecordHeuristic ==
    /\ lastRule < MaxRules
    /\ rules' = rules \cup {[id |-> NextRuleId, lesson |-> lastRule + 1]}
    /\ lastRule' = lastRule + 1
    /\ UNCHANGED seen

\* Errors of the reflection are logged and swallowed: it learns, or not.
Reflects ==
    /\ agent.at = "recorded"
    /\ agent' = [agent EXCEPT !.at = "reflected"]
    /\ \/ client /\ RecordHeuristic
       \/ UNCHANGED ruleVars
    /\ UNCHANGED <<store, chroma, sync, status, process>>

\* Fault: a row that the last summary holds is read once more.
ToCompress_Inclusive == {i \in ToSet(logs) : i >= LastCompacted}

ToCompress == {i \in ToSet(logs) : i > LastCompacted}

CompactionReads ==
    /\ agent.at = "reflected"
    /\ agent' = IF client /\ Cardinality(ToCompress) >= Threshold
                THEN [at |-> "asking", batch |-> ToCompress]
                ELSE Idle
    /\ UNCHANGED <<store, chroma, sync, status, ruleVars, process>>

\* The model answers, and the summary is inserted through a new connection.
CompactionInserts ==
    /\ agent.at = "asking"
    /\ \E first, last \in agent.batch :
           /\ agent.batch \subseteq first..last
           /\ summaries' = Append(summaries,
                            [start |-> first, end |-> last, text |-> agent.batch])
    /\ agent' = [agent EXCEPT !.at = "indexing"]
    /\ UNCHANGED <<iteration, logs, chroma, sync, status, ruleVars, process>>

CompactionFails ==
    /\ agent.at = "asking"
    /\ agent' = Idle
    /\ UNCHANGED <<store, chroma, sync, status, ruleVars, process>>

Upserted(ids) == [i \in Indexed \cup ids |-> IF i \in ids THEN summaries[i] ELSE chroma[i]]

\* Fault: the milestone is filed under its first iteration.
IndexMilestone_ByStart ==
    /\ agent.at = "indexing"
    /\ LET start == Last(summaries).start
       IN  chroma' = [i \in Indexed \cup {start} |->
                         IF i = start THEN Last(summaries) ELSE chroma[i]]
    /\ agent' = Idle
    /\ UNCHANGED <<store, sync, status, ruleVars, process>>

IndexMilestone ==
    /\ agent.at = "indexing"
    /\ chroma' = Upserted({Len(summaries)})
    /\ agent' = Idle
    /\ UNCHANGED <<store, sync, status, ruleVars, process>>

\* "Vector memory sync deferred": the error is swallowed.
IndexMilestoneFails ==
    /\ agent.at = "indexing"
    /\ agent' = Idle
    /\ UNCHANGED <<store, chroma, sync, status, ruleVars, process>>
----------------------------------------------------------------------------
\* The backfill, at start-up or under the lock of the sync coordinator.
\* A failure to list the index is answered with the empty set.
SyncLists ==
    /\ sync.at = "idle"
    /\ \E ids \in {Indexed, {}} : sync' = [NoSync EXCEPT !.at = "listed", !.ids = ids]
    /\ UNCHANGED <<store, chroma, agent, status, ruleVars, process>>

\* Fault: the ids after the newest one that is indexed.
Missing_AfterNewest ==
    {i \in SummaryIds : \A j \in sync.ids : i > j}

Missing == SummaryIds \ sync.ids

SyncReads ==
    /\ sync.at = "listed"
    /\ sync' = [sync EXCEPT !.at = "indexing", !.todo = Missing, !.ids = SummaryIds]
    /\ UNCHANGED <<store, chroma, agent, status, ruleVars, process>>

\* The oldest ChunkSize milestones that are missing.
Chunk == {i \in sync.todo : Cardinality({j \in sync.todo : j < i}) < ChunkSize}

\* One chunk; without a client batch_index_milestones returns at once.
SyncIndexes ==
    /\ sync.at = "indexing" /\ sync.todo # {}
    /\ chroma' = IF client THEN Upserted(Chunk) ELSE chroma
    /\ sync' = [sync EXCEPT !.todo = @ \ Chunk]
    /\ UNCHANGED <<store, agent, status, ruleVars, process>>

\* The end of the backfill: start-up goes on, or last_sync is stamped.
SyncEnds ==
    /\ sync.at = "indexing" /\ sync.todo = {}
    /\ sync' = NoSync /\ up' = TRUE
    /\ UNCHANGED <<store, chroma, agent, status, ruleVars, client, crashes>>

\* A request or a read fails: main() goes on, the endpoint answers an error.
SyncFails ==
    /\ sync.at = "listed" \/ (sync.at = "indexing" /\ sync.todo # {})
    /\ sync' = NoSync /\ up' = TRUE
    /\ UNCHANGED <<store, chroma, agent, status, ruleVars, client, crashes>>

StatusCounts ==
    /\ up /\ status.at = "idle"
    /\ status' = [at |-> "counted", count |-> Len(summaries), inSync |-> FALSE]
    /\ UNCHANGED <<store, chroma, agent, sync, ruleVars, process>>

InSync(count, ids) == Cardinality(ids) >= count

StatusAnswers ==
    /\ status.at = "counted"
    /\ \E ids \in {Indexed, {}} :
           status' = [status EXCEPT !.at = "answered", !.inSync = InSync(status.count, ids)]
    /\ UNCHANGED <<store, chroma, agent, sync, ruleVars, process>>

StatusRead ==
    /\ status.at = "answered" /\ status' = NoStatus
    /\ UNCHANGED <<store, chroma, agent, sync, ruleVars, process>>
----------------------------------------------------------------------------
\* The dashboard lists the rules, and later deletes one by its id.
DashboardCreatesRule ==
    /\ up /\ RecordHeuristic
    /\ UNCHANGED <<store, chroma, agent, sync, status, process>>

DashboardListsRule(p) ==
    /\ up /\ seen[p] = NoRule
    /\ \E r \in rules : seen' = [seen EXCEPT ![p] = r]
    /\ UNCHANGED <<store, chroma, agent, sync, status, rules, lastRule, process>>

DeleteHeuristic(p) ==
    /\ up /\ seen[p] # NoRule
    /\ rules' = {r \in rules : r.id # seen[p].id}
    /\ seen' = [seen EXCEPT ![p] = NoRule]
    /\ UNCHANGED <<store, chroma, agent, sync, status, lastRule, process>>

Crash ==
    /\ crashes < MaxCrashes /\ crashes' = crashes + 1
    /\ up' = FALSE /\ client' \in BOOLEAN
    /\ agent' = Idle /\ sync' = NoSync /\ status' = NoStatus
    /\ UNCHANGED <<store, chroma, ruleVars>>

Cycle == \/ BeginsCycle \/ RecordsCycle \/ CycleFails \/ Reflects
         \/ CompactionReads \/ CompactionInserts \/ CompactionFails
         \/ IndexMilestone \/ IndexMilestoneFails
Sync == SyncLists \/ SyncReads \/ SyncIndexes \/ SyncEnds \/ SyncFails
Status == StatusCounts \/ StatusAnswers \/ StatusRead
Dashboard == \/ DashboardCreatesRule
             \/ \E p \in Pages : DashboardListsRule(p) \/ DeleteHeuristic(p)

Next == Cycle \/ Sync \/ Status \/ Dashboard \/ Crash

Spec == Init /\ [][Next]_vars
----------------------------------------------------------------------------
(* The hybrid search: reciprocal rank fusion of two rankings of ids.       *)

\* The score of d is Num(d) / Den(d): the sum of 1 / (rrf_k + rank).
InvRank(ranking, d) ==
    IF d \in ToSet(ranking) THEN RrfK + (CHOOSE r \in DOMAIN ranking : ranking[r] = d) ELSE 0

Num(fts, vec, d) ==
    LET f == InvRank(fts, d)  v == InvRank(vec, d)
    IN  IF f # 0 /\ v # 0 THEN f + v ELSE 1
Den(fts, vec, d) ==
    LET f == InvRank(fts, d)  v == InvRank(vec, d)
    IN  IF f # 0 /\ v # 0 THEN f * v ELSE f + v

\* Fault: a document keeps the score of its last hit only.
Better_LastHit(fts, vec, d, e) ==
    LET Hit(x) == IF InvRank(vec, x) # 0 THEN InvRank(vec, x) ELSE InvRank(fts, x)
    IN  Hit(d) < Hit(e)

Better(fts, vec, d, e) ==
    Num(fts, vec, d) * Den(fts, vec, e) > Num(fts, vec, e) * Den(fts, vec, d)

\* Both lists hold each id once, and at most SearchLimit of them.
Rankings(ids) == {s \in UNION {[1..n -> ids] : n \in 0..SearchLimit} : IsInjective(s)}
----------------------------------------------------------------------------
Summary == [start : 1..MaxCycles, end : 1..MaxCycles, text : SUBSET (1..MaxCycles)]

\* Every variable has its type; the log never holds more than KeepLogs rows.
TypeOK ==
    /\ iteration \in 0..MaxCycles
    /\ logs \in Seq(1..MaxCycles) /\ Len(logs) <= KeepLogs
    /\ summaries \in Seq(Summary)
    /\ lastRule \in 0..MaxRules
    /\ rules \subseteq [id : 1..MaxRules, lesson : 1..MaxRules]
    /\ seen \in [Pages -> [id : 0..MaxRules, lesson : 0..MaxRules]]
    /\ \A i \in Indexed : chroma[i] \in Summary
    /\ client \in BOOLEAN /\ up \in BOOLEAN /\ crashes \in 0..MaxCrashes
    /\ agent \in [at : {"idle", "working", "recorded", "reflected", "asking", "indexing"},
                  batch : SUBSET (1..MaxCycles)]
    /\ sync \in [at : {"idle", "listed", "indexing"}, ids : SUBSET Nat, todo : SUBSET Nat]
    /\ status \in [at : {"idle", "counted", "answered"}, count : Nat, inSync : BOOLEAN]

\* No cycle is summarised twice and the summaries follow each other: the next
\* compaction starts behind the end of the last one, whatever failed between.
\* The high-water mark is sound too: a row still in the log is above it, or its
\* cycle is in the text of a summary.  Nothing is skipped by MAX(end_iteration).
SummariesFollow ==
    /\ TypeOK
    /\ \A i, j \in SummaryIds : i < j => summaries[i].end < summaries[j].start
    /\ \A i \in ToSet(logs) :
           i <= LastCompacted => \E s \in SummaryIds : i \in summaries[s].text

\* Rows go for a reason.  Pruning an unsummarised cycle is the last resort: it
\* happens only when all the rows that stay are unsummarised too (compaction has
\* kept failing).  And a learned rule is deleted by its id some time after it was
\* shown: what goes is the rule that was shown, or nothing.
DeletesForAReason ==
    [][/\ agent.at = "working" /\ agent'.at = "recorded" =>
              \A i \in (ToSet(logs) \cup {iteration}) \ ToSet(logs') :
                  i > LastCompacted => \A j \in ToSet(logs') : j > LastCompacted
       /\ \A r \in rules \ rules' : \E p \in Pages : r = seen[p] /\ seen'[p] = NoRule]_vars

\* The index holds summaries of the database under their own ids, whichever of
\* the agent and the backfill wrote them last.  The status counts the summaries
\* and then lists the index: an answer "in sync" misses at most the summaries
\* that were inserted in between.
IndexIsSound ==
    /\ \A i \in Indexed : i \in SummaryIds /\ chroma[i] = summaries[i]
    /\ status.at = "answered" /\ status.inSync =>
           Cardinality(SummaryIds \ Indexed) <= Len(summaries) - status.count

\* A backfill that ends with a client has indexed every summary it read, also
\* when it could not list the index, and whatever the agent indexed meanwhile.
SyncLeavesNoGap ==
    sync.at = "indexing" /\ sync.todo = {} /\ client => sync.ids \subseteq Indexed

\* A document that both searches find outranks every document that only one
\* of them finds.
AgreementWins ==
    agent = Idle /\ sync = NoSync /\ status = NoStatus /\ lastRule = 0 =>
        \A fts \in Rankings(SummaryIds), vec \in Rankings(Indexed) :
            LET Both == ToSet(fts) \cap ToSet(vec)
            IN  \A d \in Both, e \in (ToSet(fts) \cup ToSet(vec)) \ Both :
                    Better(fts, vec, d, e)
=============================================================================
