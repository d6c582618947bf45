---------------------------- MODULE MemoryProofs ----------------------------
(***************************************************************************)
(* That the summaries follow each other and skip nothing, that the index   *)
(* is sound and a backfill leaves no gap, that rows go for a reason, and   *)
(* when agreement of the two searches wins: for every threshold, size of   *)
(* the log, chunk and number of cycles, rules, pages and restarts.         *)
(***************************************************************************)
EXTENDS CognitiveMemory, SequenceTheorems, FiniteSetTheorems, TLAPS

\* Rows stand in the log in the order of their cycles; the cycle at work has
\* none yet, and no row is ahead of the counter.
LogIsOrdered ==
    /\ \A i, j \in 1..Len(logs) : i < j => logs[i] < logs[j]
    /\ \A i \in 1..Len(logs) : logs[i] <= iteration
    /\ agent.at = "working" =>
           iteration > 0 /\ \A i \in 1..Len(logs) : logs[i] < iteration

\* The summaries are disjoint ranges, in order, behind the counter.
SummariesOrdered ==
    /\ \A i \in SummaryIds : summaries[i].start <= summaries[i].end
    /\ \A i, j \in SummaryIds : i < j => summaries[i].end < summaries[j].start
    /\ \A i \in SummaryIds : summaries[i].end <= iteration
    /\ agent.at = "working" => \A i \in SummaryIds : summaries[i].end < iteration

\* A row behind the high-water mark is in the text of a summary.
MarkIsSound ==
    \A i \in ToSet(logs) :
        i <= LastCompacted => \E s \in SummaryIds : i \in summaries[s].text

\* What the model was asked to compress is still what is not yet summarised,
\* and there is a summary to index.
BatchIsCurrent ==
    /\ agent.at = "asking" => agent.batch = ToCompress
    /\ agent.at = "indexing" => Len(summaries) \in SummaryIds

\* The index holds summaries under their own ids.
IndexHolds == \A i \in Indexed : i \in SummaryIds /\ chroma[i] = summaries[i]

\* What the backfill listed or has sent is indexed.
SyncIsExact ==
    /\ sync.at # "idle" => sync.ids \subseteq SummaryIds /\ sync.todo \subseteq SummaryIds
    /\ sync.at = "listed" => sync.ids \subseteq Indexed
    /\ sync.at = "indexing" /\ client => sync.ids \subseteq Indexed \cup sync.todo

\* The status counted the summaries of some earlier time, and its answer
\* listed as many.
StatusIsPast ==
    /\ status.at # "idle" => status.count <= Len(summaries)
    /\ status.at = "answered" /\ status.inSync => status.count <= Cardinality(Indexed)

\* The id of a rule is never given to another one, and pages show rules that
\* were given one.
RulesAreUnique ==
    /\ \A r \in rules : r.lesson = r.id /\ r.id <= lastRule
    /\ \A p \in Pages : seen[p].lesson = seen[p].id /\ seen[p].id <= lastRule

Inv ==
    /\ TypeOK
    /\ LogIsOrdered
    /\ SummariesOrdered
    /\ MarkIsSound
    /\ BatchIsCurrent
    /\ IndexHolds
    /\ SyncIsExact
    /\ StatusIsPast
    /\ RulesAreUnique

-----------------------------------------------------------------------------
(***************************************************************************)
(* Facts about the log and the summaries.                                  *)
(***************************************************************************)
\* The rows of the log are cycles, the entries of the table are summaries.
LEMMA RowsAndSummaries ==
  ASSUME TypeOK
  PROVE  /\ Len(logs) \in Nat /\ DOMAIN logs = 1..Len(logs)
         /\ \A i \in 1..Len(logs) : logs[i] \in 1..MaxCycles
         /\ ToSet(logs) \subseteq 1..MaxCycles
         /\ SummaryIds = 1..Len(summaries) /\ Len(summaries) \in Nat
         /\ \A i \in SummaryIds : summaries[i] \in Summary
<1>1. logs \in Seq(1..MaxCycles) /\ summaries \in Seq(Summary)
  BY DEF TypeOK
<1>2. /\ Len(logs) \in Nat /\ DOMAIN logs = 1..Len(logs)
      /\ \A i \in 1..Len(logs) : logs[i] \in 1..MaxCycles
  BY <1>1, LenProperties, ElementOfSeq
<1>3. /\ SummaryIds = 1..Len(summaries) /\ Len(summaries) \in Nat
      /\ \A i \in 1..Len(summaries) : summaries[i] \in Summary
  BY <1>1, LenProperties, ElementOfSeq DEF SummaryIds
<1> QED BY <1>2, <1>3 DEF ToSet

\* The high-water mark is behind no end of a summary, and not ahead of the
\* counter.
LEMMA MarkProperties ==
  ASSUME TypeOK, SummariesOrdered
  PROVE  /\ SummaryIds = 1..Len(summaries) /\ Len(summaries) \in Nat
         /\ LastCompacted \in Nat /\ LastCompacted <= iteration
         /\ \A i \in SummaryIds : summaries[i].end <= LastCompacted
         /\ agent.at = "working" /\ iteration > 0 => LastCompacted < iteration
<1>1. /\ summaries \in Seq(Summary) /\ iteration \in Nat
  BY MemoryAssumption DEF TypeOK
<1>2. /\ Len(summaries) \in Nat /\ SummaryIds = 1..Len(summaries)
      /\ \A i \in 1..Len(summaries) : summaries[i] \in Summary
  BY <1>1, LenProperties, ElementOfSeq DEF SummaryIds
<1>3. CASE summaries = <<>>
  <2>1. LastCompacted = 0 /\ Len(summaries) = 0
    BY <1>3, EmptySeq DEF LastCompacted
  <2> QED BY <1>1, <1>2, <2>1
<1>4. CASE summaries # <<>>
  <2> DEFINE n == Len(summaries)
  <2>1. n \in Nat \ {0}
    BY <1>1, <1>4, EmptySeq
  <2>2. n \in SummaryIds /\ LastCompacted = summaries[n].end
    BY <1>2, <1>4, <2>1 DEF LastCompacted, Last
  <2>3. LastCompacted \in Nat
    BY <1>2, <2>2 DEF Summary
  <2>4. ASSUME NEW i \in SummaryIds PROVE summaries[i].end <= summaries[n].end
    <3>1. /\ summaries[i] \in Summary /\ summaries[n] \in Summary
          /\ summaries[n].start <= summaries[n].end
      BY <1>2, <2>2, <2>4 DEF SummariesOrdered
    <3>2. CASE i = n
      BY <3>1, <3>2 DEF Summary
    <3>3. CASE i # n
      <4>1. i < n
        BY <1>2, <2>4, <3>3
      <4>2. summaries[i].end < summaries[n].start
        BY <2>2, <2>4, <4>1 DEF SummariesOrdered
      <4> QED BY <3>1, <4>2 DEF Summary
    <3> QED BY <3>2, <3>3
  <2> QED BY <1>2, <2>2, <2>3, <2>4 DEF SummariesOrdered
<1> QED BY <1>3, <1>4

\* The rows that pruning keeps are the last ones of the log.
LEMMA PrunedRows ==
  ASSUME NEW rows \in Seq(1..MaxCycles), Len(rows) > 0
  PROVE  \E k \in 1..Len(rows) :
           /\ Pruned(rows) \in Seq(1..MaxCycles)
           /\ Len(Pruned(rows)) = Len(rows) - k + 1 /\ Len(Pruned(rows)) <= KeepLogs
           /\ \A i \in 1..Len(Pruned(rows)) : Pruned(rows)[i] = rows[k + i - 1]
<1> USE MemoryAssumption
<1> DEFINE n == Len(rows)
           k == IF n > KeepLogs THEN n - KeepLogs + 1 ELSE 1
<1>1. n \in Nat /\ n > 0 /\ KeepLogs \in Nat /\ KeepLogs > 0
  BY LenProperties
<1>2. k \in 1..n /\ n - k + 1 <= KeepLogs
  BY <1>1
<1>3. Pruned(rows) = SubSeq(rows, k, n)
  BY DEF Pruned
<1>4. \A i \in k..n : rows[i] \in 1..MaxCycles
  <2>1. \A i \in 1..n : rows[i] \in 1..MaxCycles
    BY ElementOfSeq
  <2> HIDE DEF k, n
  <2> QED BY <1>1, <1>2, <2>1
<1> HIDE DEF k, n
<1>5. /\ SubSeq(rows, k, n) \in Seq(1..MaxCycles)
      /\ Len(SubSeq(rows, k, n)) = n - k + 1
      /\ \A i \in 1..(n - k + 1) : SubSeq(rows, k, n)[i] = rows[k + i - 1]
  BY <1>1, <1>2, <1>4, SubSeqProperties
<1> QED BY <1>1, <1>2, <1>3, <1>5 DEF n

\* What recording a cycle does to the log: the row is put behind the others,
\* and rows leave at the front only.
LEMMA RecordedLog ==
  ASSUME Inv, RecordsCycle
  PROVE  /\ logs' \in Seq(1..MaxCycles) /\ Len(logs') <= KeepLogs
         /\ \A i, j \in 1..Len(logs') : i < j => logs'[i] < logs'[j]
         /\ \A i \in 1..Len(logs') : logs'[i] <= iteration
         /\ \A x \in ToSet(logs') : x \in ToSet(logs) \/ x = iteration
         /\ \A x \in ToSet(logs) \cup {iteration}, y \in ToSet(logs') :
              x \notin ToSet(logs') => x < y
<1> DEFINE rows == Append(logs, iteration)
           n == Len(logs)
<1>1. /\ logs \in Seq(1..MaxCycles) /\ iteration \in 1..MaxCycles
      /\ n \in Nat /\ DOMAIN logs = 1..n
      /\ \A i \in 1..n : logs[i] \in 1..MaxCycles /\ logs[i] < iteration
  <2>1. logs \in Seq(1..MaxCycles) /\ agent.at = "working"
    BY DEF Inv, TypeOK, RecordsCycle
  <2>2. iteration \in 1..MaxCycles
    BY <2>1, MemoryAssumption DEF Inv, TypeOK, LogIsOrdered
  <2>3. n \in Nat /\ DOMAIN logs = 1..n /\ \A i \in 1..n : logs[i] \in 1..MaxCycles
    BY <2>1, LenProperties, ElementOfSeq
  <2> QED BY <2>1, <2>2, <2>3 DEF Inv, LogIsOrdered
<1>2. /\ rows \in Seq(1..MaxCycles) /\ Len(rows) = n + 1 /\ rows[n + 1] = iteration
      /\ \A i \in 1..n : rows[i] = logs[i]
  BY <1>1
<1>3. \A i, j \in 1..(n + 1) : i < j => rows[i] < rows[j]
  <2> SUFFICES ASSUME NEW i \in 1..(n + 1), NEW j \in 1..(n + 1), i < j
               PROVE  rows[i] < rows[j]
    OBVIOUS
  <2>1. i \in 1..n
    BY <1>1
  <2>2. CASE j = n + 1
    BY <1>1, <1>2, <2>1, <2>2
  <2>3. CASE j # n + 1
    <3>1. j \in 1..n
      BY <1>1, <2>3
    <3> QED BY <1>2, <2>1, <3>1 DEF Inv, LogIsOrdered
  <2> QED BY <2>2, <2>3
<1>4. logs' = Pruned(rows)
  BY DEF RecordsCycle
<1> HIDE DEF rows
<1>5. PICK k \in 1..(n + 1) :
        /\ logs' \in Seq(1..MaxCycles)
        /\ Len(logs') = n + 1 - k + 1 /\ Len(logs') <= KeepLogs
        /\ \A i \in 1..Len(logs') : logs'[i] = rows[k + i - 1]
  <2>1. Len(rows) > 0
    BY <1>1, <1>2
  <2>2. \E k \in 1..Len(rows) :
           /\ Pruned(rows) \in Seq(1..MaxCycles)
           /\ Len(Pruned(rows)) = Len(rows) - k + 1 /\ Len(Pruned(rows)) <= KeepLogs
           /\ \A i \in 1..Len(Pruned(rows)) : Pruned(rows)[i] = rows[k + i - 1]
    BY <1>2, <2>1, PrunedRows
  <2> QED BY <1>2, <1>4, <2>2
<1>6. Len(logs') \in Nat /\ DOMAIN logs' = 1..Len(logs')
  BY <1>5, LenProperties
<1>7. \A i \in 1..Len(logs') : k + i - 1 \in k..(n + 1)
  BY <1>1, <1>5, <1>6
<1>8. \A i, j \in 1..Len(logs') : i < j => logs'[i] < logs'[j]
  <2> SUFFICES ASSUME NEW i \in 1..Len(logs'), NEW j \in 1..Len(logs'), i < j
               PROVE  logs'[i] < logs'[j]
    OBVIOUS
  <2>1. k + i - 1 \in 1..(n + 1) /\ k + j - 1 \in 1..(n + 1) /\ k + i - 1 < k + j - 1
    BY <1>1, <1>5, <1>6
  <2> QED BY <1>3, <1>5, <2>1
<1>9. \A i \in 1..(n + 1) : rows[i] <= iteration /\ rows[i] \in 1..MaxCycles
  BY <1>1, <1>2
<1>10. ToSet(logs') = {rows[m] : m \in k..(n + 1)}
  <2>1. ASSUME NEW m \in k..(n + 1)
        PROVE  \E i \in 1..Len(logs') : rows[m] = logs'[i]
    <3>1. m - k + 1 \in 1..Len(logs') /\ k + (m - k + 1) - 1 = m
      BY <1>1, <1>5
    <3> QED BY <1>5, <3>1
  <2>2. ToSet(logs') = {logs'[i] : i \in 1..Len(logs')}
    BY <1>6 DEF ToSet
  <2>3. ASSUME NEW i \in 1..Len(logs')
        PROVE  \E m \in k..(n + 1) : logs'[i] = rows[m]
    BY <1>5, <1>7
  <2>4. ToSet(logs') \subseteq {rows[m] : m \in k..(n + 1)}
    BY <2>2, <2>3
  <2>5. {rows[m] : m \in k..(n + 1)} \subseteq ToSet(logs')
    BY <2>1, <2>2
  <2> QED BY <2>4, <2>5
<1>11. ToSet(logs) = {rows[m] : m \in 1..n}
  BY <1>1, <1>2 DEF ToSet
<1>12. \A x \in ToSet(logs') : x \in ToSet(logs) \/ x = iteration
  BY <1>1, <1>2, <1>10, <1>11
<1>13. ASSUME NEW x \in ToSet(logs) \cup {iteration}, NEW y \in ToSet(logs'),
              x \notin ToSet(logs')
       PROVE  x < y
  <2>1. PICK m \in 1..(n + 1) : x = rows[m]
    BY <1>1, <1>2, <1>11
  <2>2. PICK l \in k..(n + 1) : y = rows[l]
    BY <1>10
  <2>3. m < l
    BY <1>1, <1>10, <1>13, <2>1, <2>2
  <2> QED BY <1>3, <2>1, <2>2, <2>3
<1>14. \A i \in 1..Len(logs') : logs'[i] <= iteration
  <2> TAKE i \in 1..Len(logs')
  <2>1. k + i - 1 \in 1..(n + 1)
    BY <1>1, <1>7
  <2> QED BY <1>5, <1>9, <2>1
<1> QED BY <1>5, <1>8, <1>12, <1>13, <1>14

-----------------------------------------------------------------------------
(***************************************************************************)
(* What a step keeps by not touching it.                                   *)
(***************************************************************************)
LogInv == LogIsOrdered /\ SummariesOrdered /\ MarkIsSound /\ BatchIsCurrent
IndexInv == IndexHolds /\ SyncIsExact /\ StatusIsPast

\* The counter, the log and the summaries stay, and the cycle does not begin.
LEMMA LogUntouched ==
  ASSUME Inv, UNCHANGED store,
         \/ agent' = agent
         \/ agent'.at \notin {"working", "asking", "indexing"}
         \/ agent'.at = "asking" /\ agent'.batch = ToCompress
  PROVE  LogInv'
<1>1. UNCHANGED <<iteration, logs, summaries>>
  BY DEF store
<1>2. LogIsOrdered' /\ SummariesOrdered'
  BY <1>1 DEF Inv, LogIsOrdered, SummariesOrdered, SummaryIds
<1>3. MarkIsSound' /\ BatchIsCurrent'
  BY <1>1 DEF Inv, MarkIsSound, BatchIsCurrent, LastCompacted, ToCompress, SummaryIds
<1> QED BY <1>2, <1>3 DEF LogInv

\* The summaries, the index, the backfill and the status stay.
LEMMA IndexUntouched ==
  ASSUME Inv, UNCHANGED <<summaries, chroma, sync, status, client>>
  PROVE  IndexInv'
BY DEF Inv, IndexInv, IndexHolds, SyncIsExact, StatusIsPast, SummaryIds, Indexed

\* The rules and the pages stay.
LEMMA RulesUntouched ==
  ASSUME Inv, UNCHANGED ruleVars
  PROVE  RulesAreUnique'
BY DEF Inv, RulesAreUnique, ruleVars

\* A finite index: its ids are ids of summaries.
LEMMA IndexIsFinite ==
  ASSUME TypeOK, IndexHolds
  PROVE  /\ SummaryIds = 1..Len(summaries) /\ Len(summaries) \in Nat
         /\ IsFiniteSet(SummaryIds) /\ Cardinality(SummaryIds) = Len(summaries)
         /\ Indexed \subseteq SummaryIds /\ IsFiniteSet(Indexed)
         /\ Cardinality(Indexed) \in Nat
<1> DEFINE n == Len(summaries)
<1>1. SummaryIds = 1..n /\ n \in Nat
  BY RowsAndSummaries
<1> HIDE DEF n
<1>2. IsFiniteSet(1..n) /\ Cardinality(1..n) = n
  BY <1>1, FS_Interval
<1>3. Indexed \subseteq SummaryIds
  BY DEF IndexHolds
<1>4. IsFiniteSet(Indexed) /\ Cardinality(Indexed) \in Nat
  BY <1>1, <1>2, <1>3, FS_Subset, FS_CardinalityType
<1> QED BY <1>1, <1>2, <1>3, <1>4 DEF n

-----------------------------------------------------------------------------
(***************************************************************************)
(* The cycle.                                                              *)
(***************************************************************************)
\* The counter goes ahead of the log and of every summary.
LEMMA BeginsCycleStep ==
  ASSUME Inv, BeginsCycle
  PROVE  Inv'
<1>1. /\ iteration \in Nat /\ iteration < MaxCycles /\ iteration' = iteration + 1
      /\ UNCHANGED <<logs, summaries, chroma, sync, status, client, up, crashes>>
      /\ UNCHANGED ruleVars /\ agent' = [agent EXCEPT !.at = "working"]
  BY MemoryAssumption DEF BeginsCycle, Inv, TypeOK, process
<1>2. TypeOK'
  <2>1. iteration' \in 0..MaxCycles
    BY <1>1, MemoryAssumption
  <2> QED BY <1>1, <2>1 DEF Inv, TypeOK, ruleVars, Indexed
<1>3. agent'.at = "working"
  BY <1>1 DEF Inv, TypeOK
<1>4. LogIsOrdered'
  <2>1. \A i \in 1..Len(logs) : logs[i] \in Nat /\ logs[i] <= iteration
    BY RowsAndSummaries DEF Inv, LogIsOrdered
  <2> QED BY <1>1, <2>1 DEF Inv, LogIsOrdered
<1>5. SummariesOrdered'
  <2>1. \A i \in SummaryIds : summaries[i].end \in Nat /\ summaries[i].end <= iteration
    BY RowsAndSummaries DEF Inv, SummariesOrdered, Summary
  <2> QED BY <1>1, <2>1 DEF Inv, SummariesOrdered, SummaryIds
<1>6. MarkIsSound' /\ BatchIsCurrent'
  BY <1>1, <1>3 DEF Inv, MarkIsSound, BatchIsCurrent, LastCompacted, SummaryIds
<1> QED BY <1>1, <1>2, <1>4, <1>5, <1>6, IndexUntouched, RulesUntouched DEF Inv, IndexInv

\* The row of the cycle is put behind the log, ahead of the high-water mark.
LEMMA RecordsCycleStep ==
  ASSUME Inv, RecordsCycle
  PROVE  Inv'
<1>1. /\ agent.at = "working" /\ agent' = [agent EXCEPT !.at = "recorded"]
      /\ UNCHANGED <<iteration, summaries, chroma, sync, status, client, up, crashes>>
      /\ UNCHANGED ruleVars
  BY DEF RecordsCycle, process
<1>2. agent'.at = "recorded"
  BY <1>1 DEF Inv, TypeOK
<1>3. TypeOK'
  BY <1>1, RecordedLog DEF Inv, TypeOK, ruleVars, Indexed
<1>4. LogIsOrdered'
  BY <1>1, <1>2, RecordedLog DEF LogIsOrdered
<1>5. SummariesOrdered'
  BY <1>1, <1>2 DEF Inv, SummariesOrdered, SummaryIds
<1>6. MarkIsSound'
  <2>1. iteration \in Nat /\ iteration > 0
    BY <1>1, MemoryAssumption DEF Inv, TypeOK, LogIsOrdered
  <2>2. LastCompacted \in Nat /\ LastCompacted < iteration
    BY <1>1, <2>1, MarkProperties DEF Inv
  <2>3. \A x \in ToSet(logs') : x <= LastCompacted => x \in ToSet(logs)
    BY <2>1, <2>2, RecordedLog
  <2> QED BY <1>1, <2>3 DEF Inv, MarkIsSound, LastCompacted, SummaryIds
<1>7. BatchIsCurrent'
  BY <1>2 DEF BatchIsCurrent
<1> QED BY <1>1, <1>3, <1>4, <1>5, <1>6, <1>7, IndexUntouched, RulesUntouched
        DEF Inv, IndexInv

\* A new rule gets an id that no rule and no page has seen.
LEMMA RecordedRule ==
  ASSUME Inv, RecordHeuristic
  PROVE  /\ RulesAreUnique'
         /\ lastRule' \in 0..MaxRules
         /\ rules' \subseteq [id : 1..MaxRules, lesson : 1..MaxRules] /\ seen' = seen
<1>1. /\ lastRule \in Nat /\ lastRule < MaxRules /\ lastRule' = lastRule + 1
      /\ seen' = seen
      /\ rules' = rules \cup {[id |-> lastRule + 1, lesson |-> lastRule + 1]}
      /\ MaxRules \in Nat
  BY MemoryAssumption DEF RecordHeuristic, NextRuleId, Inv, TypeOK
<1>2. /\ \A r \in rules : r.id \in Nat
      /\ \A p \in Pages : seen[p].id \in Nat
  BY DEF Inv, TypeOK
<1>3. RulesAreUnique'
  BY <1>1, <1>2 DEF Inv, RulesAreUnique
<1>4. [id |-> lastRule + 1, lesson |-> lastRule + 1] \in [id : 1..MaxRules, lesson : 1..MaxRules]
  BY <1>1
<1> QED BY <1>1, <1>3, <1>4 DEF Inv, TypeOK

\* The steps of the cycle that write no row and no document.
LEMMA QuietCycleSteps ==
  ASSUME Inv, CycleFails \/ CompactionReads \/ CompactionFails \/ IndexMilestoneFails
              \/ Reflects
  PROVE  Inv'
<1>1. UNCHANGED <<iteration, logs, summaries, chroma, sync, status, client, up, crashes>>
  BY DEF CycleFails, CompactionReads, CompactionFails, IndexMilestoneFails, Reflects,
         store, process
<1>2. /\ UNCHANGED ruleVars \/ RecordHeuristic
  BY DEF CycleFails, CompactionReads, CompactionFails, IndexMilestoneFails, Reflects
<1>3. \/ agent' = Idle
      \/ agent' = [agent EXCEPT !.at = "reflected"]
      \/ agent' = [at |-> "asking", batch |-> ToCompress]
  BY DEF CycleFails, CompactionReads, CompactionFails, IndexMilestoneFails, Reflects
<1>4. /\ \/ agent'.at \notin {"working", "asking", "indexing"}
         \/ agent'.at = "asking" /\ agent'.batch = ToCompress
      /\ agent' \in [at : {"idle", "working", "recorded", "reflected", "asking",
                           "indexing"}, batch : SUBSET (1..MaxCycles)]
  <2>1. ToCompress \subseteq 1..MaxCycles
    BY RowsAndSummaries DEF Inv, ToCompress
  <2> QED BY <1>3, <2>1 DEF Idle, Inv, TypeOK
<1>5. LogInv' /\ IndexInv'
  BY <1>1, <1>4, LogUntouched, IndexUntouched DEF store
<1>6. /\ RulesAreUnique' /\ lastRule' \in 0..MaxRules
      /\ rules' \subseteq [id : 1..MaxRules, lesson : 1..MaxRules] /\ seen' = seen
  <2>1. CASE UNCHANGED ruleVars
    BY <2>1, RulesUntouched DEF ruleVars, Inv, TypeOK
  <2> QED BY <1>2, <2>1, RecordedRule
<1>7. TypeOK'
  BY <1>1, <1>4, <1>6 DEF Inv, TypeOK, Indexed
<1> QED BY <1>5, <1>6, <1>7 DEF Inv, LogInv, IndexInv

\* The summary is inserted behind the others: it starts after the high-water
\* mark and its text has every row up to the new one.
LEMMA CompactionInsertsStep ==
  ASSUME Inv, CompactionInserts
  PROVE  Inv'
<1> DEFINE n == Len(summaries)
<1>1. /\ agent.at = "asking" /\ agent' = [agent EXCEPT !.at = "indexing"]
      /\ UNCHANGED <<iteration, logs, chroma, sync, status, client, up, crashes>>
      /\ UNCHANGED ruleVars
  BY DEF CompactionInserts, process
<1>2. PICK first \in agent.batch, last \in agent.batch :
        /\ agent.batch \subseteq first..last
        /\ summaries' = Append(summaries,
                               [start |-> first, end |-> last, text |-> agent.batch])
  BY DEF CompactionInserts
<1> DEFINE new == [start |-> first, end |-> last, text |-> agent.batch]
<1>3. agent'.at = "indexing" /\ agent' \in
        [at : {"idle", "working", "recorded", "reflected", "asking", "indexing"},
         batch : SUBSET (1..MaxCycles)]
  BY <1>1 DEF Inv, TypeOK
<1>4. /\ agent.batch = ToCompress /\ ToCompress \subseteq 1..MaxCycles
      /\ first \in ToSet(logs) /\ first > LastCompacted /\ first \in 1..MaxCycles
      /\ last \in ToSet(logs) /\ last \in 1..MaxCycles
      /\ first <= last /\ last <= iteration
  <2>1. agent.batch = ToCompress
    BY <1>1 DEF Inv, BatchIsCurrent
  <2>2. /\ first \in ToSet(logs) /\ first > LastCompacted /\ last \in ToSet(logs)
        /\ ToCompress \subseteq 1..MaxCycles
    BY <1>2, <2>1, RowsAndSummaries DEF ToCompress, Inv
  <2>3. first \in 1..MaxCycles /\ last \in 1..MaxCycles /\ first <= last
    <3>1. first \in 1..MaxCycles /\ last \in 1..MaxCycles
      BY <2>1, <2>2
    <3>2. first \in first..last
      BY <1>2
    <3> QED BY <3>1, <3>2
  <2>4. last <= iteration
    BY <2>2, RowsAndSummaries DEF Inv, LogIsOrdered, ToSet
  <2> QED BY <2>1, <2>2, <2>3, <2>4
<1>5. new \in Summary
  BY <1>4 DEF Summary
<1>6. /\ SummaryIds = 1..n /\ n \in Nat
      /\ summaries \in Seq(Summary) /\ \A i \in 1..n : summaries[i] \in Summary
  BY RowsAndSummaries DEF Inv, TypeOK
<1> HIDE DEF new
<1>7. /\ summaries' \in Seq(Summary) /\ Len(summaries') = n + 1
      /\ summaries'[n + 1] = new /\ \A i \in 1..n : summaries'[i] = summaries[i]
  BY <1>2, <1>5, <1>6 DEF new
<1>8. SummaryIds' = 1..(n + 1)
  BY <1>6, <1>7, LenProperties DEF SummaryIds
<1>9. LastCompacted' = last
  <2>1. summaries' # <<>>
    BY <1>6, <1>7
  <2> QED BY <1>7, <2>1 DEF LastCompacted, Last, new
<1>10. /\ LastCompacted \in Nat /\ \A i \in 1..n : summaries[i].end <= LastCompacted
  BY <1>6, MarkProperties DEF Inv
<1> HIDE DEF n
<1>11. TypeOK'
  BY <1>1, <1>3, <1>7 DEF Inv, TypeOK, ruleVars, Indexed
<1>12. LogIsOrdered'
  BY <1>1, <1>3 DEF Inv, LogIsOrdered
<1>13. SummariesOrdered'
  <2>1. /\ new.start = first /\ new.end = last
    BY DEF new
  <2>2. \A i \in 1..(n + 1) : i \in 1..n \/ i = n + 1
    BY <1>6
  <2>3. \A i \in 1..(n + 1) :
          summaries'[i].start <= summaries'[i].end /\ summaries'[i].end <= iteration
    BY <1>4, <1>6, <1>7, <2>1, <2>2 DEF Inv, SummariesOrdered
  <2>4. ASSUME NEW i \in 1..(n + 1), NEW j \in 1..(n + 1), i < j
        PROVE  summaries'[i].end < summaries'[j].start
    <3>1. i \in 1..n
      BY <1>6, <2>4
    <3>2. CASE j = n + 1
      <4>1. summaries[i].end <= LastCompacted /\ summaries[i].end \in Nat
        BY <1>6, <1>10, <3>1 DEF Summary
      <4> QED BY <1>4, <1>7, <1>10, <2>1, <3>1, <3>2, <4>1
    <3>3. CASE j # n + 1
      BY <1>6, <1>7, <2>2, <2>4, <3>1, <3>3 DEF Inv, SummariesOrdered
    <3> QED BY <3>2, <3>3
  <2> QED BY <1>1, <1>3, <1>8, <2>3, <2>4 DEF SummariesOrdered
<1>14. MarkIsSound'
  <2> SUFFICES ASSUME NEW i \in ToSet(logs), i <= last
               PROVE  \E s \in 1..(n + 1) : i \in summaries'[s].text
    BY <1>1, <1>8, <1>9 DEF MarkIsSound
  <2>1. CASE i <= LastCompacted
    <3>1. PICK s \in 1..n : i \in summaries[s].text
      BY <1>6, <2>1 DEF Inv, MarkIsSound
    <3> QED BY <1>6, <1>7, <3>1
  <2>2. CASE ~(i <= LastCompacted)
    <3>1. i \in 1..MaxCycles
      BY RowsAndSummaries DEF Inv
    <3>2. i \in ToCompress
      BY <1>10, <2>2, <3>1 DEF ToCompress
    <3> QED BY <1>4, <1>6, <1>7, <3>2 DEF new
  <2> QED BY <2>1, <2>2
<1>15. BatchIsCurrent'
  BY <1>3, <1>6, <1>7, <1>8 DEF BatchIsCurrent
<1>16. IndexInv'
  <2>1. SummaryIds \subseteq SummaryIds' /\ \A i \in SummaryIds : summaries'[i] = summaries[i]
    BY <1>6, <1>7, <1>8
  <2>2. IndexHolds' /\ SyncIsExact'
    BY <1>1, <2>1 DEF Inv, IndexHolds, SyncIsExact, Indexed
  <2>3. StatusIsPast'
    BY <1>1, <1>6, <1>7 DEF Inv, TypeOK, StatusIsPast, Indexed, n
  <2> QED BY <2>2, <2>3 DEF IndexInv
<1> QED BY <1>1, <1>11, <1>12, <1>13, <1>14, <1>15, <1>16, RulesUntouched DEF Inv, IndexInv

-----------------------------------------------------------------------------
(***************************************************************************)
(* The index, the backfill and the status.                                 *)
(***************************************************************************)
\* Indexing summaries that exist keeps the index sound and loses nothing.
LEMMA UpsertedIndex ==
  ASSUME Inv, NEW ids \in SUBSET SummaryIds, chroma' = Upserted(ids),
         UNCHANGED summaries
  PROVE  /\ Indexed' = Indexed \cup ids
         /\ IndexHolds'
         /\ \A i \in Indexed' : chroma'[i] \in Summary
         /\ Cardinality(Indexed) \in Nat /\ Cardinality(Indexed') \in Nat
         /\ Cardinality(Indexed) <= Cardinality(Indexed')
<1>1. Indexed' = Indexed \cup ids
  BY DEF Upserted, Indexed
<1>2. \A i \in Indexed' : i \in SummaryIds /\ chroma'[i] = summaries[i]
  BY <1>1 DEF Upserted, Indexed, Inv, IndexHolds
<1>3. IndexHolds' /\ \A i \in Indexed' : chroma'[i] \in Summary
  BY <1>2, RowsAndSummaries DEF IndexHolds, SummaryIds, Inv
<1>4. IsFiniteSet(SummaryIds) /\ Indexed' \subseteq SummaryIds
  BY <1>2, IndexIsFinite DEF Inv
<1>5. IsFiniteSet(Indexed') /\ Indexed \subseteq Indexed'
  BY <1>1, <1>4, FS_Subset
<1>6. Cardinality(Indexed) \in Nat /\ Cardinality(Indexed') \in Nat
      /\ Cardinality(Indexed) <= Cardinality(Indexed')
  BY <1>5, FS_Subset, FS_CardinalityType
<1> QED BY <1>1, <1>3, <1>6

\* The agent indexes the summary it has inserted.
LEMMA IndexMilestoneStep ==
  ASSUME Inv, IndexMilestone
  PROVE  Inv'
<1>1. /\ agent.at = "indexing" /\ agent' = Idle
      /\ chroma' = Upserted({Len(summaries)})
      /\ UNCHANGED <<iteration, logs, summaries, sync, status, client, up, crashes>>
      /\ UNCHANGED ruleVars
  BY DEF IndexMilestone, store, process
<1>2. /\ Indexed' = Indexed \cup {Len(summaries)} /\ IndexHolds'
      /\ \A i \in Indexed' : chroma'[i] \in Summary
      /\ Cardinality(Indexed) \in Nat /\ Cardinality(Indexed') \in Nat
      /\ Cardinality(Indexed) <= Cardinality(Indexed')
  BY <1>1, UpsertedIndex DEF Inv, BatchIsCurrent
<1>3. TypeOK'
  BY <1>1, <1>2 DEF Inv, TypeOK, Idle, ruleVars
<1>4. SyncIsExact' 
  BY <1>1, <1>2 DEF Inv, SyncIsExact, SummaryIds
<1>5. StatusIsPast'
  BY <1>1, <1>2 DEF Inv, TypeOK, StatusIsPast
<1>6. LogInv'
  BY <1>1, LogUntouched DEF store, Idle
<1> QED BY <1>1, <1>2, <1>3, <1>4, <1>5, <1>6, RulesUntouched DEF Inv, LogInv

\* A chunk of the backfill.
LEMMA SyncIndexesStep ==
  ASSUME Inv, SyncIndexes
  PROVE  Inv'
<1>1. /\ sync.at = "indexing" /\ sync' = [sync EXCEPT !.todo = @ \ Chunk]
      /\ chroma' = IF client THEN Upserted(Chunk) ELSE chroma
      /\ UNCHANGED <<iteration, logs, summaries, agent, status, client, up, crashes>>
      /\ UNCHANGED ruleVars
  BY DEF SyncIndexes, store, process
<1>2. Chunk \subseteq sync.todo /\ Chunk \subseteq SummaryIds
  BY <1>1 DEF Chunk, Inv, SyncIsExact
<1>3. /\ sync'.at = "indexing" /\ sync'.ids = sync.ids /\ sync'.todo = sync.todo \ Chunk
      /\ sync' \in [at : {"idle", "listed", "indexing"}, ids : SUBSET Nat, todo : SUBSET Nat]
  BY <1>1 DEF Inv, TypeOK
<1>4. LogInv'
  BY <1>1, LogUntouched DEF store
<1>5. CASE client
  <2>1. /\ Indexed' = Indexed \cup Chunk /\ IndexHolds'
        /\ \A i \in Indexed' : chroma'[i] \in Summary
        /\ Cardinality(Indexed) \in Nat /\ Cardinality(Indexed') \in Nat
        /\ Cardinality(Indexed) <= Cardinality(Indexed')
    BY <1>1, <1>2, <1>5, UpsertedIndex
  <2>2. TypeOK'
    BY <1>1, <1>3, <2>1 DEF Inv, TypeOK, ruleVars
  <2>3. SyncIsExact'
    BY <1>1, <1>2, <1>3, <2>1 DEF Inv, SyncIsExact, SummaryIds
  <2>4. StatusIsPast'
    BY <1>1, <2>1 DEF Inv, TypeOK, StatusIsPast
  <2> QED BY <1>1, <1>4, <2>1, <2>2, <2>3, <2>4, RulesUntouched DEF Inv, LogInv
<1>6. CASE ~client
  <2>1. UNCHANGED chroma
    BY <1>1, <1>6
  <2>2. TypeOK'
    BY <1>1, <1>3, <2>1 DEF Inv, TypeOK, ruleVars, Indexed
  <2>3. SyncIsExact'
    BY <1>1, <1>3, <1>6, <2>1 DEF Inv, SyncIsExact, SummaryIds
  <2>4. IndexHolds' /\ StatusIsPast'
    BY <1>1, <2>1 DEF Inv, IndexHolds, StatusIsPast, Indexed, SummaryIds
  <2> QED BY <1>1, <1>4, <2>2, <2>3, <2>4, RulesUntouched DEF Inv, LogInv
<1> QED BY <1>5, <1>6

\* The other steps of the backfill.
LEMMA QuietSyncSteps ==
  ASSUME Inv, SyncLists \/ SyncReads \/ SyncEnds \/ SyncFails
  PROVE  Inv'
<1>1. UNCHANGED <<iteration, logs, summaries, chroma, agent, status, client, crashes,
                  rules, lastRule, seen>>
  BY DEF SyncLists, SyncReads, SyncEnds, SyncFails, store, process, ruleVars
<1>2. up' \in BOOLEAN
  BY DEF SyncLists, SyncReads, SyncEnds, SyncFails, process, Inv, TypeOK
<1>3. SummaryIds \subseteq Nat /\ Indexed \subseteq SummaryIds
  BY RowsAndSummaries DEF Inv, IndexHolds
<1>4. SyncIsExact' /\ sync' \in
        [at : {"idle", "listed", "indexing"}, ids : SUBSET Nat, todo : SUBSET Nat]
  <2>1. ASSUME NEW ids \in {Indexed, {}}, sync' = [NoSync EXCEPT !.at = "listed", !.ids = ids]
        PROVE  SyncIsExact' /\ sync' \in
                 [at : {"idle", "listed", "indexing"}, ids : SUBSET Nat, todo : SUBSET Nat]
    <3>1. /\ sync'.at = "listed" /\ sync'.ids = ids /\ sync'.todo = {}
          /\ sync' = [at |-> "listed", ids |-> ids, todo |-> {}]
      BY <2>1 DEF NoSync
    <3>2. ids \in SUBSET Nat
      BY <1>3
    <3>3. SyncIsExact'
      BY <1>1, <1>3, <3>1 DEF SyncIsExact, SummaryIds, Indexed
    <3> QED BY <3>1, <3>2, <3>3
  <2>2. CASE SyncReads
    <3>1. /\ sync.at = "listed" /\ sync'.at = "indexing" /\ sync'.ids = SummaryIds
          /\ sync'.todo = SummaryIds \ sync.ids
          /\ sync' = [at |-> "indexing", ids |-> SummaryIds, todo |-> SummaryIds \ sync.ids]
      BY <2>2 DEF SyncReads, Missing, Inv, TypeOK
    <3>2. SyncIsExact'
      BY <1>1, <3>1 DEF Inv, SyncIsExact, SummaryIds, Indexed
    <3> QED BY <1>3, <3>1, <3>2
  <2>3. CASE sync' = NoSync
    BY <2>3 DEF NoSync, SyncIsExact
  <2> QED BY <2>1, <2>2, <2>3 DEF SyncLists, SyncEnds, SyncFails
<1>5. TypeOK'
  BY <1>1, <1>2, <1>4 DEF Inv, TypeOK, Indexed
<1>6. IndexHolds' /\ StatusIsPast'
  BY <1>1 DEF Inv, IndexHolds, StatusIsPast, Indexed, SummaryIds
<1>7. LogInv' /\ RulesAreUnique'
  BY <1>1, LogUntouched, RulesUntouched DEF store, ruleVars
<1> QED BY <1>4, <1>5, <1>6, <1>7 DEF Inv, LogInv

\* The status counts, and lists the index later.
LEMMA StatusStep ==
  ASSUME Inv, Status
  PROVE  Inv'
<1>1. UNCHANGED <<iteration, logs, summaries, chroma, agent, sync, client, up, crashes,
                  rules, lastRule, seen>>
  BY DEF Status, StatusCounts, StatusAnswers, StatusRead, store, process, ruleVars
<1>2. /\ Len(summaries) \in Nat /\ Cardinality(Indexed) \in Nat
      /\ Cardinality({}) = 0
  BY IndexIsFinite, FS_EmptySet DEF Inv
<1>3. StatusIsPast' /\ status' \in
        [at : {"idle", "counted", "answered"}, count : Nat, inSync : BOOLEAN]
  <2>1. CASE StatusCounts
    BY <1>1, <1>2, <2>1 DEF StatusCounts, StatusIsPast
  <2>2. CASE StatusAnswers
    <3>1. PICK ids \in {Indexed, {}} :
            status' = [status EXCEPT !.at = "answered", !.inSync = InSync(status.count, ids)]
      BY <2>2 DEF StatusAnswers
    <3>2. status.count \in Nat /\ status.count <= Len(summaries)
      BY <2>2 DEF StatusAnswers, Inv, TypeOK, StatusIsPast
    <3>3. /\ status'.at = "answered" /\ status'.count = status.count
          /\ status'.inSync <=> Cardinality(ids) >= status.count
      BY <3>1 DEF Inv, TypeOK, InSync
    <3>4. InSync(status.count, ids) \in BOOLEAN
      BY DEF InSync
    <3>5. status' \in [at : {"idle", "counted", "answered"}, count : Nat, inSync : BOOLEAN]
      BY <3>1, <3>4 DEF Inv, TypeOK
    <3>6. status'.inSync => status.count <= Cardinality(Indexed)
      <4>1. CASE ids = Indexed
        BY <3>3, <4>1
      <4>2. CASE ids = {}
        <5>1. status'.inSync => 0 >= status.count
          BY <1>2, <3>3, <4>2
        <5> QED BY <1>2, <3>2, <5>1
      <4> QED BY <4>1, <4>2
    <3> QED BY <1>1, <3>2, <3>3, <3>5, <3>6 DEF StatusIsPast, Indexed
  <2>3. CASE StatusRead
    BY <2>3 DEF StatusRead, NoStatus, StatusIsPast
  <2> QED BY <2>1, <2>2, <2>3 DEF Status
<1>4. TypeOK'
  BY <1>1, <1>3 DEF Inv, TypeOK, Indexed
<1>5. IndexHolds' /\ SyncIsExact'
  BY <1>1 DEF Inv, IndexHolds, SyncIsExact, Indexed, SummaryIds
<1>6. LogInv' /\ RulesAreUnique'
  BY <1>1, LogUntouched, RulesUntouched DEF store, ruleVars
<1> QED BY <1>3, <1>4, <1>5, <1>6 DEF Inv, LogInv

-----------------------------------------------------------------------------
(***************************************************************************)
(* The dashboard's rules, and the end of a process.                        *)
(***************************************************************************)
\* Rules are created, shown and deleted.
LEMMA DashboardStep ==
  ASSUME Inv, Dashboard
  PROVE  Inv'
<1>1. UNCHANGED <<iteration, logs, summaries, chroma, agent, sync, status, client, up,
                  crashes>>
  BY DEF Dashboard, DashboardCreatesRule, DashboardListsRule, DeleteHeuristic, store,
         process
<1>2. /\ RulesAreUnique' /\ lastRule' \in 0..MaxRules
      /\ rules' \subseteq [id : 1..MaxRules, lesson : 1..MaxRules]
      /\ seen' \in [Pages -> [id : 0..MaxRules, lesson : 0..MaxRules]]
  <2>1. CASE DashboardCreatesRule
    BY <2>1, RecordedRule DEF DashboardCreatesRule, Inv, TypeOK
  <2>2. ASSUME NEW p \in Pages, NEW r \in rules, seen' = [seen EXCEPT ![p] = r],
               UNCHANGED <<rules, lastRule>>
        PROVE  /\ RulesAreUnique' /\ lastRule' \in 0..MaxRules
               /\ rules' \subseteq [id : 1..MaxRules, lesson : 1..MaxRules]
               /\ seen' \in [Pages -> [id : 0..MaxRules, lesson : 0..MaxRules]]
    <3>1. r \in [id : 1..MaxRules, lesson : 1..MaxRules]
      BY DEF Inv, TypeOK
    <3>2. r \in [id : 0..MaxRules, lesson : 0..MaxRules]
      BY <3>1, MemoryAssumption
    <3> QED BY <2>2, <3>2 DEF Inv, TypeOK, RulesAreUnique
  <2>3. ASSUME NEW p \in Pages, DeleteHeuristic(p)
        PROVE  /\ RulesAreUnique' /\ lastRule' \in 0..MaxRules
               /\ rules' \subseteq [id : 1..MaxRules, lesson : 1..MaxRules]
               /\ seen' \in [Pages -> [id : 0..MaxRules, lesson : 0..MaxRules]]
    <3>1. /\ rules' \subseteq rules /\ lastRule' = lastRule
          /\ seen' = [seen EXCEPT ![p] = NoRule]
      BY <2>3 DEF DeleteHeuristic
    <3>2. /\ NoRule \in [id : 0..MaxRules, lesson : 0..MaxRules]
          /\ NoRule.lesson = NoRule.id /\ NoRule.id <= lastRule
      BY MemoryAssumption DEF NoRule, Inv, TypeOK
    <3> QED BY <3>1, <3>2 DEF Inv, TypeOK, RulesAreUnique
  <2> QED BY <2>1, <2>2, <2>3 DEF Dashboard, DashboardListsRule
<1>3. TypeOK'
  BY <1>1, <1>2 DEF Inv, TypeOK, Indexed
<1>4. LogInv' /\ IndexInv'
  BY <1>1, LogUntouched, IndexUntouched DEF store
<1> QED BY <1>2, <1>3, <1>4 DEF Inv, LogInv, IndexInv

\* The process dies; the stores stay, and the next process may have a key.
LEMMA CrashStep ==
  ASSUME Inv, Crash
  PROVE  Inv'
<1>1. /\ UNCHANGED <<iteration, logs, summaries, chroma, rules, lastRule, seen>>
      /\ agent' = Idle /\ sync' = NoSync /\ status' = NoStatus
      /\ up' = FALSE /\ client' \in BOOLEAN /\ crashes' \in 0..MaxCrashes
  BY MemoryAssumption DEF Crash, store, ruleVars, Inv, TypeOK
<1>2. TypeOK'
  BY <1>1 DEF Inv, TypeOK, Indexed, Idle, NoSync, NoStatus
<1>3. IndexHolds' /\ SyncIsExact' /\ StatusIsPast'
  BY <1>1 DEF Inv, IndexHolds, SyncIsExact, StatusIsPast, Indexed, SummaryIds, NoSync,
              NoStatus
<1>4. LogInv' /\ RulesAreUnique'
  BY <1>1, LogUntouched, RulesUntouched DEF store, ruleVars, Idle
<1> QED BY <1>2, <1>3, <1>4 DEF Inv, LogInv

-----------------------------------------------------------------------------
\* The invariant holds of empty stores.
LEMMA InitInv == Init => Inv
<1> SUFFICES ASSUME Init PROVE Inv
  OBVIOUS
<1>1. /\ SummaryIds = {} /\ Indexed = {} /\ ToSet(logs) = {} /\ Len(logs) = 0
      /\ logs \in Seq(1..MaxCycles) /\ summaries \in Seq(Summary)
  BY EmptySeq DEF Init, SummaryIds, Indexed, ToSet
<1>2. TypeOK
  <2>1. seen \in [Pages -> [id : 0..MaxRules, lesson : 0..MaxRules]]
    BY MemoryAssumption DEF Init, NoRule
  <2>2. /\ 0 \in 0..MaxCycles /\ 0 \in 0..MaxRules /\ 0 \in 0..MaxCrashes
        /\ Len(logs) <= KeepLogs
    BY <1>1, MemoryAssumption
  <2>3. /\ Idle \in [at : {"idle", "working", "recorded", "reflected", "asking", "indexing"},
                     batch : SUBSET (1..MaxCycles)]
        /\ NoSync \in [at : {"idle", "listed", "indexing"}, ids : SUBSET Nat, todo : SUBSET Nat]
        /\ NoStatus \in [at : {"idle", "counted", "answered"}, count : Nat, inSync : BOOLEAN]
    BY DEF Idle, NoSync, NoStatus
  <2> QED BY <1>1, <2>1, <2>2, <2>3 DEF Init, TypeOK
<1>3. LogIsOrdered /\ SummariesOrdered /\ MarkIsSound /\ BatchIsCurrent
  BY <1>1 DEF Init, LogIsOrdered, SummariesOrdered, MarkIsSound, BatchIsCurrent, Idle
<1>4. IndexHolds /\ SyncIsExact /\ StatusIsPast
  BY <1>1 DEF Init, IndexHolds, SyncIsExact, StatusIsPast, NoSync, NoStatus
<1>5. RulesAreUnique
  BY DEF Init, RulesAreUnique, NoRule
<1> QED BY <1>2, <1>3, <1>4, <1>5 DEF Inv

\* Every step preserves the invariant.
LEMMA StepInv == Inv /\ [Next]_vars => Inv'
<1> SUFFICES ASSUME Inv, [Next]_vars PROVE Inv'
  OBVIOUS
<1>1. CASE UNCHANGED vars
  <2>1. LogInv' /\ IndexInv' /\ RulesAreUnique'
    BY <1>1, LogUntouched, IndexUntouched, RulesUntouched DEF vars, store, ruleVars
  <2>2. TypeOK'
    BY <1>1 DEF vars, Inv, TypeOK, Indexed
  <2> QED BY <2>1, <2>2 DEF Inv, LogInv, IndexInv
<1>2. CASE Cycle
  BY <1>2, BeginsCycleStep, RecordsCycleStep, QuietCycleSteps, CompactionInsertsStep,
     IndexMilestoneStep DEF Cycle
<1>3. CASE Sync
  BY <1>3, SyncIndexesStep, QuietSyncSteps DEF Sync
<1>4. CASE Status \/ Dashboard \/ Crash
  BY <1>4, StatusStep, DashboardStep, CrashStep
<1> QED BY <1>1, <1>2, <1>3, <1>4 DEF Next

\* Inv is an invariant of the stores, the cycle, the backfill, the status and
\* the rules together.
THEOREM Invariance == Spec => []Inv
BY InitInv, StepInv, PTL DEF Spec

\* Summaries are disjoint and in order, and no row behind the high-water mark
\* was skipped by it.
THEOREM SummariesInOrder == Spec => []SummariesFollow
<1>1. Inv => SummariesFollow
  BY DEF Inv, SummariesFollow, SummariesOrdered, MarkIsSound
<1> QED BY <1>1, Invariance, PTL

\* The index holds summaries under their own ids, and an answer "in sync"
\* misses at most what was inserted since the summaries were counted.
THEOREM IndexSound == Spec => []IndexIsSound
<1>1. Inv => IndexIsSound
  <2> SUFFICES ASSUME Inv, status.at = "answered", status.inSync
               PROVE  Cardinality(SummaryIds \ Indexed) <= Len(summaries) - status.count
    BY DEF Inv, IndexIsSound, IndexHolds
  <2>1. /\ IsFiniteSet(SummaryIds) /\ Cardinality(SummaryIds) = Len(summaries)
        /\ IsFiniteSet(Indexed) /\ Indexed \subseteq SummaryIds
        /\ Len(summaries) \in Nat /\ Cardinality(Indexed) \in Nat
    BY IndexIsFinite DEF Inv
  <2>2. Cardinality(SummaryIds \ Indexed) = Len(summaries) - Cardinality(Indexed)
    <3>1. SummaryIds \cap Indexed = Indexed
      BY <2>1
    <3>2. Cardinality(SummaryIds \ Indexed)
            = Cardinality(SummaryIds) - Cardinality(SummaryIds \cap Indexed)
      BY <2>1, FS_Difference
    <3> QED BY <2>1, <3>1, <3>2
  <2>3. status.count \in Nat /\ status.count <= Cardinality(Indexed)
    BY DEF Inv, TypeOK, StatusIsPast
  <2> QED BY <2>1, <2>2, <2>3
<1> QED BY <1>1, Invariance, PTL

\* A backfill that ends with a client has indexed every summary it read.
THEOREM BackfillLeavesNoGap == Spec => []SyncLeavesNoGap
<1>1. Inv => SyncLeavesNoGap
  BY DEF Inv, SyncIsExact, SyncLeavesNoGap
<1> QED BY <1>1, Invariance, PTL

\* Pruning takes an unsummarised row only when all that stay are unsummarised
\* too; a rule goes only because a page that was shown it deletes it.
LEMMA StepDeletesForAReason ==
  Inv /\ [Next]_vars =>
    [/\ agent.at = "working" /\ agent'.at = "recorded" =>
            \A i \in (ToSet(logs) \cup {iteration}) \ ToSet(logs') :
                i > LastCompacted => \A j \in ToSet(logs') : j > LastCompacted
     /\ \A r \in rules \ rules' : \E p \in Pages : r = seen[p] /\ seen'[p] = NoRule]_vars
<1> SUFFICES ASSUME Inv, [Next]_vars
             PROVE  /\ agent.at = "working" /\ agent'.at = "recorded" =>
                         \A i \in (ToSet(logs) \cup {iteration}) \ ToSet(logs') :
                             i > LastCompacted => \A j \in ToSet(logs') : j > LastCompacted
                    /\ \A r \in rules \ rules' :
                         \E p \in Pages : r = seen[p] /\ seen'[p] = NoRule
  OBVIOUS
<1>1. ASSUME agent.at = "working", agent'.at = "recorded",
             NEW i \in (ToSet(logs) \cup {iteration}) \ ToSet(logs'), i > LastCompacted,
             NEW j \in ToSet(logs')
      PROVE  j > LastCompacted
  <2>1. RecordsCycle
    BY <1>1 DEF Next, vars, Cycle, BeginsCycle, CycleFails, Reflects, CompactionReads,
                CompactionInserts, CompactionFails, IndexMilestone, IndexMilestoneFails,
                Sync, SyncLists, SyncReads, SyncIndexes, SyncEnds, SyncFails, Status,
                StatusCounts, StatusAnswers, StatusRead, Dashboard, DashboardCreatesRule,
                DashboardListsRule, DeleteHeuristic, Crash, Idle
  <2>2. i < j
    BY <1>1, <2>1, RecordedLog
  <2>3. /\ ToSet(logs) \cup {iteration} \subseteq Nat
        /\ j \in ToSet(logs) \cup {iteration}
        /\ LastCompacted \in Nat
    <3>1. iteration \in Nat /\ ToSet(logs) \subseteq Nat
      <4>1. iteration \in Nat
        BY MemoryAssumption DEF Inv, TypeOK
      <4>2. ToSet(logs) \subseteq Nat
        BY RowsAndSummaries DEF Inv
      <4> QED BY <4>1, <4>2
    <3>2. j \in ToSet(logs) \cup {iteration}
      BY <2>1, RecordedLog
    <3>3. LastCompacted \in Nat
      BY MarkProperties DEF Inv
    <3> QED BY <3>1, <3>2, <3>3
  <2> QED BY <1>1, <2>2, <2>3
<1>2. ASSUME NEW r \in rules, r \notin rules'
      PROVE  \E p \in Pages : r = seen[p] /\ seen'[p] = NoRule
  <2>1. PICK p \in Pages : DeleteHeuristic(p)
    BY <1>2 DEF Next, vars, Cycle, BeginsCycle, RecordsCycle, CycleFails, Reflects,
                CompactionReads, CompactionInserts, CompactionFails, IndexMilestone,
                IndexMilestoneFails, Sync, SyncLists, SyncReads, SyncIndexes, SyncEnds,
                SyncFails, Status, StatusCounts, StatusAnswers, StatusRead, Dashboard,
                DashboardCreatesRule, DashboardListsRule, Crash, RecordHeuristic, ruleVars
  <2>2. r.id = seen[p].id /\ seen' = [seen EXCEPT ![p] = NoRule]
    BY <1>2, <2>1 DEF DeleteHeuristic
  <2>3. r.lesson = r.id /\ seen[p].lesson = seen[p].id
    BY DEF Inv, RulesAreUnique
  <2>4. /\ r \in [id : 1..MaxRules, lesson : 1..MaxRules]
        /\ seen[p] \in [id : 0..MaxRules, lesson : 0..MaxRules]
    BY DEF Inv, TypeOK
  <2>5. r = seen[p]
    BY <2>2, <2>3, <2>4
  <2> QED BY <2>2, <2>5 DEF Inv, TypeOK
<1> QED BY <1>1, <1>2

\* No step removes a row or a rule for another reason.
THEOREM RowsGoForAReason == Spec => DeletesForAReason
BY Invariance, StepDeletesForAReason, PTL DEF Spec, DeletesForAReason

-----------------------------------------------------------------------------
(***************************************************************************)
(* The fusion of the two rankings.                                         *)
(***************************************************************************)
\* 1/f + 1/v exceeds 1/g as soon as neither f nor v reaches 2g.
LEMMA TwoHitsOutweighOne ==
  ASSUME NEW f \in Nat \ {0}, NEW v \in Nat \ {0}, NEW g \in Nat, f < 2 * g, v < 2 * g
  PROVE  (f + v) * g > f * v
<1>1. f * v < f * (2 * g)
  BY Z3
<1>2. v * f < v * (2 * g)
  BY Z3
<1>3. f * (2 * g) + v * (2 * g) = 2 * ((f + v) * g) /\ v * f = f * v
  BY Z3
<1>4. (f + v) * g \in Int /\ f * v \in Int
  OBVIOUS
<1> DEFINE x == (f + v) * g
           y == f * v
           a == f * (2 * g)
           b == v * (2 * g)
<1>5. a \in Int /\ b \in Int
  OBVIOUS
<1>6. y < a /\ y < b /\ a + b = 2 * x /\ x \in Int /\ y \in Int
  BY <1>1, <1>2, <1>3, <1>4
<1> HIDE DEF x, y, a, b
<1>7. x > y
  BY <1>5, <1>6
<1> QED BY <1>7 DEF x, y

\* The rank of a hit is 1 up to SearchLimit, and RrfK is added to it.
LEMMA InvRankRange ==
  ASSUME NEW ids, NEW ranking \in Rankings(ids), NEW d
  PROVE  /\ d \in ToSet(ranking) =>
              InvRank(ranking, d) \in (RrfK + 1)..(RrfK + SearchLimit)
         /\ d \notin ToSet(ranking) => InvRank(ranking, d) = 0
<1>1. PICK n \in 0..SearchLimit : ranking \in [1..n -> ids]
  BY DEF Rankings
<1>2. ASSUME d \in ToSet(ranking)
      PROVE  InvRank(ranking, d) \in (RrfK + 1)..(RrfK + SearchLimit)
  <2> DEFINE r == CHOOSE k \in DOMAIN ranking : ranking[k] = d
  <2>1. \E k \in DOMAIN ranking : ranking[k] = d
    BY <1>2 DEF ToSet
  <2>2. r \in 1..n
    BY <1>1, <2>1
  <2>3. InvRank(ranking, d) = RrfK + r
    BY <1>2 DEF InvRank
  <2> HIDE DEF r
  <2> QED BY <1>1, <2>2, <2>3, MemoryAssumption
<1> QED BY <1>2 DEF InvRank

\* With at most RrfK + 1 hits from each search, a document that both find
\* outranks every document that only one of them finds.  (60 and top_k * 4: up
\* to a top_k of 15.)
THEOREM AgreementOutranks ==
  ASSUME SearchLimit <= RrfK + 1
  PROVE  Spec => []AgreementWins
<1>1. ASSUME NEW A, NEW B, NEW fts \in Rankings(A), NEW vec \in Rankings(B),
             NEW d \in ToSet(fts) \cap ToSet(vec),
             NEW e \in (ToSet(fts) \cup ToSet(vec)) \ (ToSet(fts) \cap ToSet(vec))
      PROVE  Better(fts, vec, d, e)
  <2> DEFINE f == InvRank(fts, d)
             v == InvRank(vec, d)
             p == InvRank(fts, e)
             q == InvRank(vec, e)
             g == p + q
  <2>1. /\ f \in (RrfK + 1)..(RrfK + SearchLimit) /\ v \in (RrfK + 1)..(RrfK + SearchLimit)
        /\ RrfK \in Nat /\ SearchLimit \in Nat
    BY InvRankRange, MemoryAssumption
  <2>2. \/ p \in (RrfK + 1)..(RrfK + SearchLimit) /\ q = 0
        \/ q \in (RrfK + 1)..(RrfK + SearchLimit) /\ p = 0
    BY InvRankRange
  <2>3. Num(fts, vec, d) = f + v /\ Den(fts, vec, d) = f * v
    <3>1. f # 0 /\ v # 0
      BY <2>1
    <3> QED BY <3>1 DEF Num, Den
  <2>4. Num(fts, vec, e) = 1 /\ Den(fts, vec, e) = g
    BY <2>2 DEF Num, Den
  <2> HIDE DEF f, v, p, q
  <2>5. /\ f \in Nat \ {0} /\ v \in Nat \ {0} /\ g \in Nat
        /\ f < 2 * g /\ v < 2 * g
    BY <2>1, <2>2
  <2> HIDE DEF g
  <2>6. (f + v) * g > f * v
    BY <2>5, TwoHitsOutweighOne
  <2>7. 1 * (f * v) = f * v
    BY <2>5
  <2> QED BY <2>3, <2>4, <2>6, <2>7 DEF Better
<1>2. AgreementWins
  BY <1>1 DEF AgreementWins
<1> QED BY <1>2, PTL
=============================================================================
