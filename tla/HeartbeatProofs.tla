--------------------------- MODULE HeartbeatProofs ---------------------------
(***************************************************************************)
(* Theorems about Heartbeat, for any number of isolated cycles and any     *)
(* limits.  The five parts of Inv are proved together: the streak stays in *)
(* its range only because an armed loop has failures left, and that holds  *)
(* only because the breaker ends the loop.  Then: Heartbeat implements     *)
(* CycleLog, from which the order of the log rows follows.                 *)
(***************************************************************************)
EXTENDS Heartbeat, SequenceTheorems, TLAPS

\* The inductive invariant.
Inv ==
  /\ TypeOK
  /\ OneCycleAtATime
  /\ QueueIsExact
  /\ GateAgrees
  /\ LoopEndsForAReason

\* Pruning keeps a suffix.
LEMMA NewestIsSuffix ==
  ASSUME NEW S, NEW s \in Seq(S), NEW n \in Nat
  PROVE  /\ Newest(s, n) \in Seq(S)
         /\ Len(Newest(s, n)) <= Len(s)
         /\ \A i \in 1..Len(Newest(s, n)) :
              Newest(s, n)[i] = s[i + (Len(s) - Len(Newest(s, n)))]
<1>0. Len(s) \in Nat /\ \A i \in 1..Len(s) : s[i] \in S
  BY ElementOfSeq, LenProperties
<1>1. CASE Len(s) > n
  <2>1. Newest(s, n) = SubSeq(s, Len(s) - n + 1, Len(s))
    BY <1>1 DEF Newest
  <2>2. \A i \in (Len(s) - n + 1)..Len(s) : s[i] \in S
    BY <1>0, <1>1
  <2>3. /\ Newest(s, n) \in Seq(S)
        /\ Len(Newest(s, n)) = n
        /\ \A i \in 1..n : Newest(s, n)[i] = s[Len(s) - n + i]
    BY <1>0, <1>1, <2>1, <2>2, SubSeqProperties
  <2> QED BY <1>0, <1>1, <2>3
<1>2. CASE ~(Len(s) > n)
  BY <1>0, <1>2 DEF Newest
<1> QED BY <1>1, <1>2

\* Taking the lock or joining its queue keeps the types.
LEMMA AcquireType ==
  ASSUME TypeOK, NEW t \in Tasks, Acquire(t, "incr", "lock")
  PROVE  /\ holder' \in Tasks \cup {NoTask}
         /\ waiters' \in Seq(Tasks)
         /\ pc' \in [Tasks -> InStep \cup {"idle", "new", "gate", "woken",
                                           "lock", "wait", "cut", "done"}]
<1>1. Append(waiters, t) \in Seq(Tasks)
  BY AppendProperties DEF TypeOK
<1> QED BY <1>1 DEF Acquire, TypeOK, InStep

\* A waiter that leaves the queue keeps it a queue of tasks.
LEMMA LeavesQueueType ==
  ASSUME waiters \in Seq(Tasks), NEW t \in Tasks, LeavesQueue(t)
  PROVE  waiters' \in Seq(Tasks)
<1>1. CASE waiters' = waiters
  BY <1>1
<1>2. ASSUME NEW i \in 1..Len(waiters),
             waiters' = SubSeq(waiters, 1, i - 1) \o
                        SubSeq(waiters, i + 1, Len(waiters))
      PROVE  waiters' \in Seq(Tasks)
  <2>1. \A k \in 1..Len(waiters) : waiters[k] \in Tasks
    BY ElementOfSeq
  <2>2. SubSeq(waiters, 1, i - 1) \in Seq(Tasks)
    BY <2>1, SubSeqProperties, LenProperties
  <2>3. SubSeq(waiters, i + 1, Len(waiters)) \in Seq(Tasks)
    BY <2>1, SubSeqProperties, LenProperties
  <2> QED BY <1>2, <2>2, <2>3, ConcatProperties
<1> QED BY <1>1, <1>2 DEF LeavesQueue

-----------------------------------------------------------------------------
\* Every step keeps the types.
LEMMA TypeStep == Inv /\ [Next]_vars => TypeOK'
<1> SUFFICES ASSUME Inv, [Next]_vars
             PROVE  TypeOK'
  OBVIOUS
<1> USE HeartbeatAssumption DEF Inv, TypeOK, flags, table
<1>a. Loop \in Tasks /\ Jobs \subseteq Tasks /\ NoTask \notin Tasks /\ Loop \notin Jobs
  BY DEF Tasks
<1>1. ASSUME NEW t \in Tasks, StepIncrement(t) PROVE TypeOK'
  BY <1>1, <1>a DEF StepIncrement, Alive, CapAt, InStep
<1>2. ASSUME NEW t \in Tasks, StepToolTurn(t) PROVE TypeOK'
  BY <1>2, <1>a DEF StepToolTurn, Alive
<1>3. ASSUME NEW t \in Tasks, StepAnswered(t) PROVE TypeOK'
  BY <1>3, <1>a DEF StepAnswered, Alive, InStep
<1>4. ASSUME NEW t \in Tasks, StepRecord(t) PROVE TypeOK'
  <2>1. Append(logged, current[t]) \in Seq(0..IterationCap)
    BY AppendProperties
  <2>2. logged' \in Seq(0..IterationCap)
    BY <2>1, <1>4, NewestIsSuffix DEF StepRecord
  <2> QED BY <1>4, <2>2 DEF StepRecord, InStep
<1>5. ASSUME NEW t \in Tasks, LockGranted(t) PROVE TypeOK'
  <2>1. Tail(waiters) \in Seq(Tasks)
    BY <1>5, HeadTailProperties DEF LockGranted
  <2> QED BY <1>5, <2>1 DEF LockGranted, InStep
<1>6. ASSUME NEW t \in Tasks, Cancelled(t) PROVE TypeOK'
  <2>1. waiters' \in Seq(Tasks)
    BY <1>6, LeavesQueueType DEF Cancelled
  <2>2. Append(logged, current[t]) \in Seq(0..IterationCap)
    BY AppendProperties
  <2>3. Newest(Append(logged, current[t]), KeepLogs) \in Seq(0..IterationCap)
    BY <2>2, NewestIsSuffix
  <2>4. iteration' \in 0..IterationCap /\ logged' \in Seq(0..IterationCap)
    BY <1>6, <2>3 DEF Cancelled, CapAt
  <2> QED BY <1>6, <2>1, <2>4 DEF Cancelled
<1>7. CASE LoopStepDone
  BY <1>7, <1>a DEF LoopStepDone, WaitPoint, Alive
<1>8. CASE LoopStepFailed
  <2>1. failure_streak < MaxFailures
    BY <1>8, <1>a DEF LoopStepFailed, Alive, LoopEndsForAReason, InStep
  <2>2. failure_streak' \in 0..MaxFailures
    BY <1>8, <2>1 DEF LoopStepFailed
  <2>3. CASE failure_streak + 1 >= MaxFailures
    BY <1>8, <1>a, <2>2, <2>3 DEF LoopStepFailed
  <2>4. CASE ~(failure_streak + 1 >= MaxFailures)
    BY <1>8, <1>a, <2>2, <2>4 DEF LoopStepFailed, WaitPoint
  <2> QED BY <2>3, <2>4
<1>9. CASE LoopTriggered
  <2>1. CASE pause_event
    <3>1. Acquire(Loop, "incr", "lock")
      BY <1>9, <2>1 DEF LoopTriggered, LoopHead
    <3> QED BY <1>9, <1>a, <3>1, AcquireType DEF LoopTriggered
  <2>2. CASE ~pause_event
    BY <1>9, <2>2, <1>a DEF LoopTriggered, LoopHead
  <2> QED BY <2>1, <2>2
<1>10. CASE LoopTimedOut
  <2>1. CASE pause_event
    <3>1. Acquire(Loop, "incr", "lock")
      BY <1>10, <2>1 DEF LoopTimedOut, LoopHead
    <3> QED BY <1>10, <1>a, <3>1, AcquireType DEF LoopTimedOut
  <2>2. CASE ~pause_event
    BY <1>10, <2>2, <1>a DEF LoopTimedOut, LoopHead
  <2> QED BY <2>1, <2>2
<1>11. CASE LoopPassesGate
  <2>1. Acquire(Loop, "incr", "lock")
    BY <1>11, <1>a DEF LoopPassesGate
  <2> QED BY <1>11, <1>a, <2>1, AcquireType DEF LoopPassesGate
<1>12. ASSUME NEW j \in Jobs, JobStart(j) PROVE TypeOK'
  <2>1. Acquire(j, "incr", "lock")
    BY <1>12, <1>a DEF JobStart
  <2> QED BY <1>12, <1>a, <2>1, AcquireType DEF JobStart
<1>13. ASSUME NEW j \in Jobs, JobStepEnds(j) PROVE TypeOK'
  BY <1>13, <1>a DEF JobStepEnds
<1>14. ASSUME NEW j \in Jobs, TriggerIsolated(j) PROVE TypeOK'
  BY <1>14, <1>a DEF TriggerIsolated
<1>15. CASE Pause
  BY <1>15, <1>a DEF Pause
<1>16. CASE Resume
  BY <1>16, <1>a DEF Resume, Wake
<1>17. CASE TriggerLoop
  BY <1>17, <1>a DEF TriggerLoop
<1>18. CASE Shutdown
  BY <1>18, <1>a DEF Shutdown, Wake
<1>19. CASE UNCHANGED vars
  BY <1>19 DEF vars
<1> QED
  BY <1>1, <1>2, <1>3, <1>4, <1>5, <1>6, <1>7, <1>8, <1>9, <1>10, <1>11, <1>12, <1>13, <1>14, <1>15, <1>16, <1>17, <1>18, <1>19, <1>a
  DEF Next, LoopRuns, JobRuns, Step, Operator, Ended

\* Taking _step_lock, or queueing on it, makes the holder enter step().
LEMMA AcquireLock ==
  ASSUME TypeOK, OneCycleAtATime, NEW t \in Tasks, pc[t] \notin InStep,
         NoTask \notin Tasks, Acquire(t, "incr", "lock")
  PROVE  OneCycleAtATime'
<1>1. CASE holder = NoTask /\ waiters = <<>>
  <2>1. holder' = t /\ pc' = [pc EXCEPT ![t] = "incr"]
    BY <1>1 DEF Acquire
  <2>2. pc'[t] \in InStep /\ \A u \in Tasks \ {t} : pc'[u] = pc[u]
    BY <2>1 DEF TypeOK, InStep
  <2>3. \A u \in Tasks : (pc'[u] \in InStep) <=> (holder' = u)
    BY <1>1, <2>1, <2>2 DEF OneCycleAtATime
  <2> QED BY <2>3 DEF OneCycleAtATime
<1>2. CASE ~(holder = NoTask /\ waiters = <<>>)
  <2>1. holder' = holder /\ pc' = [pc EXCEPT ![t] = "lock"]
    BY <1>2 DEF Acquire
  <2>2. pc'[t] \notin InStep /\ \A u \in Tasks \ {t} : pc'[u] = pc[u]
    BY <2>1 DEF TypeOK, InStep
  <2>3. \A u \in Tasks : (pc'[u] \in InStep) <=> (holder' = u)
    BY <2>1, <2>2 DEF OneCycleAtATime
  <2> QED BY <2>3 DEF OneCycleAtATime
<1> QED BY <1>1, <1>2

\* The head of the heartbeat loop either takes the lock or stops at the gate.
LEMMA LoopHeadLock ==
  ASSUME TypeOK, OneCycleAtATime, Loop \in Tasks, pc[Loop] \notin InStep,
         NoTask \notin Tasks, LoopHead
  PROVE  OneCycleAtATime'
<1>1. CASE pause_event
  BY <1>1, AcquireLock DEF LoopHead
<1>2. CASE ~pause_event
  <2>1. holder' = holder /\ pc' = [pc EXCEPT ![Loop] = "gate"]
    BY <1>2 DEF LoopHead
  <2>2. pc'[Loop] \notin InStep /\ \A u \in Tasks \ {Loop} : pc'[u] = pc[u]
    BY <2>1 DEF TypeOK, InStep
  <2>3. \A u \in Tasks : (pc'[u] \in InStep) <=> (holder' = u)
    BY <2>1, <2>2 DEF OneCycleAtATime
  <2> QED BY <2>3 DEF OneCycleAtATime
<1> QED BY <1>1, <1>2

\* Every step keeps the holder of the lock and the tasks in step() the same.
LEMMA LockStep == Inv /\ [Next]_vars => OneCycleAtATime'
<1> SUFFICES ASSUME Inv, [Next]_vars
             PROVE  OneCycleAtATime'
  OBVIOUS
<1> USE HeartbeatAssumption DEF Inv, TypeOK, flags, table
<1>a. Loop \in Tasks /\ Jobs \subseteq Tasks /\ NoTask \notin Tasks /\ Loop \notin Jobs
  BY DEF Tasks
<1>1. ASSUME NEW t \in Tasks, StepIncrement(t) PROVE OneCycleAtATime'
  BY <1>1, <1>a DEF StepIncrement, Alive, OneCycleAtATime, InStep
<1>2. ASSUME NEW t \in Tasks, StepToolTurn(t) PROVE OneCycleAtATime'
  BY <1>2, <1>a DEF StepToolTurn, Alive, OneCycleAtATime, InStep
<1>3. ASSUME NEW t \in Tasks, StepAnswered(t) PROVE OneCycleAtATime'
  BY <1>3, <1>a DEF StepAnswered, Alive, OneCycleAtATime, InStep
<1>4. ASSUME NEW t \in Tasks, StepRecord(t) PROVE OneCycleAtATime'
  BY <1>4, <1>a DEF StepRecord, Alive, OneCycleAtATime, InStep
<1>5. ASSUME NEW t \in Tasks, LockGranted(t) PROVE OneCycleAtATime'
  BY <1>5, <1>a DEF LockGranted, OneCycleAtATime, InStep
<1>6. ASSUME NEW t \in Tasks, Cancelled(t) PROVE OneCycleAtATime'
  BY <1>6, <1>a DEF Cancelled, OneCycleAtATime, InStep
<1>7. CASE LoopStepDone
  BY <1>7, <1>a DEF LoopStepDone, WaitPoint, Alive, OneCycleAtATime, InStep
<1>8. CASE LoopStepFailed
  <2>1. /\ holder = Loop
        /\ holder' = NoTask
        /\ pc' \in {[pc EXCEPT ![Loop] = p] : p \in {"done", "wait", "cut"}}
    BY <1>8, <1>a DEF LoopStepFailed, WaitPoint, OneCycleAtATime
  <2>2. pc'[Loop] \notin InStep
    BY <2>1, <1>a DEF InStep
  <2>3. \A t \in Tasks \ {Loop} : pc'[t] = pc[t] /\ holder # t
    BY <2>1
  <2>4. \A t \in Tasks : (pc'[t] \in InStep) <=> (holder' = t)
    BY <2>1, <2>2, <2>3, <1>a DEF OneCycleAtATime
  <2> QED BY <2>4 DEF OneCycleAtATime
<1>9. CASE LoopTriggered
  <2>1. pc[Loop] \notin InStep /\ LoopHead
    BY <1>9 DEF LoopTriggered, InStep
  <2> QED BY <2>1, <1>a, LoopHeadLock
<1>10. CASE LoopTimedOut
  <2>1. pc[Loop] \notin InStep /\ LoopHead
    BY <1>10 DEF LoopTimedOut, InStep
  <2> QED BY <2>1, <1>a, LoopHeadLock
<1>11. CASE LoopPassesGate
  <2>1. pc[Loop] \notin InStep /\ Acquire(Loop, "incr", "lock")
    BY <1>11 DEF LoopPassesGate, InStep
  <2> QED BY <2>1, <1>a, AcquireLock
<1>12. ASSUME NEW j \in Jobs, JobStart(j) PROVE OneCycleAtATime'
  <2>1. pc[j] \notin InStep /\ Acquire(j, "incr", "lock")
    BY <1>12 DEF JobStart, InStep
  <2> QED BY <2>1, <1>a, AcquireLock
<1>13. ASSUME NEW j \in Jobs, JobStepEnds(j) PROVE OneCycleAtATime'
  BY <1>13, <1>a DEF JobStepEnds, OneCycleAtATime, InStep
<1>14. ASSUME NEW j \in Jobs, TriggerIsolated(j) PROVE OneCycleAtATime'
  BY <1>14, <1>a DEF TriggerIsolated, OneCycleAtATime, InStep
<1>15. CASE Pause
  BY <1>15, <1>a DEF Pause, OneCycleAtATime, InStep
<1>16. CASE Resume
  BY <1>16, <1>a DEF Resume, Wake, OneCycleAtATime, InStep
<1>17. CASE TriggerLoop
  BY <1>17, <1>a DEF TriggerLoop, OneCycleAtATime, InStep
<1>18. CASE Shutdown
  BY <1>18, <1>a DEF Shutdown, Wake, OneCycleAtATime, InStep
<1>19. CASE UNCHANGED vars
  BY <1>19 DEF vars, OneCycleAtATime, InStep
<1> QED
  BY <1>1, <1>2, <1>3, <1>4, <1>5, <1>6, <1>7, <1>8, <1>9, <1>10, <1>11, <1>12, <1>13, <1>14, <1>15, <1>16, <1>17, <1>18, <1>19, <1>a
  DEF Next, LoopRuns, JobRuns, Step, Operator, Ended

-----------------------------------------------------------------------------
\* The queue of the lock: the three ways it changes, and the steps that do not
\* concern it.
LEMMA QueueUndisturbed ==
  ASSUME TypeOK, QueueIsExact, waiters' = waiters,
         \A t \in Tasks : (pc'[t] = "lock") = (pc[t] = "lock")
  PROVE  QueueIsExact'
<1>1. \A i \in 1..Len(waiters) : waiters[i] \in Tasks
  BY ElementOfSeq DEF TypeOK
<1> QED BY <1>1 DEF QueueIsExact

\* Taking or queueing on _step_lock keeps the queue exact.
LEMMA AcquireQueue ==
  ASSUME TypeOK, QueueIsExact, NEW t \in Tasks, pc[t] # "lock",
         Acquire(t, "incr", "lock")
  PROVE  QueueIsExact'
<1>1. CASE holder = NoTask /\ waiters = <<>>
  BY <1>1, QueueUndisturbed DEF Acquire, TypeOK
<1>2. CASE ~(holder = NoTask /\ waiters = <<>>)
  <2>1. \A i \in 1..Len(waiters) : waiters[i] \in Tasks
    BY ElementOfSeq DEF TypeOK
  <2>2. Len(waiters) \in Nat
    BY LenProperties DEF TypeOK
  <2>3. /\ waiters' = Append(waiters, t)
        /\ pc' = [pc EXCEPT ![t] = "lock"]
    BY <1>2 DEF Acquire
  <2>4. /\ Len(waiters') = Len(waiters) + 1
        /\ \A i \in 1..Len(waiters) : waiters'[i] = waiters[i]
        /\ waiters'[Len(waiters) + 1] = t
    BY <2>3, AppendProperties DEF TypeOK
  <2>5. \A i \in 1..Len(waiters') : pc'[waiters'[i]] = "lock"
    BY <2>1, <2>2, <2>3, <2>4 DEF QueueIsExact, TypeOK
  <2>6. \A i, k \in 1..Len(waiters') : i < k => waiters'[i] # waiters'[k]
    BY <2>1, <2>2, <2>4 DEF QueueIsExact
  <2>7. ASSUME NEW u \in Tasks, pc'[u] = "lock"
        PROVE  \E i \in 1..Len(waiters') : waiters'[i] = u
    <3>1. CASE u = t
      <4>1. Len(waiters) + 1 \in 1..Len(waiters')
        BY <2>2, <2>4
      <4> QED BY <3>1, <4>1, <2>4
    <3>2. CASE u # t
      <4>1. PICK i \in 1..Len(waiters) : waiters[i] = u
        BY <3>2, <2>7, <2>3 DEF QueueIsExact, TypeOK
      <4>2. i \in 1..Len(waiters')
        BY <2>2, <2>4
      <4> QED BY <4>1, <4>2, <2>4
    <3> QED BY <3>1, <3>2
  <2> QED BY <2>5, <2>6, <2>7 DEF QueueIsExact
<1> QED BY <1>1, <1>2

\* The queue after the waiter at position n has left it.
LEMMA DequeueQueue ==
  ASSUME TypeOK, QueueIsExact, NEW n \in 1..Len(waiters),
         waiters' \in Seq(Tasks), Len(waiters') = Len(waiters) - 1,
         \A i \in 1..Len(waiters') :
           waiters'[i] = IF i < n THEN waiters[i] ELSE waiters[i + 1],
         pc'[waiters[n]] # "lock",
         \A t \in Tasks : t # waiters[n] => pc'[t] = pc[t]
  PROVE  QueueIsExact'
<1>1. \A i \in 1..Len(waiters) : waiters[i] \in Tasks
  BY ElementOfSeq DEF TypeOK
<1>2. Len(waiters) \in Nat /\ Len(waiters') \in Nat
  BY LenProperties DEF TypeOK
<1>3. \A i \in 1..Len(waiters') : waiters'[i] # waiters[n]
  BY <1>2 DEF QueueIsExact
<1>4. \A i \in 1..Len(waiters') : pc'[waiters'[i]] = "lock"
  BY <1>1, <1>2, <1>3 DEF QueueIsExact
<1>5. \A i, k \in 1..Len(waiters') : i < k => waiters'[i] # waiters'[k]
  <2> SUFFICES ASSUME NEW i \in 1..Len(waiters'), NEW k \in 1..Len(waiters'), i < k
               PROVE  waiters'[i] # waiters'[k]
    OBVIOUS
  <2> DEFINE was(j) == IF j < n THEN j ELSE j + 1
  <2>1. was(i) \in 1..Len(waiters) /\ was(k) \in 1..Len(waiters) /\ was(i) < was(k)
    BY <1>2
  <2>2. waiters'[i] = waiters[was(i)] /\ waiters'[k] = waiters[was(k)]
    OBVIOUS
  <2> HIDE DEF was
  <2> QED BY <2>1, <2>2 DEF QueueIsExact
<1>6. ASSUME NEW t \in Tasks, pc'[t] = "lock"
      PROVE  \E i \in 1..Len(waiters') : waiters'[i] = t
  <2>1. PICK k \in 1..Len(waiters) : waiters[k] = t
    BY <1>6 DEF QueueIsExact
  <2>2. k # n
    BY <1>6, <2>1
  <2>3. CASE k < n
    BY <1>2, <2>1, <2>3
  <2>4. CASE k > n
    <3>1. k - 1 \in 1..Len(waiters') /\ waiters'[k - 1] = t
      BY <1>2, <2>1, <2>4
    <3> QED BY <3>1
  <2> QED BY <1>2, <2>2, <2>3, <2>4
<1> QED BY <1>4, <1>5, <1>6 DEF QueueIsExact

\* Handing the lock to the head of the queue keeps the queue exact.
LEMMA LockGrantedQueue ==
  ASSUME TypeOK, QueueIsExact, NEW t \in Tasks, LockGranted(t)
  PROVE  QueueIsExact'
<1>1. /\ Len(waiters) \in Nat \ {0}
      /\ waiters[1] = t
      /\ pc' = [pc EXCEPT ![t] = "incr"]
  BY EmptySeq DEF LockGranted, TypeOK
<1>2. /\ waiters' \in Seq(Tasks)
      /\ Len(waiters') = Len(waiters) - 1
      /\ \A i \in 1..Len(waiters') : waiters'[i] = waiters[i + 1]
  BY HeadTailProperties DEF LockGranted, TypeOK
<1>3. \A i \in 1..Len(waiters') :
        waiters'[i] = IF i < 1 THEN waiters[i] ELSE waiters[i + 1]
  BY <1>2
<1>4. pc'[waiters[1]] # "lock" /\ \A u \in Tasks : u # waiters[1] => pc'[u] = pc[u]
  BY <1>1 DEF TypeOK
<1>5. 1 \in 1..Len(waiters)
  BY <1>1
<1> QED BY <1>2, <1>3, <1>4, <1>5, DequeueQueue

\* A cancelled waiter that leaves the queue keeps the queue exact.
LEMMA CancelledQueue ==
  ASSUME TypeOK, QueueIsExact, NEW t \in Tasks, Cancelled(t)
  PROVE  QueueIsExact'
<1>1. /\ pc'[t] # "lock"
      /\ \A u \in Tasks : u # t => pc'[u] = pc[u]
  BY DEF Cancelled, TypeOK
<1>2. LeavesQueue(t)
  BY DEF Cancelled
<1>3. Len(waiters) \in Nat
  BY LenProperties DEF TypeOK
<1>4. CASE (\A i \in 1..Len(waiters) : waiters[i] # t) /\ waiters' = waiters
  <2>1. pc[t] # "lock"
    BY <1>4 DEF QueueIsExact
  <2>2. \A u \in Tasks : (pc'[u] = "lock") = (pc[u] = "lock")
    BY <1>1, <2>1
  <2> QED BY <1>4, <2>2, QueueUndisturbed
<1>5. ASSUME NEW n \in 1..Len(waiters), waiters[n] = t,
             waiters' = SubSeq(waiters, 1, n - 1) \o
                        SubSeq(waiters, n + 1, Len(waiters))
      PROVE  QueueIsExact'
  <2> DEFINE front == SubSeq(waiters, 1, n - 1)
             back == SubSeq(waiters, n + 1, Len(waiters))
  <2>1. \A k \in 1..Len(waiters) : waiters[k] \in Tasks
    BY ElementOfSeq DEF TypeOK
  <2>2. /\ front \in Seq(Tasks)
        /\ Len(front) = n - 1
        /\ \A i \in 1..(n - 1) : front[i] = waiters[i]
    BY <2>1, <1>3, SubSeqProperties
  <2>3. /\ back \in Seq(Tasks)
        /\ Len(back) = Len(waiters) - n
        /\ \A i \in 1..(Len(waiters) - n) : back[i] = waiters[n + i]
    BY <2>1, <1>3, SubSeqProperties
  <2> HIDE DEF front, back
  <2>4. waiters' = front \o back
    BY <1>5 DEF front, back
  <2>5. /\ waiters' \in Seq(Tasks)
        /\ Len(waiters') = Len(front) + Len(back)
        /\ \A i \in 1..(Len(front) + Len(back)) :
             waiters'[i] = IF i <= Len(front) THEN front[i]
                           ELSE back[i - Len(front)]
    BY <2>2, <2>3, <2>4, ConcatProperties
  <2>6. Len(waiters') = Len(waiters) - 1
    BY <2>2, <2>3, <2>5, <1>3
  <2>7. ASSUME NEW i \in 1..Len(waiters')
        PROVE  waiters'[i] = IF i < n THEN waiters[i] ELSE waiters[i + 1]
    <3>1. CASE i < n
      BY <3>1, <1>3, <2>2, <2>5, <2>6
    <3>2. CASE ~(i < n)
      <4>1. i - (n - 1) \in 1..(Len(waiters) - n)
        BY <3>2, <1>3, <2>6
      <4>2. waiters'[i] = back[i - (n - 1)]
        BY <3>2, <1>3, <2>2, <2>5
      <4> QED BY <3>2, <4>1, <4>2, <2>3, <1>3
    <3> QED BY <3>1, <3>2
  <2> QED BY <1>1, <1>5, <2>5, <2>6, <2>7, DequeueQueue
<1> QED BY <1>2, <1>4, <1>5 DEF LeavesQueue

\* Every step keeps the queue of the lock exact.
LEMMA QueueStep == Inv /\ [Next]_vars => QueueIsExact'
<1> SUFFICES ASSUME Inv, [Next]_vars
             PROVE  QueueIsExact'
  OBVIOUS
<1> USE HeartbeatAssumption DEF Inv, flags, table
<1>a. Loop \in Tasks /\ Jobs \subseteq Tasks
  BY DEF Tasks
<1>1. ASSUME NEW t \in Tasks, StepIncrement(t) PROVE QueueIsExact'
  BY <1>1, <1>a, QueueUndisturbed DEF StepIncrement, TypeOK, InStep
<1>2. ASSUME NEW t \in Tasks, StepToolTurn(t) PROVE QueueIsExact'
  BY <1>2, <1>a, QueueUndisturbed DEF StepToolTurn, TypeOK, InStep
<1>3. ASSUME NEW t \in Tasks, StepAnswered(t) PROVE QueueIsExact'
  BY <1>3, <1>a, QueueUndisturbed DEF StepAnswered, TypeOK, InStep
<1>4. ASSUME NEW t \in Tasks, StepRecord(t) PROVE QueueIsExact'
  BY <1>4, <1>a, QueueUndisturbed DEF StepRecord, TypeOK, InStep
<1>5. ASSUME NEW t \in Tasks, LockGranted(t) PROVE QueueIsExact'
  BY <1>5, LockGrantedQueue
<1>6. ASSUME NEW t \in Tasks, Cancelled(t) PROVE QueueIsExact'
  BY <1>6, CancelledQueue
<1>7. CASE LoopStepDone
  BY <1>7, <1>a, QueueUndisturbed DEF LoopStepDone, WaitPoint, TypeOK, InStep
<1>8. CASE LoopStepFailed
  <2>1. /\ waiters' = waiters
        /\ pc[Loop] \in InStep
        /\ pc' \in {[pc EXCEPT ![Loop] = p] : p \in {"done", "wait", "cut"}}
    BY <1>8, <1>a DEF LoopStepFailed, WaitPoint
  <2>2. \A u \in Tasks : (pc'[u] = "lock") = (pc[u] = "lock")
    BY <2>1, <1>a DEF InStep, TypeOK
  <2> QED BY <2>1, <2>2, QueueUndisturbed
<1>9. CASE LoopTriggered
  <2>1. CASE pause_event
    BY <1>9, <2>1, <1>a, AcquireQueue DEF LoopTriggered, LoopHead
  <2>2. CASE ~pause_event
    BY <1>9, <2>2, <1>a, QueueUndisturbed DEF LoopTriggered, LoopHead, TypeOK
  <2> QED BY <2>1, <2>2
<1>10. CASE LoopTimedOut
  <2>1. CASE pause_event
    BY <1>10, <2>1, <1>a, AcquireQueue DEF LoopTimedOut, LoopHead
  <2>2. CASE ~pause_event
    BY <1>10, <2>2, <1>a, QueueUndisturbed DEF LoopTimedOut, LoopHead, TypeOK
  <2> QED BY <2>1, <2>2
<1>11. CASE LoopPassesGate
  BY <1>11, <1>a, AcquireQueue DEF LoopPassesGate
<1>12. ASSUME NEW j \in Jobs, JobStart(j) PROVE QueueIsExact'
  BY <1>12, <1>a, AcquireQueue DEF JobStart
<1>13. ASSUME NEW j \in Jobs, JobStepEnds(j) PROVE QueueIsExact'
  BY <1>13, <1>a, QueueUndisturbed DEF JobStepEnds, TypeOK, InStep
<1>14. ASSUME NEW j \in Jobs, TriggerIsolated(j) PROVE QueueIsExact'
  BY <1>14, <1>a, QueueUndisturbed DEF TriggerIsolated, TypeOK, InStep
<1>15. CASE Pause
  BY <1>15, <1>a, QueueUndisturbed DEF Pause, TypeOK, InStep
<1>16. CASE Resume
  BY <1>16, <1>a, QueueUndisturbed DEF Resume, Wake, TypeOK, InStep
<1>17. CASE TriggerLoop
  BY <1>17, <1>a, QueueUndisturbed DEF TriggerLoop, TypeOK, InStep
<1>18. CASE Shutdown
  BY <1>18, <1>a, QueueUndisturbed DEF Shutdown, Wake, TypeOK, InStep
<1>19. CASE UNCHANGED vars
  BY <1>19, QueueUndisturbed DEF vars
<1> QED
  BY <1>1, <1>2, <1>3, <1>4, <1>5, <1>6, <1>7, <1>8, <1>9, <1>10, <1>11, <1>12, <1>13, <1>14, <1>15, <1>16, <1>17, <1>18, <1>19, <1>a
  DEF Next, LoopRuns, JobRuns, Step, Operator, Ended

-----------------------------------------------------------------------------
\* Every step keeps the pause flag and the gate in agreement.
LEMMA GateStep == Inv /\ [Next]_vars => GateAgrees'
<1> SUFFICES ASSUME Inv, [Next]_vars
             PROVE  GateAgrees'
  OBVIOUS
<1> USE HeartbeatAssumption DEF Inv, TypeOK, flags, table
<1>a. Loop \in Tasks /\ Jobs \subseteq Tasks /\ NoTask \notin Tasks /\ Loop \notin Jobs
  BY DEF Tasks
<1>1. ASSUME NEW t \in Tasks, StepIncrement(t) PROVE GateAgrees'
  BY <1>1, <1>a DEF StepIncrement, Alive, GateAgrees, InStep
<1>2. ASSUME NEW t \in Tasks, StepToolTurn(t) PROVE GateAgrees'
  BY <1>2, <1>a DEF StepToolTurn, Alive, GateAgrees, InStep
<1>3. ASSUME NEW t \in Tasks, StepAnswered(t) PROVE GateAgrees'
  BY <1>3, <1>a DEF StepAnswered, Alive, GateAgrees, InStep
<1>4. ASSUME NEW t \in Tasks, StepRecord(t) PROVE GateAgrees'
  BY <1>4, <1>a DEF StepRecord, Alive, GateAgrees, InStep
<1>5. ASSUME NEW t \in Tasks, LockGranted(t) PROVE GateAgrees'
  BY <1>5, <1>a DEF LockGranted, GateAgrees, InStep
<1>6. ASSUME NEW t \in Tasks, Cancelled(t) PROVE GateAgrees'
  BY <1>6, <1>a DEF Cancelled, GateAgrees, InStep
<1>7. CASE LoopStepDone
  BY <1>7, <1>a DEF LoopStepDone, WaitPoint, Alive, GateAgrees, InStep
<1>8. CASE LoopStepFailed
  BY <1>8, <1>a DEF LoopStepFailed, WaitPoint, Alive, GateAgrees, InStep
<1>9. CASE LoopTriggered
  BY <1>9, <1>a DEF LoopTriggered, LoopHead, GateAgrees, InStep, Acquire
<1>10. CASE LoopTimedOut
  BY <1>10, <1>a DEF LoopTimedOut, LoopHead, GateAgrees, InStep, Acquire
<1>11. CASE LoopPassesGate
  BY <1>11, <1>a DEF LoopPassesGate, GateAgrees, InStep, Acquire
<1>12. ASSUME NEW j \in Jobs, JobStart(j) PROVE GateAgrees'
  BY <1>12, <1>a DEF JobStart, GateAgrees, InStep, Acquire
<1>13. ASSUME NEW j \in Jobs, JobStepEnds(j) PROVE GateAgrees'
  BY <1>13, <1>a DEF JobStepEnds, GateAgrees, InStep
<1>14. ASSUME NEW j \in Jobs, TriggerIsolated(j) PROVE GateAgrees'
  BY <1>14, <1>a DEF TriggerIsolated, GateAgrees, InStep
<1>15. CASE Pause
  BY <1>15, <1>a DEF Pause, GateAgrees, InStep
<1>16. CASE Resume
  BY <1>16, <1>a DEF Resume, Wake, GateAgrees, InStep
<1>17. CASE TriggerLoop
  BY <1>17, <1>a DEF TriggerLoop, GateAgrees, InStep
<1>18. CASE Shutdown
  BY <1>18, <1>a DEF Shutdown, Wake, GateAgrees, InStep
<1>19. CASE UNCHANGED vars
  BY <1>19 DEF vars, GateAgrees, InStep
<1> QED
  BY <1>1, <1>2, <1>3, <1>4, <1>5, <1>6, <1>7, <1>8, <1>9, <1>10, <1>11, <1>12, <1>13, <1>14, <1>15, <1>16, <1>17, <1>18, <1>19, <1>a
  DEF Next, LoopRuns, JobRuns, Step, Operator, Ended

\* Every step keeps the account of failures: the loop ends at the limit only.
LEMMA ReasonStep == Inv /\ [Next]_vars => LoopEndsForAReason'
<1> SUFFICES ASSUME Inv, [Next]_vars
             PROVE  LoopEndsForAReason'
  OBVIOUS
<1> USE HeartbeatAssumption DEF Inv, TypeOK, flags, table
<1>a. Loop \in Tasks /\ Jobs \subseteq Tasks /\ NoTask \notin Tasks /\ Loop \notin Jobs
  BY DEF Tasks
<1>1. ASSUME NEW t \in Tasks, StepIncrement(t) PROVE LoopEndsForAReason'
  BY <1>1, <1>a DEF StepIncrement, Alive, LoopEndsForAReason, InStep
<1>2. ASSUME NEW t \in Tasks, StepToolTurn(t) PROVE LoopEndsForAReason'
  BY <1>2, <1>a DEF StepToolTurn, Alive, LoopEndsForAReason, InStep
<1>3. ASSUME NEW t \in Tasks, StepAnswered(t) PROVE LoopEndsForAReason'
  BY <1>3, <1>a DEF StepAnswered, Alive, LoopEndsForAReason, InStep
<1>4. ASSUME NEW t \in Tasks, StepRecord(t) PROVE LoopEndsForAReason'
  BY <1>4, <1>a DEF StepRecord, Alive, LoopEndsForAReason, InStep
<1>5. ASSUME NEW t \in Tasks, LockGranted(t) PROVE LoopEndsForAReason'
  <2>1. pc[t] = "lock"
    BY <1>5, EmptySeq DEF LockGranted, QueueIsExact
  <2> QED BY <1>5, <2>1, <1>a DEF LockGranted, LoopEndsForAReason, InStep
<1>6. ASSUME NEW t \in Tasks, Cancelled(t) PROVE LoopEndsForAReason'
  BY <1>6, <1>a DEF Cancelled, LoopEndsForAReason, InStep
<1>7. CASE LoopStepDone
  BY <1>7, <1>a DEF LoopStepDone, WaitPoint, Alive, LoopEndsForAReason, InStep
<1>8. CASE LoopStepFailed
  <2>1. failure_streak < MaxFailures
    BY <1>8, <1>a DEF LoopStepFailed, Alive, LoopEndsForAReason, InStep
  <2>2. failure_streak' = failure_streak + 1
    BY <1>8 DEF LoopStepFailed
  <2>3. CASE failure_streak + 1 >= MaxFailures
    <3>1. pc'[Loop] = "done" /\ failure_streak' = MaxFailures
      BY <1>8, <1>a, <2>1, <2>2, <2>3 DEF LoopStepFailed
    <3> QED BY <3>1 DEF LoopEndsForAReason
  <2>4. CASE ~(failure_streak + 1 >= MaxFailures)
    <3>1. pc'[Loop] \in {"wait", "cut"} /\ failure_streak' < MaxFailures
      BY <1>8, <1>a, <2>2, <2>4 DEF LoopStepFailed, WaitPoint
    <3> QED BY <3>1 DEF LoopEndsForAReason
  <2> QED BY <2>3, <2>4
<1>9. CASE LoopTriggered
  BY <1>9, <1>a DEF LoopTriggered, LoopHead, LoopEndsForAReason, InStep, Acquire
<1>10. CASE LoopTimedOut
  BY <1>10, <1>a DEF LoopTimedOut, LoopHead, LoopEndsForAReason, InStep, Acquire
<1>11. CASE LoopPassesGate
  BY <1>11, <1>a DEF LoopPassesGate, LoopEndsForAReason, InStep, Acquire
<1>12. ASSUME NEW j \in Jobs, JobStart(j) PROVE LoopEndsForAReason'
  BY <1>12, <1>a DEF JobStart, LoopEndsForAReason, InStep, Acquire
<1>13. ASSUME NEW j \in Jobs, JobStepEnds(j) PROVE LoopEndsForAReason'
  BY <1>13, <1>a DEF JobStepEnds, LoopEndsForAReason, InStep
<1>14. ASSUME NEW j \in Jobs, TriggerIsolated(j) PROVE LoopEndsForAReason'
  BY <1>14, <1>a DEF TriggerIsolated, LoopEndsForAReason, InStep
<1>15. CASE Pause
  BY <1>15, <1>a DEF Pause, LoopEndsForAReason, InStep
<1>16. CASE Resume
  BY <1>16, <1>a DEF Resume, Wake, LoopEndsForAReason, InStep
<1>17. CASE TriggerLoop
  BY <1>17, <1>a DEF TriggerLoop, LoopEndsForAReason, InStep
<1>18. CASE Shutdown
  BY <1>18, <1>a DEF Shutdown, Wake, LoopEndsForAReason, InStep
<1>19. CASE UNCHANGED vars
  BY <1>19 DEF vars, LoopEndsForAReason, InStep
<1> QED
  BY <1>1, <1>2, <1>3, <1>4, <1>5, <1>6, <1>7, <1>8, <1>9, <1>10, <1>11, <1>12, <1>13, <1>14, <1>15, <1>16, <1>17, <1>18, <1>19, <1>a
  DEF Next, LoopRuns, JobRuns, Step, Operator, Ended

\* The invariant holds when main.py has started the loop.
LEMMA InitInv == Init => Inv
<1> SUFFICES ASSUME Init PROVE Inv
  OBVIOUS
<1> USE HeartbeatAssumption DEF Init
<1>a. Loop \in Tasks /\ NoTask \notin Tasks
  BY DEF Tasks
<1>1. TypeOK
  <2>1. pc \in [Tasks -> InStep \cup
         {"idle", "new", "gate", "woken", "lock", "wait", "cut", "done"}]
    BY DEF InStep
  <2>2. /\ failure_streak \in 0..MaxFailures
        /\ current \in [Tasks -> 0..IterationCap]
        /\ turn \in 0..MaxTurns
        /\ iteration \in 0..IterationCap
    OBVIOUS
  <2>3. waiters \in Seq(Tasks) /\ logged \in Seq(0..IterationCap)
    OBVIOUS
  <2> QED BY <2>1, <2>2, <2>3, <1>a DEF TypeOK
<1>2. OneCycleAtATime
  BY <1>a DEF OneCycleAtATime, InStep
<1>3. QueueIsExact
  BY EmptySeq DEF QueueIsExact
<1>4. GateAgrees
  <2>1. pc[Loop] = "incr"
    BY <1>a
  <2> QED BY <2>1 DEF GateAgrees
<1>5. LoopEndsForAReason
  <2>1. pc[Loop] = "incr"
    BY <1>a
  <2> QED BY <2>1 DEF LoopEndsForAReason
<1> QED BY <1>1, <1>2, <1>3, <1>4, <1>5 DEF Inv

\* Inv is an invariant of the heartbeat.
LEMMA Invariance == Spec => []Inv
<1>1. Inv /\ [Next]_vars => Inv'
  BY TypeStep, LockStep, QueueStep, GateStep, ReasonStep DEF Inv
<1> QED BY InitInv, <1>1, PTL DEF Spec

\* The variables of the heartbeat keep their types.
THEOREM TypeCorrect == Spec => []TypeOK
<1>1. Inv => TypeOK
  BY DEF Inv
<1> QED BY Invariance, <1>1, PTL

\* The heartbeat loop and the isolated cycles of /api/trigger never execute
\* step() at the same time (core.py, the two "async with self._step_lock").
THEOREM MutualExclusion == Spec => []OneCycleAtATime
<1>1. Inv => OneCycleAtATime
  BY DEF Inv
<1> QED BY Invariance, <1>1, PTL

\* Whoever awaits the step lock stands in its queue once, and nobody else does:
\* no cancelled task blocks the queue and no waiting cycle is forgotten.
THEOREM QueueExactness == Spec => []QueueIsExact
<1>1. Inv => QueueIsExact
  BY DEF Inv
<1> QED BY Invariance, <1>1, PTL

\* The two records of a pause agree, and a loop blocked at the gate is blocked
\* for a reason (core.py, pause, resume and stop).
THEOREM GateAgreement == Spec => []GateAgrees
<1>1. Inv => GateAgrees
  BY DEF Inv
<1> QED BY Invariance, <1>1, PTL

\* The loop returns only for the breaker or the shutdown (core.py, run).
THEOREM LoopEnd == Spec => []LoopEndsForAReason
<1>1. Inv => LoopEndsForAReason
  BY DEF Inv
<1> QED BY Invariance, <1>1, PTL

\* Cycles exclude each other, the queue of the lock is exact, the gate is what the
\* flag says, and the loop ends only for the breaker or the shutdown, in every
\* interleaving of the loop, the isolated cycles, the operator and cancellation.
THEOREM LockAndGate == Spec => []LockAndGateAreExact
<1>1. Inv => LockAndGateAreExact
  BY DEF Inv, LockAndGateAreExact
<1> QED BY Invariance, <1>1, PTL

-----------------------------------------------------------------------------
(***************************************************************************)
(* Heartbeat implements CycleLog: whatever the tasks, the lock, failures   *)
(* and cancellation do, the database sees cycles one at a time.            *)
(***************************************************************************)
\* A cycle in progress has been counted, so its number is not 0.
OpenCounted ==
  \A t \in Tasks : pc[t] \in {"turn", "record"} => current[t] # 0

RefInv == Inv /\ OpenCounted

\* Every step keeps the number of the open cycle the counted one.
LEMMA CountedStep == RefInv /\ [Next]_vars => OpenCounted'
<1> SUFFICES ASSUME RefInv, [Next]_vars PROVE OpenCounted'
  OBVIOUS
<1> USE HeartbeatAssumption DEF RefInv, Inv, TypeOK
<1>a. Loop \in Tasks /\ Jobs \subseteq Tasks
  BY DEF Tasks
<1>1. ASSUME NEW t \in Tasks, StepIncrement(t) PROVE OpenCounted'
  <2>1. /\ current' = [current EXCEPT ![t] = CapAt(iteration + 1)]
        /\ pc' = [pc EXCEPT ![t] = "turn"]
        /\ CapAt(iteration + 1) # 0
    BY <1>1 DEF StepIncrement, CapAt
  <2> QED BY <2>1 DEF OpenCounted
<1>2. ASSUME NEW t \in Tasks, StepToolTurn(t) PROVE OpenCounted'
  BY <1>2 DEF StepToolTurn, OpenCounted
<1>3. ASSUME NEW t \in Tasks, StepAnswered(t) PROVE OpenCounted'
  BY <1>3 DEF StepAnswered, OpenCounted
\* Every other step lets no task reach those two places, and assigns no number.
<1>4. ASSUME current' = current,
             \A t \in Tasks : pc'[t] \in {"turn", "record"} => pc'[t] = pc[t]
      PROVE  OpenCounted'
  BY <1>4 DEF OpenCounted
<1>5. ASSUME NEW t \in Tasks, Acquire(t, "incr", "lock"), current' = current
      PROVE  OpenCounted'
  BY <1>4, <1>5 DEF Acquire
<1>6. ASSUME NEW t \in Tasks, \/ StepRecord(t)
                              \/ LockGranted(t)
                              \/ Cancelled(t)
      PROVE  OpenCounted'
  BY <1>4, <1>6 DEF StepRecord, LockGranted, Cancelled
<1>7. CASE LoopStepDone \/ LoopStepFailed
  <2>1. PICK p \in {"wait", "cut", "done"} : pc' = [pc EXCEPT ![Loop] = p]
    BY <1>7 DEF LoopStepDone, LoopStepFailed, WaitPoint
  <2>2. current' = current
    BY <1>7 DEF LoopStepDone, LoopStepFailed
  <2> QED BY <1>4, <1>a, <2>1, <2>2
<1>8. CASE LoopTriggered \/ LoopTimedOut
  <2>1. current' = current /\ LoopHead
    BY <1>8 DEF LoopTriggered, LoopTimedOut
  <2>2. CASE pause_event
    BY <1>5, <1>a, <2>1, <2>2 DEF LoopHead
  <2>3. CASE ~pause_event
    BY <1>4, <1>a, <2>1, <2>3 DEF LoopHead
  <2> QED BY <2>2, <2>3
<1>9. CASE LoopPassesGate
  BY <1>5, <1>9, <1>a DEF LoopPassesGate
<1>10. ASSUME NEW j \in Jobs, JobRuns(j), ~Step(j) PROVE OpenCounted'
  <2>1. CASE JobStart(j)
    BY <1>5, <1>a, <2>1 DEF JobStart
  <2>2. CASE JobStepEnds(j)
    BY <1>4, <1>a, <2>2 DEF JobStepEnds
  <2> QED BY <1>10, <2>1, <2>2 DEF JobRuns
<1>11. CASE Operator
  BY <1>4, <1>11, <1>a
     DEF Operator, Pause, Resume, TriggerLoop, TriggerIsolated, Shutdown, Wake
<1>12. CASE Ended \/ UNCHANGED vars
  BY <1>12 DEF Ended, vars, OpenCounted
<1> QED
  BY <1>1, <1>2, <1>3, <1>6, <1>7, <1>8, <1>9, <1>10, <1>11, <1>12, <1>a
  DEF Next, LoopRuns, JobRuns, Step

-----------------------------------------------------------------------------
\* A task outside step() moves: the cycle log does not notice.
LEMMA OtherTaskMoves ==
  ASSUME TypeOK, OneCycleAtATime, NEW t \in Tasks, pc[t] \notin InStep,
         table' = table, current' = current, holder' = holder,
         \A u \in Tasks : u # t => pc'[u] = pc[u]
  PROVE  UNCHANGED Abstract!vars
<1>1. CASE holder = NoTask
  BY <1>1 DEF Abstract!vars, openCycle, table
<1>2. CASE holder # NoTask
  <2>1. holder \in Tasks /\ holder # t
    BY <1>2 DEF TypeOK, OneCycleAtATime
  <2> QED BY <2>1 DEF Abstract!vars, openCycle, table
<1> QED BY <1>1, <1>2

\* The lock is taken, or its queue is joined, by a task outside step().
LEMMA AcquireUnseen ==
  ASSUME TypeOK, OneCycleAtATime, NEW t \in Tasks, pc[t] \notin InStep,
         table' = table, current' = current, Acquire(t, "incr", "lock")
  PROVE  UNCHANGED Abstract!vars
<1>1. CASE holder = NoTask /\ waiters = <<>>
  <2>1. holder' = t /\ pc'[t] = "incr"
    BY <1>1 DEF Acquire, TypeOK
  <2> QED BY <1>1, <2>1 DEF Abstract!vars, openCycle, table
<1>2. CASE ~(holder = NoTask /\ waiters = <<>>)
  <2>1. holder' = holder /\ pc' = [pc EXCEPT ![t] = "lock"]
    BY <1>2 DEF Acquire
  <2> QED BY <2>1, OtherTaskMoves DEF TypeOK
<1> QED BY <1>1, <1>2

\* The lock is released without a row: an open cycle is abandoned.
LEMMA ReleaseRefines ==
  ASSUME table' = table, holder' = NoTask
  PROVE  [Abstract!Next]_(Abstract!vars)
<1>1. openCycle' = 0
  BY DEF openCycle
<1> QED BY <1>1 DEF Abstract!Next, Abstract!Abandon, Abstract!vars, table

\* The initial states of the heartbeat map to the empty log.
LEMMA InitRefines == Init => RefInv /\ Abstract!Init
<1> SUFFICES ASSUME Init PROVE RefInv /\ Abstract!Init
  OBVIOUS
<1>1. holder \in Tasks /\ pc = [t \in Tasks |-> IF t = Loop THEN "incr" ELSE "idle"]
  BY DEF Init, Tasks
<1>2. openCycle = 0 /\ OpenCounted
  BY <1>1 DEF openCycle, OpenCounted
<1> QED BY <1>2, InitInv DEF Init, Abstract!Init, RefInv

\* Every step is a step of the cycle log, or leaves it unchanged.
LEMMA StepRefines == RefInv /\ [Next]_vars => [Abstract!Next]_(Abstract!vars)
<1> SUFFICES ASSUME RefInv, [Next]_vars PROVE [Abstract!Next]_(Abstract!vars)
  OBVIOUS
<1> USE HeartbeatAssumption DEF RefInv, Inv, flags
<1>a. Loop \in Tasks /\ Jobs \subseteq Tasks /\ NoTask \notin Tasks
  BY DEF Tasks
<1>1. ASSUME NEW t \in Tasks, StepIncrement(t)
      PROVE  Abstract!Open
  <2>1. holder = t /\ holder' = t
    BY <1>1 DEF StepIncrement, OneCycleAtATime, InStep
  <2>2. openCycle = 0
    BY <1>1, <2>1 DEF StepIncrement, openCycle
  <2>3. openCycle' = CapAt(iteration + 1)
    BY <1>1, <1>a, <2>1 DEF StepIncrement, openCycle, TypeOK
  <2> QED
    BY <1>1, <2>2, <2>3 DEF StepIncrement, Abstract!Open, CapAt, Abstract!CapAt
<1>2. ASSUME NEW t \in Tasks, StepToolTurn(t)
      PROVE  UNCHANGED Abstract!vars
  BY <1>2 DEF StepToolTurn, Abstract!vars, openCycle, table
<1>3. ASSUME NEW t \in Tasks, StepAnswered(t)
      PROVE  UNCHANGED Abstract!vars
  <2>1. holder = t /\ holder' = t
    BY <1>3 DEF StepAnswered, OneCycleAtATime, InStep
  <2> QED BY <1>3, <1>a, <2>1 DEF StepAnswered, Abstract!vars, openCycle, table, TypeOK
<1>4. ASSUME NEW t \in Tasks, pc[t] = "record", iteration' = iteration,
             logged' = Newest(Append(logged, current[t]), KeepLogs),
             \/ holder' = NoTask
             \/ holder' = holder /\ pc'[t] = "compact"
      PROVE  Abstract!Log
  <2>1. holder = t
    BY <1>4 DEF OneCycleAtATime, InStep
  <2>2. openCycle = current[t] /\ openCycle # 0
    BY <1>4, <1>a, <2>1 DEF openCycle, OpenCounted
  <2>3. openCycle' = 0
    BY <1>4, <2>1 DEF openCycle
  <2> QED BY <1>4, <2>2, <2>3 DEF Abstract!Log, Abstract!Newest, Newest
<1>5. ASSUME NEW t \in Tasks, StepRecord(t)
      PROVE  Abstract!Log
  BY <1>4, <1>5 DEF StepRecord, TypeOK
<1>6. ASSUME NEW t \in Tasks, LockGranted(t)
      PROVE  UNCHANGED Abstract!vars
  <2>1. holder = NoTask /\ holder' = t /\ pc'[t] = "incr"
    BY <1>6 DEF LockGranted, TypeOK
  <2> QED BY <1>6, <2>1 DEF LockGranted, Abstract!vars, openCycle, table
<1>7. ASSUME NEW t \in Tasks, Cancelled(t)
      PROVE  [Abstract!Next]_(Abstract!vars)
  <2>1. CASE holder = t
    <3>1. holder' = NoTask /\ openCycle' = 0
      BY <1>7, <2>1 DEF Cancelled, openCycle
    <3>2. CASE table' = table
      BY <3>1, <3>2, ReleaseRefines
    <3>3. CASE pc[t] = "incr" /\ iteration' = CapAt(iteration + 1) /\ logged' = logged
      <4>1. openCycle = 0
        BY <2>1, <3>3 DEF openCycle
      <4> QED
        BY <3>1, <3>3, <4>1
        DEF Abstract!Next, Abstract!CountOnly, CapAt, Abstract!CapAt
    <3>4. CASE /\ pc[t] = "record"
               /\ logged' = Newest(Append(logged, current[t]), KeepLogs)
               /\ iteration' = iteration
      BY <3>1, <3>4, <1>4 DEF Abstract!Next
    <3> QED BY <1>7, <3>2, <3>3, <3>4 DEF Cancelled, table
  <2>2. CASE holder # t
    <3>1. pc[t] \notin InStep
      BY <2>2 DEF OneCycleAtATime
    <3>2. table' = table /\ holder' = holder /\ current' = current
      BY <1>7, <2>2, <3>1 DEF Cancelled, InStep, table
    <3>3. \A u \in Tasks : u # t => pc'[u] = pc[u]
      BY <1>7 DEF Cancelled, TypeOK
    <3> QED BY <3>1, <3>2, <3>3, OtherTaskMoves
  <2> QED BY <2>1, <2>2
<1>8. CASE LoopStepDone \/ LoopStepFailed
  BY <1>8, ReleaseRefines DEF LoopStepDone, LoopStepFailed, table
<1>9. CASE LoopTriggered \/ LoopTimedOut
  <2>1. table' = table /\ current' = current /\ LoopHead /\ pc[Loop] \notin InStep
    BY <1>9 DEF LoopTriggered, LoopTimedOut, table, InStep
  <2>2. CASE pause_event
    BY <1>a, <2>1, <2>2, AcquireUnseen DEF LoopHead
  <2>3. CASE ~pause_event
    <3>1. holder' = holder /\ \A u \in Tasks : u # Loop => pc'[u] = pc[u]
      BY <2>1, <2>3 DEF LoopHead, TypeOK
    <3> QED BY <1>a, <2>1, <3>1, OtherTaskMoves
  <2> QED BY <2>2, <2>3
<1>10. CASE LoopPassesGate
  <2>1. table' = table /\ current' = current /\ pc[Loop] \notin InStep
    BY <1>10 DEF LoopPassesGate, table, InStep
  <2> QED BY <1>10, <1>a, <2>1, AcquireUnseen DEF LoopPassesGate
<1>11. ASSUME NEW j \in Jobs, JobStart(j)
       PROVE  [Abstract!Next]_(Abstract!vars)
  <2>1. table' = table /\ current' = current /\ pc[j] \notin InStep
    BY <1>11 DEF JobStart, table, InStep
  <2> QED BY <1>11, <1>a, <2>1, AcquireUnseen DEF JobStart
<1>12. ASSUME NEW j \in Jobs, JobStepEnds(j)
       PROVE  [Abstract!Next]_(Abstract!vars)
  BY <1>12, ReleaseRefines DEF JobStepEnds, table
<1>13. ASSUME NEW j \in Jobs, TriggerIsolated(j)
       PROVE  UNCHANGED Abstract!vars
  <2>1. /\ table' = table /\ current' = current /\ holder' = holder
        /\ pc[j] \notin InStep
        /\ \A u \in Tasks : u # j => pc'[u] = pc[u]
    BY <1>13 DEF TriggerIsolated, table, InStep, TypeOK
  <2> QED BY <1>a, <2>1, OtherTaskMoves
<1>14. CASE Resume \/ Shutdown
  <2>1. table' = table /\ current' = current /\ holder' = holder /\ pc' = Wake(pc)
    BY <1>14 DEF Resume, Shutdown, table
  <2>2. CASE pc[Loop] = "gate"
    <3>1. pc[Loop] \notin InStep /\ \A u \in Tasks : u # Loop => pc'[u] = pc[u]
      BY <2>1, <2>2 DEF Wake, TypeOK, InStep
    <3> QED BY <1>a, <2>1, <3>1, OtherTaskMoves
  <2>3. CASE pc[Loop] # "gate"
    BY <2>1, <2>3 DEF Wake, Abstract!vars, openCycle, table
  <2> QED BY <2>2, <2>3
<1>15. CASE Pause \/ TriggerLoop \/ Ended \/ UNCHANGED vars
  BY <1>15
  DEF Pause, TriggerLoop, Ended, vars, Abstract!vars, openCycle, table
<1> QED
  BY <1>1, <1>2, <1>3, <1>5, <1>6, <1>7, <1>8, <1>9, <1>10, <1>11, <1>12, <1>13,
     <1>14, <1>15, <1>a
  DEF Next, LoopRuns, JobRuns, Step, Operator, Abstract!Next

\* The heartbeat implements the cycle log (core.py, step and its callers, over
\* memory.py, increment_iteration and record_cycle).
THEOREM Refinement == Spec => ImplementsCycleLog
<1>1. RefInv /\ [Next]_vars => RefInv'
  BY CountedStep, TypeStep, LockStep, QueueStep, GateStep, ReasonStep
  DEF RefInv, Inv
<1> QED
  BY InitRefines, StepRefines, <1>1, PTL
  DEF Spec, ImplementsCycleLog, Abstract!Spec

-----------------------------------------------------------------------------
(***************************************************************************)
(* The order of the log rows follows from the cycle log alone.  Its steps  *)
(* are those of Abstract; openCycle is never expanded.                     *)
(***************************************************************************)
\* Appending the open cycle to the rows and pruning keeps them in order.
LEMMA LoggedInOrder ==
  ASSUME Abstract!TypeOK, Abstract!RowsInOrder, openCycle # 0, openCycle <= iteration,
         logged' = Abstract!Newest(Append(logged, openCycle), KeepLogs)
  PROVE  /\ logged' \in Seq(0..IterationCap)
         /\ \A i, k \in 1..Len(logged') :
              i < k => logged'[i] < logged'[k] \/ logged'[k] = IterationCap
         /\ \A i \in 1..Len(logged') : logged'[i] <= iteration
<1> USE HeartbeatAssumption
<1> DEFINE long == Append(logged, openCycle)
<1>1. /\ Len(logged) \in Nat
      /\ \A i \in 1..Len(logged) : logged[i] \in 0..IterationCap
  BY ElementOfSeq, LenProperties DEF Abstract!TypeOK
<1>2. /\ long \in Seq(0..IterationCap)
      /\ Len(long) = Len(logged) + 1
      /\ \A i \in 1..Len(logged) : long[i] = logged[i]
      /\ long[Len(logged) + 1] = openCycle
  BY AppendProperties DEF Abstract!TypeOK
<1> HIDE DEF long
<1>3. \A i \in 1..Len(long) : long[i] <= iteration
  BY <1>1, <1>2 DEF Abstract!RowsInOrder
<1>4. \A i, k \in 1..Len(long) :
        i < k => long[i] < long[k] \/ long[k] = IterationCap
  <2> SUFFICES ASSUME NEW i \in 1..Len(long), NEW k \in 1..Len(long), i < k
               PROVE  long[i] < long[k] \/ long[k] = IterationCap
    OBVIOUS
  <2>1. i \in 1..Len(logged)
    BY <1>1, <1>2
  <2>2. CASE k \in 1..Len(logged)
    BY <1>2, <2>1, <2>2 DEF Abstract!RowsInOrder
  <2>3. CASE k = Len(logged) + 1
    <3>1. logged[i] < openCycle \/ openCycle = IterationCap
      BY <2>1 DEF Abstract!RowsInOrder
    <3> QED BY <1>2, <2>1, <2>3, <3>1
  <2>4. k \in 1..Len(logged) \/ k = Len(logged) + 1
    <3>1. Len(logged) \in Nat /\ k \in 1..(Len(logged) + 1)
      BY <1>1, <1>2
    <3> QED BY <3>1
  <2> QED BY <2>2, <2>3, <2>4
<1>5. /\ logged' \in Seq(0..IterationCap)
      /\ Len(logged') \in Nat
      /\ Len(logged') <= Len(long)
      /\ \A i \in 1..Len(logged') :
           logged'[i] = long[i + (Len(long) - Len(logged'))]
  <2>1. logged' = Newest(long, KeepLogs)
    BY DEF long, Newest, Abstract!Newest
  <2>2. /\ Newest(long, KeepLogs) \in Seq(0..IterationCap)
        /\ Len(Newest(long, KeepLogs)) <= Len(long)
        /\ \A i \in 1..Len(Newest(long, KeepLogs)) :
             Newest(long, KeepLogs)[i]
               = long[i + (Len(long) - Len(Newest(long, KeepLogs)))]
    BY <1>2, NewestIsSuffix
  <2> QED BY <2>1, <2>2, LenProperties
<1>6. \A i \in 1..Len(logged') : i + (Len(long) - Len(logged')) \in 1..Len(long)
  BY <1>1, <1>2, <1>5
<1>7. \A i \in 1..Len(logged') : logged'[i] <= iteration
  BY <1>3, <1>5, <1>6
<1>8. ASSUME NEW i \in 1..Len(logged'), NEW k \in 1..Len(logged'), i < k
      PROVE  logged'[i] < logged'[k] \/ logged'[k] = IterationCap
  <2>1. i + (Len(long) - Len(logged')) < k + (Len(long) - Len(logged'))
    BY <1>1, <1>2, <1>5, <1>8
  <2> QED BY <1>4, <1>5, <1>6, <2>1
<1> QED BY <1>5, <1>7, <1>8

\* The inductive invariant: the open cycle has been counted.
LogInv == Abstract!TypeOK /\ Abstract!RowsInOrder /\ openCycle <= iteration

\* The invariant holds of an empty log.
LEMMA LogInitInv == Abstract!Init => LogInv
BY HeartbeatAssumption, EmptySeq
DEF Abstract!Init, LogInv, Abstract!TypeOK, Abstract!RowsInOrder

\* Every step of the log preserves the invariant.
LEMMA LogStepInv == LogInv /\ [Abstract!Next]_(Abstract!vars) => LogInv'
<1> SUFFICES ASSUME LogInv, [Abstract!Next]_(Abstract!vars) PROVE LogInv'
  OBVIOUS
<1> USE HeartbeatAssumption DEF LogInv
<1>0. /\ Len(logged) \in Nat
      /\ \A i \in 1..Len(logged) : logged[i] \in 0..IterationCap
  BY ElementOfSeq, LenProperties DEF Abstract!TypeOK
<1>1. CASE Abstract!Open
  <2>1. /\ iteration' \in 0..IterationCap
        /\ iteration <= iteration'
        /\ openCycle' = iteration'
        /\ logged' = logged
        /\ iteration < openCycle' \/ openCycle' = IterationCap
    BY <1>1 DEF Abstract!Open, Abstract!CapAt, Abstract!TypeOK
  <2> QED BY <1>0, <2>1 DEF Abstract!TypeOK, Abstract!RowsInOrder
<1>2. CASE Abstract!Log
  BY <1>2, LoggedInOrder DEF Abstract!Log, Abstract!TypeOK, Abstract!RowsInOrder
<1>3. CASE Abstract!Abandon
  BY <1>3 DEF Abstract!Abandon, Abstract!TypeOK, Abstract!RowsInOrder
<1>4. CASE Abstract!CountOnly
  <2>1. /\ iteration' \in 0..IterationCap
        /\ iteration <= iteration'
        /\ openCycle' = 0 /\ openCycle = 0
        /\ logged' = logged
    BY <1>4 DEF Abstract!CountOnly, Abstract!CapAt, Abstract!TypeOK
  <2> QED BY <1>0, <2>1 DEF Abstract!TypeOK, Abstract!RowsInOrder
<1>5. CASE UNCHANGED Abstract!vars
  BY <1>5 DEF Abstract!vars, Abstract!TypeOK, Abstract!RowsInOrder
<1> QED BY <1>1, <1>2, <1>3, <1>4, <1>5 DEF Abstract!Next

\* The rows of execution_logs carry strictly increasing cycle numbers, and the
\* cycle in progress is younger than all of them (memory.py, record_cycle).
LEMMA LogOrder == Abstract!Spec => []Abstract!RowsInOrder
<1>1. LogInv => Abstract!RowsInOrder
  BY DEF LogInv
<1> QED BY LogInitInv, LogStepInv, <1>1, PTL DEF Abstract!Spec

\* Rows of execution_logs carry strictly increasing cycle numbers, whichever
\* task ran the cycle and however others failed.
THEOREM LogInOrder == Spec => []LogOrdered
<1>1. Abstract!RowsInOrder => LogOrdered
  BY DEF Abstract!RowsInOrder, LogOrdered
<1> QED BY Refinement, LogOrder, <1>1, PTL DEF ImplementsCycleLog
=============================================================================
