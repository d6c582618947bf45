------------------------------ MODULE Heartbeat ------------------------------
(***************************************************************************)
(* The heartbeat of the agent (agent/core.py, class ContinuousAgent): the  *)
(* loop task started by main.py, the isolated cycles that a manual trigger *)
(* starts while the agent is paused, the asyncio lock that serialises      *)
(* them, the pause gate, the failure-streak breaker and the shutdown.      *)
(*                                                                         *)
(* One process, one event loop: a task runs without interference from one  *)
(* await to the next, so every action below is such a segment.             *)
(***************************************************************************)
EXTENDS Naturals, Sequences, FiniteSets

CONSTANTS
  Loop,          \* the task that runs ContinuousAgent.run
  Jobs,          \* identities for concurrent isolated cycles; bounds how many
  NoTask,        \* nobody holds the lock
  MaxFailures,   \* config.MAX_CONSECUTIVE_FAILURES
  MaxTurns,      \* self.max_tool_iterations
  KeepLogs,      \* the 500 of SqliteMemoryStore.record_cycle
  IterationCap   \* bound: the iteration counter saturates here

ASSUME HeartbeatAssumption ==
  /\ Loop \notin Jobs
  /\ NoTask \notin Jobs \cup {Loop}
  /\ MaxFailures \in Nat \ {0}
  /\ MaxTurns \in Nat \ {0}
  /\ KeepLogs \in Nat \ {0}
  /\ IterationCap \in Nat \ {0}

VARIABLES
  is_running, is_paused,  \* the two flags of the agent
  pause_event,            \* _pause_event: set means the gate is open
  trigger_event,          \* _trigger_event
  holder,                 \* who holds _step_lock
  waiters,                \* tasks queued on _step_lock, first come first served
  failure_streak,
  pc,                     \* where each task stands
  current,                \* current_iteration, the local variable of step()
  turn,                   \* turns used by the step in progress
  iteration,              \* agent_state.iteration in the database
  logged                  \* execution_logs.iteration, oldest row first

vars == <<is_running, is_paused, pause_event, trigger_event, holder, waiters,
          failure_streak, pc, current, turn, iteration, logged>>

flags == <<is_running, is_paused, pause_event>>
table == <<iteration, logged>>

Tasks == Jobs \cup {Loop}

\* Where a task awaits while it executes step().
InStep == {"incr", "turn", "record", "compact"}

(***************************************************************************)
(* asyncio.Lock: taken at once when it is free and nobody queues, else     *)
(* first come first served.  Between a release and the moment the woken    *)
(* waiter runs the lock is free (locked() is False).                       *)
(***************************************************************************)
Acquire(t, atOnce, queued) ==
  IF holder = NoTask /\ waiters = <<>>
  THEN /\ holder' = t
       /\ waiters' = waiters
       /\ pc' = [pc EXCEPT ![t] = atOnce]
  ELSE /\ holder' = holder
       /\ waiters' = Append(waiters, t)
       /\ pc' = [pc EXCEPT ![t] = queued]

LockGranted(t) ==
  /\ holder = NoTask
  /\ waiters # <<>>
  /\ Head(waiters) = t
  /\ t = Loop => is_running
  /\ holder' = t
  /\ waiters' = Tail(waiters)
  /\ pc' = [pc EXCEPT ![t] = "incr"]
  /\ UNCHANGED <<flags, trigger_event, failure_streak, current, turn, table>>

-----------------------------------------------------------------------------
(***************************************************************************)
(* step(): count the cycle, up to MaxTurns turns with the model and its    *)
(* tools, log the cycle, then reflect (errors swallowed) and compact.      *)
(***************************************************************************)
CapAt(n) == IF n < IterationCap THEN n ELSE IterationCap

\* The newest n entries of a sequence.
Newest(s, n) == IF Len(s) > n THEN SubSeq(s, Len(s) - n + 1, Len(s)) ELSE s

\* A task may execute its next segment unless it is the loop and cancelled.
Alive(t) == t = Loop => is_running

StepIncrement(t) ==
  /\ pc[t] = "incr"
  /\ Alive(t)
  /\ iteration' = CapAt(iteration + 1)
  /\ current' = [current EXCEPT ![t] = CapAt(iteration + 1)]
  /\ turn' = 0
  /\ pc' = [pc EXCEPT ![t] = "turn"]
  /\ UNCHANGED <<flags, trigger_event, holder, waiters, failure_streak, logged>>

\* The model answers with tool calls, which all come back with a result.
StepToolTurn(t) ==
  /\ pc[t] = "turn"
  /\ Alive(t)
  /\ turn < MaxTurns
  /\ turn' = turn + 1
  /\ UNCHANGED <<flags, trigger_event, holder, waiters, failure_streak, pc,
                 current, table>>

\* No client, an answer without tool calls, or no turn left.
StepAnswered(t) ==
  /\ pc[t] = "turn"
  /\ Alive(t)
  /\ pc' = [pc EXCEPT ![t] = "record"]
  /\ UNCHANGED <<flags, trigger_event, holder, waiters, failure_streak,
                 current, turn, table>>

\* record_cycle: insert the row and prune to the newest KeepLogs, one commit.
StepRecord(t) ==
  /\ pc[t] = "record"
  /\ Alive(t)
  /\ logged' = Newest(Append(logged, current[t]), KeepLogs)
  /\ pc' = [pc EXCEPT ![t] = "compact"]
  /\ UNCHANGED <<flags, trigger_event, holder, waiters, failure_streak,
                 current, turn, iteration>>

\* Where the loop waits for its next cycle: an event that is set already ends
\* the wait before the timer can.
WaitPoint == IF trigger_event THEN "cut" ELSE "wait"

\* The loop leaves a step that succeeded: release, reset the streak, wait.
LoopStepDone ==
  /\ pc[Loop] = "compact"
  /\ Alive(Loop)
  /\ holder' = NoTask
  /\ failure_streak' = 0
  /\ pc' = [pc EXCEPT ![Loop] = WaitPoint]
  /\ UNCHANGED <<flags, trigger_event, waiters, current, turn, table>>

\* An await of the loop's step raised: the streak grows, and at the limit the
\* agent pauses itself and run() returns.
LoopStepFailed ==
  /\ pc[Loop] \in InStep
  /\ Alive(Loop)
  /\ holder' = NoTask
  /\ failure_streak' = failure_streak + 1
  /\ IF failure_streak + 1 >= MaxFailures
     THEN /\ is_paused' = TRUE
          /\ pause_event' = FALSE
          /\ pc' = [pc EXCEPT ![Loop] = "done"]
     ELSE /\ pc' = [pc EXCEPT ![Loop] = WaitPoint]
          /\ UNCHANGED <<is_paused, pause_event>>
  /\ UNCHANGED <<is_running, trigger_event, waiters, current, turn, table>>

\* Fault: an isolated cycle that ends does not give the lock back.
JobStepEnds_KeepsLock(j) ==
  /\ pc[j] \in InStep
  /\ pc' = [pc EXCEPT ![j] = "idle"]
  /\ UNCHANGED <<flags, trigger_event, holder, waiters, failure_streak, current,
                 turn, table>>

\* An isolated cycle ends, after its last await or by an error at any of them,
\* which is logged and dropped: neither outcome touches the streak.
JobStepEnds(j) ==
  /\ pc[j] \in InStep
  /\ holder' = NoTask
  /\ pc' = [pc EXCEPT ![j] = "idle"]
  /\ UNCHANGED <<flags, trigger_event, waiters, failure_streak, current, turn,
                 table>>

-----------------------------------------------------------------------------
(***************************************************************************)
(* run(): the head of the while loop, reached from the heartbeat wait.     *)
(* Everything up to the next await belongs to the segment that reaches it. *)
(***************************************************************************)
LoopHead ==
  IF pause_event
  THEN Acquire(Loop, "incr", "lock")
  ELSE /\ pc' = [pc EXCEPT ![Loop] = "gate"]
       /\ UNCHANGED <<holder, waiters>>

\* The wait ends because the trigger event is set; the event is cleared.
LoopTriggered ==
  /\ pc[Loop] \in {"wait", "cut"}
  /\ is_running
  /\ trigger_event
  /\ trigger_event' = FALSE
  /\ LoopHead
  /\ UNCHANGED <<flags, failure_streak, current, turn, table>>

\* The wait ends because HEARTBEAT_INTERVAL_SECONDS are over.  A trigger set
\* just before the timer fires stays set and cuts the next wait short.
LoopTimedOut ==
  /\ pc[Loop] = "wait"
  /\ is_running
  /\ LoopHead
  /\ UNCHANGED <<flags, trigger_event, failure_streak, current, turn, table>>

\* Woken at the pause gate, whether or not the agent is paused again by now.
LoopPassesGate ==
  /\ pc[Loop] = "woken"
  /\ is_running
  /\ Acquire(Loop, "incr", "lock")
  /\ UNCHANGED <<flags, trigger_event, failure_streak, current, turn, table>>

\* Fault: the isolated cycle does not take the step lock.
JobStart_Unlocked(j) ==
  /\ pc[j] = "new"
  /\ pc' = [pc EXCEPT ![j] = "incr"]
  /\ UNCHANGED <<flags, trigger_event, holder, waiters, failure_streak, current,
                 turn, table>>

\* _run_isolated_step starts.
JobStart(j) ==
  /\ pc[j] = "new"
  /\ Acquire(j, "incr", "lock")
  /\ UNCHANGED <<flags, trigger_event, failure_streak, current, turn, table>>

-----------------------------------------------------------------------------
(***************************************************************************)
(* The handlers behind /api/pause, /api/resume and /api/trigger, and the   *)
(* shutdown of main.py.  Event.set() wakes the tasks that wait for it.     *)
(***************************************************************************)
Wake(p) == IF p[Loop] = "gate" THEN [p EXCEPT ![Loop] = "woken"] ELSE p

Pause ==
  /\ is_running
  /\ is_paused' = TRUE
  /\ pause_event' = FALSE
  /\ UNCHANGED <<is_running, trigger_event, holder, waiters, failure_streak, pc,
                 current, turn, table>>

\* Fault: only the flag is reset, the gate stays shut.
Resume_FlagOnly ==
  /\ is_running
  /\ is_paused' = FALSE
  /\ UNCHANGED <<is_running, pause_event, trigger_event, holder, waiters,
                 failure_streak, pc, current, turn, table>>

Resume ==
  /\ is_running
  /\ is_paused' = FALSE
  /\ pause_event' = TRUE
  /\ pc' = Wake(pc)
  /\ UNCHANGED <<is_running, trigger_event, holder, waiters, failure_streak,
                 current, turn, table>>

\* trigger_cycle returned True while paused: an isolated cycle is created.
TriggerIsolated(j) ==
  /\ is_running
  /\ holder = NoTask
  /\ is_paused
  /\ pc[j] = "idle"
  /\ pc' = [pc EXCEPT ![j] = "new"]
  /\ UNCHANGED <<flags, trigger_event, holder, waiters, failure_streak,
                 current, turn, table>>

\* trigger_cycle returned True while not paused: the loop's wait is cut short.
TriggerLoop ==
  /\ is_running
  /\ holder = NoTask
  /\ ~is_paused
  /\ trigger_event' = TRUE
  /\ UNCHANGED <<flags, holder, waiters, failure_streak, pc, current, turn,
                 table>>

\* agent_instance.stop() followed by agent_task.cancel().
Shutdown ==
  /\ is_running
  /\ is_running' = FALSE
  /\ pause_event' = TRUE
  /\ pc' = Wake(pc)
  /\ UNCHANGED <<is_paused, trigger_event, holder, waiters, failure_streak,
                 current, turn, table>>

\* A cancelled waiter removes itself; a task queues at most once.
LeavesQueue(t) ==
  \/ /\ \A i \in 1..Len(waiters) : waiters[i] # t
     /\ waiters' = waiters
  \/ \E i \in 1..Len(waiters) :
       /\ waiters[i] = t
       /\ waiters' = SubSeq(waiters, 1, i - 1) \o
                     SubSeq(waiters, i + 1, Len(waiters))

\* CancelledError reaches a task: the loop's, or an isolated cycle that is
\* still alive when the event loop closes.  A statement already handed to the
\* SQLite thread may still commit.
Cancelled(t) ==
  /\ ~is_running
  /\ pc[t] \notin {"idle", "done"}
  /\ holder' = IF holder = t THEN NoTask ELSE holder
  /\ LeavesQueue(t)
  /\ pc' = [pc EXCEPT ![t] = IF t = Loop THEN "done" ELSE "idle"]
  /\ \/ UNCHANGED table
     \/ /\ pc[t] = "incr"
        /\ iteration' = CapAt(iteration + 1)
        /\ UNCHANGED logged
     \/ /\ pc[t] = "record"
        /\ logged' = Newest(Append(logged, current[t]), KeepLogs)
        /\ UNCHANGED iteration
  /\ UNCHANGED <<flags, trigger_event, failure_streak, current, turn>>

\* The process has ended: nothing is left to run.
Ended ==
  /\ ~is_running
  /\ \A t \in Tasks : pc[t] \in {"idle", "done"}
  /\ UNCHANGED vars

-----------------------------------------------------------------------------
\* main.py has started the loop, which runs up to its first await at once.
Init ==
  /\ is_running = TRUE
  /\ is_paused = FALSE
  /\ pause_event = TRUE
  /\ trigger_event = FALSE
  /\ holder = Loop
  /\ waiters = <<>>
  /\ failure_streak = 0
  /\ pc = [t \in Tasks |-> IF t = Loop THEN "incr" ELSE "idle"]
  /\ current = [t \in Tasks |-> 0]
  /\ turn = 0
  /\ iteration = 0
  /\ logged = <<>>

Step(t) ==
  \/ StepIncrement(t)
  \/ StepToolTurn(t)
  \/ StepAnswered(t)
  \/ StepRecord(t)
  \/ LockGranted(t)
  \/ Cancelled(t)

LoopRuns ==
  \/ Step(Loop)
  \/ LoopStepDone
  \/ LoopStepFailed
  \/ LoopTriggered
  \/ LoopTimedOut
  \/ LoopPassesGate

JobRuns(j) ==
  \/ Step(j)
  \/ JobStart(j)
  \/ JobStepEnds(j)

Operator ==
  \/ Pause
  \/ Resume
  \/ TriggerLoop
  \/ \E j \in Jobs : TriggerIsolated(j)
  \/ Shutdown

Next == LoopRuns \/ (\E j \in Jobs : JobRuns(j)) \/ Operator \/ Ended

\* The event loop runs every task that is ready; a model call, a tool and a
\* statement end or raise; the heartbeat timer fires.  Nothing is assumed of
\* the operator.
Fairness == WF_vars(LoopRuns) /\ \A j \in Jobs : WF_vars(JobRuns(j))

Spec == Init /\ [][Next]_vars

FairSpec == Spec /\ Fairness
-----------------------------------------------------------------------------
(***************************************************************************)
(* Correctness.                                                            *)
(***************************************************************************)
TypeOK ==
  /\ is_running \in BOOLEAN
  /\ is_paused \in BOOLEAN
  /\ pause_event \in BOOLEAN
  /\ trigger_event \in BOOLEAN
  /\ holder \in Tasks \cup {NoTask}
  /\ waiters \in Seq(Tasks)
  /\ failure_streak \in 0..MaxFailures
  /\ pc \in [Tasks -> InStep \cup
       {"idle", "new", "gate", "woken", "lock", "wait", "cut", "done"}]
  /\ current \in [Tasks -> 0..IterationCap]
  /\ turn \in 0..MaxTurns
  /\ iteration \in 0..IterationCap
  /\ logged \in Seq(0..IterationCap)

\* The tasks that execute step() are exactly the holder of _step_lock: the
\* heartbeat and the isolated cycles that /api/trigger starts never overlap.
OneCycleAtATime == \A t \in Tasks : (pc[t] \in InStep) = (holder = t)

\* _step_lock forgets nobody: a task that awaits the lock stands in the queue,
\* once, and whoever stands there awaits the lock, cancelled tasks included.
QueueIsExact ==
  /\ \A i \in 1..Len(waiters) : pc[waiters[i]] = "lock"
  /\ \A i, k \in 1..Len(waiters) : i < k => waiters[i] # waiters[k]
  /\ \A t \in Tasks :
       pc[t] = "lock" => \E i \in 1..Len(waiters) : waiters[i] = t

\* Rows of execution_logs carry strictly increasing cycle numbers, whoever ran
\* the cycle (equal ones only where the bound of the counter is reached): the
\* number is read at the start of a cycle and written at its end.
LogOrdered ==
  \A i, k \in 1..Len(logged) :
    i < k => logged[i] < logged[k] \/ logged[k] = IterationCap

\* is_paused and _pause_event are two records of one fact: they agree as long
\* as the process runs, and the loop is blocked at the gate only while it is shut.
GateAgrees ==
  /\ is_running => is_paused = ~pause_event
  /\ pc[Loop] = "gate" => ~pause_event

\* The heartbeat loop ends only for the breaker or the shutdown, and an armed
\* loop has not used up its failures.
LoopEndsForAReason ==
  /\ pc[Loop] = "done" => ~is_running \/ failure_streak = MaxFailures
  /\ is_running /\ pc[Loop] # "done" => failure_streak < MaxFailures

\* What keeps the heartbeat sound between its tasks: cycles exclude each other on
\* a lock that serves its queue and nobody else, the gate is what the flag says,
\* and the loop is armed or has ended for a reason.
LockAndGateAreExact ==
  /\ TypeOK
  /\ OneCycleAtATime
  /\ QueueIsExact
  /\ GateAgrees
  /\ LoopEndsForAReason

\* What POST /api/trigger accepts is served: a cycle of its own, which it starts
\* while the agent is paused, gets its turn unless the process is shut down; and
\* a trigger of the unpaused agent is consumed by the loop, unless the operator
\* pauses the agent or the loop has ended.
TriggersAreServed ==
  /\ \A j \in Jobs : pc[j] = "new" ~> (pc[j] = "incr" \/ ~is_running)
  /\ trigger_event ~> (~trigger_event \/ is_paused \/ pc[Loop] = "done")

\* The heartbeat goes on: the loop starts cycle after cycle unless the agent
\* stays paused for good, or the shutdown or a full failure streak has ended it.
HeartbeatContinues ==
  \/ []<>(pc[Loop] = "incr")
  \/ <>[]is_paused
  \/ <>(pc[Loop] = "done" /\ (~is_running \/ failure_streak = MaxFailures))

\* The cycle in progress, as the readers of the log see it.
openCycle ==
  IF holder # NoTask /\ pc[holder] \in {"turn", "record"}
  THEN current[holder] ELSE 0

Abstract == INSTANCE CycleLog WITH open <- openCycle

\* Tasks, lock, failures and cancellation together implement the cycle log.
ImplementsCycleLog == Abstract!Spec

=============================================================================
