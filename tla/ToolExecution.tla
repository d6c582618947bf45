--------------------------- MODULE ToolExecution ---------------------------
(***************************************************************************)
(* The tool calls of a turn: agent/executor.py, gathered by                *)
(* ContinuousAgent.step (agent/core.py).  A call passes the semaphore, the *)
(* rate limiter and the lock of its domain, one inside the other.          *)
(*                                                                         *)
(* gather raises the first exception of a call and leaves the others       *)
(* running: they are detached from their turn, and meet the calls of later *)
(* cycles.  The limiter is the module RateLimiter; here it lets a call     *)
(* through at some time or raises.  The shutdown, after which nothing      *)
(* waits for a slot or a lock, is left to the module Heartbeat.            *)
(***************************************************************************)
EXTENDS Integers, Sequences, FiniteSets

CONSTANTS
  Calls,      \* the calls that may exist at once: those of a turn, and detached ones
  Domains,    \* target_domain, "global" included
  Slots,      \* config.MAX_CONCURRENT_TOOL_CALLS
  None

ASSUME ToolExecutionAssumption ==
  /\ IsFiniteSet(Calls)
  /\ Slots \in Nat \ {0}
  /\ None \notin Domains

VARIABLES
  agent,       \* "thinking", or "gathering" the calls of the batch
  batch,
  pc,          \* where each call stands
  domain,      \* its target_domain
  free,        \* the value of the semaphore
  slotQueue,   \* its waiters that have not been woken
  locked,      \* the domain locks that are taken
  lockQueue    \* the waiters of each domain lock

vars == <<agent, batch, pc, domain, free, slotQueue, locked, lockQueue>>

At(where) == {c \in Calls : pc[c] \in where}

\* The calls that hold a slot, or have been handed one.
Inside == At({"granted", "limiting", "waiting", "running"})

\* Where a call ends up: nobody asks for the answer of a detached one.
Outcome(c, answer) == IF c \in batch THEN answer ELSE "idle"

-----------------------------------------------------------------------------
(***************************************************************************)
(* asyncio.Semaphore: a slot is handed to the first waiter, and nobody     *)
(* overtakes a waiter, woken or not.                                       *)
(***************************************************************************)
SlotTaken == free = 0 \/ slotQueue # <<>> \/ At({"granted"}) # {}

\* The value goes up by one, and the first waiter is woken if there is one.
Release(c, end) ==
  \/ /\ slotQueue = <<>>
     /\ free' = free + 1
     /\ pc' = [pc EXCEPT ![c] = end]
     /\ UNCHANGED slotQueue
  \/ /\ slotQueue # <<>>
     /\ pc' = [pc EXCEPT ![c] = end, ![Head(slotQueue)] = "granted"]
     /\ slotQueue' = Tail(slotQueue)
     /\ UNCHANGED free

-----------------------------------------------------------------------------
Init ==
  /\ agent = "thinking"
  /\ batch = {}
  /\ pc = [c \in Calls |-> "idle"]
  /\ domain = [c \in Calls |-> None]
  /\ free = Slots
  /\ slotQueue = <<>>
  /\ locked = {}
  /\ lockQueue = [d \in Domains |-> <<>>]

\* The model asks for tools: a task for each call.
Gather(calls, target) ==
  /\ agent = "thinking"
  /\ calls # {}
  /\ calls \subseteq At({"idle"})
  /\ agent' = "gathering"
  /\ batch' = calls
  /\ pc' = [c \in Calls |-> IF c \in calls THEN "new" ELSE pc[c]]
  /\ domain' = [c \in Calls |-> IF c \in calls THEN target[c] ELSE domain[c]]
  /\ UNCHANGED <<free, slotQueue, locked, lockQueue>>

\* Arguments that are JSON but no object raise before the semaphore.
BadArguments(c) ==
  /\ pc[c] = "new"
  /\ pc' = [pc EXCEPT ![c] = Outcome(c, "failed")]
  /\ UNCHANGED <<agent, batch, domain, free, slotQueue, locked, lockQueue>>

\* async with semaphore
Enters(c) ==
  /\ pc[c] = "new"
  /\ ~SlotTaken
  /\ pc' = [pc EXCEPT ![c] = "limiting"]
  /\ free' = free - 1
  /\ UNCHANGED <<agent, batch, domain, slotQueue, locked, lockQueue>>

Queues(c) ==
  /\ pc[c] = "new"
  /\ SlotTaken
  /\ pc' = [pc EXCEPT ![c] = "queued"]
  /\ slotQueue' = Append(slotQueue, c)
  /\ UNCHANGED <<agent, batch, domain, free, locked, lockQueue>>

\* Who goes on with a slot passes a remaining one to the next waiter.
Resumes(c) ==
  /\ pc[c] = "granted"
  /\ \/ /\ free > 0 /\ slotQueue # <<>>
        /\ pc' = [pc EXCEPT ![c] = "limiting", ![Head(slotQueue)] = "granted"]
        /\ free' = free - 1
        /\ slotQueue' = Tail(slotQueue)
     \/ /\ free = 0 \/ slotQueue = <<>>
        /\ pc' = [pc EXCEPT ![c] = "limiting"]
        /\ UNCHANGED <<free, slotQueue>>
  /\ UNCHANGED <<agent, batch, domain, locked, lockQueue>>

\* Fault: an error of the limiter leaves without giving the slot back.
LimiterFails_KeepsSlot(c) ==
  /\ pc[c] = "limiting"
  /\ pc' = [pc EXCEPT ![c] = Outcome(c, "failed")]
  /\ UNCHANGED <<agent, batch, domain, free, slotQueue, locked, lockQueue>>

\* rate_limiter.acquire raises when the cooldown table cannot be read.
LimiterFails(c) ==
  /\ pc[c] = "limiting"
  /\ Release(c, Outcome(c, "failed"))
  /\ UNCHANGED <<agent, batch, domain, locked, lockQueue>>

LockBusy(d) == d \in locked \/ lockQueue[d] # <<>>

\* Fault: the lock is looked at and not taken.
TakesLock_Forgets(c) ==
  /\ pc[c] = "limiting"
  /\ ~LockBusy(domain[c])
  /\ pc' = [pc EXCEPT ![c] = "running"]
  /\ UNCHANGED <<agent, batch, domain, free, slotQueue, locked, lockQueue>>

\* The limiter lets the call through, and the lock of its domain is free.
TakesLock(c) ==
  /\ pc[c] = "limiting"
  /\ ~LockBusy(domain[c])
  /\ locked' = locked \union {domain[c]}
  /\ pc' = [pc EXCEPT ![c] = "running"]
  /\ UNCHANGED <<agent, batch, domain, free, slotQueue, lockQueue>>

WaitsForLock(c) ==
  /\ pc[c] = "limiting"
  /\ LockBusy(domain[c])
  /\ lockQueue' = [lockQueue EXCEPT ![domain[c]] = Append(@, c)]
  /\ pc' = [pc EXCEPT ![c] = "waiting"]
  /\ UNCHANGED <<agent, batch, domain, free, slotQueue, locked>>

\* The first waiter goes on when the lock is free.
LockGranted(c) ==
  /\ pc[c] = "waiting"
  /\ domain[c] \notin locked
  /\ lockQueue[domain[c]] # <<>>
  /\ c = Head(lockQueue[domain[c]])
  /\ lockQueue' = [lockQueue EXCEPT ![domain[c]] = Tail(@)]
  /\ locked' = locked \union {domain[c]}
  /\ pc' = [pc EXCEPT ![c] = "running"]
  /\ UNCHANGED <<agent, batch, domain, free, slotQueue>>

\* Fault: the semaphore is left and the lock is not.
Returns_KeepsLock(c) ==
  /\ pc[c] = "running"
  /\ Release(c, Outcome(c, "answered"))
  /\ UNCHANGED <<agent, batch, domain, locked, lockQueue>>

\* The handler returns, raises or is missing: all three make an answer.
Returns(c) ==
  /\ pc[c] = "running"
  /\ locked' = locked \ {domain[c]}
  /\ Release(c, Outcome(c, "answered"))
  /\ UNCHANGED <<agent, batch, domain, lockQueue>>

\* All results are there: the next turn.
Answered ==
  /\ agent = "gathering"
  /\ \A c \in batch : pc[c] = "answered"
  /\ agent' = "thinking"
  /\ batch' = {}
  /\ pc' = [c \in Calls |-> IF c \in batch THEN "idle" ELSE pc[c]]
  /\ UNCHANGED <<domain, free, slotQueue, locked, lockQueue>>

\* One call has raised: the step fails, the others of the batch are detached.
Fails ==
  /\ agent = "gathering"
  /\ \E c \in batch : pc[c] = "failed"
  /\ agent' = "thinking"
  /\ batch' = {}
  /\ pc' = [c \in Calls |->
              IF c \in batch /\ pc[c] \in {"answered", "failed"} THEN "idle" ELSE pc[c]]
  /\ UNCHANGED <<domain, free, slotQueue, locked, lockQueue>>

Call(c) ==
  \/ BadArguments(c) \/ Enters(c) \/ Queues(c) \/ Resumes(c)
  \/ LimiterFails(c) \/ TakesLock(c) \/ WaitsForLock(c) \/ LockGranted(c) \/ Returns(c)

Next ==
  \/ \E calls \in SUBSET Calls : \E target \in [calls -> Domains] : Gather(calls, target)
  \/ \E c \in Calls : Call(c)
  \/ Answered
  \/ Fails

Spec == Init /\ [][Next]_vars

\* The event loop runs every ready task, sleeps of the limiter are bounded
\* (RateLimiter), and a handler ends: the tools have timeouts of their own.
FairSpec ==
  /\ Spec
  /\ \A c \in Calls : WF_vars(Call(c))
  /\ WF_vars(Answered \/ Fails)

-----------------------------------------------------------------------------
TypeOK ==
  /\ agent \in {"thinking", "gathering"}
  /\ batch \subseteq Calls
  /\ pc \in [Calls -> {"idle", "new", "queued", "granted", "limiting", "waiting",
                       "running", "answered", "failed"}]
  /\ domain \in [Calls -> Domains \union {None}]
  /\ \A c \in Calls : pc[c] # "idle" => domain[c] # None
  /\ free \in 0..Slots
  /\ slotQueue \in Seq(Calls)
  /\ locked \subseteq Domains
  /\ lockQueue \in [Domains -> Seq(Calls)]

NoRepeats(s) == \A i, k \in DOMAIN s : s[i] = s[k] => i = k

Members(s) == {s[i] : i \in DOMAIN s}

\* The slots are accounted for, over failures and detached calls: whoever is not
\* inside has given its slot back, so that never more than Slots calls are in flight.
SlotsAreAccountedFor == free + Cardinality(Inside) = Slots

\* The waiters are those that wait, each once, and while a slot is free somebody
\* is awake who will hand it on.
NoWakeupIsLost ==
  /\ Members(slotQueue) = At({"queued"})
  /\ NoRepeats(slotQueue)
  /\ slotQueue # <<>> => free = 0 \/ At({"granted"}) # {}

\* The semaphore is exact, in its value and in its queue.
SemaphoreIsExact ==
  /\ TypeOK
  /\ SlotsAreAccountedFor
  /\ NoWakeupIsLost

\* A domain lock is held by exactly one handler, which runs: never two handlers of
\* one domain, those of an earlier turn that failed included.
OneHandlerPerDomain ==
  /\ \A c, e \in At({"running"}) : domain[c] = domain[e] => c = e
  /\ locked = {domain[c] : c \in At({"running"})}

\* "Deadlock-Free Lock Ordering": every call of every batch ends, whatever
\* else fails, and so the agent always gets on.
EveryCallEnds ==
  /\ \A c \in Calls : pc[c] = "new" ~> pc[c] \in {"idle", "answered", "failed"}
  /\ agent = "gathering" ~> agent = "thinking"
=============================================================================
