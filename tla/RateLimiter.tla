---------------------------- MODULE RateLimiter ----------------------------
(***************************************************************************)
(* The per-domain token buckets (agent/rate_limiter.py) over the table of  *)
(* persisted cooldowns (agent/cooldown_store.py): calls that look up or    *)
(* build a bucket under the registry lock, take a token, wait for one, or  *)
(* pause a domain after a 429 and save the cooldown; and restarts, which   *)
(* keep the table and lose the buckets.                                    *)
(*                                                                         *)
(* Time is an integer clock; the monotonic and the epoch clock of one      *)
(* process differ by a constant, so one clock stands for both.  Tokens     *)
(* are counted in parts: Token parts make the 1.0 that a call consumes.    *)
(***************************************************************************)
EXTENDS Integers

CONSTANTS
  Domains,
  Calls,       \* one identity per call made to the limiter
  Nobody,      \* the registry lock is free
  None,        \* no bucket yet; no row in domain_cooldowns
  Token,       \* parts that make one token
  Rate,        \* parts that flow into a bucket per unit of time
  Capacity,    \* parts a bucket holds at most
  Backoffs,    \* what parse_retry_after can return
  MaxTime      \* bound: the clock stops here

ASSUME RateLimiterAssumption ==
  /\ Nobody \notin Calls
  /\ Token \in Nat \ {0} /\ Rate \in Nat \ {0} /\ Capacity \in Nat \ {0}
  /\ Backoffs \subseteq Nat \ {0}
  /\ MaxTime \in Nat
  /\ None \notin [tokens : Int, paused_until : Int, last_refill : Int]

VARIABLES
  now,
  buckets,     \* DomainRateLimiter.buckets
  cooldowns,   \* the table domain_cooldowns
  registry,    \* who holds _registry_lock
  pc,          \* where each call stands
  domain,      \* the domain of a call
  wake,        \* when a sleeping call wakes
  saving,      \* the row a pausing call is about to save
  opened,      \* history: when the observed window of a domain was opened
  spent,       \* history: tokens granted in that window
  known        \* history: the latest end of a cooldown this process knows of

vars == <<now, buckets, cooldowns, registry, pc, domain, wake, saving, opened,
          spent, known>>

history == <<opened, spent, known>>

Bucket == [tokens : 0..Capacity, paused_until : Nat, last_refill : Nat]

Least(a, b) == IF a <= b THEN a ELSE b
Most(a, b) == IF a >= b THEN a ELSE b

-----------------------------------------------------------------------------
(***************************************************************************)
(* AsyncTokenBucket.                                                       *)
(***************************************************************************)

\* A bucket for a domain without a saved cooldown.
FreshBucket == [tokens |-> Capacity, paused_until |-> 0, last_refill |-> now]

\* A bucket built from a saved cooldown: still paused, or refilled for the
\* time since the cooldown ended.
SavedBucket(row) ==
  IF row.paused_until > now
  THEN [tokens |-> 0, paused_until |-> row.paused_until,
        last_refill |-> row.paused_until]
  ELSE [tokens |-> Least(Capacity, row.tokens + Most(0, now - row.last_refill) * Rate),
        paused_until |-> 0, last_refill |-> now]

Refilled(b) == Least(Capacity, b.tokens + (now - b.last_refill) * Rate)

\* How long until the missing parts of a token have flowed in, rounded up.
RefillTime(tokens) == (Token - tokens + Rate - 1) \div Rate

-----------------------------------------------------------------------------
\* Somebody calls acquire, check_and_consume or pause_domain.
Begin(c, d) ==
  /\ pc[c] = "idle"
  /\ pc' = [pc EXCEPT ![c] = "lookup"]
  /\ domain' = [domain EXCEPT ![c] = d]
  /\ UNCHANGED <<now, buckets, cooldowns, registry, wake, saving, history>>

\* get_bucket finds the bucket.
Lookup(c) ==
  /\ pc[c] = "lookup"
  /\ registry = Nobody
  /\ buckets[domain[c]] # None
  /\ pc' = [pc EXCEPT ![c] = "ready"]
  /\ UNCHANGED <<now, buckets, cooldowns, registry, domain, wake, saving,
                 history>>

\* Fault: the table is asked without holding the registry lock.
LookupMisses_Unlocked(c) ==
  /\ pc[c] = "lookup"
  /\ buckets[domain[c]] = None
  /\ pc' = [pc EXCEPT ![c] = "loading"]
  /\ UNCHANGED <<now, buckets, cooldowns, registry, domain, wake, saving, history>>

\* get_bucket finds none and asks the table for it, inside the registry lock.
LookupMisses(c) ==
  /\ pc[c] = "lookup"
  /\ registry = Nobody
  /\ buckets[domain[c]] = None
  /\ registry' = c
  /\ pc' = [pc EXCEPT ![c] = "loading"]
  /\ UNCHANGED <<now, buckets, cooldowns, domain, wake, saving, history>>

Load(c) ==
  LET d == domain[c]
      row == cooldowns[d]
  IN  /\ pc[c] = "loading"
      /\ buckets' = [buckets EXCEPT ![d] =
                       IF row = None THEN FreshBucket ELSE SavedBucket(row)]
      /\ registry' = Nobody
      /\ pc' = [pc EXCEPT ![c] = "ready"]
      /\ known' = [known EXCEPT ![d] =
                     IF row = None THEN @ ELSE Most(@, row.paused_until)]
      /\ UNCHANGED <<now, cooldowns, domain, wake, saving, opened, spent>>

\* The query fails; the error leaves the registry lock and reaches the caller.
LoadFails(c) ==
  /\ pc[c] = "loading"
  /\ registry' = Nobody
  /\ pc' = [pc EXCEPT ![c] = "done"]
  /\ UNCHANGED <<now, buckets, cooldowns, domain, wake, saving, history>>

\* A call may look at its bucket: it has just found it, or its sleep is over.
AtBucket(c) ==
  \/ pc[c] = "ready"
  \/ pc[c] = "asleep" /\ now >= wake[c]

\* A token is taken.
Grant(c) ==
  LET d == domain[c]
      b == buckets[d]
  IN  /\ AtBucket(c)
      /\ now >= b.paused_until
      /\ Refilled(b) >= Token
      /\ buckets' = [buckets EXCEPT ![d] =
                       [tokens |-> Refilled(b) - Token,
                        paused_until |-> b.paused_until, last_refill |-> now]]
      /\ spent' = [spent EXCEPT ![d] = @ + 1]
      /\ pc' = [pc EXCEPT ![c] = "done"]
      /\ UNCHANGED <<now, cooldowns, registry, domain, wake, saving, opened, known>>

\* Fault: the call sleeps for the end of the pause as if it were a duration.
Blocked_AbsoluteWait(c) ==
  LET b == buckets[domain[c]]
  IN  /\ now < b.paused_until
      /\ wake' = [wake EXCEPT ![c] = now + b.paused_until]
      /\ UNCHANGED buckets

\* No token can be taken: the call learns when to try again, and the bucket
\* has been refilled unless it is paused.
Blocked(c) ==
  LET d == domain[c]
      b == buckets[d]
  IN  \/ /\ now < b.paused_until
         /\ wake' = [wake EXCEPT ![c] = b.paused_until]
         /\ UNCHANGED buckets
      \/ /\ now >= b.paused_until
         /\ Refilled(b) < Token
         /\ wake' = [wake EXCEPT ![c] = now + RefillTime(Refilled(b))]
         /\ buckets' = [buckets EXCEPT ![d] =
                          [tokens |-> Refilled(b),
                           paused_until |-> b.paused_until, last_refill |-> now]]

\* acquire sleeps, and tries again when it wakes.
Sleep(c) ==
  /\ AtBucket(c)
  /\ Blocked(c)
  /\ pc' = [pc EXCEPT ![c] = "asleep"]
  /\ UNCHANGED <<now, cooldowns, registry, domain, saving, history>>

\* check_and_consume returns the time to wait instead.
Deny(c) ==
  /\ pc[c] = "ready"
  /\ Blocked(c)
  /\ pc' = [pc EXCEPT ![c] = "done"]
  /\ UNCHANGED <<now, cooldowns, registry, domain, saving, history>>

\* Fault: a later pause replaces a longer one.
Pause_Shortens(c, seconds) ==
  LET d == domain[c]
      until == now + seconds
  IN  /\ pc[c] = "ready"
      /\ buckets' = [buckets EXCEPT ![d] =
                       [tokens |-> 0, paused_until |-> until, last_refill |-> until]]
      /\ saving' = [saving EXCEPT ![c] =
                      [tokens |-> 0, paused_until |-> until, last_refill |-> until]]
      /\ known' = [known EXCEPT ![d] = Most(@, until)]
      /\ pc' = [pc EXCEPT ![c] = "saving"]
      /\ UNCHANGED <<now, cooldowns, registry, domain, wake, opened, spent>>

\* pause_domain: the bucket is emptied and paused, then the cooldown is saved.
Pause(c, seconds) ==
  LET d == domain[c]
      until == Most(buckets[d].paused_until, now + seconds)
  IN  /\ pc[c] = "ready"
      /\ buckets' = [buckets EXCEPT ![d] =
                       [tokens |-> 0, paused_until |-> until, last_refill |-> until]]
      /\ saving' = [saving EXCEPT ![c] =
                      [tokens |-> 0, paused_until |-> now + seconds,
                       last_refill |-> now + seconds]]
      /\ known' = [known EXCEPT ![d] = Most(@, now + seconds)]
      /\ pc' = [pc EXCEPT ![c] = "saving"]
      /\ UNCHANGED <<now, cooldowns, registry, domain, wake, opened, spent>>

Save(c) ==
  /\ pc[c] = "saving"
  /\ cooldowns' = [cooldowns EXCEPT ![domain[c]] = saving[c]]
  /\ pc' = [pc EXCEPT ![c] = "done"]
  /\ UNCHANGED <<now, buckets, registry, domain, wake, saving, history>>

SaveFails(c) ==
  /\ pc[c] = "saving"
  /\ pc' = [pc EXCEPT ![c] = "done"]
  /\ UNCHANGED <<now, buckets, cooldowns, registry, domain, wake, saving, history>>

-----------------------------------------------------------------------------
Tick ==
  /\ now < MaxTime
  /\ now' = now + 1
  /\ UNCHANGED <<buckets, cooldowns, registry, pc, domain, wake, saving, history>>

\* The process dies and starts again: calls in flight are gone, and so is
\* everything the table does not hold.
Restart ==
  /\ buckets' = [d \in Domains |-> None]
  /\ registry' = Nobody
  /\ pc' = [c \in Calls |-> IF pc[c] = "idle" THEN "idle" ELSE "done"]
  /\ known' = [d \in Domains |-> 0]
  /\ opened' = [d \in Domains |-> now]
  /\ spent' = [d \in Domains |-> 0]
  /\ UNCHANGED <<now, cooldowns, domain, wake, saving>>

\* Not a step of the program: the observer of a domain opens a new window, so
\* that what holds of a window holds of every window of a process.
Observe(d) ==
  /\ opened' = [opened EXCEPT ![d] = now]
  /\ spent' = [spent EXCEPT ![d] = 0]
  /\ UNCHANGED <<now, buckets, cooldowns, registry, pc, domain, wake, saving, known>>

Init ==
  /\ now = 0
  /\ buckets = [d \in Domains |-> None]
  /\ cooldowns = [d \in Domains |-> None]
  /\ registry = Nobody
  /\ pc = [c \in Calls |-> "idle"]
  /\ domain \in [Calls -> Domains]
  /\ wake = [c \in Calls |-> 0]
  /\ saving = [c \in Calls |-> None]
  /\ opened = [d \in Domains |-> 0]
  /\ spent = [d \in Domains |-> 0]
  /\ known = [d \in Domains |-> 0]

CallStep(c) ==
  \/ \E d \in Domains : Begin(c, d)
  \/ Lookup(c)
  \/ LookupMisses(c)
  \/ Load(c)
  \/ LoadFails(c)
  \/ Grant(c)
  \/ Sleep(c)
  \/ Deny(c)
  \/ \E seconds \in Backoffs : Pause(c, seconds)
  \/ Save(c)
  \/ SaveFails(c)

Next ==
  \/ \E c \in Calls : CallStep(c)
  \/ \E d \in Domains : Observe(d)
  \/ Tick
  \/ Restart

Spec == Init /\ [][Next]_vars

-----------------------------------------------------------------------------
TypeOK ==
  /\ now \in 0..MaxTime
  /\ buckets \in [Domains -> Bucket \cup {None}]
  /\ cooldowns \in [Domains -> Bucket \cup {None}]
  /\ registry \in Calls \cup {Nobody}
  /\ pc \in [Calls -> {"idle", "lookup", "loading", "ready", "asleep", "saving",
                       "done"}]
  /\ domain \in [Calls -> Domains]
  /\ wake \in [Calls -> Int]
  /\ saving \in [Calls -> Bucket \cup {None}]
  /\ opened \in [Domains -> 0..MaxTime]
  /\ spent \in [Domains -> Nat]
  /\ known \in [Domains -> Nat]

\* In every window of a process's life a domain is granted at most the
\* capacity of its bucket plus what flows in during the window: two callers
\* that build the same bucket, sleepers that wake together, pauses and refills
\* never mint a token.
RateBound ==
  \A d \in Domains : spent[d] * Token <= Capacity + Rate * (now - opened[d])

\* No token is granted before the end of every cooldown the process was told
\* about, by a 429 or by the table: later, shorter pauses and the sleepers of
\* earlier ones included.
NoGrantDuringCooldown ==
  [][\A d \in Domains : spent'[d] > spent[d] => now >= known[d]]_vars

\* A call sleeps no longer than the pause of its domain or than one token
\* takes to flow in: nobody sleeps on a time that nothing will bring about.
SleepIsBounded ==
  \A c \in Calls : pc[c] = "asleep" =>
    /\ buckets[domain[c]] # None
    /\ \/ wake[c] <= buckets[domain[c]].paused_until
       \/ wake[c] <= now + RefillTime(0)
=============================================================================
