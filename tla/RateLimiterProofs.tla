-------------------------- MODULE RateLimiterProofs --------------------------
(***************************************************************************)
(* The rate bound and the cooldown rule of RateLimiter, for any number of  *)
(* domains and calls, any rate, capacity and back-off.                     *)
(***************************************************************************)
EXTENDS RateLimiter, TLAPS

\* Whoever asks the table holds the registry lock, and the bucket it will
\* build does not exist yet.
LoadIsExclusive ==
  \A c \in Calls : pc[c] = "loading" => registry = c /\ buckets[domain[c]] = None

\* A call past its lookup has a bucket, and a call that saves has a row.
HasBucket ==
  \A c \in Calls :
    /\ pc[c] \in {"ready", "asleep"} => buckets[domain[c]] # None
    /\ pc[c] = "saving" => saving[c] # None

\* A bucket was refilled in the past, unless it is paused until then.
BucketSane ==
  \A d \in Domains : buckets[d] # None =>
    buckets[d].last_refill <= now \/ buckets[d].last_refill <= buckets[d].paused_until

\* What was granted in the window and what is left in the bucket were there
\* when the window opened or have flowed in since.
Account ==
  \A d \in Domains :
    /\ buckets[d] = None => spent[d] = 0
    /\ buckets[d] # None =>
         /\ buckets[d].last_refill < opened[d] => spent[d] = 0
         /\ buckets[d].last_refill >= opened[d] =>
              spent[d] * Token + buckets[d].tokens
                <= Capacity + Rate * (buckets[d].last_refill - opened[d])

\* A bucket is paused until the end of every cooldown known, if that is ahead.
KnownIsKept ==
  \A d \in Domains :
    /\ buckets[d] = None => known[d] = 0
    /\ buckets[d] # None => known[d] <= now \/ known[d] <= buckets[d].paused_until

WindowOpen == \A d \in Domains : opened[d] <= now

Inv ==
  /\ TypeOK
  /\ LoadIsExclusive
  /\ HasBucket
  /\ BucketSane
  /\ WindowOpen
  /\ Account
  /\ KnownIsKept
  /\ RateBound

\* A refill leaves a bucket between what it held and its capacity.
LEMMA RefillRange ==
  ASSUME NEW b \in Bucket, now \in Nat, b.last_refill <= now
  PROVE  /\ Refilled(b) \in 0..Capacity
         /\ Refilled(b) <= b.tokens + Rate * (now - b.last_refill)
<1> USE RateLimiterAssumption
<1>1. (now - b.last_refill) * Rate = Rate * (now - b.last_refill)
  BY DEF Bucket
<1>2. Rate * (now - b.last_refill) \in Nat
  BY DEF Bucket
<1> QED BY <1>1, <1>2 DEF Refilled, Least, Bucket

\* A bucket built from a saved row is a bucket, paused as long as the row says.
LEMMA SavedRange ==
  ASSUME NEW row \in Bucket, now \in Nat
  PROVE  /\ SavedBucket(row) \in Bucket
         /\ SavedBucket(row).last_refill >= now
         /\ \/ SavedBucket(row).last_refill = now
            \/ SavedBucket(row).last_refill = SavedBucket(row).paused_until
         /\ row.paused_until <= now \/ row.paused_until = SavedBucket(row).paused_until
<1> USE RateLimiterAssumption
<1>1. Most(0, now - row.last_refill) * Rate \in Nat
  BY DEF Most, Bucket
<1>2. Least(Capacity, row.tokens + Most(0, now - row.last_refill) * Rate) \in 0..Capacity
  BY <1>1 DEF Least, Bucket
<1> QED BY <1>2 DEF SavedBucket, Bucket

\* None is no bucket.
LEMMA NoneIsNoBucket == None \notin Bucket
BY RateLimiterAssumption DEF Bucket

-----------------------------------------------------------------------------
\* What the invariant says of buckets, as opposed to calls.
BucketInv == BucketSane /\ WindowOpen /\ Account /\ KnownIsKept /\ RateBound

\* A step that changes no bucket, clock or history keeps what is said of buckets.
LEMMA BucketsUntouched ==
  ASSUME Inv, UNCHANGED <<now, buckets, opened, spent, known>>
  PROVE  BucketInv'
BY DEF Inv, BucketInv, BucketSane, WindowOpen, Account, KnownIsKept, RateBound

\* Replacing the bucket of one domain: what has to be shown of that domain.
LEMMA BucketReplaced ==
  ASSUME Inv, NEW d \in Domains, NEW b \in Bucket,
         buckets' = [buckets EXCEPT ![d] = b],
         now' = now, opened' = opened,
         \A e \in Domains : e # d => spent'[e] = spent[e] /\ known'[e] = known[e],
         b.last_refill <= now \/ b.last_refill <= b.paused_until,
         b.last_refill < opened[d] => spent'[d] = 0,
         b.last_refill >= opened[d] =>
           spent'[d] * Token + b.tokens
             <= Capacity + Rate * (b.last_refill - opened[d]),
         known'[d] <= now \/ known'[d] <= b.paused_until,
         spent'[d] * Token <= Capacity + Rate * (now - opened[d])
  PROVE  BucketInv'
<1>1. buckets'[d] = b /\ b # None /\ \A e \in Domains : e # d => buckets'[e] = buckets[e]
  BY NoneIsNoBucket DEF Inv, TypeOK
<1>2. BucketSane'
  BY <1>1 DEF Inv, BucketSane
<1>3. WindowOpen'
  BY DEF Inv, WindowOpen
<1>4. Account'
  BY <1>1 DEF Inv, Account
<1>5. KnownIsKept'
  BY <1>1 DEF Inv, KnownIsKept
<1>6. RateBound'
  BY DEF Inv, RateBound
<1> QED BY <1>2, <1>3, <1>4, <1>5, <1>6 DEF BucketInv

\* A refill keeps the account of the window.
LEMMA RefillAccount ==
  ASSUME Inv, NEW d \in Domains, buckets[d] # None, now >= buckets[d].paused_until
  PROVE  spent[d] * Token + Refilled(buckets[d]) <= Capacity + Rate * (now - opened[d])
<1> USE RateLimiterAssumption
<1> DEFINE b == buckets[d]
<1>1. b \in Bucket /\ now \in Nat /\ opened[d] \in Nat /\ opened[d] <= now
      /\ spent[d] \in Nat
  BY DEF Inv, TypeOK, WindowOpen
<1>2. b.last_refill <= now
  BY <1>1 DEF Inv, BucketSane, Bucket
<1>3. /\ Refilled(b) \in 0..Capacity
      /\ Refilled(b) <= b.tokens + Rate * (now - b.last_refill)
  BY <1>1, <1>2, RefillRange
<1>4. CASE b.last_refill < opened[d]
  <2>1. spent[d] = 0
    BY <1>4 DEF Inv, Account
  <2>2. Rate * (now - opened[d]) \in Nat
    BY <1>1
  <2> QED BY <1>3, <2>1, <2>2
<1>5. CASE ~(b.last_refill < opened[d])
  <2>1. spent[d] * Token + b.tokens <= Capacity + Rate * (b.last_refill - opened[d])
    BY <1>1, <1>5 DEF Inv, Account, Bucket
  <2>2. Rate * (b.last_refill - opened[d]) + Rate * (now - b.last_refill)
          = Rate * (now - opened[d])
    BY <1>1 DEF Bucket
  <2>3. /\ spent[d] * Token \in Nat /\ b.tokens \in Nat
        /\ Rate * (b.last_refill - opened[d]) \in Int
        /\ Rate * (now - b.last_refill) \in Int
    BY <1>1 DEF Bucket
  <2>4. spent[d] * Token + Refilled(b) <= Capacity + Rate * (now - opened[d])
    <3>1. Refilled(b) \in Nat
      BY <1>3
    <3> HIDE DEF b
    <3> QED BY <1>3, <2>1, <2>2, <2>3, <3>1
  <2> QED BY <2>4
<1> QED BY <1>4, <1>5

\* A call takes a token.
LEMMA GrantStep ==
  ASSUME Inv, NEW c \in Calls, Grant(c)
  PROVE  Inv'
<1> USE RateLimiterAssumption
<1> DEFINE d == domain[c]
           b == buckets[d]
           n == [tokens |-> Refilled(b) - Token,
                 paused_until |-> b.paused_until, last_refill |-> now]
<1>1. d \in Domains /\ b \in Bucket /\ b # None /\ now \in Nat
  BY DEF Inv, TypeOK, Grant, AtBucket, HasBucket
<1>2. b.last_refill <= now
  BY <1>1 DEF Inv, BucketSane, Grant, Bucket
<1>3. /\ Refilled(b) \in 0..Capacity
      /\ Refilled(b) <= b.tokens + Rate * (now - b.last_refill)
      /\ Refilled(b) >= Token
  BY <1>1, <1>2, RefillRange DEF Grant
<1>4. n \in Bucket /\ n.tokens = Refilled(b) - Token /\ n.last_refill = now
      /\ n.paused_until = b.paused_until
  BY <1>1, <1>3 DEF Bucket
<1>5. spent' = [spent EXCEPT ![d] = @ + 1] /\ spent[d] \in Nat /\ spent'[d] = spent[d] + 1
  BY <1>1 DEF Grant, Inv, TypeOK
<1>6. opened[d] \in Nat /\ opened[d] <= now
  BY <1>1 DEF Inv, TypeOK, WindowOpen
<1>7. spent'[d] * Token + n.tokens <= Capacity + Rate * (now - opened[d])
  <2>1. spent'[d] * Token + n.tokens = spent[d] * Token + Refilled(b)
    BY <1>3, <1>4, <1>5
  <2>2. spent[d] * Token + Refilled(b) <= Capacity + Rate * (now - opened[d])
    BY <1>1, RefillAccount DEF Grant
  <2> QED BY <2>1, <2>2
<1>8. spent'[d] * Token <= Capacity + Rate * (now - opened[d])
  <2>1. n.tokens \in Nat
    BY <1>3, <1>4
  <2>2. spent'[d] * Token \in Nat
    BY <1>5
  <2>3. Rate * (now - opened[d]) \in Int
    BY <1>1, <1>6
  <2> HIDE DEF n, d
  <2> QED BY <1>7, <2>1, <2>2, <2>3
<1>9. known'[d] <= now
  BY <1>1 DEF Grant, Inv, KnownIsKept, TypeOK, Bucket
<1>10. /\ buckets' = [buckets EXCEPT ![d] = n]
       /\ now' = now /\ opened' = opened
       /\ \A e \in Domains : e # d => spent'[e] = spent[e] /\ known'[e] = known[e]
  BY <1>5 DEF Grant, history, Inv, TypeOK
<1>11. BucketInv'
  <2> HIDE DEF d, b, n
  <2>1. /\ n.last_refill <= now
        /\ n.last_refill < opened[d] => spent'[d] = 0
        /\ n.last_refill >= opened[d] =>
             spent'[d] * Token + n.tokens
               <= Capacity + Rate * (n.last_refill - opened[d])
    BY <1>1, <1>4, <1>6, <1>7
  <2> QED BY <1>1, <1>4, <1>8, <1>9, <1>10, <2>1, BucketReplaced
<1>12. TypeOK'
  BY <1>1, <1>4, <1>5, <1>10 DEF Grant, Inv, TypeOK
<1>13. LoadIsExclusive' /\ HasBucket'
  <2>1. pc' = [pc EXCEPT ![c] = "done"] /\ registry' = registry /\ domain' = domain
        /\ saving' = saving /\ \A e \in Domains : (buckets'[e] = None) = (buckets[e] = None)
    BY <1>1, <1>4, <1>10, NoneIsNoBucket DEF Grant, Inv, TypeOK
  <2> QED BY <2>1 DEF Inv, LoadIsExclusive, HasBucket, TypeOK
<1> QED BY <1>11, <1>12, <1>13 DEF Inv, BucketInv
\* A call that finds no token waits or is told to.
LEMMA BlockedStep ==
  ASSUME Inv, NEW c \in Calls, AtBucket(c), Blocked(c),
         UNCHANGED <<now, cooldowns, registry, domain, saving, history>>,
         NEW where \in {"asleep", "done"}, pc' = [pc EXCEPT ![c] = where]
  PROVE  Inv'
<1> USE RateLimiterAssumption
<1> DEFINE d == domain[c]
           b == buckets[d]
           n == [tokens |-> Refilled(b), paused_until |-> b.paused_until,
                 last_refill |-> now]
<1>1. d \in Domains /\ b \in Bucket /\ b # None /\ now \in Nat
  BY DEF Inv, TypeOK, AtBucket, HasBucket
<1>2. CASE now < b.paused_until
  <2>1. UNCHANGED buckets /\ wake' = [wake EXCEPT ![c] = b.paused_until]
    BY <1>1, <1>2 DEF Blocked, Bucket
  <2>2. BucketInv'
    BY <2>1, BucketsUntouched DEF history
  <2>3. TypeOK'
    BY <1>1, <2>1 DEF Inv, TypeOK, history, Bucket
  <2>4. LoadIsExclusive' /\ HasBucket'
    BY <2>1 DEF Inv, LoadIsExclusive, HasBucket, TypeOK, AtBucket
  <2> QED BY <2>2, <2>3, <2>4 DEF Inv, BucketInv
<1>3. CASE ~(now < b.paused_until)
  <2>1. /\ buckets' = [buckets EXCEPT ![d] = n]
        /\ wake' = [wake EXCEPT ![c] = now + RefillTime(Refilled(b))]
    BY <1>3 DEF Blocked
  <2>2. b.last_refill <= now /\ now >= b.paused_until
    BY <1>1, <1>3 DEF Inv, BucketSane, Bucket
  <2>3. Refilled(b) \in 0..Capacity
    BY <1>1, <2>2, RefillRange
  <2>4. n \in Bucket /\ n.tokens = Refilled(b) /\ n.last_refill = now
        /\ n.paused_until = b.paused_until
    BY <1>1, <2>3 DEF Bucket
  <2>5. spent[d] * Token + n.tokens <= Capacity + Rate * (now - opened[d])
    BY <1>1, <2>2, <2>4, RefillAccount
  <2>6. /\ opened[d] \in Nat /\ opened[d] <= now /\ known[d] <= now
        /\ spent[d] * Token <= Capacity + Rate * (now - opened[d])
    BY <1>1, <2>2 DEF Inv, TypeOK, WindowOpen, KnownIsKept, Bucket, RateBound
  <2>7. BucketInv'
    <3>1. spent' = spent /\ known' = known /\ opened' = opened /\ now' = now
      BY DEF history
    <3> HIDE DEF d, b, n
    <3>2. /\ n.last_refill <= now
          /\ ~(n.last_refill < opened[d])
          /\ spent'[d] * Token + n.tokens
               <= Capacity + Rate * (n.last_refill - opened[d])
      BY <1>1, <2>4, <2>5, <2>6, <3>1
    <3> QED BY <1>1, <2>1, <2>4, <2>6, <3>1, <3>2, BucketReplaced
  <2>8. TypeOK'
    <3>1. RefillTime(Refilled(b)) \in Int
      BY <2>3 DEF RefillTime
    <3>2. now + RefillTime(Refilled(b)) \in Int
      BY <1>1, <3>1
    <3> HIDE DEF n
    <3>3. wake' \in [Calls -> Int] /\ buckets' \in [Domains -> Bucket \cup {None}]
      BY <2>1, <2>4, <3>2 DEF Inv, TypeOK
    <3> QED BY <3>3 DEF Inv, TypeOK, history
  <2>9. LoadIsExclusive' /\ HasBucket'
    <3>1. \A e \in Domains : (buckets'[e] = None) = (buckets[e] = None)
      BY <1>1, <2>1, <2>4, NoneIsNoBucket DEF Inv, TypeOK
    <3> QED BY <3>1 DEF Inv, LoadIsExclusive, HasBucket, TypeOK, AtBucket
  <2> QED BY <2>7, <2>8, <2>9 DEF Inv, BucketInv
<1> QED BY <1>2, <1>3

\* A bucket is built, from the saved cooldown if there is one.
LEMMA LoadStep ==
  ASSUME Inv, NEW c \in Calls, Load(c)
  PROVE  Inv'
<1> USE RateLimiterAssumption
<1> DEFINE d == domain[c]
           row == cooldowns[d]
           n == IF row = None THEN FreshBucket ELSE SavedBucket(row)
           k == IF row = None THEN known[d] ELSE Most(known[d], row.paused_until)
<1>1. /\ d \in Domains /\ now \in Nat /\ buckets[d] = None /\ registry = c
      /\ spent[d] = 0 /\ known[d] = 0 /\ opened[d] \in Nat /\ opened[d] <= now
  BY DEF Inv, TypeOK, Load, LoadIsExclusive, Account, KnownIsKept, WindowOpen
<1>2. row # None => row \in Bucket
  BY <1>1 DEF Inv, TypeOK
<1>3. FreshBucket \in Bucket
  BY <1>1 DEF FreshBucket, Bucket
<1>4. /\ n \in Bucket /\ n.last_refill >= now
      /\ n.last_refill <= now \/ n.last_refill <= n.paused_until
  <2>1. CASE row = None
    BY <1>1, <1>3, <2>1 DEF FreshBucket
  <2>2. CASE row # None
    BY <1>1, <1>2, <2>2, SavedRange DEF Bucket
  <2> QED BY <2>1, <2>2
<1>5. k \in Nat /\ (k <= now \/ k <= n.paused_until)
  <2>1. CASE row = None
    BY <1>1, <2>1
  <2>2. CASE row # None
    <3>1. row.paused_until \in Nat /\ k = row.paused_until
      BY <1>1, <1>2, <2>2 DEF Most, Bucket
    <3> QED BY <1>1, <1>2, <2>2, <3>1, SavedRange
  <2> QED BY <2>1, <2>2
<1>6. /\ buckets' = [buckets EXCEPT ![d] = n] /\ known' = [known EXCEPT ![d] = k]
      /\ now' = now /\ opened' = opened /\ spent' = spent /\ cooldowns' = cooldowns
      /\ domain' = domain /\ wake' = wake /\ saving' = saving
      /\ registry' = Nobody /\ pc' = [pc EXCEPT ![c] = "ready"] /\ pc[c] = "loading"
  BY DEF Load
<1> HIDE DEF n, k, row
<1>7. known'[d] = k /\ \A e \in Domains : e # d => known'[e] = known[e]
  BY <1>1, <1>6 DEF Inv, TypeOK
<1>8. BucketInv'
  <2>1. Rate * (n.last_refill - opened[d]) \in Nat /\ Rate * (now - opened[d]) \in Nat
    BY <1>1, <1>4 DEF Bucket
  <2>2. n.tokens <= Capacity /\ n.tokens \in Nat
    BY <1>4 DEF Bucket
  <2>3. /\ spent'[d] = 0
        /\ spent'[d] * Token + n.tokens <= Capacity + Rate * (n.last_refill - opened[d])
        /\ spent'[d] * Token <= Capacity + Rate * (now - opened[d])
    BY <1>1, <1>6, <2>1, <2>2
  <2> QED BY <1>1, <1>4, <1>5, <1>6, <1>7, <2>3, BucketReplaced
<1>9. TypeOK'
  BY <1>1, <1>4, <1>5, <1>6 DEF Inv, TypeOK
<1>10. LoadIsExclusive' /\ HasBucket'
  BY <1>1, <1>4, <1>6, NoneIsNoBucket DEF Inv, LoadIsExclusive, HasBucket, TypeOK
<1> QED BY <1>8, <1>9, <1>10 DEF Inv, BucketInv

\* A pause empties the bucket until the later of the two ends.
LEMMA PauseStep ==
  ASSUME Inv, NEW c \in Calls, NEW seconds \in Backoffs, Pause(c, seconds)
  PROVE  Inv'
<1> USE RateLimiterAssumption
<1> DEFINE d == domain[c]
           b == buckets[d]
           until == Most(b.paused_until, now + seconds)
           n == [tokens |-> 0, paused_until |-> until, last_refill |-> until]
           row == [tokens |-> 0, paused_until |-> now + seconds,
                   last_refill |-> now + seconds]
           k == Most(known[d], now + seconds)
<1>1. /\ d \in Domains /\ b \in Bucket /\ b # None /\ now \in Nat /\ seconds \in Nat
      /\ known[d] \in Nat /\ spent[d] \in Nat /\ opened[d] \in Nat /\ opened[d] <= now
  BY DEF Inv, TypeOK, Pause, HasBucket, WindowOpen
<1>2. until \in Nat /\ until >= now /\ until >= b.paused_until /\ until >= now + seconds
  BY <1>1 DEF Most, Bucket
<1>3. n \in Bucket /\ n.tokens = 0 /\ n.last_refill = until /\ n.paused_until = until
  BY <1>2 DEF Bucket
<1>4. row \in Bucket
  BY <1>1 DEF Bucket
<1>5. k \in Nat /\ (k <= now \/ k <= until)
  BY <1>1, <1>2 DEF Inv, KnownIsKept, Most, Bucket
<1>6. /\ buckets' = [buckets EXCEPT ![d] = n] /\ known' = [known EXCEPT ![d] = k]
      /\ saving' = [saving EXCEPT ![c] = row] /\ pc' = [pc EXCEPT ![c] = "saving"]
      /\ now' = now /\ opened' = opened /\ spent' = spent /\ cooldowns' = cooldowns
      /\ domain' = domain /\ wake' = wake /\ registry' = registry
      /\ pc[c] = "ready" /\ buckets[d] # None /\ d = domain[c]
  BY <1>1 DEF Pause
<1> HIDE DEF n, k, row, until, d, b
<1>7. known'[d] = k /\ \A e \in Domains : e # d => known'[e] = known[e]
  BY <1>1, <1>6 DEF Inv, TypeOK
<1>8. BucketInv'
  <2>1. spent[d] * Token <= Capacity + Rate * (now - opened[d])
    BY <1>1 DEF Inv, RateBound
  <2>2. Rate * (now - opened[d]) + Rate * (until - now) = Rate * (until - opened[d])
    BY <1>1, <1>2
  <2>3. /\ Rate * (until - now) \in Nat /\ Rate * (now - opened[d]) \in Nat
        /\ spent[d] * Token \in Nat
    BY <1>1, <1>2
  <2>4. spent[d] * Token + 0 <= Capacity + Rate * (until - opened[d])
    BY <2>1, <2>2, <2>3
  <2>5. /\ n.last_refill <= n.paused_until
        /\ ~(n.last_refill < opened[d])
        /\ spent'[d] * Token + n.tokens
             <= Capacity + Rate * (n.last_refill - opened[d])
        /\ spent'[d] * Token <= Capacity + Rate * (now - opened[d])
        /\ known'[d] <= now \/ known'[d] <= n.paused_until
    BY <1>1, <1>2, <1>3, <1>5, <1>6, <1>7, <2>1, <2>4
  <2> QED BY <1>1, <1>3, <1>6, <1>7, <2>5, BucketReplaced
<1>9. TypeOK'
  BY <1>1, <1>3, <1>4, <1>5, <1>6 DEF Inv, TypeOK
<1>10. LoadIsExclusive' /\ HasBucket'
  BY <1>1, <1>3, <1>4, <1>6, NoneIsNoBucket DEF Inv, LoadIsExclusive, HasBucket, TypeOK
<1> QED BY <1>8, <1>9, <1>10 DEF Inv, BucketInv

\* The steps of a call that leave every bucket alone.
LEMMA OtherCallSteps ==
  ASSUME Inv, NEW c \in Calls,
         \/ \E d \in Domains : Begin(c, d)
         \/ Lookup(c) \/ LookupMisses(c) \/ LoadFails(c) \/ Save(c) \/ SaveFails(c)
  PROVE  Inv'
<1> USE RateLimiterAssumption
<1>1. UNCHANGED <<now, buckets, opened, spent, known>>
  BY DEF Begin, Lookup, LookupMisses, LoadFails, Save, SaveFails, history
<1>2. SUFFICES TypeOK' /\ LoadIsExclusive' /\ HasBucket'
  BY <1>1, BucketsUntouched DEF Inv, BucketInv
<1>3. ASSUME NEW d \in Domains, Begin(c, d)
      PROVE  TypeOK' /\ LoadIsExclusive' /\ HasBucket'
  BY <1>1, <1>3 DEF Inv, TypeOK, LoadIsExclusive, HasBucket, Begin
<1>4. CASE Lookup(c)
  BY <1>1, <1>4 DEF Inv, TypeOK, LoadIsExclusive, HasBucket, Lookup
<1>5. CASE LookupMisses(c)
  BY <1>1, <1>5 DEF Inv, TypeOK, LoadIsExclusive, HasBucket, LookupMisses
<1>6. CASE LoadFails(c)
  BY <1>1, <1>6 DEF Inv, TypeOK, LoadIsExclusive, HasBucket, LoadFails
<1>7. CASE Save(c)
  BY <1>1, <1>7 DEF Inv, TypeOK, LoadIsExclusive, HasBucket, Save
<1>8. CASE SaveFails(c)
  BY <1>1, <1>8 DEF Inv, TypeOK, LoadIsExclusive, HasBucket, SaveFails
<1> QED BY <1>3, <1>4, <1>5, <1>6, <1>7, <1>8
\* Time passes, the process restarts, a window is opened.
LEMMA WorldSteps ==
  ASSUME Inv, Tick \/ Restart \/ \E d \in Domains : Observe(d)
  PROVE  Inv'
<1> USE RateLimiterAssumption
<1>1. now \in Nat /\ \A d \in Domains : opened[d] \in Nat
  BY DEF Inv, TypeOK
<1>2. CASE Tick
  <2>1. /\ now' = now + 1 /\ now < MaxTime
        /\ UNCHANGED <<buckets, cooldowns, registry, pc, domain, wake, saving,
                       opened, spent, known>>
    BY <1>2 DEF Tick, history
  <2>2. TypeOK' /\ LoadIsExclusive' /\ HasBucket' /\ WindowOpen' /\ Account'
    BY <1>1, <2>1 DEF Inv, TypeOK, LoadIsExclusive, HasBucket, WindowOpen, Account
  <2>3. BucketSane' /\ KnownIsKept'
    <3>1. BucketSane'
      BY <1>1, <2>1 DEF Inv, TypeOK, BucketSane, Bucket
    <3>2. KnownIsKept'
      BY <1>1, <2>1 DEF Inv, TypeOK, KnownIsKept
    <3> QED BY <3>1, <3>2
  <2>4. RateBound'
    <3> SUFFICES ASSUME NEW d \in Domains
                 PROVE  spent[d] * Token <= Capacity + Rate * (now' - opened[d])
      BY <2>1 DEF RateBound
    <3>1. spent[d] * Token <= Capacity + Rate * (now - opened[d])
      BY DEF Inv, RateBound
    <3>2. Rate * (now' - opened[d]) = Rate * (now - opened[d]) + Rate
      BY <1>1, <2>1
    <3>3. spent[d] * Token \in Nat /\ Rate * (now - opened[d]) \in Int
      BY <1>1 DEF Inv, TypeOK
    <3> QED BY <3>1, <3>2, <3>3
  <2> QED BY <2>2, <2>3, <2>4 DEF Inv
<1>3. CASE Restart
  <2>1. TypeOK'
    BY <1>1, <1>3 DEF Inv, TypeOK, Restart
  <2>2. LoadIsExclusive' /\ HasBucket'
    BY <1>3 DEF Inv, TypeOK, Restart, LoadIsExclusive, HasBucket
  <2>3. BucketSane' /\ WindowOpen' /\ Account' /\ KnownIsKept'
    BY <1>1, <1>3 DEF Restart, BucketSane, WindowOpen, Account, KnownIsKept
  <2>4. RateBound'
    BY <1>1, <1>3 DEF Restart, RateBound
  <2> QED BY <2>1, <2>2, <2>3, <2>4 DEF Inv
<1>4. ASSUME NEW d \in Domains, Observe(d)
      PROVE  Inv'
  <2>1. /\ opened' = [opened EXCEPT ![d] = now] /\ spent' = [spent EXCEPT ![d] = 0]
        /\ UNCHANGED <<now, buckets, cooldowns, registry, pc, domain, wake, saving, known>>
    BY <1>4 DEF Observe
  <2>2. TypeOK' /\ LoadIsExclusive' /\ HasBucket'
    BY <1>1, <2>1 DEF Inv, TypeOK, LoadIsExclusive, HasBucket
  <2>3. BucketSane' /\ WindowOpen' /\ KnownIsKept'
    BY <1>1, <2>1 DEF Inv, TypeOK, BucketSane, WindowOpen, KnownIsKept
  <2>4. /\ opened'[d] = now /\ spent'[d] = 0
        /\ \A e \in Domains : e # d => opened'[e] = opened[e] /\ spent'[e] = spent[e]
    BY <2>1 DEF Inv, TypeOK
  <2>5. Account'
    <3> SUFFICES ASSUME buckets[d] # None, buckets[d].last_refill >= now
                 PROVE  0 * Token + buckets[d].tokens
                          <= Capacity + Rate * (buckets[d].last_refill - now)
      BY <2>1, <2>4 DEF Inv, Account
    <3>1. buckets[d] \in Bucket
      BY DEF Inv, TypeOK
    <3>2. /\ buckets[d].tokens \in Nat /\ buckets[d].tokens <= Capacity
          /\ buckets[d].last_refill \in Nat
      BY <3>1 DEF Bucket
    <3>3. Rate * (buckets[d].last_refill - now) \in Nat
      BY <1>1, <3>2
    <3> QED BY <3>2, <3>3
  <2>6. RateBound'
    BY <1>1, <2>1, <2>4 DEF Inv, RateBound
  <2> QED BY <2>2, <2>3, <2>5, <2>6 DEF Inv
<1> QED BY <1>2, <1>3, <1>4

-----------------------------------------------------------------------------
\* The invariant holds of a limiter without buckets.
LEMMA InitInv == Init => Inv
<1> SUFFICES ASSUME Init PROVE Inv
  OBVIOUS
<1> USE RateLimiterAssumption
<1>1. TypeOK /\ LoadIsExclusive /\ HasBucket
  BY DEF Init, TypeOK, LoadIsExclusive, HasBucket
<1>2. BucketSane /\ WindowOpen /\ Account /\ KnownIsKept /\ RateBound
  BY DEF Init, BucketSane, WindowOpen, Account, KnownIsKept, RateBound
<1> QED BY <1>1, <1>2 DEF Inv

\* Every step preserves the invariant.
LEMMA StepInv == Inv /\ [Next]_vars => Inv'
<1> SUFFICES ASSUME Inv, [Next]_vars PROVE Inv'
  OBVIOUS
<1>1. CASE UNCHANGED vars
  <2>1. UNCHANGED <<now, buckets, opened, spent, known>>
    BY <1>1 DEF vars
  <2>2. TypeOK' /\ LoadIsExclusive' /\ HasBucket'
    BY <1>1 DEF vars, Inv, TypeOK, LoadIsExclusive, HasBucket
  <2> QED BY <2>1, <2>2, BucketsUntouched DEF Inv, BucketInv
<1>2. ASSUME NEW c \in Calls, CallStep(c)
      PROVE  Inv'
  <2>1. CASE Sleep(c) \/ Deny(c)
    BY <2>1, BlockedStep DEF Sleep, Deny, AtBucket
  <2>2. CASE Grant(c)
    BY <2>2, GrantStep
  <2>3. CASE Load(c)
    BY <2>3, LoadStep
  <2>4. CASE \E seconds \in Backoffs : Pause(c, seconds)
    BY <2>4, PauseStep
  <2>5. CASE \/ \E d \in Domains : Begin(c, d)
             \/ Lookup(c) \/ LookupMisses(c) \/ LoadFails(c) \/ Save(c)
             \/ SaveFails(c)
    BY <2>5, OtherCallSteps
  <2> QED BY <1>2, <2>1, <2>2, <2>3, <2>4, <2>5 DEF CallStep
<1>3. CASE Tick \/ Restart \/ \E d \in Domains : Observe(d)
  BY <1>3, WorldSteps
<1> QED BY <1>1, <1>2, <1>3 DEF Next

\* Inv is an invariant of the limiter: of its buckets, its registry lock, its
\* calls and the table together.
THEOREM Invariance == Spec => []Inv
BY InitInv, StepInv, PTL DEF Spec

\* Buckets, rows, lock and calls keep their types; tokens stay within the
\* capacity of the bucket whatever is refilled, restored or paused.
THEOREM TypeCorrect == Spec => []TypeOK
BY Invariance, PTL DEF Inv

\* No window of a process's life grants more than the bucket's capacity plus
\* what flows in meanwhile.
THEOREM RateIsBounded == Spec => []RateBound
BY Invariance, PTL DEF Inv

\* A step that grants a token of a domain is taken after every cooldown of
\* that domain the process knows of.
LEMMA GrantsOutsideCooldowns ==
  Inv /\ [Next]_vars =>
    [\A d \in Domains : spent'[d] > spent[d] => now >= known[d]]_vars
<1> SUFFICES ASSUME Inv, [Next]_vars, NEW d \in Domains, spent'[d] > spent[d]
             PROVE  now >= known[d]
  OBVIOUS
<1> USE RateLimiterAssumption
<1>1. spent[d] \in Nat
  BY DEF Inv, TypeOK
<1>2. spent' # spent
  BY <1>1
<1>3. PICK c \in Calls : Grant(c)
  <2>1. ~ Tick /\ ~ UNCHANGED vars
    BY <1>2 DEF Tick, vars, history
  <2>2. ~ Restart
    BY <1>1 DEF Restart
  <2>3. ASSUME NEW e \in Domains, Observe(e) PROVE FALSE
    BY <1>1, <2>3 DEF Observe, Inv, TypeOK
  <2>4. PICK c \in Calls : CallStep(c)
    BY <2>1, <2>2, <2>3 DEF Next
  <2>5. Grant(c)
    BY <1>2, <2>4 DEF CallStep, Begin, Lookup, LookupMisses, Load, LoadFails, Sleep,
                      Deny, Pause, Save, SaveFails, history
  <2> QED BY <2>5
<1>4. d = domain[c] /\ buckets[d] # None
  BY <1>1, <1>3 DEF Grant, Inv, TypeOK, HasBucket, AtBucket
<1>5. now >= buckets[d].paused_until
  BY <1>3, <1>4 DEF Grant
<1>6. buckets[d] \in Bucket /\ known[d] \in Nat /\ now \in Nat
  BY <1>4 DEF Inv, TypeOK
<1> QED BY <1>4, <1>5, <1>6 DEF Inv, KnownIsKept, Bucket

\* No token is granted before the end of a cooldown the process knows of.
THEOREM CooldownsAreKept == Spec => NoGrantDuringCooldown
BY Invariance, GrantsOutsideCooldowns, PTL DEF Spec, NoGrantDuringCooldown

-----------------------------------------------------------------------------
\* Division by a positive number is monotone.
LEMMA DivisionIsMonotone ==
  ASSUME NEW r \in Nat \ {0}, NEW a \in Int, NEW b \in Int, a <= b
  PROVE  a \div r <= b \div r
<1> DEFINE p == a \div r
           q == b \div r
<1>1. p \in Int /\ q \in Int /\ r * p <= a /\ b < r * (q + 1)
  OBVIOUS
<1> HIDE DEF p, q
<1>2. SUFFICES ASSUME q + 1 <= p PROVE FALSE
  BY <1>1 DEF p, q
<1>3. r * (q + 1) <= r * p
  BY <1>1, <1>2
<1> QED BY <1>1, <1>3

\* Whoever misses part of a token waits no longer than for a whole one.
LEMMA RefillTimeIsBounded ==
  ASSUME NEW tokens \in Nat
  PROVE  RefillTime(tokens) \in Int /\ RefillTime(0) \in Int
         /\ RefillTime(tokens) <= RefillTime(0)
<1> USE RateLimiterAssumption
<1>1. /\ Token - tokens + Rate - 1 \in Int /\ Token - 0 + Rate - 1 \in Int
      /\ Token - tokens + Rate - 1 <= Token - 0 + Rate - 1
  OBVIOUS
<1>2. (Token - tokens + Rate - 1) \div Rate <= (Token - 0 + Rate - 1) \div Rate
  BY <1>1, DivisionIsMonotone
<1>3. /\ (Token - tokens + Rate - 1) \div Rate \in Int
      /\ (Token - 0 + Rate - 1) \div Rate \in Int
  BY <1>1
<1> QED BY <1>2, <1>3 DEF RefillTime

\* What keeps a sleeper's bound: its bucket stays, paused at least as long, and
\* time does not go back.
LEMMA SleepersKeepTheirBound ==
  ASSUME Inv, SleepIsBounded,
         domain' = domain, wake' = wake, now' \in Nat, now' >= now,
         \A c \in Calls : pc'[c] = "asleep" => pc[c] = "asleep",
         \A d \in Domains : buckets[d] # None =>
           buckets'[d] # None /\ buckets'[d] \in Bucket
           /\ buckets'[d].paused_until >= buckets[d].paused_until
  PROVE  SleepIsBounded'
<1> SUFFICES ASSUME NEW c \in Calls, pc'[c] = "asleep"
             PROVE  /\ buckets'[domain[c]] # None
                    /\ \/ wake[c] <= buckets'[domain[c]].paused_until
                       \/ wake[c] <= now' + RefillTime(0)
  BY DEF SleepIsBounded
<1> DEFINE d == domain[c]
<1>1. /\ d \in Domains /\ buckets[d] # None /\ buckets[d] \in Bucket
      /\ wake[c] \in Int /\ now \in Nat
      /\ wake[c] <= buckets[d].paused_until \/ wake[c] <= now + RefillTime(0)
  BY DEF SleepIsBounded, Inv, TypeOK
<1>2. RefillTime(0) \in Int
  BY RefillTimeIsBounded
<1>3. /\ buckets'[d] # None /\ buckets'[d].paused_until \in Nat
      /\ buckets[d].paused_until \in Nat
      /\ buckets'[d].paused_until >= buckets[d].paused_until
  BY <1>1 DEF Bucket
<1> HIDE DEF d
<1>4. wake[c] <= buckets'[d].paused_until \/ wake[c] <= now' + RefillTime(0)
  BY <1>1, <1>2, <1>3
<1> QED BY <1>3, <1>4 DEF d

\* A call that goes to sleep does so for the pause or for a token; the refill
\* it leaves behind keeps the pause.
LEMMA BlockedSleeps ==
  ASSUME Inv, SleepIsBounded, NEW c \in Calls, AtBucket(c), Blocked(c),
         UNCHANGED <<now, cooldowns, registry, domain, saving, history>>,
         NEW where \in {"asleep", "done"}, pc' = [pc EXCEPT ![c] = where]
  PROVE  SleepIsBounded'
<1> USE RateLimiterAssumption
<1> DEFINE d == domain[c]
           b == buckets[d]
<1>1. d \in Domains /\ b \in Bucket /\ b # None /\ now \in Nat
  BY DEF Inv, TypeOK, AtBucket, HasBucket
<1>2. RefillTime(0) \in Int
  BY RefillTimeIsBounded
<1>3. /\ wake' = [wake EXCEPT ![c] = wake'[c]]
      /\ wake'[c] <= b.paused_until \/ wake'[c] <= now + RefillTime(0)
      /\ \A e \in Domains : buckets[e] # None =>
           buckets'[e] # None /\ buckets'[e].paused_until = buckets[e].paused_until
  <2>1. CASE now < b.paused_until
    <3>1. UNCHANGED buckets /\ wake' = [wake EXCEPT ![c] = b.paused_until]
      BY <1>1, <2>1 DEF Blocked, Bucket
    <3>2. wake'[c] = b.paused_until
      BY <3>1 DEF Inv, TypeOK
    <3>3. wake' = [wake EXCEPT ![c] = wake'[c]]
      BY <3>1, <3>2
    <3>4. b.paused_until <= b.paused_until
      BY <1>1 DEF Bucket
    <3>5. \A e \in Domains : buckets[e] # None =>
            buckets'[e] # None /\ buckets'[e].paused_until = buckets[e].paused_until
      BY <3>1
    <3> HIDE DEF b
    <3> QED BY <3>2, <3>3, <3>4, <3>5
  <2>2. CASE ~(now < b.paused_until)
    <3> DEFINE n == [tokens |-> Refilled(b), paused_until |-> b.paused_until,
                     last_refill |-> now]
    <3>1. /\ buckets' = [buckets EXCEPT ![d] = n]
          /\ wake' = [wake EXCEPT ![c] = now + RefillTime(Refilled(b))]
      BY <2>2 DEF Blocked
    <3>2. b.last_refill <= now
      BY <1>1, <2>2 DEF Inv, BucketSane, Bucket
    <3>3. Refilled(b) \in Nat /\ Refilled(b) \in 0..Capacity
      BY <1>1, <3>2, RefillRange
    <3>4. /\ RefillTime(Refilled(b)) \in Int
          /\ RefillTime(Refilled(b)) <= RefillTime(0)
      BY <3>3, RefillTimeIsBounded
    <3>5. wake'[c] = now + RefillTime(Refilled(b))
      BY <3>1 DEF Inv, TypeOK
    <3>6. n \in Bucket /\ n # None /\ n.paused_until = b.paused_until
      BY <1>1, <3>3, NoneIsNoBucket DEF Bucket
    <3> HIDE DEF n
    <3>7. \A e \in Domains : buckets[e] # None =>
            buckets'[e] # None /\ buckets'[e].paused_until = buckets[e].paused_until
      BY <1>1, <3>1, <3>6 DEF Inv, TypeOK
    <3>8. now + RefillTime(Refilled(b)) <= now + RefillTime(0)
      BY <1>1, <1>2, <3>4
    <3>9. wake'[c] <= now + RefillTime(0)
      BY <3>5, <3>8
    <3>10. wake' = [wake EXCEPT ![c] = wake'[c]]
      BY <3>1, <3>5
    <3> QED BY <3>7, <3>9, <3>10
  <2> QED BY <2>1, <2>2
<1> HIDE DEF b
<1>4. SUFFICES ASSUME NEW x \in Calls, pc'[x] = "asleep"
               PROVE  /\ buckets'[domain[x]] # None
                      /\ \/ wake'[x] <= buckets'[domain[x]].paused_until
                         \/ wake'[x] <= now + RefillTime(0)
  BY DEF SleepIsBounded
<1>5. CASE x = c
  BY <1>1, <1>3, <1>5 DEF b
<1>6. CASE x # c
  <2>1. pc[x] = "asleep" /\ wake'[x] = wake[x]
    BY <1>3, <1>6, <1>4 DEF Inv, TypeOK
  <2>2. domain[x] \in Domains
    BY DEF Inv, TypeOK
  <2> QED BY <1>3, <2>1, <2>2 DEF SleepIsBounded
<1> QED BY <1>5, <1>6

\* No step makes a sleeper wait for a time that nothing brings about.
LEMMA SleepStep ==
  ASSUME Inv, SleepIsBounded, [Next]_vars
  PROVE  SleepIsBounded'
<1> USE RateLimiterAssumption
<1>1. Inv' /\ now \in Nat
  BY StepInv DEF Inv, TypeOK
<1>2. \A d \in Domains : buckets[d] # None => buckets[d] \in Bucket
  BY DEF Inv, TypeOK
<1>3. now' = now \/ now' = now + 1
  BY DEF Next, CallStep, Begin, Lookup, LookupMisses, Load, LoadFails, Grant, Sleep,
         Deny, Pause, Save, SaveFails, Observe, Tick, Restart, vars
<1>4. now' \in Nat /\ now' >= now
  BY <1>1, <1>3
<1>5. CASE UNCHANGED vars \/ Tick \/ \E d \in Domains : Observe(d)
  <2>1. UNCHANGED <<buckets, pc, domain, wake>>
    BY <1>5 DEF vars, Tick, Observe
  <2>2. \A d \in Domains : buckets[d] # None =>
          buckets'[d] # None /\ buckets'[d] \in Bucket
          /\ buckets'[d].paused_until >= buckets[d].paused_until
    BY <1>2, <2>1 DEF Bucket
  <2> QED BY <1>4, <2>1, <2>2, SleepersKeepTheirBound
<1>6. CASE Restart
  BY <1>6 DEF Restart, SleepIsBounded
<1>7. ASSUME NEW c \in Calls, CallStep(c)
      PROVE  SleepIsBounded'
  <2>1. CASE Sleep(c) \/ Deny(c)
    BY <2>1, BlockedSleeps DEF Sleep, Deny, AtBucket
  <2>2. CASE Grant(c)
    <3> DEFINE d == domain[c]
               n == [tokens |-> Refilled(buckets[d]) - Token,
                     paused_until |-> buckets[d].paused_until, last_refill |-> now]
    <3>1. /\ buckets' = [buckets EXCEPT ![d] = n] /\ pc' = [pc EXCEPT ![c] = "done"]
          /\ domain' = domain /\ wake' = wake
      BY <2>2 DEF Grant
    <3>2. \A e \in Domains : buckets[e] # None =>
            buckets'[e] \in {buckets[e], n} /\ (e = d \/ buckets'[e] = buckets[e])
      BY <3>1 DEF Inv, TypeOK
    <3>3. /\ d \in Domains /\ buckets[d] # None /\ buckets'[d] = n
          /\ buckets'[d] \in Bucket \cup {None}
      BY <1>1, <2>2, <3>1 DEF Grant, Inv, TypeOK, AtBucket, HasBucket
    <3>4. n # None /\ n \in Bucket
      <4>1. n \in [tokens : Int, paused_until : Int, last_refill : Int]
        <5>1. buckets[d] \in Bucket
          BY <1>2, <3>3
        <5>2. buckets[d].last_refill <= now
          BY <1>1, <3>3, <5>1, <2>2 DEF Inv, BucketSane, Grant, Bucket
        <5>3. Refilled(buckets[d]) \in 0..Capacity
          BY <1>1, <5>1, <5>2, RefillRange
        <5> QED BY <1>1, <5>1, <5>3 DEF Bucket
      <4> QED BY <3>3, <4>1
    <3>5. n.paused_until = buckets[d].paused_until
      OBVIOUS
    <3> HIDE DEF n, d
    <3>6. \A e \in Domains : buckets[e] # None =>
            buckets'[e] # None /\ buckets'[e] \in Bucket
            /\ buckets'[e].paused_until >= buckets[e].paused_until
      BY <1>2, <3>2, <3>3, <3>4, <3>5 DEF Bucket
    <3>7. \A x \in Calls : pc'[x] = "asleep" => pc[x] = "asleep"
      BY <3>1 DEF Inv, TypeOK
    <3> QED BY <1>4, <3>1, <3>6, <3>7, SleepersKeepTheirBound
  <2>3. CASE Load(c)
    <3>1. /\ buckets[domain[c]] = None /\ UNCHANGED <<domain, wake>>
          /\ pc' = [pc EXCEPT ![c] = "ready"]
          /\ \A e \in Domains : e # domain[c] => buckets'[e] = buckets[e]
      BY <2>3 DEF Load, Inv, LoadIsExclusive, TypeOK
    <3>2. \A e \in Domains : buckets[e] # None =>
            buckets'[e] # None /\ buckets'[e] \in Bucket
            /\ buckets'[e].paused_until >= buckets[e].paused_until
      BY <1>2, <3>1 DEF Bucket
    <3>3. \A x \in Calls : pc'[x] = "asleep" => pc[x] = "asleep"
      BY <3>1 DEF Inv, TypeOK
    <3> QED BY <1>4, <3>1, <3>2, <3>3, SleepersKeepTheirBound
  <2>4. ASSUME NEW seconds \in Backoffs, Pause(c, seconds)
        PROVE  SleepIsBounded'
    <3> DEFINE d == domain[c]
               until == Most(buckets[d].paused_until, now + seconds)
               n == [tokens |-> 0, paused_until |-> until, last_refill |-> until]
    <3>1. /\ buckets' = [buckets EXCEPT ![d] = n]
          /\ pc' = [pc EXCEPT ![c] = "saving"] /\ UNCHANGED <<domain, wake>>
      BY <2>4 DEF Pause
    <3>2. d \in Domains /\ buckets[d] # None /\ buckets[d] \in Bucket
      BY <1>2, <2>4 DEF Pause, Inv, TypeOK, HasBucket
    <3>3. until \in Nat /\ until >= buckets[d].paused_until
      <4>1. buckets[d].paused_until \in Nat /\ seconds \in Nat
        BY <3>2 DEF Bucket
      <4> HIDE DEF d
      <4> QED BY <1>1, <4>1 DEF Most
    <3> HIDE DEF until
    <3>4. n \in Bucket /\ n # None /\ n.paused_until = until
      BY <3>3, NoneIsNoBucket DEF Bucket
    <3> HIDE DEF n, d
    <3>5. \A e \in Domains : buckets[e] # None =>
            buckets'[e] # None /\ buckets'[e] \in Bucket
            /\ buckets'[e].paused_until >= buckets[e].paused_until
      <4> SUFFICES ASSUME NEW e \in Domains, buckets[e] # None
                   PROVE  buckets'[e] # None /\ buckets'[e] \in Bucket
                          /\ buckets'[e].paused_until >= buckets[e].paused_until
        OBVIOUS
      <4>1. CASE e = d
        BY <3>1, <3>3, <3>4, <4>1 DEF Inv, TypeOK
      <4>2. CASE e # d
        BY <1>2, <3>1, <4>2 DEF Inv, TypeOK, Bucket
      <4> QED BY <4>1, <4>2
    <3>6. \A x \in Calls : pc'[x] = "asleep" => pc[x] = "asleep"
      BY <3>1 DEF Inv, TypeOK
    <3> QED BY <1>4, <3>1, <3>5, <3>6, SleepersKeepTheirBound
  <2>5. CASE \/ \E d \in Domains : Begin(c, d)
             \/ Lookup(c) \/ LookupMisses(c) \/ LoadFails(c) \/ Save(c)
             \/ SaveFails(c)
    <3>1. UNCHANGED <<buckets, wake, now>>
      BY <2>5 DEF Begin, Lookup, LookupMisses, LoadFails, Save, SaveFails
    <3> SUFFICES ASSUME NEW x \in Calls, pc'[x] = "asleep"
                 PROVE  pc[x] = "asleep" /\ domain'[x] = domain[x]
      BY <3>1 DEF SleepIsBounded
    <3>2. CASE \E d \in Domains : Begin(c, d)
      BY <3>2 DEF Begin, Inv, TypeOK
    <3>3. CASE ~ \E d \in Domains : Begin(c, d)
      <4>1. UNCHANGED domain
        BY <2>5, <3>3 DEF Lookup, LookupMisses, LoadFails, Save, SaveFails
      <4>2. \E where \in {"ready", "loading", "done"} : pc' = [pc EXCEPT ![c] = where]
        BY <2>5, <3>3 DEF Lookup, LookupMisses, LoadFails, Save, SaveFails
      <4> QED BY <4>1, <4>2 DEF Inv, TypeOK
    <3> QED BY <3>2, <3>3
  <2> QED BY <1>7, <2>1, <2>2, <2>3, <2>4, <2>5 DEF CallStep
<1> QED BY <1>5, <1>6, <1>7 DEF Next

\* A sleeping call has a bucket, and sleeps no longer than that bucket's pause
\* or than a whole token takes to flow in.
THEOREM SleepsAreBounded == Spec => []SleepIsBounded
<1>1. Init => SleepIsBounded
  BY DEF Init, SleepIsBounded
<1> QED BY <1>1, Invariance, SleepStep, PTL DEF Spec
=============================================================================
