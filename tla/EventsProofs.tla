---------------------------- MODULE EventsProofs ----------------------------
(***************************************************************************)
(* What a peer gets and what it can miss, for every number of connections  *)
(* and of messages, whoever connects, leaves or fails in a broadcast.      *)
(***************************************************************************)
EXTENDS Events, FiniteSetTheorems, SequenceTheorems, TLAPS

Types ==
    /\ TypeOK
    /\ active \in Seq(Clients)
    /\ received \in [Clients -> Seq(Nat)]
    /\ due \in [Clients -> SUBSET Nat]

\* A peer that is there has a handler, and is listed if it is owed anything; the
\* others got nothing and are owed nothing.  Nobody comes back.
PeersAreListed ==
    /\ \A c \in open : handler[c] = "receiving" /\ (c \in Range(active) \/ due[c] = {})
    /\ \A c \in Clients \ open : received[c] = <<>> /\ due[c] = {}
    /\ \A c \in Range(active) \cup awaited \cup dead \cup present : handler[c] # "none"

\* Messages are queued in their order, behind the one that is sent around and
\* behind all that were received.
QueueIsInOrder ==
    /\ \A j, k \in DOMAIN queue : j < k => queue[j] < queue[k]
    /\ \A k \in DOMAIN queue :
           /\ message < queue[k] /\ queue[k] \in 1 .. published
           /\ \A c \in Clients : \A m \in Range(received[c]) : m < queue[k]
    /\ listener = "waiting" => message = 0
    /\ listener = "sending" =>
           /\ message \in 1 .. published
           /\ \A c \in Clients : \A m \in Range(received[c]) : m <= message

ReceivedInOrder ==
    \A c \in Clients : \A j, k \in DOMAIN received[c] :
        j < k => received[c][j] < received[c][k]

\* What a peer is owed is queued, or sent around and not past it.
DueIsToCome ==
    subscribed => \A c \in Clients : \A m \in due[c] :
        \/ m \in Range(queue)
        \/ /\ listener = "sending" /\ m = message
           /\ c \in present /\ m \notin Range(received[c])

\* Who is at the iterator's position or behind it, or is being sent the
\* message, has not got it.
IterationIsExact ==
    /\ awaited = {} \/ \E c \in Clients : awaited = {c}
    /\ listener = "waiting" => awaited = {}
    /\ listener = "sending" => position > 0
    /\ \A c \in awaited : message \notin Range(received[c])
    /\ listener = "sending" => \A k \in DOMAIN active : k >= position =>
           active[k] \notin awaited /\ message \notin Range(received[active[k]])

\* The peers that the iterator has gone past without a send.
Passed ==
    {c \in (present \cap open) \ dead :
        /\ c \notin awaited /\ message \notin Range(received[c])
        /\ \E k \in DOMAIN active : k < position /\ active[k] = c}

\* The connections whose handlers have ended: no more were removed by one.
Ended == {c \in Clients : handler[c] = "ended"}

PassedAreCounted ==
    /\ listener = "sending" => Cardinality(Passed) <= departures
    /\ departures <= Cardinality(Ended)

Inv ==
    /\ Types
    /\ PeersAreListed
    /\ QueueIsInOrder
    /\ ReceivedInOrder
    /\ DueIsToCome
    /\ IterationIsExact
    /\ PassedAreCounted

-----------------------------------------------------------------------------
(***************************************************************************)
(* Facts about lists.                                                      *)
(***************************************************************************)
\* The numbers up to n are n numbers.
LEMMA UpTo ==
  ASSUME NEW n \in Nat
  PROVE  IsFiniteSet(1..n) /\ Cardinality(1..n) = n
<1>1. 1 \in Int /\ n \in Int
  OBVIOUS
<1>2. IsFiniteSet(1..n) /\ Cardinality(1..n) = IF 1 > n THEN 0 ELSE n - 1 + 1
  BY <1>1, FS_Interval
<1>3. Cardinality(1..n) = IF 1 > n THEN 0 ELSE n
  BY <1>2
<1> QED BY <1>2, <1>3

\* The number of elements up to it is the place of an element in a set of
\* numbers: places grow with the elements, and each is taken.
LEMMA Places ==
  ASSUME NEW T \in SUBSET Nat, IsFiniteSet(T)
  PROVE  /\ \A k \in T : Cardinality({j \in T : j <= k}) \in 1..Cardinality(T)
         /\ \A k, l \in T : k < l =>
              Cardinality({j \in T : j <= k}) < Cardinality({j \in T : j <= l})
         /\ \A n \in 1..Cardinality(T) : \E k \in T : Cardinality({j \in T : j <= k}) = n
<1> DEFINE upTo(k) == {j \in T : j <= k}
           place == [k \in T |-> Cardinality(upTo(k))]
<1>1. \A k \in T : /\ IsFiniteSet(upTo(k)) /\ Cardinality(upTo(k)) \in Nat
                   /\ Cardinality(upTo(k)) <= Cardinality(T)
  <2> TAKE k \in T
  <2>1. upTo(k) \in SUBSET T
    OBVIOUS
  <2> QED BY <2>1, FS_Subset, FS_CardinalityType
<1>2. Cardinality(T) \in Nat
  BY FS_CardinalityType
<1>3. \A k \in T : Cardinality(upTo(k)) # 0
  <2> TAKE k \in T
  <2>1. k \in upTo(k)
    OBVIOUS
  <2> QED BY <1>1, <2>1, FS_EmptySet
<1>4. \A k \in T : Cardinality(upTo(k)) \in 1..Cardinality(T)
  BY <1>1, <1>2, <1>3
<1>5. ASSUME NEW k \in T, NEW l \in T, k < l
      PROVE  Cardinality(upTo(k)) < Cardinality(upTo(l))
  <2>1. upTo(k) \in SUBSET upTo(l)
    <3>1. ASSUME NEW j \in T, j <= k PROVE j <= l
      <4>1. j \in Nat /\ k \in Nat /\ l \in Nat
        OBVIOUS
      <4> QED BY <1>5, <3>1, <4>1
    <3> QED BY <3>1
  <2>2. l \in upTo(l) /\ l \notin upTo(k)
    BY <1>5
  <2>3. /\ Cardinality(upTo(k)) <= Cardinality(upTo(l))
        /\ Cardinality(upTo(k)) # Cardinality(upTo(l))
    BY <1>1, <2>1, <2>2, FS_Subset
  <2> QED BY <1>1, <2>3
<1>6. ASSUME NEW n \in 1..Cardinality(T), \A k \in T : Cardinality(upTo(k)) # n
      PROVE  FALSE
  <2> DEFINE others == (1..Cardinality(T)) \ {n}
  <2>1. IsFiniteSet(1..Cardinality(T)) /\ Cardinality(1..Cardinality(T)) = Cardinality(T)
    BY <1>2, UpTo
  <2>2. IsFiniteSet(others) /\ Cardinality(others) = Cardinality(T) - 1
    <3>1. /\ IsFiniteSet(others)
          /\ Cardinality(others) = Cardinality(1..Cardinality(T)) - 1
      BY <2>1, FS_RemoveElement
    <3> QED BY <2>1, <3>1
  <2>3. place \in [T -> others]
    BY <1>4, <1>6
  <2>4. PICK x, y \in T : x # y /\ place[x] = place[y]
    <3>1. Cardinality(others) < Cardinality(T)
      BY <1>2, <2>2
    <3> HIDE DEF others, place
    <3> QED BY <2>2, <2>3, <3>1, FS_PigeonHole
  <2>5. x < y \/ y < x
    BY <2>4
  <2>6. Cardinality(upTo(x)) = Cardinality(upTo(y))
    BY <2>4
  <2> QED BY <1>1, <1>5, <2>5, <2>6
<1> QED BY <1>4, <1>5, <1>6

\* A list of connections without those that failed lists the others, each once.
LEMMA WithoutLists ==
  ASSUME NEW s \in Seq(Clients), IsInjective(s), NEW gone
  PROVE  /\ Without(s, gone) \in Seq(Clients)
         /\ IsInjective(Without(s, gone))
         /\ Range(Without(s, gone)) = Range(s) \ gone
<1> DEFINE stay == {k \in DOMAIN s : s[k] \notin gone}
           place(k) == Cardinality({j \in stay : j <= k})
           at(n) == CHOOSE k \in stay : place(k) = n
           t == Without(s, gone)
<1>1. stay \in SUBSET Nat /\ stay \subseteq DOMAIN s /\ IsFiniteSet(stay)
      /\ Cardinality(stay) \in Nat
  <2>1. DOMAIN s = 1..Len(s) /\ Len(s) \in Nat
    OBVIOUS
  <2>2. stay \in SUBSET (1..Len(s)) /\ IsFiniteSet(1..Len(s))
    BY <2>1, UpTo
  <2> QED BY <2>1, <2>2, FS_Subset, FS_CardinalityType
<1>2. \A k \in stay : place(k) \in 1..Cardinality(stay)
  BY <1>1, Places
<1>3. \A k, l \in stay : k < l => place(k) < place(l)
  BY <1>1, Places
<1>4. \A n \in 1..Cardinality(stay) : \E k \in stay : place(k) = n
  BY <1>1, Places
<1>5. t = [n \in 1..Cardinality(stay) |-> s[at(n)]]
  BY DEF Without
<1>6. \A n \in 1..Cardinality(stay) : at(n) \in stay /\ place(at(n)) = n
  BY <1>4
<1>7. \A k \in stay : at(place(k)) = k
  <2> TAKE k \in stay
  <2>1. place(k) \in 1..Cardinality(stay)
    BY <1>2
  <2>2. at(place(k)) \in stay /\ place(at(place(k))) = place(k)
    BY <1>6, <2>1
  <2>3. at(place(k)) < k \/ k < at(place(k)) \/ at(place(k)) = k
    BY <1>1, <2>2
  <2> QED BY <1>2, <1>3, <2>1, <2>2, <2>3
<1> HIDE DEF stay, place, at, t
<1>8. \A n \in 1..Cardinality(stay) : s[at(n)] \in Clients /\ s[at(n)] \notin gone
  BY <1>1, <1>6 DEF stay
<1>9. t \in Seq(Clients) /\ DOMAIN t = 1..Cardinality(stay)
  BY <1>1, <1>5, <1>8
<1>10. IsInjective(t)
  <2> SUFFICES ASSUME NEW m \in DOMAIN t, NEW n \in DOMAIN t, t[m] = t[n]
               PROVE  m = n
    BY DEF IsInjective
  <2>1. s[at(m)] = s[at(n)] /\ at(m) \in stay /\ at(n) \in stay
    BY <1>5, <1>6, <1>9
  <2>2. at(m) = at(n)
    BY <1>1, <2>1 DEF IsInjective
  <2> QED BY <1>6, <1>9, <2>2
<1>11. Range(t) = Range(s) \ gone
  <2>1. ASSUME NEW c \in Range(t) PROVE c \in Range(s) \ gone
    <3>1. PICK n \in 1..Cardinality(stay) : c = s[at(n)]
      BY <1>5, <1>9, <2>1 DEF Range
    <3> QED BY <1>1, <1>6, <1>8, <3>1 DEF Range
  <2>2. ASSUME NEW c \in Range(s) \ gone PROVE c \in Range(t)
    <3>1. PICK k \in DOMAIN s : s[k] = c
      BY <2>2 DEF Range
    <3>2. k \in stay
      BY <2>2, <3>1 DEF stay
    <3>3. place(k) \in DOMAIN t /\ t[place(k)] = c
      BY <1>2, <1>5, <1>7, <1>9, <3>1, <3>2
    <3> QED BY <3>3 DEF Range
  <2> QED BY <2>1, <2>2
<1> QED BY <1>9, <1>10, <1>11 DEF t

\* list.remove: the connection goes and those behind it move up.
LEMMA RemoveFirstShifts ==
  ASSUME NEW s \in Seq(Clients), IsInjective(s), NEW p \in DOMAIN s
  PROVE  LET t == RemoveFirst(s, s[p])
         IN  /\ t \in Seq(Clients)
             /\ Len(t) = Len(s) - 1
             /\ \A k \in 1..Len(t) : t[k] = IF k < p THEN s[k] ELSE s[k + 1]
<1> DEFINE t == RemoveFirst(s, s[p])
           same == {k \in 1..Len(s) : s[k] = s[p]}
<1>1. same = {p} /\ p \in 1..Len(s) /\ Len(s) \in Nat
  BY DEF IsInjective
<1>2. Min(same) = p
  BY <1>1 DEF Min
<1>3. t = RemoveAt(s, p)
  <2>1. SelectInSeq(s, LAMBDA v : v = s[p]) = Min(same)
    BY <1>1 DEF SelectInSeq
  <2> QED BY <1>1, <1>2, <2>1 DEF RemoveFirst
<1>4. t = SubSeq(s, 1, p - 1) \o SubSeq(s, p + 1, Len(s))
  BY <1>3 DEF RemoveAt
<1> DEFINE u == SubSeq(s, 1, p - 1)
           v == SubSeq(s, p + 1, Len(s))
<1>5. /\ u \in Seq(Clients) /\ Len(u) = p - 1
      /\ \A i \in 1..(p - 1) : u[i] = s[i]
  BY <1>1, SubSeqProperties
<1>6. /\ v \in Seq(Clients) /\ Len(v) = Len(s) - p
      /\ \A i \in 1..(Len(s) - p) : v[i] = s[p + i]
  BY <1>1, SubSeqProperties
<1> HIDE DEF u, v
<1>7. /\ u \o v \in Seq(Clients) /\ Len(u \o v) = Len(s) - 1
      /\ \A k \in 1..(Len(s) - 1) : (u \o v)[k] = IF k < p THEN s[k] ELSE s[k + 1]
  <2>1. u \o v \in Seq(Clients) /\ Len(u \o v) = Len(s) - 1
    BY <1>1, <1>5, <1>6
  <2>2. ASSUME NEW k \in 1..(Len(s) - 1), k < p PROVE (u \o v)[k] = s[k]
    BY <1>1, <1>5, <1>6, <2>2
  <2>3. ASSUME NEW k \in 1..(Len(s) - 1), ~(k < p) PROVE (u \o v)[k] = s[k + 1]
    <3>1. k - Len(u) \in 1..(Len(s) - p) /\ p + (k - Len(u)) = k + 1
      BY <1>1, <1>5, <2>3
    <3>2. k \in 1..(Len(u) + Len(v)) /\ ~(k <= Len(u))
      BY <1>1, <1>5, <1>6, <2>3
    <3>3. (u \o v)[k] = v[k - Len(u)]
      BY <1>5, <1>6, <3>2, ConcatProperties
    <3> QED BY <1>6, <3>1, <3>3
  <2> QED BY <2>1, <2>2, <2>3
<1> QED BY <1>4, <1>7 DEF u, v

\* So the list stays one without repetition, of the other connections.
LEMMA RemoveFirstLists ==
  ASSUME NEW s \in Seq(Clients), IsInjective(s), NEW c
  PROVE  /\ RemoveFirst(s, c) \in Seq(Clients)
         /\ IsInjective(RemoveFirst(s, c))
         /\ Range(RemoveFirst(s, c)) = Range(s) \ {c}
         /\ c \notin Range(s) => RemoveFirst(s, c) = s
<1> DEFINE t == RemoveFirst(s, c)
<1>1. CASE c \notin Range(s)
  <2>1. ~ \E i \in 1..Len(s) : s[i] = c
    BY <1>1 DEF Range
  <2> QED BY <1>1, <2>1 DEF RemoveFirst
<1>2. CASE c \in Range(s)
  <2>1. PICK p \in DOMAIN s : s[p] = c
    BY <1>2 DEF Range
  <2>2. /\ t \in Seq(Clients) /\ Len(t) = Len(s) - 1
        /\ \A k \in 1..Len(t) : t[k] = IF k < p THEN s[k] ELSE s[k + 1]
    BY <2>1, RemoveFirstShifts
  <2> HIDE DEF t
  <2>3. p \in 1..Len(s) /\ Len(s) \in Nat /\ DOMAIN t = 1..Len(t) /\ DOMAIN s = 1..Len(s)
    BY <2>2
  <2>4. IsInjective(t)
    <3> DEFINE from(k) == IF k < p THEN k ELSE k + 1
    <3>1. \A k \in DOMAIN t : from(k) \in DOMAIN s /\ t[k] = s[from(k)]
      BY <2>2, <2>3
    <3>2. \A k, l \in DOMAIN t : from(k) = from(l) => k = l
      BY <2>3
    <3> HIDE DEF from
    <3> QED BY <3>1, <3>2 DEF IsInjective
  <2>5. ASSUME NEW d \in Range(t) PROVE d \in Range(s) \ {c}
    <3>1. PICK k \in DOMAIN t : d = t[k]
      BY <2>5 DEF Range
    <3>2. CASE k < p
      BY <2>1, <2>2, <2>3, <3>1, <3>2 DEF Range, IsInjective
    <3>3. CASE ~(k < p)
      <4>1. k + 1 \in DOMAIN s /\ k + 1 # p /\ d = s[k + 1]
        BY <2>2, <2>3, <3>1, <3>3
      <4> QED BY <2>1, <4>1 DEF Range, IsInjective
    <3> QED BY <3>2, <3>3
  <2>6. ASSUME NEW d \in Range(s) \ {c} PROVE d \in Range(t)
    <3>1. PICK k \in DOMAIN s : d = s[k]
      BY <2>6 DEF Range
    <3>2. k # p
      BY <2>1, <2>6, <3>1
    <3>3. CASE k < p
      <4>1. k \in DOMAIN t /\ t[k] = d
        BY <2>2, <2>3, <3>1, <3>3
      <4> QED BY <4>1 DEF Range
    <3>4. CASE ~(k < p)
      <4>1. k - 1 \in DOMAIN t /\ t[k - 1] = d
        BY <2>2, <2>3, <3>1, <3>2, <3>4
      <4> QED BY <4>1 DEF Range
    <3> QED BY <3>3, <3>4
  <2> QED BY <1>2, <2>2, <2>4, <2>5, <2>6 DEF t
<1> QED BY <1>1, <1>2

-----------------------------------------------------------------------------
(***************************************************************************)
(* Each step keeps the invariant.                                          *)
(***************************************************************************)
LEMMA ClientsAreFinite ==
  /\ IsFiniteSet(Clients) /\ Cardinality(Clients) \in Nat /\ MaxMessages \in Nat
  /\ \A S \in SUBSET Clients :
       /\ IsFiniteSet(S) /\ Cardinality(S) \in Nat
       /\ Cardinality(S) <= Cardinality(Clients)
BY EventsAssumption, FS_CardinalityType, FS_Subset

\* Nobody new is passed and no removal is forgotten: the count stays right.
LEMMA CountStays ==
  ASSUME Inv, Passed' \subseteq Passed, listener' = listener, departures' = departures,
         handler' \in [Clients -> {"none", "receiving", "ended"}],
         \A c \in Clients : handler[c] = "ended" => handler'[c] = "ended"
  PROVE  PassedAreCounted'
<1>1. /\ Passed \in SUBSET Clients /\ Ended \in SUBSET Clients /\ Ended' \in SUBSET Clients
      /\ departures \in Nat
  BY DEF Inv, Types, TypeOK, Passed, Ended
<1>2. /\ IsFiniteSet(Passed) /\ Cardinality(Passed) \in Nat
      /\ IsFiniteSet(Ended') /\ Cardinality(Ended') \in Nat /\ Cardinality(Ended) \in Nat
  BY <1>1, ClientsAreFinite
<1>3. Cardinality(Passed') \in Nat /\ Cardinality(Passed') <= Cardinality(Passed)
  BY <1>2, FS_Subset, FS_CardinalityType
<1>4. Ended \subseteq Ended'
  BY DEF Ended
<1>5. Cardinality(Ended) <= Cardinality(Ended')
  BY <1>2, <1>4, FS_Subset
<1> QED BY <1>1, <1>2, <1>3, <1>5 DEF Inv, PassedAreCounted

\* A list with one more connection behind its end.
LEMMA AppendLists ==
  ASSUME NEW s \in Seq(Clients), IsInjective(s), NEW c \in Clients, c \notin Range(s)
  PROVE  /\ Append(s, c) \in Seq(Clients) /\ IsInjective(Append(s, c))
         /\ Range(Append(s, c)) = Range(s) \cup {c}
         /\ Len(Append(s, c)) = Len(s) + 1
         /\ \A k \in 1..(Len(s) + 1) :
              Append(s, c)[k] = IF k <= Len(s) THEN s[k] ELSE c
<1> DEFINE t == Append(s, c)
<1>1. /\ t \in Seq(Clients) /\ Len(t) = Len(s) + 1 /\ Len(s) \in Nat
      /\ DOMAIN t = 1..(Len(s) + 1) /\ DOMAIN s = 1..Len(s)
      /\ \A k \in 1..(Len(s) + 1) : t[k] = IF k <= Len(s) THEN s[k] ELSE c
  OBVIOUS
<1> HIDE DEF t
<1>2. \A k \in DOMAIN s : s[k] # c
  BY DEF Range
<1>3. IsInjective(t)
  BY <1>1, <1>2 DEF IsInjective
<1>4. Range(t) = Range(s) \cup {c}
  <2>1. ASSUME NEW d \in Range(t) PROVE d \in Range(s) \cup {c}
    BY <1>1, <2>1 DEF Range
  <2>2. ASSUME NEW d \in Range(s) PROVE d \in Range(t)
    <3>1. PICK k \in DOMAIN s : s[k] = d
      BY <2>2 DEF Range
    <3>2. k \in DOMAIN t /\ t[k] = d
      BY <1>1, <3>1
    <3> QED BY <3>2 DEF Range
  <2>3. Len(s) + 1 \in DOMAIN t /\ t[Len(s) + 1] = c
    BY <1>1
  <2> QED BY <2>1, <2>2, <2>3 DEF Range
<1> QED BY <1>1, <1>3, <1>4 DEF t

LEMMA InitInv == Init => Inv
<1> SUFFICES ASSUME Init PROVE Inv
  OBVIOUS
<1>1. Types
  <2>1. /\ Range(active) = {} /\ IsInjective(active) /\ active \in Seq(Clients)
        /\ \A c \in Clients : Range(received[c]) = {}
    BY DEF Init, Range, IsInjective
  <2> QED BY <2>1, ClientsAreFinite DEF Init, Types, TypeOK
<1>2. PeersAreListed
  BY DEF Init, PeersAreListed, Range
<1>3. QueueIsInOrder /\ ReceivedInOrder
  BY DEF Init, QueueIsInOrder, ReceivedInOrder
<1>4. DueIsToCome /\ IterationIsExact
  BY DEF Init, DueIsToCome, IterationIsExact
<1>5. PassedAreCounted
  <2>1. Ended = {}
    BY DEF Init, Ended
  <2> QED BY <2>1, FS_EmptySet DEF Init, PassedAreCounted
<1> QED BY <1>1, <1>2, <1>3, <1>4, <1>5 DEF Inv

LEMMA ConnectStep ==
  ASSUME Inv, NEW c \in Clients, Connect(c)
  PROVE  Inv'
<1>1. /\ handler[c] = "none" /\ handler' = [handler EXCEPT ![c] = "receiving"]
      /\ open' = open \cup {c} /\ active' = Append(active, c)
      /\ UNCHANGED <<published, subscribed, queue, listener, message, position, awaited,
                     dead, received, due, present, departures>>
  BY DEF Connect, broker, loop, history
<1>2. /\ c \notin open /\ c \notin Range(active) /\ c \notin awaited /\ c \notin dead
      /\ c \notin present /\ received[c] = <<>> /\ due[c] = {}
  BY <1>1 DEF Inv, PeersAreListed
<1>3. /\ active \in Seq(Clients) /\ IsInjective(active)
      /\ handler \in [Clients -> {"none", "receiving", "ended"}]
      /\ handler' \in [Clients -> {"none", "receiving", "ended"}]
      /\ \A d \in Clients : handler'[d] = IF d = c THEN "receiving" ELSE handler[d]
  BY <1>1 DEF Inv, Types, TypeOK
<1>4. /\ active' \in Seq(Clients) /\ IsInjective(active')
      /\ Range(active') = Range(active) \cup {c}
      /\ Len(active') = Len(active) + 1
      /\ \A k \in 1..(Len(active) + 1) :
              active'[k] = IF k <= Len(active) THEN active[k] ELSE c
  BY <1>1, <1>2, <1>3, AppendLists
<1>5. Types'
  BY <1>1, <1>3, <1>4 DEF Inv, Types, TypeOK
<1>6. PeersAreListed'
  BY <1>1, <1>2, <1>3, <1>4 DEF Inv, PeersAreListed
<1>7. QueueIsInOrder' /\ ReceivedInOrder'
  BY <1>1 DEF Inv, QueueIsInOrder, ReceivedInOrder
<1>8. DueIsToCome'
  BY <1>1 DEF Inv, DueIsToCome
<1>9. IterationIsExact'
  <2>1. ASSUME listener = "sending", NEW k \in DOMAIN active', k >= position
        PROVE  active'[k] \notin awaited /\ message \notin Range(received[active'[k]])
    <3>1. CASE k <= Len(active)
      BY <1>3, <1>4, <2>1, <3>1 DEF Inv, IterationIsExact
    <3>2. CASE ~(k <= Len(active))
      <4>1. active'[k] = c
        BY <1>3, <1>4, <2>1, <3>2
      <4> QED BY <1>2, <4>1 DEF Range
    <3> QED BY <3>1, <3>2
  <2> QED BY <1>1, <2>1 DEF Inv, IterationIsExact
<1>10. Passed' \subseteq Passed
  <2> SUFFICES ASSUME NEW d \in Passed' PROVE d \in Passed
    OBVIOUS
  <2>1. /\ d \in present \ dead /\ d \in open \cup {c} /\ d \notin awaited
        /\ message \notin Range(received[d])
        /\ \E k \in DOMAIN active' : k < position /\ active'[k] = d
    BY <1>1 DEF Passed
  <2>2. d # c /\ d \in open
    BY <1>2, <2>1
  <2>3. PICK k \in DOMAIN active' : k < position /\ active'[k] = d
    BY <2>1
  <2>4. k \in DOMAIN active /\ active[k] = d
    BY <1>3, <1>4, <2>2, <2>3
  <2> QED BY <2>1, <2>2, <2>3, <2>4 DEF Passed
<1>11. PassedAreCounted'
  BY <1>1, <1>3, <1>10, CountStays
<1> QED BY <1>5, <1>6, <1>7, <1>8, <1>9, <1>11 DEF Inv

\* The peer of a connection goes, its handler ends or has not noticed.
LEMMA GoesStep ==
  ASSUME Inv, NEW c \in open, Goes(c),
         handler' = handler \/ handler' = [handler EXCEPT ![c] = "ended"]
  PROVE  Inv'
<1>1. /\ open' = open \ {c} /\ received' = [received EXCEPT ![c] = <<>>]
      /\ due' = [due EXCEPT ![c] = {}]
      /\ UNCHANGED <<published, subscribed, queue, listener, message, position, awaited,
                     dead, active, present, departures>>
  BY DEF Goes, broker, loop
<1>2. /\ c \in Clients /\ handler \in [Clients -> {"none", "receiving", "ended"}]
      /\ handler' \in [Clients -> {"none", "receiving", "ended"}]
      /\ \A d \in Clients : d # c => handler'[d] = handler[d]
      /\ handler'[c] # "none"
      /\ \A d \in Clients : handler[d] = "ended" => handler'[d] = "ended"
  BY DEF Inv, Types, TypeOK, PeersAreListed
<1>3. /\ received \in [Clients -> Seq(Nat)] /\ due \in [Clients -> SUBSET Nat]
      /\ received'[c] = <<>> /\ due'[c] = {} /\ Range(received'[c]) = {}
      /\ \A d \in Clients : d # c => received'[d] = received[d] /\ due'[d] = due[d]
  BY <1>1, <1>2 DEF Inv, Types, Range
<1>4. Types'
  <2>1. received' \in [Clients -> Seq(Nat)] /\ due' \in [Clients -> SUBSET Nat]
    BY <1>1, <1>2, <1>3
  <2>2. \A d \in Clients : Range(received'[d]) \cup due'[d] \subseteq 1 .. published'
    BY <1>1, <1>3 DEF Inv, Types, TypeOK
  <2> QED BY <1>1, <1>2, <2>1, <2>2 DEF Inv, Types, TypeOK
<1>5. PeersAreListed'
  <2>1. open \in SUBSET Clients /\ Range(active) \cup awaited \cup dead \cup present \subseteq Clients
    BY DEF Inv, Types, TypeOK
  <2> QED BY <1>1, <1>2, <1>3, <2>1 DEF Inv, PeersAreListed
<1>6. QueueIsInOrder'
  BY <1>1, <1>3 DEF Inv, QueueIsInOrder
<1>7. ReceivedInOrder'
  BY <1>3 DEF Inv, ReceivedInOrder
<1>8. DueIsToCome'
  BY <1>1, <1>3 DEF Inv, DueIsToCome
<1>9. IterationIsExact'
  <2>1. \A d \in Clients : message \notin Range(received[d]) => message \notin Range(received'[d])
    BY <1>3
  <2>2. awaited \subseteq Clients /\ \A k \in DOMAIN active : active[k] \in Clients
    BY DEF Inv, Types, TypeOK, Range
  <2> QED BY <1>1, <2>1, <2>2 DEF Inv, IterationIsExact
<1>10. Passed' \subseteq Passed
  <2>1. open \in SUBSET Clients
    BY DEF Inv, Types, TypeOK
  <2> QED BY <1>1, <1>3, <2>1 DEF Passed
<1>11. PassedAreCounted'
  BY <1>1, <1>2, <1>10, CountStays
<1> QED BY <1>4, <1>5, <1>6, <1>7, <1>8, <1>9, <1>11 DEF Inv

\* A handler that ends removes its connection; if the iterator was past it, the
\* connection at the iterator's position is passed.
LEMMA DisconnectStep ==
  ASSUME Inv, NEW c \in Clients, Disconnect(c)
  PROVE  Inv'
<1>1. /\ handler[c] = "receiving" /\ c \notin open
      /\ handler' = [handler EXCEPT ![c] = "ended"]
      /\ active' = RemoveFirst(active, c)
      /\ departures' = IF listener = "sending" /\ c \in Range(active)
                       THEN departures + 1 ELSE departures
      /\ UNCHANGED <<published, subscribed, queue, listener, message, position, awaited,
                     dead, open, received, due, present>>
  BY DEF Disconnect, broker, loop
<1>2. /\ active \in Seq(Clients) /\ IsInjective(active)
      /\ handler \in [Clients -> {"none", "receiving", "ended"}]
      /\ handler' \in [Clients -> {"none", "receiving", "ended"}]
      /\ \A d \in Clients : handler'[d] = IF d = c THEN "ended" ELSE handler[d]
      /\ departures \in Nat
  BY <1>1 DEF Inv, Types, TypeOK
<1>3. /\ active' \in Seq(Clients) /\ IsInjective(active')
      /\ Range(active') = Range(active) \ {c}
      /\ c \notin Range(active) => active' = active
  BY <1>1, <1>2, RemoveFirstLists
<1>4. Ended \in SUBSET Clients /\ c \notin Ended /\ Ended' = Ended \cup {c}
  BY <1>1, <1>2 DEF Ended
<1>5. /\ IsFiniteSet(Ended) /\ Cardinality(Ended) \in Nat
      /\ Cardinality(Ended') = Cardinality(Ended) + 1
      /\ Cardinality(Ended') <= Cardinality(Clients)
  <2>1. Ended' \in SUBSET Clients
    BY <1>4
  <2> QED BY <1>4, <2>1, ClientsAreFinite, FS_AddElement
<1>6. departures' \in Nat /\ departures' <= Cardinality(Ended')
  BY <1>1, <1>2, <1>5 DEF Inv, PassedAreCounted
<1>7. Types'
  <2>1. departures' \in 0 .. Cardinality(Clients)
    BY <1>5, <1>6, ClientsAreFinite
  <2> QED BY <1>1, <1>2, <1>3, <2>1 DEF Inv, Types, TypeOK
<1>8. PeersAreListed'
  BY <1>1, <1>2, <1>3 DEF Inv, PeersAreListed, Types, TypeOK
<1>9. QueueIsInOrder' /\ ReceivedInOrder' /\ DueIsToCome'
  BY <1>1 DEF Inv, QueueIsInOrder, ReceivedInOrder, DueIsToCome
<1>10. CASE c \notin Range(active)
  <2>1. active' = active /\ departures' = departures
    BY <1>1, <1>3, <1>10
  <2>2. IterationIsExact'
    BY <1>1, <2>1 DEF Inv, IterationIsExact
  <2>3. Passed' \subseteq Passed
    BY <1>1, <2>1 DEF Passed
  <2>4. PassedAreCounted'
    BY <1>1, <1>2, <2>1, <2>3, CountStays
  <2> QED BY <1>7, <1>8, <1>9, <2>2, <2>4 DEF Inv
<1>11. CASE c \in Range(active)
  <2>1. PICK p \in DOMAIN active : active[p] = c
    BY <1>11 DEF Range
  <2>2. /\ Len(active') = Len(active) - 1
        /\ \A k \in 1..Len(active') :
             active'[k] = IF k < p THEN active[k] ELSE active[k + 1]
    <3>1. active' = RemoveFirst(active, active[p])
      BY <1>1, <2>1
    <3> QED BY <1>2, <3>1, RemoveFirstShifts
  <2>3. /\ DOMAIN active' = 1..Len(active') /\ DOMAIN active = 1..Len(active)
        /\ Len(active) \in Nat /\ p \in 1..Len(active) /\ position \in Nat
    BY <1>2, <1>3, <2>1 DEF Inv, Types, TypeOK
  <2>4. IterationIsExact'
    <3>1. ASSUME listener = "sending", NEW k \in DOMAIN active', k >= position
          PROVE  active'[k] \notin awaited /\ message \notin Range(received[active'[k]])
      <4>1. CASE k < p
        BY <2>2, <2>3, <3>1, <4>1 DEF Inv, IterationIsExact
      <4>2. CASE ~(k < p)
        <5>1. k + 1 \in DOMAIN active /\ k + 1 >= position /\ active'[k] = active[k + 1]
          BY <2>2, <2>3, <3>1, <4>2
        <5> QED BY <3>1, <5>1 DEF Inv, IterationIsExact
      <4> QED BY <4>1, <4>2
    <3> QED BY <1>1, <3>1 DEF Inv, IterationIsExact
  <2>5. Passed' \subseteq Passed \cup {active[position]}
    <3> SUFFICES ASSUME NEW d \in Passed', d # active[position] PROVE d \in Passed
      OBVIOUS
    <3>1. /\ d \in present \ dead /\ d \in open /\ d \notin awaited
          /\ message \notin Range(received[d])
          /\ \E k \in DOMAIN active' : k < position /\ active'[k] = d
      BY <1>1 DEF Passed
    <3>2. PICK k \in DOMAIN active' : k < position /\ active'[k] = d
      BY <3>1
    <3>3. CASE k < p
      BY <2>2, <2>3, <3>1, <3>2, <3>3 DEF Passed
    <3>4. CASE ~(k < p)
      <4>1. k + 1 \in DOMAIN active /\ active[k + 1] = d
        BY <2>2, <2>3, <3>2, <3>4
      <4>2. k + 1 < position
        BY <2>3, <3>2, <4>1
      <4> QED BY <3>1, <4>1, <4>2 DEF Passed
    <3> QED BY <3>3, <3>4
  <2>6. ASSUME listener' = "sending" PROVE Cardinality(Passed') <= departures'
    <3>1. IsFiniteSet(Passed) /\ Cardinality(Passed) \in Nat /\ Cardinality(Passed) <= departures
      <4>1. Passed \in SUBSET Clients
        BY DEF Inv, Types, TypeOK, Passed
      <4> QED BY <1>1, <2>6, <4>1, ClientsAreFinite DEF Inv, PassedAreCounted
    <3> DEFINE more == Passed \cup {active[position]}
    <3>2. IsFiniteSet(more) /\ Cardinality(more) \in Nat
          /\ Cardinality(more) <= Cardinality(Passed) + 1
      <4>1. IsFiniteSet(more)
            /\ Cardinality(more) = IF active[position] \in Passed
                                   THEN Cardinality(Passed) ELSE Cardinality(Passed) + 1
        BY <3>1, FS_AddElement
      <4> QED BY <3>1, <4>1
    <3>3. Cardinality(Passed') \in Nat /\ Cardinality(Passed') <= Cardinality(more)
      BY <2>5, <3>2, FS_Subset, FS_CardinalityType
    <3>4. departures' = departures + 1
      BY <1>1, <1>11, <2>6
    <3> HIDE DEF more
    <3> QED BY <1>2, <3>1, <3>2, <3>3, <3>4
  <2>7. PassedAreCounted'
    BY <1>6, <2>6 DEF PassedAreCounted
  <2> QED BY <1>7, <1>8, <1>9, <2>4, <2>7 DEF Inv
<1> QED BY <1>10, <1>11

LEMMA PublishStep ==
  ASSUME Inv, Publish
  PROVE  Inv'
<1>1. /\ published < MaxMessages /\ published' = published + 1
      /\ queue' = IF subscribed THEN Append(queue, published') ELSE queue
      /\ due' = [c \in Clients |->
                   IF c \in Range(active) \cap open
                   THEN due[c] \cup {published'} ELSE due[c]]
      /\ UNCHANGED <<subscribed, listener, message, position, awaited, dead, active,
                     handler, open, received, present, departures>>
  BY DEF Publish, loop
<1>2. /\ published \in Nat /\ published' \in 1..MaxMessages /\ queue \in Seq(1..MaxMessages)
      /\ received \in [Clients -> Seq(Nat)] /\ due \in [Clients -> SUBSET Nat]
      /\ \A c \in Clients : Range(received[c]) \cup due[c] \subseteq 1..published
      /\ message \in Nat /\ message <= published
      /\ \A k \in DOMAIN queue : queue[k] \in 1..published
  <2>1. message \in Nat /\ message <= published
    BY ClientsAreFinite DEF Inv, Types, TypeOK, QueueIsInOrder
  <2> QED BY <1>1, <2>1, ClientsAreFinite DEF Inv, Types, TypeOK, QueueIsInOrder
<1>3. /\ queue' \in Seq(1..MaxMessages)
      /\ Range(queue) \subseteq Range(queue')
      /\ subscribed => published' \in Range(queue')
      /\ \A k \in DOMAIN queue' : queue'[k] = published' \/ (k \in DOMAIN queue /\ queue'[k] = queue[k])
      /\ \A j, k \in DOMAIN queue' : j < k => j \in DOMAIN queue /\ queue'[j] = queue[j]
  <2>1. CASE ~subscribed
    <3>1. queue' = queue
      BY <1>1, <2>1
    <3> QED BY <1>2, <2>1, <3>1
  <2>2. CASE subscribed
    <3>1. /\ queue' = Append(queue, published') /\ Len(queue) \in Nat
          /\ queue' \in Seq(1..MaxMessages) /\ Len(queue') = Len(queue) + 1
          /\ DOMAIN queue = 1..Len(queue) /\ DOMAIN queue' = 1..(Len(queue) + 1)
          /\ \A k \in DOMAIN queue' :
                queue'[k] = IF k <= Len(queue) THEN queue[k] ELSE published'
      BY <1>1, <1>2, <2>2
    <3>2. Range(queue) \subseteq Range(queue')
      <4> SUFFICES ASSUME NEW k \in DOMAIN queue PROVE queue[k] \in Range(queue')
        BY DEF Range
      <4>1. k \in DOMAIN queue' /\ queue'[k] = queue[k]
        BY <3>1
      <4> QED BY <4>1 DEF Range
    <3>3. published' \in Range(queue')
      <4>1. Len(queue) + 1 \in DOMAIN queue' /\ queue'[Len(queue) + 1] = published'
        BY <3>1
      <4> QED BY <4>1 DEF Range
    <3>4. \A k \in DOMAIN queue' :
            queue'[k] = published' \/ (k \in DOMAIN queue /\ queue'[k] = queue[k])
      BY <3>1
    <3>5. ASSUME NEW j \in DOMAIN queue', NEW k \in DOMAIN queue', j < k
          PROVE  j \in DOMAIN queue /\ queue'[j] = queue[j]
      BY <3>1, <3>5
    <3> QED BY <3>1, <3>2, <3>3, <3>4, <3>5
  <2> QED BY <2>1, <2>2
<1>4. Types'
  <2>1. due' \in [Clients -> SUBSET Nat]
    BY <1>1, <1>2
  <2>2. \A c \in Clients : Range(received[c]) \cup due'[c] \subseteq 1..published'
    BY <1>1, <1>2
  <2> QED BY <1>1, <1>2, <1>3, <2>1, <2>2 DEF Inv, Types, TypeOK
<1>5. PeersAreListed'
  <2>1. \A c \in Clients \ open : due'[c] = due[c]
    BY <1>1
  <2>2. \A c \in open : c \in Range(active) \/ due'[c] = due[c]
    BY <1>1 DEF Inv, Types, TypeOK
  <2> QED BY <1>1, <2>1, <2>2 DEF Inv, PeersAreListed
<1>6. QueueIsInOrder'
  <2>1. \A j, k \in DOMAIN queue' : j < k => queue'[j] < queue'[k]
    <3> SUFFICES ASSUME NEW j \in DOMAIN queue', NEW k \in DOMAIN queue', j < k
                 PROVE  queue'[j] < queue'[k]
      OBVIOUS
    <3>1. j \in DOMAIN queue /\ queue'[j] = queue[j] /\ queue[j] \in 1..published
      BY <1>2, <1>3
    <3>2. CASE queue'[k] = published'
      BY <1>1, <1>2, <3>1, <3>2
    <3>3. CASE k \in DOMAIN queue /\ queue'[k] = queue[k]
      BY <3>1, <3>3 DEF Inv, QueueIsInOrder
    <3> QED BY <1>3, <3>2, <3>3
  <2>2. ASSUME NEW k \in DOMAIN queue'
        PROVE  /\ message < queue'[k] /\ queue'[k] \in 1 .. published'
               /\ \A c \in Clients : \A m \in Range(received[c]) : m < queue'[k]
    <3>1. CASE queue'[k] = published'
      BY <1>1, <1>2, <3>1
    <3>2. CASE k \in DOMAIN queue /\ queue'[k] = queue[k]
      BY <1>1, <1>2, <3>2 DEF Inv, QueueIsInOrder
    <3> QED BY <1>3, <3>1, <3>2
  <2>3. message \in 1..published => message \in 1..published'
    BY <1>1, <1>2
  <2> QED BY <1>1, <2>1, <2>2, <2>3 DEF Inv, QueueIsInOrder
<1>7. ReceivedInOrder' /\ IterationIsExact'
  BY <1>1 DEF Inv, ReceivedInOrder, IterationIsExact
<1>8. DueIsToCome'
  BY <1>1, <1>3 DEF Inv, DueIsToCome
<1>9. Passed' \subseteq Passed
  BY <1>1 DEF Passed
<1>10. PassedAreCounted'
  BY <1>1, <1>9, CountStays DEF Inv, Types, TypeOK
<1> QED BY <1>4, <1>5, <1>6, <1>7, <1>8, <1>10 DEF Inv

LEMMA TakesMessageStep ==
  ASSUME Inv, TakesMessage
  PROVE  Inv'
<1>1. /\ listener = "waiting" /\ queue # <<>>
      /\ message' = Head(queue) /\ queue' = Tail(queue)
      /\ listener' = "sending" /\ position' = 1 /\ present' = Range(active)
      /\ UNCHANGED <<published, subscribed, awaited, dead, active, handler, open,
                     received, due, departures>>
  BY DEF TakesMessage
<1>2. /\ queue \in Seq(1..MaxMessages) /\ Len(queue) \in Nat /\ Len(queue) > 0
      /\ DOMAIN queue = 1..Len(queue)
      /\ queue' \in Seq(1..MaxMessages) /\ DOMAIN queue' = 1..(Len(queue) - 1)
      /\ \A k \in 1..(Len(queue) - 1) : queue'[k] = queue[k + 1]
      /\ message' = queue[1]
  BY <1>1 DEF Inv, Types, TypeOK
<1>3. \A k \in DOMAIN queue' : k + 1 \in DOMAIN queue /\ 1 < k + 1 /\ queue'[k] = queue[k + 1]
  BY <1>2
<1>4. message' \in 1..published /\ published <= MaxMessages /\ published \in Nat
  <2>1. 1 \in DOMAIN queue
    BY <1>2
  <2>2. message' \in 1..published
    BY <1>2, <2>1 DEF Inv, QueueIsInOrder
  <2>3. published \in 0..MaxMessages
    BY DEF Inv, Types, TypeOK
  <2> QED BY <2>2, <2>3, ClientsAreFinite
<1>5. \A m \in Range(queue) : m = message' \/ m \in Range(queue')
  <2> SUFFICES ASSUME NEW k \in DOMAIN queue, k # 1 PROVE queue[k] \in Range(queue')
    BY <1>2 DEF Range
  <2>1. k - 1 \in DOMAIN queue' /\ queue'[k - 1] = queue[k]
    BY <1>2
  <2> QED BY <2>1 DEF Range
<1>6. awaited = {}
  BY <1>1 DEF Inv, IterationIsExact
<1>7. \A c \in Clients : message' \notin Range(received[c])
  <2> SUFFICES ASSUME NEW c \in Clients, message' \in Range(received[c]) PROVE FALSE
    OBVIOUS
  <2>1. 1 \in DOMAIN queue
    BY <1>2
  <2>2. message' < message'
    BY <1>2, <2>1 DEF Inv, QueueIsInOrder
  <2> QED BY <1>4, <2>2
<1>8. Types'
  <2>1. message' \in 0..MaxMessages /\ position' \in 0..(Cardinality(Clients) + 1)
    BY <1>1, <1>4, ClientsAreFinite
  <2>2. present' \in SUBSET Clients
    BY <1>1 DEF Inv, Types, TypeOK
  <2> QED BY <1>1, <1>2, <2>1, <2>2 DEF Inv, Types, TypeOK
<1>9. PeersAreListed'
  BY <1>1 DEF Inv, PeersAreListed
<1>10. QueueIsInOrder'
  <2>1. \A j, k \in DOMAIN queue' : j < k => queue'[j] < queue'[k]
    <3> SUFFICES ASSUME NEW j \in DOMAIN queue', NEW k \in DOMAIN queue', j < k
                 PROVE  queue'[j] < queue'[k]
      OBVIOUS
    <3>1. j + 1 < k + 1
      BY <1>2
    <3> QED BY <1>3, <3>1 DEF Inv, QueueIsInOrder
  <2>2. ASSUME NEW k \in DOMAIN queue'
        PROVE  /\ message' < queue'[k] /\ queue'[k] \in 1 .. published
               /\ \A c \in Clients : \A m \in Range(received[c]) : m < queue'[k]
    <3>1. 1 \in DOMAIN queue
      BY <1>2
    <3> QED BY <1>2, <1>3, <3>1 DEF Inv, QueueIsInOrder
  <2>3. ASSUME NEW c \in Clients, NEW m \in Range(received[c]) PROVE m <= message'
    <3>1. m < queue[1] /\ m \in Nat
      <4>1. 1 \in DOMAIN queue
        BY <1>2
      <4>2. m \in 1..published
        BY <2>3 DEF Inv, Types, TypeOK
      <4> QED BY <1>4, <2>3, <4>1, <4>2 DEF Inv, QueueIsInOrder
    <3> QED BY <1>2, <1>4, <3>1
  <2> QED BY <1>1, <1>4, <2>1, <2>2, <2>3 DEF QueueIsInOrder
<1>11. ReceivedInOrder'
  BY <1>1 DEF Inv, ReceivedInOrder
<1>12. DueIsToCome'
  <2> SUFFICES ASSUME subscribed, NEW c \in Clients, NEW m \in due[c], m \notin Range(queue')
               PROVE  m = message' /\ c \in present' /\ m \notin Range(received[c])
    BY <1>1 DEF DueIsToCome
  <2>1. m \in Range(queue)
    BY <1>1 DEF Inv, DueIsToCome
  <2>2. m = message'
    BY <1>5, <2>1
  <2>3. c \in open
    BY DEF Inv, PeersAreListed
  <2> QED BY <1>1, <1>7, <2>2, <2>3 DEF Inv, PeersAreListed
<1>13. IterationIsExact'
  <2>1. \A k \in DOMAIN active : active[k] \in Clients
    BY DEF Inv, Types, TypeOK, Range
  <2> QED BY <1>1, <1>6, <1>7, <2>1 DEF IterationIsExact
<1>14. PassedAreCounted'
  <2>1. Passed' = {}
    <3>1. \A k \in DOMAIN active : ~(k < 1)
      BY DEF Inv, Types
    <3> QED BY <1>1, <3>1 DEF Passed
  <2>2. departures \in Nat /\ departures <= Cardinality(Ended) /\ Ended' = Ended
    BY <1>1 DEF Inv, Types, TypeOK, PassedAreCounted, Ended
  <2> QED BY <1>1, <2>1, <2>2, FS_EmptySet DEF PassedAreCounted
<1> QED BY <1>8, <1>9, <1>10, <1>11, <1>12, <1>13, <1>14 DEF Inv

LEMMA SendBeginsStep ==
  ASSUME Inv, SendBegins
  PROVE  Inv'
<1>1. /\ listener = "sending" /\ awaited = {} /\ position <= Len(active)
      /\ awaited' = {active[position]} /\ position' = position + 1
      /\ UNCHANGED <<published, subscribed, queue, listener, message, dead, active,
                     handler, open, received, due, present, departures>>
  BY DEF SendBegins, broker, history
<1>2. /\ active \in Seq(Clients) /\ IsInjective(active) /\ Len(active) \in Nat
      /\ DOMAIN active = 1..Len(active) /\ position \in Nat /\ position > 0
  BY <1>1 DEF Inv, Types, TypeOK, IterationIsExact
<1>3. /\ position \in DOMAIN active /\ active[position] \in Clients
      /\ active[position] \in Range(active)
      /\ message \notin Range(received[active[position]])
  <2>1. position \in DOMAIN active
    BY <1>1, <1>2
  <2> QED BY <1>1, <1>2, <2>1 DEF Inv, IterationIsExact, Range
<1>4. Len(active) <= Cardinality(Clients)
  <2>1. active \in Injection(1..Len(active), Clients)
    BY <1>2 DEF Injection
  <2>2. Cardinality(1..Len(active)) = Len(active)
    BY <1>2, UpTo
  <2> QED BY <2>1, <2>2, ClientsAreFinite, FS_Injection
<1>5. Types'
  <2>1. position' \in 0..(Cardinality(Clients) + 1)
    BY <1>1, <1>2, <1>4, ClientsAreFinite
  <2> QED BY <1>1, <1>3, <2>1 DEF Inv, Types, TypeOK
<1>6. PeersAreListed'
  BY <1>1, <1>3 DEF Inv, PeersAreListed
<1>7. QueueIsInOrder' /\ ReceivedInOrder' /\ DueIsToCome'
  BY <1>1 DEF Inv, QueueIsInOrder, ReceivedInOrder, DueIsToCome
<1>8. IterationIsExact'
  <2>1. ASSUME NEW k \in DOMAIN active, k >= position + 1
        PROVE  active[k] # active[position] /\ message \notin Range(received[active[k]])
    <3>1. k >= position /\ k # position
      BY <1>2, <2>1
    <3> QED BY <1>1, <1>2, <1>3, <3>1 DEF Inv, IterationIsExact, IsInjective
  <2> QED BY <1>1, <1>2, <1>3, <2>1 DEF IterationIsExact
<1>9. Passed' \subseteq Passed
  <2> SUFFICES ASSUME NEW d \in Passed' PROVE d \in Passed
    OBVIOUS
  <2>1. /\ d \in present \ dead /\ d \in open /\ d # active[position]
        /\ message \notin Range(received[d])
        /\ \E k \in DOMAIN active : k < position + 1 /\ active[k] = d
    BY <1>1 DEF Passed
  <2>2. PICK k \in DOMAIN active : k < position + 1 /\ active[k] = d
    BY <2>1
  <2>3. k < position
    BY <1>2, <2>1, <2>2
  <2> QED BY <1>1, <2>1, <2>2, <2>3 DEF Passed
<1>10. PassedAreCounted'
  BY <1>1, <1>9, CountStays DEF Inv, Types, TypeOK
<1> QED BY <1>5, <1>6, <1>7, <1>8, <1>10 DEF Inv

LEMMA SendRaisesStep ==
  ASSUME Inv, SendRaises
  PROVE  Inv'
<1>1. PICK c \in awaited : awaited' = {} /\ dead' = dead \cup {c}
  BY DEF SendRaises
<1>2. UNCHANGED <<published, subscribed, queue, listener, message, position, active,
                  handler, open, received, due, present, departures>>
  BY DEF SendRaises, broker, history
<1>3. awaited = {c} /\ c \in Clients
  BY <1>1 DEF Inv, IterationIsExact
<1>4. Types'
  BY <1>1, <1>2, <1>3 DEF Inv, Types, TypeOK
<1>5. PeersAreListed'
  BY <1>1, <1>2 DEF Inv, PeersAreListed
<1>6. QueueIsInOrder' /\ ReceivedInOrder' /\ DueIsToCome'
  BY <1>2 DEF Inv, QueueIsInOrder, ReceivedInOrder, DueIsToCome
<1>7. IterationIsExact'
  BY <1>1, <1>2 DEF Inv, IterationIsExact
<1>8. Passed' \subseteq Passed
  BY <1>1, <1>2, <1>3 DEF Passed
<1>9. PassedAreCounted'
  BY <1>2, <1>8, CountStays DEF Inv, Types, TypeOK
<1> QED BY <1>4, <1>5, <1>6, <1>7, <1>9 DEF Inv

LEMMA SendReturnsStep ==
  ASSUME Inv, SendReturns
  PROVE  Inv'
<1>1. PICK c \in awaited :
        /\ awaited' = {}
        /\ received' = IF c \in open THEN [received EXCEPT ![c] = Append(@, message)]
                       ELSE received
        /\ due' = [due EXCEPT ![c] = @ \ {message}]
  BY DEF SendReturns
<1>2. UNCHANGED <<published, subscribed, queue, listener, message, position, dead, active,
                  handler, open, present, departures>>
  BY DEF SendReturns, broker
<1>3. awaited = {c} /\ c \in Clients /\ listener = "sending"
      /\ message \notin Range(received[c])
  BY <1>1 DEF Inv, IterationIsExact, Types, TypeOK
<1>4. /\ received \in [Clients -> Seq(Nat)] /\ due \in [Clients -> SUBSET Nat]
      /\ message \in 1..published /\ published \in Nat
      /\ \A d \in Clients : Range(received[d]) \cup due[d] \subseteq 1..published
      /\ \A m \in Range(received[c]) : m <= message
  BY <1>3, ClientsAreFinite DEF Inv, Types, TypeOK, QueueIsInOrder
<1>5. /\ received' \in [Clients -> Seq(Nat)] /\ due' \in [Clients -> SUBSET Nat]
      /\ due'[c] = due[c] \ {message}
      /\ received'[c] = IF c \in open THEN Append(received[c], message) ELSE received[c]
      /\ \A d \in Clients : d # c => received'[d] = received[d] /\ due'[d] = due[d]
  <2>1. received[c] \in Seq(Nat) /\ message \in Nat
    BY <1>3, <1>4
  <2>2. Append(received[c], message) \in Seq(Nat)
    BY <2>1
  <2> QED BY <1>1, <1>3, <1>4, <2>2
<1>6. CASE c \notin open
  <2>1. received' = received /\ due[c] = {}
    BY <1>1, <1>3, <1>6 DEF Inv, PeersAreListed
  <2>2. \A d \in Clients : due'[d] = due[d]
    BY <1>5, <2>1
  <2>3. Types'
    BY <1>1, <1>2, <1>5, <2>1, <2>2 DEF Inv, Types, TypeOK
  <2>4. PeersAreListed'
    BY <1>1, <1>2, <2>1, <2>2 DEF Inv, PeersAreListed
  <2>5. QueueIsInOrder' /\ ReceivedInOrder' /\ DueIsToCome'
    BY <1>2, <2>1, <2>2 DEF Inv, QueueIsInOrder, ReceivedInOrder, DueIsToCome
  <2>6. IterationIsExact'
    BY <1>1, <1>2, <2>1 DEF Inv, IterationIsExact
  <2>7. Passed' \subseteq Passed
    BY <1>2, <1>3, <1>6, <2>1 DEF Passed
  <2>8. PassedAreCounted'
    BY <1>2, <2>7, CountStays DEF Inv, Types, TypeOK
  <2> QED BY <2>3, <2>4, <2>5, <2>6, <2>8 DEF Inv
<1>7. CASE c \in open
  <2>1. /\ received[c] \in Seq(Nat) /\ Len(received[c]) \in Nat /\ message \in Nat
        /\ DOMAIN received[c] = 1..Len(received[c])
        /\ DOMAIN received'[c] = 1..(Len(received[c]) + 1)
        /\ \A k \in 1..(Len(received[c]) + 1) :
             received'[c][k] = IF k <= Len(received[c]) THEN received[c][k] ELSE message
    BY <1>3, <1>4, <1>5, <1>7
  <2>2. Range(received'[c]) \subseteq Range(received[c]) \cup {message}
    <3> SUFFICES ASSUME NEW k \in DOMAIN received'[c]
                 PROVE  received'[c][k] \in Range(received[c]) \cup {message}
      BY DEF Range
    <3>1. k <= Len(received[c]) => k \in DOMAIN received[c]
      BY <2>1
    <3> QED BY <2>1, <3>1 DEF Range
  <2>3. message \in Range(received'[c])
    <3>1. /\ Len(received[c]) + 1 \in DOMAIN received'[c]
          /\ received'[c][Len(received[c]) + 1] = message
      BY <2>1
    <3> QED BY <3>1 DEF Range
  <2>4. Types'
    <3>1. \A d \in Clients : Range(received'[d]) \cup due'[d] \subseteq 1..published'
      <4> SUFFICES ASSUME NEW d \in Clients
                   PROVE  Range(received'[d]) \cup due'[d] \subseteq 1..published
        BY <1>2
      <4>1. CASE d = c
        BY <1>4, <1>5, <2>2, <4>1
      <4>2. CASE d # c
        BY <1>4, <1>5, <4>2
      <4> QED BY <4>1, <4>2
    <3> QED BY <1>1, <1>2, <1>5, <3>1 DEF Inv, Types, TypeOK
  <2>5. PeersAreListed'
    BY <1>1, <1>2, <1>5, <1>7 DEF Inv, PeersAreListed
  <2>6. QueueIsInOrder'
    <3>1. ASSUME NEW k \in DOMAIN queue, NEW d \in Clients, NEW m \in Range(received'[d])
          PROVE  m < queue[k]
      <4>1. CASE d = c /\ m = message
        BY <4>1 DEF Inv, QueueIsInOrder
      <4>2. CASE m \in Range(received[d])
        BY <4>2 DEF Inv, QueueIsInOrder
      <4> QED BY <1>5, <2>2, <3>1, <4>1, <4>2
    <3>2. ASSUME NEW d \in Clients, NEW m \in Range(received'[d]) PROVE m <= message
      <4>1. CASE d = c /\ m = message
        BY <1>4, <4>1
      <4>2. CASE m \in Range(received[d])
        BY <1>3, <4>2 DEF Inv, QueueIsInOrder
      <4> QED BY <1>5, <2>2, <3>2, <4>1, <4>2
    <3> QED BY <1>2, <3>1, <3>2 DEF Inv, QueueIsInOrder
  <2>7. ReceivedInOrder'
    <3> SUFFICES ASSUME NEW j \in DOMAIN received'[c], NEW k \in DOMAIN received'[c], j < k
                 PROVE  received'[c][j] < received'[c][k]
      BY <1>5 DEF Inv, ReceivedInOrder
    <3>1. j \in DOMAIN received[c] /\ received'[c][j] = received[c][j]
      BY <2>1
    <3>2. CASE k \in DOMAIN received[c]
      <4>1. received'[c][k] = received[c][k]
        BY <2>1, <3>2
      <4> QED BY <1>3, <3>1, <3>2, <4>1 DEF Inv, ReceivedInOrder
    <3>3. CASE k \notin DOMAIN received[c]
      <4>1. received'[c][k] = message
        BY <2>1, <3>3
      <4>2. received[c][j] \in Range(received[c]) /\ received[c][j] \in Nat
        BY <2>1, <3>1 DEF Range
      <4>3. received[c][j] <= message /\ received[c][j] # message
        BY <1>3, <1>4, <4>2
      <4> QED BY <2>1, <3>1, <4>1, <4>2, <4>3
    <3> QED BY <3>2, <3>3
  <2>8. DueIsToCome'
    <3> SUFFICES ASSUME subscribed, NEW d \in Clients, NEW m \in due'[d], m \notin Range(queue)
                 PROVE  m = message /\ d \in present /\ m \notin Range(received'[d])
      BY <1>2, <1>3 DEF DueIsToCome
    <3>1. d # c
      BY <1>5 DEF Inv, DueIsToCome
    <3> QED BY <1>5, <3>1 DEF Inv, DueIsToCome
  <2>9. IterationIsExact'
    <3>1. \A k \in DOMAIN active : active[k] \in Clients
      BY DEF Inv, Types, TypeOK, Range
    <3>2. ASSUME NEW k \in DOMAIN active, k >= position
          PROVE  message \notin Range(received'[active[k]])
      <4>1. active[k] # c /\ message \notin Range(received[active[k]])
        BY <1>3, <3>2 DEF Inv, IterationIsExact
      <4> QED BY <1>5, <3>1, <4>1
    <3> QED BY <1>1, <1>2, <3>2 DEF Inv, IterationIsExact
  <2>10. Passed' \subseteq Passed
    <3> SUFFICES ASSUME NEW d \in Passed' PROVE d \in Passed
      OBVIOUS
    <3>1. /\ d \in present \ dead /\ d \in open /\ message \notin Range(received'[d])
          /\ \E k \in DOMAIN active : k < position /\ active[k] = d
      BY <1>2 DEF Passed
    <3>2. d # c /\ d \in Clients
      BY <2>3, <3>1 DEF Inv, Types, TypeOK
    <3> QED BY <1>3, <1>5, <3>1, <3>2 DEF Passed
  <2>11. PassedAreCounted'
    BY <1>2, <2>10, CountStays DEF Inv, Types, TypeOK
  <2> QED BY <2>4, <2>5, <2>6, <2>7, <2>8, <2>9, <2>11 DEF Inv
<1> QED BY <1>6, <1>7

LEMMA BroadcastEndsStep ==
  ASSUME Inv, BroadcastEnds
  PROVE  Inv'
<1>1. /\ listener = "sending" /\ awaited = {} /\ listener' = "waiting"
      /\ message' = 0 /\ position' = 0 /\ dead' = {} /\ present' = {} /\ departures' = 0
      /\ active' = Without(active, dead)
      /\ due' = [c \in Clients |-> IF c \in dead THEN {}
                                  ELSE IF c \in Skipped THEN due[c] \ {message} ELSE due[c]]
      /\ UNCHANGED <<published, subscribed, queue, awaited, handler, open, received>>
  BY DEF BroadcastEnds, Exhausted, broker
<1>2. /\ active' \in Seq(Clients) /\ IsInjective(active')
      /\ Range(active') = Range(active) \ dead
  BY <1>1, WithoutLists DEF Inv, Types, TypeOK
<1>3. due \in [Clients -> SUBSET Nat]
      /\ \A c \in Clients : due'[c] \subseteq due[c] /\ (c \in dead => due'[c] = {})
  BY <1>1 DEF Inv, Types
<1>4. Types'
  <2>1. due' \in [Clients -> SUBSET Nat]
    BY <1>1, <1>3
  <2>2. \A c \in Clients : Range(received[c]) \cup due'[c] \subseteq 1..published
    BY <1>3 DEF Inv, Types, TypeOK
  <2> QED BY <1>1, <1>2, <2>1, <2>2, ClientsAreFinite DEF Inv, Types, TypeOK
<1>5. PeersAreListed'
  <2>1. \A c \in Clients \ open : due'[c] = {}
    BY <1>3 DEF Inv, PeersAreListed
  <2>2. \A c \in open : c \in Range(active') \/ due'[c] = {}
    BY <1>2, <1>3 DEF Inv, PeersAreListed, Types, TypeOK
  <2> QED BY <1>1, <1>2, <2>1, <2>2 DEF Inv, PeersAreListed
<1>6. QueueIsInOrder'
  <2>1. \A k \in DOMAIN queue : queue[k] \in 1..published /\ 0 < queue[k]
    BY DEF Inv, QueueIsInOrder
  <2> QED BY <1>1, <2>1 DEF Inv, QueueIsInOrder
<1>7. ReceivedInOrder' /\ IterationIsExact'
  BY <1>1 DEF Inv, ReceivedInOrder, IterationIsExact
<1>8. DueIsToCome'
  <2> SUFFICES ASSUME subscribed, NEW c \in Clients, NEW m \in due'[c]
               PROVE  m \in Range(queue)
    BY <1>1 DEF DueIsToCome
  <2>1. c \in open /\ c \in Range(active) /\ c \notin dead
    BY <1>3 DEF Inv, PeersAreListed
  <2>2. ASSUME m \notin Range(queue) PROVE FALSE
    <3>1. m = message /\ c \in present /\ m \notin Range(received[c])
      BY <1>3, <2>2 DEF Inv, DueIsToCome
    <3>2. c \in Skipped
      BY <2>1, <3>1 DEF Skipped
    <3> QED BY <1>1, <3>1, <3>2
  <2> QED BY <2>2
<1>9. PassedAreCounted'
  <2>1. Ended' = Ended /\ Ended \in SUBSET Clients
    BY <1>1 DEF Ended
  <2> QED BY <1>1, <2>1, ClientsAreFinite DEF PassedAreCounted
<1> QED BY <1>4, <1>5, <1>6, <1>7, <1>8, <1>9 DEF Inv

LEMMA StutterStep == Inv /\ UNCHANGED vars => Inv'
<1> SUFFICES ASSUME Inv, UNCHANGED vars PROVE Inv'
  OBVIOUS
<1>1. Types' /\ PeersAreListed'
  BY DEF vars, broker, loop, history, Inv, Types, TypeOK, PeersAreListed
<1>2. QueueIsInOrder' /\ ReceivedInOrder' /\ DueIsToCome' /\ IterationIsExact'
  BY DEF vars, broker, loop, history, Inv, QueueIsInOrder, ReceivedInOrder,
         DueIsToCome, IterationIsExact
<1>3. PassedAreCounted'
  BY DEF vars, broker, loop, history, Inv, PassedAreCounted, Passed, Ended
<1> QED BY <1>1, <1>2, <1>3 DEF Inv

LEMMA StepInv == Inv /\ [Next]_vars => Inv'
<1> SUFFICES ASSUME Inv, [Next]_vars PROVE Inv'
  OBVIOUS
<1>1. ASSUME NEW c \in Clients, Connect(c) \/ Disconnect(c) PROVE Inv'
  BY <1>1, ConnectStep, DisconnectStep
<1>2. ASSUME NEW c \in Clients, Leaves(c) \/ HandlerFails(c) PROVE Inv'
  BY <1>2, GoesStep DEF Leaves, HandlerFails
<1>3. CASE Publish \/ Listener
  BY <1>3, PublishStep, TakesMessageStep, SendBeginsStep, SendRaisesStep, SendReturnsStep,
     BroadcastEndsStep DEF Listener
<1> QED BY <1>1, <1>2, <1>3, StutterStep DEF Next

\* Inv is an invariant of the broker, the listener and the connections.
THEOREM Invariance == Spec => []Inv
BY InitInv, StepInv, PTL DEF Spec

\* A peer gets each message once and in order; and when nothing is left to send,
\* it has all that was published since it is connected, but for what it was
\* skipped for.
THEOREM EventsForwarded == Spec => []EventsAreForwarded
<1>1. Inv => EventsAreForwarded
  <2> SUFFICES ASSUME Inv PROVE EventsAreForwarded
    OBVIOUS
  <2>1. ASSUME subscribed, listener = "waiting", queue = <<>>, NEW c \in open
        PROVE  due[c] = {}
    <3>1. c \in Clients /\ Range(queue) = {}
      BY <2>1 DEF Inv, Types, TypeOK, Range
    <3> QED BY <2>1, <3>1 DEF Inv, DueIsToCome
  <2> QED BY <2>1 DEF EventsAreForwarded, Inv, Types, ReceivedInOrder
<1> QED BY <1>1, Invariance, PTL

\* Who is skipped was passed over by the iterator, and each removal under the
\* iterator lets it pass over one connection.
THEOREM MissesCounted == Spec => []MissesAreDepartures
<1>1. Inv => MissesAreDepartures
  <2> SUFFICES ASSUME Inv, Exhausted PROVE Cardinality(Skipped) <= departures
    BY DEF MissesAreDepartures
  <2>1. \A c \in Range(active) : \E k \in DOMAIN active : k < position /\ active[k] = c
    <3> SUFFICES ASSUME NEW k \in DOMAIN active PROVE k < position
      BY DEF Range
    <3> QED BY DEF Exhausted, Inv, Types, TypeOK
  <2>2. Skipped \subseteq Passed
    BY <2>1 DEF Skipped, Passed, Exhausted
  <2>3. Passed \in SUBSET Clients /\ departures \in Nat
    BY DEF Passed, Inv, Types, TypeOK
  <2>4. IsFiniteSet(Passed) /\ Cardinality(Passed) \in Nat
    BY <2>3, ClientsAreFinite
  <2>5. Cardinality(Skipped) \in Nat /\ Cardinality(Skipped) <= Cardinality(Passed)
    BY <2>2, <2>4, FS_Subset, FS_CardinalityType
  <2> QED BY <2>3, <2>4, <2>5 DEF Exhausted, Inv, PassedAreCounted
<1> QED BY <1>1, Invariance, PTL
=============================================================================
