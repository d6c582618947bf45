------------------------ MODULE ToolExecutionProofs ------------------------
(***************************************************************************)
(* The slots of the semaphore and the domain locks are exact, for any      *)
(* number of calls, domains and slots.                                     *)
(***************************************************************************)
EXTENDS ToolExecution, FiniteSetTheorems, SequenceTheorems, TLAPS

Inv == TypeOK /\ SlotsAreAccountedFor /\ NoWakeupIsLost /\ OneHandlerPerDomain

Places == {"idle", "new", "queued", "granted", "limiting", "waiting",
           "running", "answered", "failed"}

\* What the semaphore and the queue before it say, with their types.
Slotted ==
  /\ free \in 0..Slots
  /\ slotQueue \in Seq(Calls)
  /\ SlotsAreAccountedFor
  /\ NoWakeupIsLost

-----------------------------------------------------------------------------
\* The head leaves a queue without repetitions, and the others stay.
LEMMA TailMembers ==
  ASSUME NEW S, NEW s \in Seq(S), s # <<>>, NoRepeats(s)
  PROVE  /\ Head(s) \in S
         /\ Tail(s) \in Seq(S)
         /\ Head(s) \in Members(s)
         /\ Members(Tail(s)) = Members(s) \ {Head(s)}
         /\ NoRepeats(Tail(s))
<1>1. /\ Head(s) \in S
      /\ Tail(s) \in Seq(S)
      /\ Len(Tail(s)) = Len(s) - 1
      /\ \A i \in 1..Len(Tail(s)) : Tail(s)[i] = s[i + 1]
  BY HeadTailProperties
<1>2. /\ Len(s) \in Nat \ {0}
      /\ DOMAIN s = 1..Len(s)
      /\ DOMAIN Tail(s) = 1..(Len(s) - 1)
      /\ Head(s) = s[1]
  BY <1>1, LenProperties, EmptySeq
<1> DEFINE t == Tail(s)
<1>3. \A i \in 1..(Len(s) - 1) : t[i] = s[i + 1]
  BY <1>1
<1> HIDE DEF t
<1>4. \A i, k \in 1..Len(s) : s[i] = s[k] => i = k
  BY <1>2 DEF NoRepeats
<1>5. Members(t) \subseteq Members(s) \ {s[1]}
  BY <1>2, <1>3, <1>4 DEF Members, t
<1>6. Members(s) \ {s[1]} \subseteq Members(t)
  <2> SUFFICES ASSUME NEW i \in 1..Len(s), s[i] # s[1] PROVE s[i] \in Members(t)
    BY <1>2 DEF Members
  <2>1. i - 1 \in 1..(Len(s) - 1) /\ t[i - 1] = s[i]
    BY <1>2, <1>3
  <2> QED BY <1>2, <2>1 DEF Members, t
<1>7. NoRepeats(t)
  BY <1>2, <1>3, <1>4 DEF NoRepeats, t
<1>8. Head(s) \in Members(s)
  BY <1>2 DEF Members
<1> QED BY <1>1, <1>2, <1>5, <1>6, <1>7, <1>8 DEF t

\* A newcomer joins the end of a queue.
LEMMA AppendMembers ==
  ASSUME NEW S, NEW s \in Seq(S), NEW e \in S, e \notin Members(s), NoRepeats(s)
  PROVE  /\ Append(s, e) \in Seq(S)
         /\ Members(Append(s, e)) = Members(s) \union {e}
         /\ NoRepeats(Append(s, e))
<1> DEFINE t == Append(s, e)
<1>1. /\ t \in Seq(S)
      /\ Len(t) = Len(s) + 1
      /\ \A i \in 1..Len(s) : t[i] = s[i]
      /\ t[Len(s) + 1] = e
  BY AppendProperties
<1> HIDE DEF t
<1>2. Len(s) \in Nat /\ DOMAIN s = 1..Len(s) /\ DOMAIN t = 1..(Len(s) + 1)
  BY <1>1, LenProperties
<1>3. Members(t) = Members(s) \union {e}
  BY <1>1, <1>2 DEF Members
<1>4. NoRepeats(t)
  BY <1>1, <1>2 DEF Members, NoRepeats
<1> QED BY <1>1, <1>3, <1>4 DEF t

\* Sets of calls are finite, and their size is a number.
LEMMA CallsFinite ==
  ASSUME NEW S, S \subseteq Calls
  PROVE  IsFiniteSet(S) /\ Cardinality(S) \in Nat
BY FS_Subset, FS_CardinalityType, ToolExecutionAssumption

-----------------------------------------------------------------------------
\* A step outside the semaphore leaves it as it is.
LEMMA SlotsUndisturbed ==
  ASSUME Slotted, free' = free, slotQueue' = slotQueue,
         Inside' = Inside, At({"queued"})' = At({"queued"}),
         At({"granted"})' = At({"granted"})
  PROVE  Slotted'
BY DEF Slotted, SlotsAreAccountedFor, NoWakeupIsLost

\* So does a step of one call that neither enters nor leaves.
LEMMA CallMoves ==
  ASSUME Slotted, pc \in [Calls -> Places], NEW c \in Calls, NEW to \in Places,
         free' = free, slotQueue' = slotQueue, pc' = [pc EXCEPT ![c] = to],
         \/ pc[c] \in {"limiting", "waiting"} /\ to \in {"waiting", "running"}
         \/ pc[c] = "new" /\ to \in {"idle", "failed"}
  PROVE  Slotted'
<1>1. Inside' = Inside
  BY DEF Inside, At
<1>2. At({"queued"})' = At({"queued"})
  BY DEF At
<1>3. At({"granted"})' = At({"granted"})
  BY DEF At
<1> QED BY <1>1, <1>2, <1>3, SlotsUndisturbed

\* A call that leaves gives its slot back, or hands it to the first waiter; the
\* running calls are the others as before.
LEMMA ReleaseSlots ==
  ASSUME Slotted, pc \in [Calls -> Places],
         NEW c \in Calls, pc[c] \in {"limiting", "running"},
         NEW end \in {"idle", "answered", "failed"}, Release(c, end)
  PROVE  /\ Slotted'
         /\ pc' \in [Calls -> Places]
         /\ At({"running"})' = At({"running"}) \ {c}
         /\ \A e \in Calls : pc'[e] # "idle" => pc[e] # "idle"
<1>0. c \in Inside /\ IsFiniteSet(Inside) /\ Cardinality(Inside) \in Nat
  BY CallsFinite DEF Inside, At
<1>a. /\ IsFiniteSet(Inside \ {c})
      /\ Cardinality(Inside \ {c}) = Cardinality(Inside) - 1
      /\ Cardinality(Inside \ {c}) \in Nat
  BY <1>0, FS_RemoveElement, FS_CardinalityType
<1>b. free \in Nat /\ Slots \in Nat /\ free + Cardinality(Inside) = Slots
  BY ToolExecutionAssumption DEF Slotted, SlotsAreAccountedFor
<1>1. CASE slotQueue = <<>>
  <2>1. free' = free + 1 /\ slotQueue' = slotQueue /\ pc' = [pc EXCEPT ![c] = end]
    BY <1>1 DEF Release
  <2>2. Inside' = Inside \ {c}
    BY <2>1 DEF Inside, At
  <2>3. free' \in 0..Slots /\ SlotsAreAccountedFor'
    <3>1. Cardinality(Inside)' = Cardinality(Inside) - 1 /\ Cardinality(Inside)' \in Nat
      BY <1>a, <2>2
    <3>2. free' + Cardinality(Inside)' = Slots
      BY <1>0, <1>b, <2>1, <3>1
    <3>3. free' \in 0..Slots
      BY <1>b, <2>1, <3>1, <3>2
    <3> QED BY <3>2, <3>3 DEF SlotsAreAccountedFor
  <2>4. At({"queued"})' = At({"queued"})
    BY <2>1 DEF At
  <2>5. Slotted'
    BY <1>1, <2>1, <2>3, <2>4 DEF Slotted, NoWakeupIsLost
  <2>6. pc' \in [Calls -> Places] /\ At({"running"})' = At({"running"}) \ {c}
    BY <2>1 DEF At, Places
  <2> QED BY <2>1, <2>5, <2>6
<1>2. CASE slotQueue # <<>>
  <2> DEFINE h == Head(slotQueue)
  <2>1. /\ free' = free /\ slotQueue' = Tail(slotQueue)
        /\ pc' = [pc EXCEPT ![c] = end, ![h] = "granted"]
    BY <1>2 DEF Release
  <2>2. /\ slotQueue \in Seq(Calls) /\ NoRepeats(slotQueue)
        /\ Members(slotQueue) = At({"queued"})
    BY DEF Slotted, NoWakeupIsLost
  <2>3. /\ h \in Calls /\ Tail(slotQueue) \in Seq(Calls) /\ h \in At({"queued"})
        /\ Members(Tail(slotQueue)) = At({"queued"}) \ {h}
        /\ NoRepeats(Tail(slotQueue))
    BY <1>2, <2>2, TailMembers
  <2> HIDE DEF h
  <2>4. pc[h] = "queued" /\ h # c /\ h \notin Inside
    BY <2>3 DEF At, Inside
  <2>5. \A e \in Calls : pc'[e] = IF e = h THEN "granted" ELSE IF e = c THEN end ELSE pc[e]
    BY <2>1, <2>3, <2>4
  <2>6. Inside' = (Inside \ {c}) \union {h}
    BY <2>3, <2>4, <2>5 DEF Inside, At
  <2>7. Cardinality(Inside)' = Cardinality(Inside)
    <3> DEFINE others == Inside \ {c}
    <3>1. h \notin others /\ IsFiniteSet(others)
      BY <1>a, <2>4
    <3>2. Cardinality(others \union {h}) = Cardinality(others) + 1
      BY <3>1, FS_AddElement
    <3> QED BY <1>0, <1>a, <2>6, <3>2
  <2>8. SlotsAreAccountedFor'
    BY <1>b, <2>1, <2>7 DEF SlotsAreAccountedFor
  <2>9. At({"queued"})' = At({"queued"}) \ {h} /\ h \in At({"granted"})'
    BY <2>3, <2>4, <2>5 DEF At
  <2>10. Slotted'
    BY <2>1, <2>3, <2>8, <2>9 DEF Slotted, NoWakeupIsLost
  <2>11. pc' \in [Calls -> Places]
    BY <2>1, <2>3 DEF Places
  <2>12. At({"running"})' = At({"running"}) \ {c}
    BY <2>4, <2>5 DEF At
  <2> QED BY <2>4, <2>5, <2>10, <2>11, <2>12
<1> QED BY <1>1, <1>2

\* A new call takes a slot or joins the queue.
LEMMA EntersSlots ==
  ASSUME Slotted, pc \in [Calls -> Places], NEW c \in Calls, Enters(c)
  PROVE  Slotted'
<1>1. /\ pc[c] = "new" /\ pc' = [pc EXCEPT ![c] = "limiting"]
      /\ free # 0 /\ free' = free - 1
      /\ slotQueue = <<>> /\ slotQueue' = slotQueue
  BY DEF Enters, SlotTaken
<1>2. Inside' = Inside \union {c} /\ c \notin Inside
  BY <1>1 DEF Inside, At
<1>3. Cardinality(Inside') = Cardinality(Inside) + 1 /\ Cardinality(Inside) \in Nat
  BY <1>2, CallsFinite, FS_AddElement DEF Inside, At
<1>4. free' \in 0..Slots /\ SlotsAreAccountedFor'
  BY <1>1, <1>3, ToolExecutionAssumption DEF Slotted, SlotsAreAccountedFor
<1>5. At({"queued"})' = At({"queued"})
  BY <1>1 DEF At
<1> QED BY <1>1, <1>4, <1>5 DEF Slotted, NoWakeupIsLost

LEMMA QueuesSlots ==
  ASSUME Slotted, pc \in [Calls -> Places], NEW c \in Calls, Queues(c)
  PROVE  Slotted'
<1>1. /\ pc[c] = "new" /\ pc' = [pc EXCEPT ![c] = "queued"] /\ SlotTaken
      /\ slotQueue' = Append(slotQueue, c) /\ free' = free
  BY DEF Queues
<1>2. /\ slotQueue \in Seq(Calls) /\ NoRepeats(slotQueue)
      /\ Members(slotQueue) = At({"queued"}) /\ c \notin Members(slotQueue)
  BY <1>1 DEF Slotted, NoWakeupIsLost, At
<1>3. /\ slotQueue' \in Seq(Calls) /\ NoRepeats(slotQueue')
      /\ Members(slotQueue') = At({"queued"}) \union {c}
  BY <1>1, <1>2, AppendMembers
<1>4. /\ At({"queued"})' = At({"queued"}) \union {c}
      /\ At({"granted"})' = At({"granted"})
      /\ Inside' = Inside
  BY <1>1 DEF Inside, At
<1>5. free = 0 \/ At({"granted"}) # {}
  BY <1>1 DEF Slotted, NoWakeupIsLost, SlotTaken
<1> QED BY <1>1, <1>3, <1>4, <1>5 DEF Slotted, SlotsAreAccountedFor, NoWakeupIsLost

\* Who was woken goes on, and wakes another one while there are slots.
LEMMA ResumesSlots ==
  ASSUME Slotted, pc \in [Calls -> Places], NEW c \in Calls, Resumes(c)
  PROVE  /\ Slotted'
         /\ pc' \in [Calls -> Places]
         /\ At({"running"})' = At({"running"})
         /\ \A e \in Calls : pc'[e] # "idle" => pc[e] # "idle"
<1>0. pc[c] = "granted"
  BY DEF Resumes
<1>1. CASE free > 0 /\ slotQueue # <<>>
  <2> DEFINE h == Head(slotQueue)
  <2>1. /\ free' = free - 1 /\ slotQueue' = Tail(slotQueue)
        /\ pc' = [pc EXCEPT ![c] = "limiting", ![h] = "granted"]
    BY <1>1 DEF Resumes, Slotted
  <2>2. /\ slotQueue \in Seq(Calls) /\ NoRepeats(slotQueue)
        /\ Members(slotQueue) = At({"queued"})
    BY DEF Slotted, NoWakeupIsLost
  <2>3. /\ h \in Calls /\ Tail(slotQueue) \in Seq(Calls) /\ h \in At({"queued"})
        /\ Members(Tail(slotQueue)) = At({"queued"}) \ {h}
        /\ NoRepeats(Tail(slotQueue))
    BY <1>1, <2>2, TailMembers
  <2> HIDE DEF h
  <2>4. pc[h] = "queued" /\ h # c /\ h \notin Inside
    BY <1>0, <2>3 DEF At, Inside
  <2>5. \A e \in Calls :
          pc'[e] = IF e = h THEN "granted" ELSE IF e = c THEN "limiting" ELSE pc[e]
    BY <2>1, <2>3, <2>4
  <2>6. Inside' = Inside \union {h}
    BY <1>0, <2>3, <2>5 DEF Inside, At
  <2>7. Cardinality(Inside') = Cardinality(Inside) + 1 /\ Cardinality(Inside) \in Nat
    BY <2>4, <2>6, CallsFinite, FS_AddElement DEF Inside, At
  <2>8. free' \in 0..Slots /\ SlotsAreAccountedFor'
    BY <1>1, <2>1, <2>7, ToolExecutionAssumption DEF Slotted, SlotsAreAccountedFor
  <2>9. At({"queued"})' = At({"queued"}) \ {h} /\ h \in At({"granted"})'
    BY <1>0, <2>3, <2>4, <2>5 DEF At
  <2>10. Slotted'
    BY <2>1, <2>3, <2>8, <2>9 DEF Slotted, NoWakeupIsLost
  <2>11. pc' \in [Calls -> Places] /\ At({"running"})' = At({"running"})
    BY <1>0, <2>1, <2>3, <2>4, <2>5 DEF Places, At
  <2> QED BY <1>0, <2>4, <2>5, <2>10, <2>11
<1>2. CASE ~(free > 0 /\ slotQueue # <<>>)
  <2>1. /\ free = 0 \/ slotQueue = <<>>
        /\ pc' = [pc EXCEPT ![c] = "limiting"] /\ free' = free /\ slotQueue' = slotQueue
    BY <1>2 DEF Resumes, Slotted
  <2>2. Inside' = Inside /\ At({"queued"})' = At({"queued"})
    BY <1>0, <2>1 DEF Inside, At
  <2>3. Slotted'
    BY <2>1, <2>2 DEF Slotted, SlotsAreAccountedFor, NoWakeupIsLost
  <2>4. pc' \in [Calls -> Places] /\ At({"running"})' = At({"running"})
    BY <1>0, <2>1 DEF Places, At
  <2> QED BY <1>0, <2>1, <2>3, <2>4
<1> QED BY <1>1, <1>2

-----------------------------------------------------------------------------
LEMMA InitInv == Init => Inv
<1> SUFFICES ASSUME Init PROVE Inv
  OBVIOUS
<1>1. Inside = {} /\ At({"queued"}) = {} /\ At({"granted"}) = {} /\ At({"running"}) = {}
  BY DEF Init, Inside, At
<1>2. TypeOK
  BY ToolExecutionAssumption DEF Init, TypeOK
<1>3. SlotsAreAccountedFor
  BY <1>1, FS_EmptySet, ToolExecutionAssumption DEF Init, SlotsAreAccountedFor
<1>4. NoWakeupIsLost
  BY <1>1 DEF Init, NoWakeupIsLost, Members, NoRepeats
<1>5. OneHandlerPerDomain
  BY <1>1 DEF Init, OneHandlerPerDomain
<1> QED BY <1>2, <1>3, <1>4, <1>5 DEF Inv

\* Where the agent comes and goes, no call is inside or in a queue.
LEMMA AgentStep ==
  ASSUME Inv,
         \/ \E calls \in SUBSET Calls : \E target \in [calls -> Domains] : Gather(calls, target)
         \/ Answered \/ Fails
  PROVE  Inv'
<1>1. ASSUME NEW calls \in SUBSET Calls, NEW target \in [calls -> Domains],
             Gather(calls, target)
      PROVE  Inv'
  <2>1. \A c \in calls : pc[c] = "idle"
    BY <1>1 DEF Gather, At
  <2>2. \A c \in Calls : c \notin calls => pc'[c] = pc[c] /\ domain'[c] = domain[c]
    BY <1>1 DEF Gather
  <2>3. \A c \in calls : pc'[c] = "new" /\ domain'[c] \in Domains /\ domain'[c] # None
    BY <1>1, ToolExecutionAssumption DEF Gather
  <2>4. TypeOK'
    BY <1>1, <2>2, <2>3 DEF Gather, Inv, TypeOK
  <2>5. /\ Inside' = Inside
        /\ At({"queued"})' = At({"queued"})
        /\ At({"granted"})' = At({"granted"})
        /\ At({"running"})' = At({"running"})
    BY <2>1, <2>2, <2>3 DEF Inside, At
  <2>6. Slotted'
    BY <1>1, <2>5, SlotsUndisturbed DEF Gather, Inv, TypeOK, Slotted
  <2>7. \A c \in At({"running"}) : domain'[c] = domain[c]
    BY <2>1, <2>2 DEF At
  <2>8. OneHandlerPerDomain'
    <3>1. {domain'[c] : c \in At({"running"})} = {domain[c] : c \in At({"running"})}
      BY <2>7
    <3>2. locked' = {domain'[c] : c \in At({"running"})'}
      BY <1>1, <2>5, <3>1 DEF Gather, Inv, OneHandlerPerDomain
    <3>3. \A c, e \in At({"running"})' : domain'[c] = domain'[e] => c = e
      BY <2>5, <2>7 DEF Inv, OneHandlerPerDomain
    <3> QED BY <3>2, <3>3 DEF OneHandlerPerDomain
  <2> QED BY <2>4, <2>6, <2>8 DEF Inv, Slotted
<1>2. CASE Answered \/ Fails
  <2>1. \A c \in Calls : \/ pc'[c] = pc[c]
                         \/ pc[c] \in {"answered", "failed"} /\ pc'[c] = "idle"
    BY <1>2 DEF Answered, Fails, Inv, TypeOK
  <2>2. TypeOK'
    BY <1>2, <2>1 DEF Answered, Fails, Inv, TypeOK
  <2>3. /\ Inside' = Inside
        /\ At({"queued"})' = At({"queued"})
        /\ At({"granted"})' = At({"granted"})
        /\ At({"running"})' = At({"running"})
    BY <2>1 DEF Inside, At
  <2>4. Slotted'
    BY <1>2, <2>3, SlotsUndisturbed DEF Answered, Fails, Inv, TypeOK, Slotted
  <2>5. OneHandlerPerDomain'
    BY <1>2, <2>3 DEF Answered, Fails, Inv, OneHandlerPerDomain
  <2> QED BY <2>2, <2>4, <2>5 DEF Inv, Slotted
<1> QED BY <1>1, <1>2

\* A call that starts to run takes the lock that nobody holds.
LEMMA LockTaken ==
  ASSUME Inv, NEW c \in Calls, pc[c] \in {"limiting", "waiting"},
         domain[c] \notin locked, locked' = locked \union {domain[c]},
         pc' = [pc EXCEPT ![c] = "running"], domain' = domain
  PROVE  OneHandlerPerDomain'
<1>1. At({"running"})' = At({"running"}) \union {c}
  BY DEF Inv, TypeOK, At
<1>2. \A e \in At({"running"}) : domain[e] # domain[c]
  BY DEF Inv, OneHandlerPerDomain
<1> QED BY <1>1, <1>2 DEF Inv, OneHandlerPerDomain

LEMMA CallStep ==
  ASSUME Inv, NEW c \in Calls, Call(c)
  PROVE  Inv'
<1>0. /\ Slotted /\ pc \in [Calls -> Places]
      /\ \A answer : Outcome(c, answer) \in {answer, "idle"}
  BY DEF Inv, TypeOK, Slotted, Places, Outcome
<1>1. CASE BadArguments(c)
  <2>1. PICK end \in {"idle", "failed"} : pc' = [pc EXCEPT ![c] = end]
    BY <1>0, <1>1 DEF BadArguments
  <2>2. Slotted'
    BY <1>0, <1>1, <2>1, CallMoves DEF BadArguments, Places
  <2>3. TypeOK' /\ At({"running"})' = At({"running"})
    BY <1>1, <2>1 DEF BadArguments, Inv, TypeOK, At
  <2> QED BY <1>1, <2>2, <2>3 DEF BadArguments, Inv, Slotted, OneHandlerPerDomain
<1>2. CASE Enters(c)
  <2>1. Slotted'
    BY <1>0, <1>2, EntersSlots
  <2>2. TypeOK' /\ At({"running"})' = At({"running"})
    BY <1>2, <2>1 DEF Enters, Inv, TypeOK, At, Slotted
  <2> QED BY <1>2, <2>1, <2>2 DEF Enters, Inv, Slotted, OneHandlerPerDomain
<1>3. CASE Queues(c)
  <2>1. Slotted'
    BY <1>0, <1>3, QueuesSlots
  <2>2. TypeOK' /\ At({"running"})' = At({"running"})
    BY <1>3, <2>1 DEF Queues, Inv, TypeOK, At, Slotted
  <2> QED BY <1>3, <2>1, <2>2 DEF Queues, Inv, Slotted, OneHandlerPerDomain
<1>4. CASE Resumes(c)
  <2>1. /\ Slotted' /\ pc' \in [Calls -> Places]
        /\ At({"running"})' = At({"running"})
        /\ \A e \in Calls : pc'[e] # "idle" => pc[e] # "idle"
    BY <1>0, <1>4, ResumesSlots
  <2>2. TypeOK'
    BY <1>4, <2>1 DEF Resumes, Inv, TypeOK, Slotted, Places
  <2> QED BY <1>4, <2>1, <2>2 DEF Resumes, Inv, Slotted, OneHandlerPerDomain
<1>5. CASE LimiterFails(c)
  <2>1. PICK end \in {"idle", "answered", "failed"} : Release(c, end)
    BY <1>0, <1>5 DEF LimiterFails
  <2>2. /\ Slotted' /\ pc' \in [Calls -> Places]
        /\ At({"running"})' = At({"running"}) \ {c}
        /\ \A e \in Calls : pc'[e] # "idle" => pc[e] # "idle"
    BY <1>0, <1>5, <2>1, ReleaseSlots DEF LimiterFails
  <2>3. At({"running"})' = At({"running"})
    BY <1>5, <2>2 DEF LimiterFails, At
  <2>4. TypeOK'
    BY <1>5, <2>2 DEF LimiterFails, Inv, TypeOK, Slotted, Places
  <2> QED BY <1>5, <2>2, <2>3, <2>4 DEF LimiterFails, Inv, Slotted, OneHandlerPerDomain
<1>6. CASE TakesLock(c)
  <2>1. Slotted'
    BY <1>0, <1>6, CallMoves DEF TakesLock, Places
  <2>2. domain[c] \in Domains
    BY <1>6 DEF TakesLock, Inv, TypeOK
  <2>3. TypeOK'
    BY <1>6, <2>2 DEF TakesLock, Inv, TypeOK
  <2>4. OneHandlerPerDomain'
    BY <1>6, LockTaken DEF TakesLock, LockBusy
  <2> QED BY <2>1, <2>3, <2>4 DEF Inv, Slotted
<1>7. CASE WaitsForLock(c)
  <2>1. Slotted'
    BY <1>0, <1>7, CallMoves DEF WaitsForLock, Places
  <2>2. domain[c] \in Domains
    BY <1>7 DEF WaitsForLock, Inv, TypeOK
  <2>3. Append(lockQueue[domain[c]], c) \in Seq(Calls)
    BY <2>2, AppendProperties DEF Inv, TypeOK
  <2>4. TypeOK' /\ At({"running"})' = At({"running"})
    BY <1>7, <2>2, <2>3 DEF WaitsForLock, Inv, TypeOK, At
  <2> QED BY <1>7, <2>1, <2>4 DEF WaitsForLock, Inv, Slotted, OneHandlerPerDomain
<1>8. CASE LockGranted(c)
  <2>1. Slotted'
    BY <1>0, <1>8, CallMoves DEF LockGranted, Places
  <2>2. domain[c] \in Domains
    BY <1>8 DEF LockGranted, Inv, TypeOK
  <2>3. Tail(lockQueue[domain[c]]) \in Seq(Calls)
    BY <1>8, <2>2, HeadTailProperties DEF LockGranted, Inv, TypeOK
  <2>4. TypeOK'
    BY <1>8, <2>2, <2>3 DEF LockGranted, Inv, TypeOK
  <2>5. OneHandlerPerDomain'
    BY <1>8, LockTaken DEF LockGranted
  <2> QED BY <2>1, <2>4, <2>5 DEF Inv, Slotted
<1>9. CASE Returns(c)
  <2>1. PICK end \in {"idle", "answered", "failed"} : Release(c, end)
    BY <1>0, <1>9 DEF Returns
  <2>2. /\ Slotted' /\ pc' \in [Calls -> Places]
        /\ At({"running"})' = At({"running"}) \ {c}
        /\ \A e \in Calls : pc'[e] # "idle" => pc[e] # "idle"
    BY <1>0, <1>9, <2>1, ReleaseSlots DEF Returns
  <2>3. TypeOK'
    BY <1>9, <2>2 DEF Returns, Inv, TypeOK, Slotted, Places
  <2>4. /\ c \in At({"running"}) /\ locked' = locked \ {domain[c]} /\ domain' = domain
        /\ \A e \in At({"running"}) : e # c => domain[e] # domain[c]
    BY <1>9 DEF Returns, At, Inv, OneHandlerPerDomain
  <2>5. OneHandlerPerDomain'
    BY <2>2, <2>4 DEF Inv, OneHandlerPerDomain
  <2> QED BY <2>2, <2>3, <2>5 DEF Inv, Slotted
<1> QED BY <1>1, <1>2, <1>3, <1>4, <1>5, <1>6, <1>7, <1>8, <1>9 DEF Call

LEMMA StepInv == Inv /\ [Next]_vars => Inv'
<1> SUFFICES ASSUME Inv, [Next]_vars PROVE Inv'
  OBVIOUS
<1>1. CASE UNCHANGED vars
  BY <1>1 DEF vars, Inv, TypeOK, SlotsAreAccountedFor, NoWakeupIsLost,
     OneHandlerPerDomain, Inside, At
<1> QED BY <1>1, AgentStep, CallStep DEF Next

LEMMA Invariance == Spec => []Inv
<1> QED BY InitInv, StepInv, PTL DEF Spec

\* The variables keep their types.
THEOREM TypeCorrect == Spec => []TypeOK
<1>1. Inv => TypeOK
  BY DEF Inv
<1> QED BY <1>1, Invariance, PTL

\* However calls fail, queue up or are detached from their turn, the semaphore
\* counts them exactly: at most Slots are in flight.
THEOREM SlotsExact == Spec => []SlotsAreAccountedFor
<1>1. Inv => SlotsAreAccountedFor
  BY DEF Inv
<1> QED BY <1>1, Invariance, PTL

\* A free slot never passes a sleeping waiter by.
THEOREM WakeupsExact == Spec => []NoWakeupIsLost
<1>1. Inv => NoWakeupIsLost
  BY DEF Inv
<1> QED BY <1>1, Invariance, PTL

\* Two handlers of one domain never run at once, not even handlers of different turns.
THEOREM DomainExclusion == Spec => []OneHandlerPerDomain
<1>1. Inv => OneHandlerPerDomain
  BY DEF Inv
<1> QED BY <1>1, Invariance, PTL

\* The semaphore is exact, in its value and in its queue, over every failure.
THEOREM SemaphoreExact == Spec => []SemaphoreIsExact
<1>1. Inv => SemaphoreIsExact
  BY DEF Inv, SemaphoreIsExact
<1> QED BY <1>1, Invariance, PTL
=============================================================================
