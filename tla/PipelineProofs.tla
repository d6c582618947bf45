--------------------------- MODULE PipelineProofs ---------------------------
(***************************************************************************)
(* Proofs about the two pipelines.  The staged evaluation, for any         *)
(* candidates, any dataset and all bounds: verdicts are stable and pass    *)
(* the guard, a fitness was measured, and the engines agree on what the    *)
(* solver has verified.  The nightly discovery, for any set of tasks and   *)
(* all bounds: pipelines exclude each other, what is published is what was *)
(* proved, and branches are not shared.                                    *)
(***************************************************************************)
EXTENDS Nightly, Evaluation, FiniteSetTheorems, WellFoundedInduction, TLAPS

(***************************************************************************)
(* Numbers.                                                                *)
(***************************************************************************)
\* A set of numbers has a least one.
LEMMA LeastNumber ==
  ASSUME NEW T \in SUBSET Nat, T # {}
  PROVE  \E m \in T : \A j \in T : m <= j
<1>1. \E m \in T : \A j \in T : ~(<<j, m>> \in OpToRel(<, Nat))
  BY NatLessThanWellFounded, WFMin
<1>2. \A j, m \in T : <<j, m>> \in OpToRel(<, Nat) <=> j < m
  BY DEF OpToRel
<1>3. \A j, m \in T : ~(j < m) => m <= j
  OBVIOUS
<1> QED BY <1>1, <1>2, <1>3

\* A set of places that contains each one that follows contained ones has them all.
LEMMA EveryPlace ==
  ASSUME NEW n \in Nat, NEW T, \A k \in 1 .. n : (\A j \in 1 .. (k - 1) : j \in T) => k \in T
  PROVE  \A k \in 1 .. n : k \in T
<1> DEFINE missing == {k \in 1 .. n : k \notin T}
<1> SUFFICES ASSUME missing # {} PROVE FALSE
  OBVIOUS
<1>1. missing \in SUBSET Nat
  OBVIOUS
<1>2. PICK m \in missing : \A j \in missing : m <= j
  BY <1>1, LeastNumber
<1>3. \A j \in 1 .. (m - 1) : j \in T
  BY <1>2
<1> QED BY <1>2, <1>3

\* A step from a state of one round to a state of the next.
Iterable(N, S, first, Step) ==
    /\ N \in Nat /\ first \in S[0]
    /\ \A n \in 1 .. N : \A x \in S[n - 1] : Step[n][x] \in S[n]

IsIteration(f, N, S, first, Step) ==
    /\ f = [n \in 0 .. N |-> IF n = 0 THEN first ELSE Step[n][f[n - 1]]]
    /\ \A n \in 0 .. N : f[n] \in S[n]

\* Such a step can be iterated.
LEMMA Iterates ==
  ASSUME NEW N, NEW S, NEW first, NEW Step, Iterable(N, S, first, Step)
  PROVE  \E f : IsIteration(f, N, S, first, Step)
<1> USE DEF Iterable
<1> DEFINE Is(f, m) == IsIteration(f, m, S, first, Step)
           missing == {m \in 0 .. N : \A f : ~Is(f, m)}
<1> SUFFICES ASSUME missing # {} PROVE FALSE
  OBVIOUS
<1>1. missing \in SUBSET Nat
  OBVIOUS
<1>2. PICK m \in missing : \A j \in missing : m <= j
  BY <1>1, LeastNumber
<1>3. CASE m = 0
  <2> DEFINE f == [n \in 0 .. 0 |-> first]
  <2>1. Is(f, 0)
    BY DEF IsIteration
  <2> HIDE DEF Is
  <2> QED BY <1>2, <1>3, <2>1
<1>4. CASE m # 0
  <2>1. m \in 1 .. N /\ m - 1 \in 0 .. N /\ m - 1 \notin missing
    BY <1>2, <1>4
  <2>2. PICK g : Is(g, m - 1)
    BY <2>1
  <2> DEFINE f == [n \in 0 .. m |-> IF n = m THEN Step[m][g[m - 1]] ELSE g[n]]
  <2>3. \A i \in 0 .. (m - 1) : f[i] = g[i] /\ g[i] \in S[i]
    BY <2>1, <2>2 DEF IsIteration
  <2>4. f[m] = Step[m][g[m - 1]] /\ m - 1 \in 0 .. (m - 1)
    BY <2>1
  <2>5. f[m] \in S[m]
    BY <2>1, <2>3, <2>4
  <2>6. g[0] = first /\ \A i \in 1 .. (m - 1) : g[i] = Step[i][g[i - 1]]
    BY <2>1, <2>2 DEF IsIteration
  <2>7. ASSUME NEW n \in 0 .. m
        PROVE  f[n] = IF n = 0 THEN first ELSE Step[n][f[n - 1]]
    <3>1. CASE n = m
      BY <2>1, <2>3, <2>4, <3>1
    <3>2. CASE n = 0
      BY <2>1, <2>3, <2>6, <3>2
    <3>3. CASE n # m /\ n # 0
      <4>1. n \in 1 .. (m - 1) /\ n - 1 \in 0 .. (m - 1) /\ n \in 0 .. (m - 1)
        BY <2>1, <3>3
      <4> HIDE DEF f
      <4> QED BY <2>3, <2>6, <3>3, <4>1
    <3> QED BY <3>1, <3>2, <3>3
  <2>8. \A n \in 0 .. m : f[n] \in S[n]
    <3>1. \A n \in 0 .. m : n = m \/ n \in 0 .. (m - 1)
      BY <2>1
    <3> HIDE DEF f
    <3> QED BY <2>3, <2>5, <3>1
  <2>9. f = [n \in 0 .. m |-> f[n]]
    OBVIOUS
  <2> HIDE DEF f
  <2>10. f = [n \in 0 .. m |-> IF n = 0 THEN first ELSE Step[n][f[n - 1]]]
    BY <2>7, <2>9
  <2>11. Is(f, m)
    BY <2>8, <2>10 DEF IsIteration
  <2> HIDE DEF Is
  <2> QED BY <1>2, <2>11
<1> QED BY <1>3, <1>4

\* What the constants of the simulation are.
LEMMA TheDataset ==
  /\ Size \in 1 .. 100 /\ Size \in Nat
  /\ Len(Sequences) \in Nat /\ DOMAIN Sequences = 1 .. Len(Sequences)
  /\ \A n \in DOMAIN Sequences : Sequences[n] \in Seq(1 .. Size)
  /\ \A n \in DOMAIN Probes : Probes[n] \in Seq(1 .. Size)
<1>1. Size \in 1 .. 100
  BY HeuristicsAssumption
<1>2. Sequences \in Seq(Seq(1 .. Size)) /\ Probes \in Seq(Seq(1 .. Size))
  BY HeuristicsAssumption
<1>3. \A S : \A s \in Seq(S) : /\ Len(s) \in Nat /\ DOMAIN s = 1 .. Len(s)
                               /\ \A n \in DOMAIN s : s[n] \in S
  OBVIOUS
<1> QED BY <1>1, <1>2, <1>3

(***************************************************************************)
(* Expressions.                                                            *)
(***************************************************************************)
Numbers == Int \X Int

Arithmetic == {"+", "-", "*", "/"}

IsExpression(e) ==
    /\ e \in Seq(Nodes) /\ e # <<>>
    /\ \A k \in DOMAIN e : e[k][1] \in Operators \cup {"if"} =>
           \A j \in 2 .. Len(e[k]) : e[k][j] \in 1 .. (k - 1)

\* A node and its operands.
LEMMA NodeKinds ==
  ASSUME NEW e, IsExpression(e), NEW k \in DOMAIN e
  PROVE  /\ DOMAIN e = 1 .. Len(e) /\ Len(e) \in Nat /\ Len(e) \in DOMAIN e
         /\ e[k][1] \in {"num", "name", "if"} \cup Operators
         /\ e[k][1] = "num" => e[k] = <<"num", e[k][2]>> /\ e[k][2] \in Int
         /\ e[k][1] = "name" => e[k] = <<"name", e[k][2]>> /\ e[k][2] \in STRING
         /\ e[k][1] \in Operators => e[k][2] \in 1 .. (k - 1) /\ e[k][3] \in 1 .. (k - 1)
         /\ e[k][1] = "if" => /\ e[k][2] \in 1 .. (k - 1) /\ e[k][3] \in 1 .. (k - 1)
                              /\ e[k][4] \in 1 .. (k - 1) /\ e[k][5] \in 1 .. (k - 1)
<1>1. DOMAIN e = 1 .. Len(e) /\ Len(e) \in Nat /\ Len(e) \in DOMAIN e /\ e[k] \in Nodes
  BY DEF IsExpression
<1>2. CASE e[k] \in {"num"} \X Int
  BY <1>1, <1>2 DEF Operators
<1>3. CASE e[k] \in {"name"} \X STRING
  BY <1>1, <1>3 DEF Operators
<1>4. CASE e[k] \in Operators \X Nat \X Nat
  <2>1. e[k][1] \in Operators /\ Len(e[k]) = 3
    BY <1>4
  <2>2. \A j \in 2 .. 3 : e[k][j] \in 1 .. (k - 1)
    BY <2>1 DEF IsExpression
  <2>3. e[k][2] \in 1 .. (k - 1) /\ e[k][3] \in 1 .. (k - 1)
    BY <2>2
  <2> QED BY <1>1, <2>1, <2>3 DEF Operators
<1>5. CASE e[k] \in {"if"} \X Nat \X Nat \X Nat \X Nat
  <2>1. e[k][1] = "if" /\ Len(e[k]) = 5
    BY <1>5
  <2>2. \A j \in 2 .. 5 : e[k][j] \in 1 .. (k - 1)
    BY <2>1 DEF IsExpression
  <2>3. /\ e[k][2] \in 1 .. (k - 1) /\ e[k][3] \in 1 .. (k - 1)
        /\ e[k][4] \in 1 .. (k - 1) /\ e[k][5] \in 1 .. (k - 1)
    BY <2>2
  <2> QED BY <1>1, <2>1, <2>3 DEF Operators
<1> QED BY <1>1, <1>2, <1>3, <1>4, <1>5 DEF Nodes

\* The arithmetic of fractions has fractions as its results.
LEMMA ArithType ==
  ASSUME NEW l \in Numbers, NEW r \in Numbers, NEW op \in Arithmetic
  PROVE  Arith(op, l, r) \in Numbers
<1>1. \A a, b \in Int : a * b \in Int /\ a + b \in Int /\ -a \in Int
  OBVIOUS
<1>2. \A n, d \in Int : Number(n, d) \in Numbers
  BY DEF Number, Numbers
<1>3. \A x, y \in Numbers : Plus(x, y) \in Numbers
  <2> SUFFICES ASSUME NEW x \in Numbers, NEW y \in Numbers PROVE Plus(x, y) \in Numbers
    OBVIOUS
  <2>1. x[1] \in Int /\ x[2] \in Int /\ y[1] \in Int /\ y[2] \in Int /\ NaN \in Numbers
    BY DEF Numbers, NaN
  <2> QED BY <1>1, <1>2, <2>1 DEF Plus
<1>4. \A x, y \in Numbers : Times(x, y) \in Numbers
  BY <1>1, <1>2 DEF Times, Numbers
<1>5. \A x, y \in Numbers : Minus(x, y) \in Numbers
  <2> SUFFICES ASSUME NEW x \in Numbers, NEW y \in Numbers PROVE Minus(x, y) \in Numbers
    OBVIOUS
  <2>1. <<-y[1], y[2]>> \in Numbers
    BY DEF Numbers
  <2> QED BY <1>3, <2>1 DEF Minus
<1>6. \A x, y \in Numbers : Over(x, y) \in Numbers
  <2> SUFFICES ASSUME NEW x \in Numbers, NEW y \in Numbers PROVE Over(x, y) \in Numbers
    OBVIOUS
  <2>1. /\ NaN \in Numbers /\ <<-y[2], -y[1]>> \in Numbers /\ <<1, 0>> \in Numbers
        /\ <<y[2], y[1]>> \in Numbers
    BY DEF Numbers, NaN
  <2> QED BY <1>4, <2>1 DEF Over
<1> QED BY <1>3, <1>4, <1>5, <1>6 DEF Arith, Arithmetic

\* A node depends on its operands only.
LEMMA VisitLooksBack ==
  ASSUME NEW e, IsExpression(e), NEW k \in DOMAIN e, NEW by, NEW env, NEW V, NEW W,
         \A j \in 1 .. (k - 1) : V[j] = W[j]
  PROVE  Visit(by, e[k], env, V) = Visit(by, e[k], env, W)
<1>1. e[k][1] \in {"num", "name", "if"} \cup Operators
  BY NodeKinds
<1>2. CASE e[k][1] \in {"num", "name"}
  BY <1>2 DEF Visit
<1>3. CASE e[k][1] \in Operators
  <2>1. V[e[k][2]] = W[e[k][2]] /\ V[e[k][3]] = W[e[k][3]] /\ e[k][1] # "if"
    BY <1>3, NodeKinds DEF Operators
  <2> QED BY <2>1 DEF Visit
<1>4. CASE e[k][1] = "if"
  <2>1. /\ V[e[k][2]] = W[e[k][2]] /\ V[e[k][3]] = W[e[k][3]]
        /\ V[e[k][4]] = W[e[k][4]] /\ V[e[k][5]] = W[e[k][5]]
    BY <1>4, NodeKinds
  <2> QED BY <2>1, <1>4 DEF Visit
<1> QED BY <1>1, <1>2, <1>3, <1>4

\* The values of the nodes follow from those of their operands.
LEMMA ValuesFollow ==
  ASSUME NEW e, IsExpression(e), NEW by, NEW env
  PROVE  \A k \in DOMAIN e :
             Values(by, e, env)[k] = Visit(by, e[k], env, Values(by, e, env))
<1> DEFINE Node(k, V) == Visit(by, e[k], env, V)
           Is(f, m) == f = [k \in 1 .. m |-> Node(k, f)]
           missing == {m \in 0 .. Len(e) : \A f : ~Is(f, m)}
<1>1. DOMAIN e = 1 .. Len(e) /\ Len(e) \in Nat
  BY DEF IsExpression
<1>2. \A k \in DOMAIN e : \A V, W : (\A j \in 1 .. (k - 1) : V[j] = W[j]) => Node(k, V) = Node(k, W)
  BY VisitLooksBack
<1> HIDE DEF Node
<1>3. missing = {}
  <2> SUFFICES ASSUME missing # {} PROVE FALSE
    OBVIOUS
  <2>1. missing \in SUBSET Nat
    OBVIOUS
  <2>2. PICK m \in missing : \A j \in missing : m <= j
    BY <2>1, LeastNumber
  <2>3. CASE m = 0
    <3> DEFINE f == [k \in 1 .. 0 |-> 0]
    <3>1. Is(f, 0)
      OBVIOUS
    <3> HIDE DEF Is
    <3> QED BY <2>2, <2>3, <3>1
  <2>4. CASE m # 0
    <3>1. m \in 1 .. Len(e) /\ m - 1 \in 0 .. Len(e) /\ m - 1 \notin missing
      BY <1>1, <2>2, <2>4
    <3>2. PICK g : Is(g, m - 1)
      BY <3>1
    <3> DEFINE f == [k \in 1 .. m |-> IF k = m THEN Node(m, g) ELSE g[k]]
    <3>3. \A i \in 1 .. (m - 1) : f[i] = g[i] /\ g[i] = Node(i, g)
      <4>1. \A i \in 1 .. (m - 1) : g[i] = Node(i, g)
        BY <3>2, Zenon
      <4>2. \A i \in 1 .. (m - 1) : f[i] = g[i]
        BY <3>1
      <4> QED BY <4>1, <4>2
    <3>4. f[m] = Node(m, g)
      BY <3>1
    <3>5. f = [k \in 1 .. m |-> f[k]]
      OBVIOUS
    <3>6. \A k \in 1 .. m : k \in DOMAIN e /\ (k = m \/ k \in 1 .. (m - 1))
      BY <1>1, <3>1
    <3> HIDE DEF f
    <3>7. \A k \in 1 .. m : Node(k, f) = Node(k, g)
      <4> SUFFICES ASSUME NEW k \in 1 .. m PROVE Node(k, f) = Node(k, g)
        OBVIOUS
      <4>1. \A j \in 1 .. (k - 1) : f[j] = g[j]
        BY <3>1, <3>3
      <4> QED BY <1>2, <3>6, <4>1
    <3>8. \A k \in 1 .. m : f[k] = Node(k, f)
      BY <3>3, <3>4, <3>6, <3>7
    <3>9. Is(f, m)
      BY <3>5, <3>8
    <3> HIDE DEF Is
    <3> QED BY <2>2, <3>9
  <2> QED BY <2>3, <2>4
<1>4. \E f : Is(f, Len(e))
  BY <1>1, <1>3
<1>5. Values(by, e, env) = CHOOSE f : Is(f, Len(e))
  BY <1>1 DEF Values, Node
<1>6. Is(Values(by, e, env), Len(e))
  <2> HIDE DEF Is
  <2> QED BY <1>4, <1>5
<1> QED BY <1>1, <1>6 DEF Node

\* What the solver reads, and finds no divisor 0 in, has the same value for it
\* and for Python, and for the engine as far as it has no conditional.
LEMMA ReadersAgree ==
  ASSUME NEW e, IsExpression(e), NEW env, NEW own,
         \A k \in DOMAIN e : e[k][1] \notin {"max", "<"},
         \A k \in DOMAIN e : e[k][1] = "name" =>
             /\ e[k][2] \in DOMAIN env /\ e[k][2] \in DOMAIN own
             /\ env[e[k][2]] = own[e[k][2]] /\ env[e[k][2]] \in Numbers,
         \A k \in DOMAIN e : e[k][1] = "/" => Values("z3", e, env)[e[k][3]][1] # 0
  PROVE  \A k \in DOMAIN e :
             /\ Values("z3", e, env)[k] \in Numbers
             /\ Values("python", e, own)[k] = Values("z3", e, env)[k]
             /\ (\A j \in DOMAIN e : e[j][1] # "if")
                    => Values("engine", e, env)[k] = Values("z3", e, env)[k]
<1> DEFINE Z == Values("z3", e, env)
           P == Values("python", e, own)
           E == Values("engine", e, env)
           plain == \A j \in DOMAIN e : e[j][1] # "if"
           T == {k \in DOMAIN e : Z[k] \in Numbers /\ P[k] = Z[k] /\ (plain => E[k] = Z[k])}
<1>1. DOMAIN e = 1 .. Len(e) /\ Len(e) \in Nat
  BY DEF IsExpression
<1>2. \A k \in DOMAIN e : /\ Z[k] = Visit("z3", e[k], env, Z)
                          /\ P[k] = Visit("python", e[k], own, P)
                          /\ E[k] = Visit("engine", e[k], env, E)
  BY ValuesFollow
<1>3. \A k \in DOMAIN e : e[k][1] = "/" => Z[e[k][3]][1] # 0
  OBVIOUS
<1>4. Raises \notin Numbers
  BY DEF Raises, Numbers
<1> HIDE DEF Z, P, E
<1>5. ASSUME NEW k \in 1 .. Len(e), \A j \in 1 .. (k - 1) : j \in T
      PROVE  k \in T
  <2>1. \A j \in 1 .. (k - 1) : Z[j] \in Numbers /\ P[j] = Z[j] /\ (plain => E[j] = Z[j])
    BY <1>5
  <2>2. k \in DOMAIN e /\ e[k][1] \in {"num", "name", "if"} \cup Operators
    BY <1>1, NodeKinds
  <2>3. CASE e[k][1] = "num"
    <3>1. <<e[k][2], 1>> \in Numbers
      BY <2>2, <2>3, NodeKinds DEF Numbers
    <3>2. Z[k] = <<e[k][2], 1>> /\ P[k] = <<e[k][2], 1>> /\ E[k] = <<e[k][2], 1>>
      BY <1>2, <2>2, <2>3 DEF Visit
    <3> QED BY <2>2, <3>1, <3>2
  <2>4. CASE e[k][1] = "name"
    <3>1. Z[k] = env[e[k][2]] /\ P[k] = own[e[k][2]] /\ E[k] = env[e[k][2]]
      BY <1>2, <2>2, <2>4 DEF Visit
    <3> QED BY <2>2, <2>4, <3>1
  <2>5. CASE e[k][1] = "if"
    <3>1. \A a \in {2, 3, 4, 5} : Z[e[k][a]] \in Numbers /\ P[e[k][a]] = Z[e[k][a]]
      BY <2>1, <2>2, <2>5, NodeKinds
    <3>2. /\ Z[k] = IF Gt(Z[e[k][2]], Z[e[k][3]]) THEN Z[e[k][4]] ELSE Z[e[k][5]]
          /\ P[k] = IF Gt(P[e[k][2]], P[e[k][3]]) THEN P[e[k][4]] ELSE P[e[k][5]]
      BY <1>2, <1>4, <2>2, <2>5, <3>1 DEF Visit
    <3> QED BY <2>2, <2>5, <3>1, <3>2
  <2>6. CASE e[k][1] \in Operators
    <3>1. e[k][1] \in Arithmetic /\ e[k][1] \notin {"num", "name", "if", "max", "<"}
      BY <2>2, <2>6 DEF Operators, Arithmetic
    <3>2. \A a \in {2, 3} : /\ Z[e[k][a]] \in Numbers /\ P[e[k][a]] = Z[e[k][a]]
                            /\ plain => E[e[k][a]] = Z[e[k][a]]
      BY <2>1, <2>2, <2>6, NodeKinds
    <3>3. /\ Z[e[k][2]] # Raises /\ Z[e[k][3]] # Raises
          /\ e[k][1] = "/" => Z[e[k][3]][1] # 0
      BY <1>3, <1>4, <2>2, <3>2
    <3>4. /\ Z[k] = Arith(e[k][1], Z[e[k][2]], Z[e[k][3]])
          /\ P[k] = Arith(e[k][1], Z[e[k][2]], Z[e[k][3]])
          /\ plain => E[k] = Arith(e[k][1], Z[e[k][2]], Z[e[k][3]])
      BY <1>2, <2>2, <3>1, <3>2, <3>3 DEF Visit
    <3>5. Z[k] \in Numbers
      BY <3>1, <3>2, <3>4, ArithType
    <3> QED BY <2>2, <3>4, <3>5
  <2> QED BY <2>2, <2>3, <2>4, <2>5, <2>6
<1>6. \A k \in DOMAIN e : k \in T
  <2> HIDE DEF T
  <2> QED BY <1>1, <1>5, EveryPlace
<1> QED BY <1>6 DEF Z, P, E

\* What the solver has verified means the same to Python and to the engine
\* wherever a simulation asks.
LEMMA VerifiedIsShared ==
  ASSUME NEW p, IsProgram(p), OwnNames(p), Verdict(p) = "verified", NEW q \in Points
  PROVE  /\ PythonValue(p, q[1], q[2]) # Raises
         /\ Compiles(p) => EngineValue(p, q[1], q[2]) = PythonValue(p, q[1], q[2])
<1> DEFINE e == p.ret
           env == ByName(q[1], q[2])
           own == ByPosition(p, q[1], q[2])
<1>1. IsExpression(e)
  BY DEF IsProgram, IsExpression
<1>2. p.shape = "function" /\ Readable(e) /\ ~Singular(e) /\ e[Len(e)][1] # "<"
  BY DEF OwnNames, Verdict, RefutedUnasked
<1>3. q[1] \in Int /\ q[2] \in Int
  BY TheDataset DEF Points
<1>4. \A k \in DOMAIN e : e[k][1] \notin {"max", "<"}
  BY <1>2 DEF Readable, IsProgram
<1>5. ASSUME NEW k \in DOMAIN e, e[k][1] = "name"
      PROVE  /\ e[k][2] \in DOMAIN env /\ e[k][2] \in DOMAIN own
             /\ env[e[k][2]] = own[e[k][2]] /\ env[e[k][2]] \in Numbers
  <2> DEFINE n == e[k][2]
  <2>1. n \in NamesOf(e)
    BY <1>5 DEF NamesOf
  <2>2. n \in {"item", "bin_capacity"} /\ n \in {p.item, p.cap}
    BY <1>2, <2>1 DEF Readable, OwnNames, Contract
  <2>3. p.item # "bin_capacity" /\ p.cap # "item"
    BY DEF OwnNames
  <2> HIDE DEF n
  <2>4. /\ n \in DOMAIN env /\ n \in DOMAIN own
        /\ env[n] = IF n = "item" THEN <<q[1], 1>> ELSE <<q[2], 1>>
        /\ own[n] = IF n = p.item THEN <<q[1], 1>> ELSE <<q[2], 1>>
    BY <2>2 DEF ByName, ByPosition, Contract
  <2>5. env[n] = own[n] /\ env[n] \in Numbers
    BY <1>3, <2>2, <2>3, <2>4 DEF Numbers
  <2> QED BY <2>4, <2>5 DEF n
<1>6. ASSUME NEW k \in DOMAIN e, e[k][1] = "/"
      PROVE  Values("z3", e, env)[e[k][3]][1] # 0
  <2>1. e[k][3] \in Divisors(e)
    BY <1>6 DEF Divisors
  <2> QED BY <1>2, <2>1 DEF Singular, AtPoint
<1>7. Len(e) \in DOMAIN e
  BY <1>1, NodeKinds DEF IsExpression
<1> HIDE DEF e, env, own
<1>8. /\ Values("z3", e, env)[Len(e)] \in Numbers
      /\ Values("python", e, own)[Len(e)] = Values("z3", e, env)[Len(e)]
      /\ (\A j \in DOMAIN e : e[j][1] # "if")
             => Values("engine", e, env)[Len(e)] = Values("z3", e, env)[Len(e)]
  BY <1>1, <1>4, <1>5, <1>6, <1>7, ReadersAgree
<1>9. Raises \notin Numbers
  BY DEF Raises, Numbers
<1>10. Compiles(p) => \A j \in DOMAIN e : e[j][1] # "if"
  BY DEF Compiles, e
<1> QED BY <1>8, <1>9, <1>10 DEF PythonValue, EngineValue, e, env, own

(***************************************************************************)
(* The simulation.                                                         *)
(***************************************************************************)
Rooms == Seq(0 .. Size)

\* An item goes into a bin, or into a new one.
LEMMA PlacesAnItem ==
  ASSUME NEW score, NEW bins \in Rooms, NEW item \in 1 .. Size
  PROVE  /\ Places(score, bins, item) \in Rooms
         /\ Len(Places(score, bins, item)) \in {Len(bins), Len(bins) + 1}
         /\ Len(Places(score, bins, item)) >= 1
<1> DEFINE fits == {k \in DOMAIN bins : bins[k] >= item}
           best == {k \in fits : /\ Gt(score[item, bins[k]], MinusInf)
                                 /\ \A j \in fits : ~Gt(score[item, bins[j]], score[item, bins[k]])}
<1>1. Size \in Nat /\ Len(bins) \in Nat /\ DOMAIN bins = 1 .. Len(bins)
  BY TheDataset DEF Rooms
<1>2. \A k \in best : k \in DOMAIN bins /\ bins[k] >= item
  OBVIOUS
<1>3. Places(score, bins, item) = IF best = {} THEN Append(bins, Size - item)
                                  ELSE [bins EXCEPT ![Min(best)] = bins[Min(best)] - item]
  BY DEF Places
<1> HIDE DEF best, fits
<1>4. CASE best = {}
  <2>1. Size - item \in 0 .. Size
    BY <1>1
  <2>2. Append(bins, Size - item) \in Rooms /\ Len(Append(bins, Size - item)) = Len(bins) + 1
    BY <1>1, <2>1 DEF Rooms
  <2> QED BY <1>1, <1>3, <1>4, <2>2
<1>5. CASE best # {}
  <2>1. best \in SUBSET Nat
    BY <1>1, <1>2
  <2>2. \E k \in best : \A j \in best : k <= j
    BY <1>5, <2>1, LeastNumber
  <2>3. Min(best) \in best
    BY <2>2 DEF Min
  <2> DEFINE k == Min(best)
             after == [bins EXCEPT ![k] = bins[k] - item]
  <2> HIDE DEF k
  <2>4. k \in DOMAIN bins /\ bins[k] \in 0 .. Size /\ bins[k] >= item
    <3>1. k \in best
      BY <2>3 DEF k
    <3>2. k \in DOMAIN bins /\ bins[k] >= item
      BY <1>2, <3>1
    <3>3. \A j \in DOMAIN bins : bins[j] \in 0 .. Size
      BY <1>1 DEF Rooms
    <3> QED BY <3>2, <3>3
  <2>5. bins[k] - item \in 0 .. Size
    BY <1>1, <2>4
  <2>6. after \in Rooms /\ Len(after) = Len(bins)
    BY <1>1, <2>4, <2>5 DEF Rooms
  <2>7. Places(score, bins, item) = after
    BY <1>3, <1>5 DEF k
  <2> QED BY <1>1, <2>4, <2>6, <2>7
<1> QED BY <1>4, <1>5

\* What a simulation may know after n items: no bin is empty.
Packed(n) == {st \in [bins : Rooms, volume : Nat] :
                 Len(st.bins) <= st.volume /\ (n >= 1 => Len(st.bins) >= 1)}

\* The states of a simulation.
LEMMA PacksTheStream ==
  ASSUME NEW score, NEW stream \in Seq(1 .. Size)
  PROVE  \A n \in 0 .. Len(stream) : Packs(score, stream)[n] \in Packed(n)
<1> DEFINE N == Len(stream)
           first == [bins |-> <<>>, volume |-> 0]
           Next1(n, st) == [bins |-> Places(score, st.bins, stream[n]),
                            volume |-> st.volume + stream[n]]
           S == [n \in 0 .. N |-> Packed(n)]
           Step == [n \in 1 .. N |-> [st \in Packed(n - 1) |-> Next1(n, st)]]
           Is(f) == f = [n \in 0 .. N |-> IF n = 0 THEN first ELSE Next1(n, f[n - 1])]
<1>1. N \in Nat /\ Size \in Nat /\ \A n \in 1 .. N : stream[n] \in 1 .. Size
  <2>1. Size \in Nat
    BY TheDataset
  <2>2. \A T : \A s \in Seq(T) : Len(s) \in Nat /\ \A n \in 1 .. Len(s) : s[n] \in T
    OBVIOUS
  <2> QED BY <2>1, <2>2
<1>2. first \in Packed(0)
  <2>1. <<>> \in Rooms /\ Len(<<>>) = 0
    BY DEF Rooms
  <2> QED BY <2>1 DEF Packed
<1>3. ASSUME NEW n \in 1 .. N, NEW st \in Packed(n - 1)
      PROVE  Next1(n, st) \in Packed(n)
  <2>1. st.bins \in Rooms /\ st.volume \in Nat /\ Len(st.bins) <= st.volume
    BY DEF Packed
  <2>2. stream[n] \in 1 .. Size
    BY <1>1
  <2> DEFINE after == Places(score, st.bins, stream[n])
  <2>3. after \in Rooms /\ Len(after) \in {Len(st.bins), Len(st.bins) + 1} /\ Len(after) >= 1
    BY <2>1, <2>2, PlacesAnItem
  <2> HIDE DEF after
  <2>4. Len(st.bins) \in Nat /\ Len(after) \in Nat
    BY <2>1, <2>3 DEF Rooms
  <2>5. [bins |-> after, volume |-> st.volume + stream[n]] \in Packed(n)
    BY <1>1, <2>1, <2>2, <2>3, <2>4 DEF Packed
  <2> QED BY <2>5 DEF after
<1> HIDE DEF first, Next1, N
<1>4. first \in S[0] /\ \A n \in 1 .. N : \A x \in S[n - 1] : Step[n][x] \in S[n]
  BY <1>1, <1>2, <1>3
<1>5. PICK f : IsIteration(f, N, S, first, Step)
  <2>1. Iterable(N, S, first, Step)
    BY <1>1, <1>4 DEF Iterable
  <2> HIDE DEF S, Step
  <2> QED BY <2>1, Iterates
<1>6. Is(f)
  <2>0. \A n \in 0 .. N : f[n] \in Packed(n)
    <3>1. \A n \in 0 .. N : f[n] \in S[n]
      BY <1>5 DEF IsIteration
    <3>2. \A n \in 0 .. N : S[n] = Packed(n)
      OBVIOUS
    <3> QED BY <3>1, <3>2
  <2>1. \A n \in 1 .. N : n - 1 \in 0 .. N /\ f[n - 1] \in Packed(n - 1)
    BY <1>1, <2>0
  <2>2. \A n \in 1 .. N : Step[n][f[n - 1]] = Next1(n, f[n - 1])
    BY <2>1
  <2>3. \A n \in 0 .. N : n # 0 => n \in 1 .. N
    BY <1>1
  <2> HIDE DEF Step
  <2>4. f = [n \in 0 .. N |-> IF n = 0 THEN first ELSE Step[n][f[n - 1]]]
    BY <1>5 DEF IsIteration
  <2> QED BY <2>2, <2>3, <2>4
<1>7. Packs(score, stream) = CHOOSE g : Is(g)
  BY DEF Packs, first, Next1, N
<1>8. Is(Packs(score, stream))
  <2> HIDE DEF Is
  <2> QED BY <1>6, <1>7
<1> DEFINE g == Packs(score, stream)
           T == {n \in 1 .. N : g[n] \in Packed(n)}
<1>9. g[0] \in Packed(0) /\ \A n \in 1 .. N : g[n] = Next1(n, g[n - 1])
  <2>1. \A n \in 1 .. N : n \in 0 .. N /\ n # 0
    BY <1>1
  <2> HIDE DEF g
  <2>2. g = [n \in 0 .. N |-> IF n = 0 THEN first ELSE Next1(n, g[n - 1])]
    BY <1>8 DEF g
  <2>3. 0 \in 0 .. N
    BY <1>1
  <2> QED BY <1>2, <2>1, <2>2, <2>3
<1> HIDE DEF g
<1>10. ASSUME NEW k \in 1 .. N, \A j \in 1 .. (k - 1) : j \in T
       PROVE  k \in T
  <2>1. CASE k = 1
    BY <1>3, <1>9, <2>1
  <2>2. CASE k # 1
    <3>1. k - 1 \in 1 .. (k - 1)
      BY <1>1, <2>2
    <3>2. g[k - 1] \in Packed(k - 1)
      BY <1>10, <3>1
    <3> QED BY <1>3, <1>9, <3>2
  <2> QED BY <2>1, <2>2
<1>11. \A k \in 1 .. N : k \in T
  <2> HIDE DEF T
  <2> QED BY <1>1, <1>10, EveryPlace
<1>12. \A n \in 0 .. N : n = 0 \/ n \in 1 .. N
  BY <1>1
<1> QED BY <1>9, <1>11, <1>12 DEF N, g

\* The totals of the dataset after n streams.
Totals(n) == {t \in [used : Nat, volume : Nat] :
                 /\ t.used <= t.volume
                 /\ (\E s \in 1 .. n : Sequences[s] # <<>>) => t.used >= 1}

\* A simulation of the dataset has an efficiency between 1 and 100 percent.
LEMMA FitnessIsPositive ==
  ASSUME NEW score
  PROVE  Simulate(score) \in 1 .. 100
<1> DEFINE N == Len(Sequences)
           first == [used |-> 0, volume |-> 0]
           Last(n) == Packs(score, Sequences[n])[Len(Sequences[n])]
           Next1(n, t) == [used |-> t.used + Len(Last(n).bins), volume |-> t.volume + Last(n).volume]
           S == [n \in 0 .. N |-> Totals(n)]
           Step == [n \in 1 .. N |-> [t \in Totals(n - 1) |-> Next1(n, t)]]
           Is(f) == f = [n \in 0 .. N |-> IF n = 0 THEN first ELSE Next1(n, f[n - 1])]
<1>1. N \in Nat /\ Size \in 1 .. 100 /\ DOMAIN Sequences = 1 .. N
      /\ \A n \in 1 .. N : Sequences[n] \in Seq(1 .. Size)
  BY TheDataset
<1>2. first \in Totals(0)
  BY DEF Totals
<1>3. ASSUME NEW n \in 1 .. N
      PROVE  /\ Last(n).bins \in Rooms /\ Last(n).volume \in Nat /\ Len(Last(n).bins) \in Nat
             /\ Len(Last(n).bins) <= Last(n).volume
             /\ Sequences[n] # <<>> => Len(Last(n).bins) >= 1
  <2>1. Sequences[n] \in Seq(1 .. Size) /\ Len(Sequences[n]) \in Nat
    BY <1>1
  <2>2. Len(Sequences[n]) \in 0 .. Len(Sequences[n])
    BY <2>1
  <2>3. Last(n) \in Packed(Len(Sequences[n]))
    BY <2>1, <2>2, PacksTheStream
  <2>4. Sequences[n] # <<>> => Len(Sequences[n]) >= 1
    BY <2>1
  <2> HIDE DEF Last
  <2>5. Last(n).bins \in Rooms => Len(Last(n).bins) \in Nat
    BY DEF Rooms
  <2> QED BY <2>3, <2>4, <2>5 DEF Packed
<1> HIDE DEF Last
<1>4. ASSUME NEW n \in 1 .. N, NEW t \in Totals(n - 1)
      PROVE  Next1(n, t) \in Totals(n)
  <2>1. /\ t.used \in Nat /\ t.volume \in Nat /\ t.used <= t.volume
        /\ (\E s \in 1 .. (n - 1) : Sequences[s] # <<>>) => t.used >= 1
    BY DEF Totals
  <2>2. \A s \in 1 .. n : s = n \/ s \in 1 .. (n - 1)
    BY <1>1
  <2>3. (\E s \in 1 .. n : Sequences[s] # <<>>) => t.used + Len(Last(n).bins) >= 1
    <3>1. CASE Sequences[n] # <<>>
      <4>1. Len(Last(n).bins) \in Nat /\ Len(Last(n).bins) >= 1
        BY <1>3, <3>1
      <4> QED BY <2>1, <4>1
    <3>2. CASE Sequences[n] = <<>>
      <4>1. Len(Last(n).bins) \in Nat
        BY <1>3
      <4>2. (\E s \in 1 .. n : Sequences[s] # <<>>) => t.used >= 1
        BY <2>1, <2>2, <3>2
      <4> QED BY <2>1, <4>1, <4>2
    <3> QED BY <3>1, <3>2
  <2>4. /\ t.used + Len(Last(n).bins) \in Nat /\ t.volume + Last(n).volume \in Nat
        /\ t.used + Len(Last(n).bins) <= t.volume + Last(n).volume
    <3>1. /\ Len(Last(n).bins) \in Nat /\ Last(n).volume \in Nat
          /\ Len(Last(n).bins) <= Last(n).volume
      BY <1>3
    <3>2. \A a, b, c, d \in Nat : a <= b /\ c <= d =>
              a + c \in Nat /\ b + d \in Nat /\ a + c <= b + d
      OBVIOUS
    <3> QED BY <2>1, <3>1, <3>2
  <2> QED BY <2>3, <2>4 DEF Totals
<1> HIDE DEF first, Next1, N
<1>5. first \in S[0] /\ \A n \in 1 .. N : \A x \in S[n - 1] : Step[n][x] \in S[n]
  BY <1>1, <1>2, <1>4
<1>6. PICK f : IsIteration(f, N, S, first, Step)
  <2>1. Iterable(N, S, first, Step)
    BY <1>1, <1>5 DEF Iterable
  <2> HIDE DEF S, Step
  <2> QED BY <2>1, Iterates
<1>7. Is(f)
  <2>0. \A n \in 0 .. N : f[n] \in Totals(n)
    <3>1. \A n \in 0 .. N : f[n] \in S[n]
      BY <1>6 DEF IsIteration
    <3>2. \A n \in 0 .. N : S[n] = Totals(n)
      OBVIOUS
    <3> QED BY <3>1, <3>2
  <2>1. \A n \in 1 .. N : n - 1 \in 0 .. N /\ f[n - 1] \in Totals(n - 1)
    BY <1>1, <2>0
  <2>2. \A n \in 1 .. N : Step[n][f[n - 1]] = Next1(n, f[n - 1])
    BY <2>1
  <2>3. \A n \in 0 .. N : n # 0 => n \in 1 .. N
    BY <1>1
  <2> HIDE DEF Step
  <2>4. f = [n \in 0 .. N |-> IF n = 0 THEN first ELSE Step[n][f[n - 1]]]
    BY <1>6 DEF IsIteration
  <2> QED BY <2>2, <2>3, <2>4
<1> DEFINE g == CHOOSE h : Is(h)
           T == {n \in 1 .. N : g[n] \in Totals(n)}
           u == g[N].used
           v == g[N].volume
<1>8. Simulate(score) = IF u = 0 THEN 0 ELSE Min({100, (100 * v) \div (u * Size)})
  BY DEF Simulate, first, Next1, N, Last
<1>9. Is(g)
  <2> HIDE DEF Is
  <2> QED BY <1>7
<1> HIDE DEF g
<1>10. g[0] \in Totals(0) /\ \A n \in 1 .. N : g[n] = Next1(n, g[n - 1])
  <2>1. \A n \in 1 .. N : n \in 0 .. N /\ n # 0
    BY <1>1
  <2>2. 0 \in 0 .. N
    BY <1>1
  <2> QED BY <1>2, <1>9, <2>1, <2>2
<1>11. ASSUME NEW k \in 1 .. N, \A j \in 1 .. (k - 1) : j \in T
       PROVE  k \in T
  <2>1. CASE k = 1
    BY <1>4, <1>10, <2>1
  <2>2. CASE k # 1
    <3>1. k - 1 \in 1 .. (k - 1)
      BY <1>1, <2>2
    <3>2. g[k - 1] \in Totals(k - 1)
      BY <1>11, <3>1
    <3> QED BY <1>4, <1>10, <3>2
  <2> QED BY <2>1, <2>2
<1>12. \A k \in 1 .. N : k \in T
  <2> HIDE DEF T
  <2> QED BY <1>1, <1>11, EveryPlace
<1>13. g[N] \in Totals(N)
  BY <1>1, <1>10, <1>12
<1>14. \E s \in 1 .. N : Sequences[s] # <<>>
  BY <1>1, HeuristicsAssumption
<1>15. u \in Nat /\ v \in Nat /\ u <= v /\ u >= 1
  BY <1>13, <1>14 DEF Totals
<1> HIDE DEF u, v
<1> DEFINE x == 100 * v
           y == u * Size
<1>16. y >= 1 /\ y \in Nat /\ x \in Nat /\ y <= x
  <2>1. u * Size <= u * 100 /\ u * Size >= u * 1
    BY <1>1, <1>15
  <2> QED BY <1>1, <1>15, <2>1
<1> HIDE DEF x, y
<1>17. x \div y \in Int /\ x \div y >= 1
  BY <1>16
<1>18. \A a \in Int : a >= 1 => Min({100, a}) \in 1 .. 100
  <2> SUFFICES ASSUME NEW a \in Int, a >= 1 PROVE Min({100, a}) \in 1 .. 100
    OBVIOUS
  <2>1. \E m \in {100, a} : \A j \in {100, a} : m <= j
    OBVIOUS
  <2>2. Min({100, a}) \in {100, a} /\ Min({100, a}) <= 100
    BY <2>1 DEF Min
  <2> QED BY <2>2
<1> QED BY <1>8, <1>15, <1>17, <1>18 DEF x, y

\* The fitness that either engine measures.
LEMMA MeasuresAreFitness ==
  /\ \A p \in DOMAIN LocalFitness : p \in Programs /\ LocalFitness[p] \in 1 .. 100
  /\ \A p \in DOMAIN EngineFitness : p \in Programs /\ EngineFitness[p] \in 1 .. 100
BY FitnessIsPositive DEF LocalFitness, EngineFitness, PythonFitness, WasmFitness

\* A verdict of the solver is about every reader of the program.
LEMMA VerifiedAgrees ==
  ASSUME NEW p \in Programs, OwnNames(Text[p]), VerdictOf[p] = "verified"
  PROVE  /\ p \in DOMAIN EngineFitness => EngineFitness[p] = LocalFitness[p]
         /\ p \in Fingerprinted
<1> DEFINE t == Text[p]
<1>1. IsProgram(t) /\ t.shape = "function" /\ Verdict(t) = "verified"
  BY EvaluationAssumption DEF Programs, OwnNames, VerdictOf
<1>2. \A q \in Points : /\ PythonValue(t, q[1], q[2]) # Raises
                        /\ Compiles(t) => EngineValue(t, q[1], q[2]) = PythonValue(t, q[1], q[2])
  BY <1>1, VerifiedIsShared
<1>3. ASSUME p \in DOMAIN EngineFitness
      PROVE  EngineFitness[p] = LocalFitness[p]
  <2>1. Compiles(t) /\ EngineFitness[p] = WasmFitness(t) /\ LocalFitness[p] = PythonFitness(t)
    BY <1>1, <1>3 DEF EngineFitness, LocalFitness
  <2> HIDE DEF t
  <2>2. \A q \in Points : EngineValue(t, q[1], q[2]) =
            LET v == PythonValue(t, q[1], q[2]) IN IF v = Raises THEN ErrorScore ELSE v
    BY <1>2, <2>1
  <2>3. [q \in Points |-> EngineValue(t, q[1], q[2])] = PythonScore(t)
    BY <2>2 DEF PythonScore
  <2> QED BY <2>1, <2>3 DEF WasmFitness, PythonFitness
<1>4. HasFingerprint(t)
  <2> HIDE DEF t
  <2> SUFFICES ASSUME NEW s \in DOMAIN Probes, NEW k \in DOMAIN Probes[s],
                      NEW j \in DOMAIN Packs(PythonScore(t), Probes[s])[k - 1].bins,
                      Packs(PythonScore(t), Probes[s])[k - 1].bins[j] >= Probes[s][k]
               PROVE  PythonValue(t, Probes[s][k],
                                  Packs(PythonScore(t), Probes[s])[k - 1].bins[j]) # Raises
    BY DEF HasFingerprint
  <2> DEFINE stream == Probes[s]
             bins == Packs(PythonScore(t), stream)[k - 1].bins
  <2>1. Size \in Nat /\ stream \in Seq(1 .. Size)
    <3>1. Probes[s] \in Seq(1 .. Size)
      BY TheDataset
    <3> QED BY <3>1, TheDataset
  <2>2. k - 1 \in 0 .. Len(stream) /\ stream[k] \in 1 .. Size
    BY <2>1
  <2>3. Packs(PythonScore(t), stream)[k - 1] \in Packed(k - 1)
    BY <2>1, <2>2, PacksTheStream
  <2>4. bins \in Rooms
    BY <2>3 DEF Packed
  <2>5. bins[j] \in 0 .. Size /\ bins[j] >= stream[k]
    <3>1. j \in DOMAIN bins /\ bins[j] >= stream[k]
      OBVIOUS
    <3> HIDE DEF bins
    <3> QED BY <2>1, <2>4, <3>1 DEF Rooms
  <2> HIDE DEF bins, stream
  <2> DEFINE q == <<stream[k], bins[j]>>
  <2>6. q \in Points
    BY <2>1, <2>2, <2>5 DEF Points
  <2>7. PythonValue(t, q[1], q[2]) # Raises
    <3> HIDE DEF q
    <3> QED BY <1>2, <2>6
  <2> QED BY <2>7 DEF bins, stream
<1> QED BY <1>1, <1>3, <1>4 DEF Fingerprinted

(***************************************************************************)
(* The keys of the cache.                                                  *)
(***************************************************************************)
Caps == {"bin_capacity", "capacity", "cap", "c"}
Items == {"item", "item_size", "it", "x", "i"}
Gaps == {"gap", "residual", "rem", "r", "g"}

\* Names with one canonical name are of one family.
LEMMA NamesAreFamilies ==
  ASSUME NEW n, NEW m
  PROVE  /\ CanonicalName(n) = CanonicalName(m) <=>
                n = m \/ \E f \in {Caps, Items, Gaps} : n \in f /\ m \in f
         /\ CanonicalParameter(n) = CanonicalParameter(m) <=>
                n = m \/ \E f \in {Caps, Items} : n \in f /\ m \in f
<1> DEFINE C(x) == /\ x \in Caps => CanonicalName(x) = "c" /\ x \notin Items \cup Gaps
                   /\ x \in Items => CanonicalName(x) = "i" /\ x \notin Caps \cup Gaps
                   /\ x \in Gaps => CanonicalName(x) = "g" /\ x \notin Caps \cup Items
                   /\ x \notin Caps \cup Items \cup Gaps =>
                          CanonicalName(x) = x /\ x \notin {"c", "i", "g"}
<1>1. \A x : C(x)
  BY DEF CanonicalName, Caps, Items, Gaps
<1>2. C(n) /\ C(m)
  BY <1>1
<1>3. CanonicalName(n) = CanonicalName(m) <=>
          n = m \/ \E f \in {Caps, Items, Gaps} : n \in f /\ m \in f
  BY <1>2
<1>4. CanonicalParameter(n) = CanonicalParameter(m) <=>
          n = m \/ \E f \in {Caps, Items} : n \in f /\ m \in f
  <2>1. {"c", "i"} \cap Gaps = {}
    BY DEF Gaps
  <2> QED BY <1>2, <2>1 DEF CanonicalParameter
<1> QED BY <1>3, <1>4

\* Two programs have one canonical form when they are of one form.
LEMMA KeysAreForms ==
  ASSUME NEW p, NEW q, IsProgram(p), IsProgram(q)
  PROVE  Canonical(p) = Canonical(q) <=> SameForm(p, q)
<1> DEFINE Same(n, m, families) == n = m \/ \E f \in families : n \in f /\ m \in f
           Params == /\ Same(p.item, q.item, {Caps, Items}) /\ Same(p.cap, q.cap, {Caps, Items})
           Bodies == /\ Len(p.ret) = Len(q.ret)
                     /\ \A k \in DOMAIN p.ret :
                          \/ p.ret[k] = q.ret[k]
                          \/ /\ p.ret[k][1] = "name" /\ q.ret[k][1] = "name"
                             /\ Same(p.ret[k][2], q.ret[k][2], {Caps, Items} \cup {Gaps})
<1>1. SameForm(p, q) <=>
          p = q \/ (p.shape = q.shape /\ p.shape # "malformed" /\ Params /\ Bodies)
  BY DEF SameForm, Caps, Items, Gaps
<1>2. Params <=> /\ CanonicalParameter(p.item) = CanonicalParameter(q.item)
                 /\ CanonicalParameter(p.cap) = CanonicalParameter(q.cap)
  BY NamesAreFamilies
<1>3. Bodies <=> Renamed(p.ret) = Renamed(q.ret)
  <2>1. IsExpression(p.ret) /\ IsExpression(q.ret)
    BY DEF IsProgram, IsExpression
  <2>2. /\ DOMAIN p.ret = 1 .. Len(p.ret) /\ Len(p.ret) \in Nat
        /\ DOMAIN q.ret = 1 .. Len(q.ret) /\ Len(q.ret) \in Nat
    BY <2>1 DEF IsExpression
  <2> DEFINE R(x) == IF x[1] = "name" THEN <<"name", CanonicalName(x[2])>> ELSE x
             One(x, y) == \/ x = y
                          \/ /\ x[1] = "name" /\ y[1] = "name"
                             /\ Same(x[2], y[2], {Caps, Items} \cup {Gaps})
  <2>3. \A e, k : e \in {p.ret, q.ret} /\ k \in DOMAIN e /\ e[k][1] = "name" =>
            e[k] = <<"name", e[k][2]>>
    BY <2>1, NodeKinds
  <2>4. ASSUME NEW x, NEW y, x[1] = "name" => x = <<"name", x[2]>>,
               y[1] = "name" => y = <<"name", y[2]>>
        PROVE  R(x) = R(y) <=> One(x, y)
    <3>1. CASE x[1] = "name" /\ y[1] = "name"
      <4>1. CanonicalName(x[2]) = CanonicalName(y[2]) <=> Same(x[2], y[2], {Caps, Items} \cup {Gaps})
        BY NamesAreFamilies
      <4>2. R(x) = R(y) <=> CanonicalName(x[2]) = CanonicalName(y[2])
        BY <3>1
      <4> QED BY <3>1, <4>1, <4>2
    <3>2. CASE x[1] = "name" /\ y[1] # "name"
      <4>1. R(x)[1] = "name" /\ R(y) = y
        BY <3>2
      <4> QED BY <3>2, <4>1
    <3>3. CASE x[1] # "name" /\ y[1] = "name"
      <4>1. R(y)[1] = "name" /\ R(x) = x
        BY <3>3
      <4> QED BY <3>3, <4>1
    <3>4. CASE x[1] # "name" /\ y[1] # "name"
      BY <3>4
    <3> QED BY <3>1, <3>2, <3>3, <3>4
  <2> HIDE DEF R, One
  <2>5. /\ Renamed(p.ret) = [k \in DOMAIN p.ret |-> R(p.ret[k])]
        /\ Renamed(q.ret) = [k \in DOMAIN q.ret |-> R(q.ret[k])]
    BY DEF Renamed, R
  <2>6. Renamed(p.ret) = Renamed(q.ret) <=>
            Len(p.ret) = Len(q.ret) /\ \A k \in DOMAIN p.ret : R(p.ret[k]) = R(q.ret[k])
    <3>1. DOMAIN p.ret = DOMAIN q.ret <=> Len(p.ret) = Len(q.ret)
      BY <2>2
    <3> QED BY <2>5, <3>1
  <2>7. Len(p.ret) = Len(q.ret) =>
            \A k \in DOMAIN p.ret : R(p.ret[k]) = R(q.ret[k]) <=> One(p.ret[k], q.ret[k])
    BY <2>2, <2>3, <2>4
  <2>8. Bodies <=> Len(p.ret) = Len(q.ret) /\ \A k \in DOMAIN p.ret : One(p.ret[k], q.ret[k])
    BY DEF One
  <2> HIDE DEF Bodies
  <2> QED BY <2>6, <2>7, <2>8
<1> HIDE DEF Params, Bodies
<1>4. \A x : IsProgram(x) => Canonical(x).shape = x.shape
  BY DEF Canonical, Form
<1>5. Form(p, p.shape) = Form(q, q.shape) <=> p.shape = q.shape /\ Params /\ Bodies
  BY <1>2, <1>3 DEF Form
<1> QED BY <1>1, <1>4, <1>5 DEF Canonical

\* A key stands for the candidates of one form.
LEMMA OneKeyPerForm ==
  /\ \A p \in Programs : KeyOf[p] \in Programs
  /\ \A p, q \in Programs : KeyOf[p] = KeyOf[q] =>
         /\ SameForm(Text[p], Text[q]) /\ Text[p].shape = Text[q].shape
  /\ \A p, q \in Programs : SameForm(Text[p], Text[q]) => KeyOf[p] = KeyOf[q]
<1> DEFINE can(p) == Canonical(Text[p])
           key(c) == CHOOSE q \in Programs : can(q) = c
<1>1. \A p \in Programs : KeyOf[p] = key(can(p))
  BY DEF KeyOf
<1>2. \A p \in Programs : KeyOf[p] \in Programs /\ can(KeyOf[p]) = can(p)
  <2> HIDE DEF can
  <2> QED BY <1>1
<1>3. \A p, q \in Programs : can(p) = can(q) => KeyOf[p] = KeyOf[q]
  <2> HIDE DEF can, key
  <2> QED BY <1>1
<1>4. \A p, q \in Programs : can(p) = can(q) <=> SameForm(Text[p], Text[q])
  BY KeysAreForms, EvaluationAssumption DEF Programs
<1>5. \A p, q : SameForm(p, q) => p.shape = q.shape
  BY DEF SameForm
<1> HIDE DEF can
<1> QED BY <1>2, <1>3, <1>4, <1>5

(***************************************************************************)
(* The pipeline.                                                           *)
(***************************************************************************)
\* A diagnostic that may be kept under a key: it is a success when it has a
\* fitness, and that was measured of a candidate of the key that passed the
\* guard.
IsRow(key, d) ==
    /\ key \in Programs /\ d \in Diagnostics
    /\ d.success <=> d.fitness > 0
    /\ d.fitness > 0 =>
           \E q \in Programs : /\ KeyOf[q] = key /\ Sanitized(Text[q])
                               /\ \E f \in {LocalFitness, EngineFitness} :
                                      q \in DOMAIN f /\ d.fitness = f[q]

Rows(layer) == \A key \in DOMAIN layer : IsRow(key, layer[key])

\* What has been answered is still in the memory layer.
AnswersAreKept ==
    \A p \in DOMAIN answers :
        p \in Programs /\ KeyOf[p] \in DOMAIN memory /\ answers[p] = memory[KeyOf[p]]

ProvedAreVerified == \A p \in proved : p \in Programs /\ VerdictOf[p] = "verified"

DeckEvents ==
    [id : Nat, status : {"VIOLATED"}, source : {"pipeline"}, program : Programs]
    \cup [id : Nat, status : {"VIOLATED", "VERIFIED"}, source : {"probe"}]

\* The deck is numbered downwards from the last check, and whatever the
\* pipeline has reported has its own key, which is still in memory.
DeckIsNumbered ==
    /\ checks \in [total : Nat, violations : Nat] /\ checks.violations <= checks.total
    /\ history \in Seq(DeckEvents) /\ Len(history) <= MaxHistory
    /\ \A j \in DOMAIN history : history[j].id = checks.total + 1 - j
    /\ \A j \in DOMAIN history : history[j].source = "pipeline" =>
           /\ KeyOf[history[j].program] \in DOMAIN memory
           /\ \A k \in DOMAIN history : k # j /\ history[k].source = "pipeline" =>
                  KeyOf[history[j].program] # KeyOf[history[k].program]

Purposes == {"evaluations", "probes", "giveUps", "failures", "restarts"}

\* The inductive invariant.
EvaluationInv ==
    /\ Rows(memory) /\ Rows(table)
    /\ AnswersAreKept /\ ProvedAreVerified /\ DeckIsNumbered
    /\ engine \in {"absent", "broken", "works"}
    /\ budget \in [Purposes -> Nat]

\* One more row.
LEMMA PutRow ==
  ASSUME NEW layer, Rows(layer), NEW key, NEW d, IsRow(key, d)
  PROVE  Rows(Put(layer, key, d))
BY DEF Rows, Put

\* The deck with one more event.
LEMMA PushIs ==
  ASSUME DeckIsNumbered, NEW event \in DeckEvents
  PROVE  /\ Push(event) \in Seq(DeckEvents) /\ Len(Push(event)) <= MaxHistory
         /\ Push(event)[1] = event
         /\ \A j \in DOMAIN Push(event) :
                j = 1 \/ (j - 1 \in DOMAIN history /\ Push(event)[j] = history[j - 1])
<1>1. history \in Seq(DeckEvents) /\ Len(history) \in Nat /\ MaxHistory \in Nat \ {0}
  BY EvaluationAssumption DEF DeckIsNumbered
<1> DEFINE all == <<event>> \o history
           n == Min({MaxHistory, Len(history) + 1})
<1>2. all \in Seq(DeckEvents) /\ Len(all) = Len(history) + 1
  BY <1>1
<1>3. all[1] = event /\ \A j \in 2 .. (Len(history) + 1) : all[j] = history[j - 1]
  BY <1>1
<1>4. n \in 1 .. (Len(history) + 1) /\ n <= MaxHistory
  <2>1. \A a, b \in Nat : \E m \in {a, b} : \A j \in {a, b} : m <= j
    OBVIOUS
  <2>2. \E m \in {MaxHistory, Len(history) + 1} : \A j \in {MaxHistory, Len(history) + 1} : m <= j
    BY <1>1, <2>1
  <2>3. n \in {MaxHistory, Len(history) + 1} /\ n <= MaxHistory /\ n <= Len(history) + 1
    BY <2>2 DEF Min
  <2> QED BY <1>1, <2>3
<1>5. Push(event) = SubSeq(all, 1, n)
  BY DEF Push
<1> HIDE DEF all, n
<1>6. /\ SubSeq(all, 1, n) \in Seq(DeckEvents) /\ Len(SubSeq(all, 1, n)) = n
      /\ \A j \in 1 .. n : SubSeq(all, 1, n)[j] = all[j]
  BY <1>1, <1>2, <1>4
<1>7. DOMAIN SubSeq(all, 1, n) = 1 .. n
  BY <1>6
<1>8. \A j \in 1 .. n : j = 1 \/ (j \in 2 .. (Len(history) + 1) /\ j - 1 \in DOMAIN history)
  BY <1>1, <1>4
<1>9. 1 \in 1 .. n
  BY <1>4
<1> QED BY <1>3, <1>4, <1>5, <1>6, <1>7, <1>8, <1>9

\* The deck stays numbered while the memory layer grows.
LEMMA DeckStays ==
  ASSUME DeckIsNumbered, DOMAIN memory \subseteq DOMAIN memory', UNCHANGED <<checks, history>>
  PROVE  DeckIsNumbered'
BY DEF DeckIsNumbered

\* The deck stays numbered when a probe is recorded, or a candidate whose key
\* is new.
LEMMA DeckGrows ==
  ASSUME DeckIsNumbered, NEW event \in DeckEvents, event.id = checks.total + 1,
         checks' \in [total : Nat, violations : Nat],
         checks'.total = checks.total + 1, checks'.violations <= checks'.total,
         history' = Push(event),
         DOMAIN memory \subseteq DOMAIN memory',
         event.source = "pipeline" => /\ KeyOf[event.program] \in DOMAIN memory'
                                      /\ KeyOf[event.program] \notin DOMAIN memory
  PROVE  DeckIsNumbered'
<1> DEFINE Old(j) == j - 1 \in DOMAIN history /\ history'[j] = history[j - 1]
<1>1. /\ history' \in Seq(DeckEvents) /\ Len(history') <= MaxHistory
      /\ history'[1] = event
      /\ \A j \in DOMAIN history' : j = 1 \/ Old(j)
  BY PushIs
<1>2. DOMAIN history' = 1 .. Len(history') /\ DOMAIN history = 1 .. Len(history)
  BY <1>1 DEF DeckIsNumbered
<1>3. ASSUME NEW j \in DOMAIN history'
      PROVE  history'[j].id = checks'.total + 1 - j
  <2>1. checks.total \in Nat
    BY DEF DeckIsNumbered
  <2>2. CASE j = 1
    BY <1>1, <2>1, <2>2
  <2>3. CASE Old(j)
    <3>1. history[j - 1].id = checks.total + 1 - (j - 1)
      BY <2>3 DEF DeckIsNumbered
    <3>2. j \in Int
      BY <1>2
    <3> QED BY <2>1, <2>3, <3>1, <3>2
  <2> QED BY <1>1, <2>2, <2>3
<1>4. ASSUME NEW j \in DOMAIN history', history'[j].source = "pipeline"
      PROVE  /\ KeyOf[history'[j].program] \in DOMAIN memory'
             /\ \A k \in DOMAIN history' : k # j /\ history'[k].source = "pipeline" =>
                    KeyOf[history'[j].program] # KeyOf[history'[k].program]
  <2>1. \A k \in DOMAIN history' : history'[k].source = "pipeline" =>
            IF k = 1 THEN /\ KeyOf[history'[k].program] \in DOMAIN memory'
                          /\ KeyOf[history'[k].program] \notin DOMAIN memory
            ELSE Old(k) /\ KeyOf[history'[k].program] \in DOMAIN memory
    BY <1>1 DEF DeckIsNumbered
  <2>2. KeyOf[history'[j].program] \in DOMAIN memory'
    BY <1>4, <2>1
  <2>3. ASSUME NEW k \in DOMAIN history', k # j, history'[k].source = "pipeline"
        PROVE  KeyOf[history'[j].program] # KeyOf[history'[k].program]
    <3>1. CASE j = 1 \/ k = 1
      BY <1>4, <2>1, <2>3, <3>1
    <3>2. CASE j # 1 /\ k # 1
      <4>1. Old(j) /\ Old(k)
        BY <1>1, <3>2
      <4>2. j - 1 # k - 1
        BY <1>2, <2>3
      <4> QED BY <1>4, <2>3, <4>1, <4>2 DEF DeckIsNumbered
    <3> QED BY <3>1, <3>2
  <2> QED BY <2>2, <2>3
<1> QED BY <1>1, <1>3, <1>4 DEF DeckIsNumbered

\* What is spent was left.
LEMMA SpendStays ==
  ASSUME budget \in [Purposes -> Nat], NEW costs,
         \A b \in DOMAIN costs : b \in Purposes /\ costs[b] \in Nat, Spend(costs)
  PROVE  budget' \in [Purposes -> Nat]
<1>1. /\ budget' = [b \in Purposes |-> budget[b] - (IF b \in DOMAIN costs THEN costs[b] ELSE 0)]
      /\ \A b \in DOMAIN costs : budget[b] >= costs[b]
  BY DEF Spend
<1>2. \A b \in Purposes : budget[b] - (IF b \in DOMAIN costs THEN costs[b] ELSE 0) \in Nat
  BY <1>1
<1> QED BY <1>1, <1>2

Stable == \A q \in DOMAIN answers \cap DOMAIN answers' : answers'[q] = answers[q]

\* What is answered for a key is what the memory layer holds for it.
LEMMA AnswersStayKept ==
  ASSUME AnswersAreKept, NEW p \in Programs, NEW d,
         memory' = Put(memory, KeyOf[p], d), answers' = Put(answers, p, d),
         KeyOf[p] \in DOMAIN memory => memory[KeyOf[p]] = d
  PROVE  AnswersAreKept' /\ Stable /\ DOMAIN memory \subseteq DOMAIN memory'
<1>1. /\ DOMAIN memory' = DOMAIN memory \cup {KeyOf[p]} /\ memory'[KeyOf[p]] = d
      /\ \A k \in DOMAIN memory : memory'[k] = memory[k]
  <2>1. /\ DOMAIN Put(memory, KeyOf[p], d) = DOMAIN memory \cup {KeyOf[p]}
        /\ Put(memory, KeyOf[p], d)[KeyOf[p]] = d
        /\ \A k \in DOMAIN memory : k # KeyOf[p] => Put(memory, KeyOf[p], d)[k] = memory[k]
    BY DEF Put
  <2> QED BY <2>1
<1>2. /\ DOMAIN answers' = DOMAIN answers \cup {p} /\ answers'[p] = d
      /\ \A q \in DOMAIN answers : q # p => answers'[q] = answers[q]
  <2>1. /\ DOMAIN Put(answers, p, d) = DOMAIN answers \cup {p} /\ Put(answers, p, d)[p] = d
        /\ \A k \in DOMAIN answers : k # p => Put(answers, p, d)[k] = answers[k]
    BY DEF Put
  <2> QED BY <2>1
<1>3. p \in DOMAIN answers => answers[p] = d
  BY DEF AnswersAreKept
<1> QED BY <1>1, <1>2, <1>3 DEF AnswersAreKept, Stable

\* A diagnostic without fitness may be kept of every key.
LEMMA FailuresAreRows ==
  ASSUME NEW key \in Programs,
         NEW origin \in {"AST_SECURITY_REJECTED", "WASM_TRAP", "Z3_REFUTED", "BENCHMARK_LOW"}
  PROVE  IsRow(key, Diagnostic(FALSE, origin, 0))
BY DEF IsRow, Diagnostic, Diagnostics

\* So may what the benchmark has measured of a candidate that passed the guard.
LEMMA MeasuresAreRows ==
  ASSUME NEW p \in Programs, Sanitized(Text[p])
  PROVE  IsRow(KeyOf[p], Measured(p))
<1>1. KeyOf[p] \in Programs
  BY OneKeyPerForm
<1>2. CASE Benchmark(p) = {}
  BY <1>1, <1>2, FailuresAreRows DEF Measured
<1>3. CASE Benchmark(p) # {}
  <2> DEFINE fitness == CHOOSE f \in Benchmark(p) : TRUE
             origin == IF fitness < Baseline THEN "BENCHMARK_LOW" ELSE "none"
  <2>1. fitness \in Benchmark(p) /\ Measured(p) = Diagnostic(TRUE, origin, fitness)
    BY <1>3 DEF Measured
  <2> HIDE DEF fitness
  <2>2. \E f \in {LocalFitness, EngineFitness} : p \in DOMAIN f /\ fitness = f[p]
    BY <2>1 DEF Benchmark
  <2>3. fitness \in 1 .. 100
    BY <2>2, MeasuresAreFitness
  <2>4. Diagnostic(TRUE, origin, fitness) \in Diagnostics
    BY <2>3 DEF Diagnostic, Diagnostics
  <2> HIDE DEF origin
  <2>5. IsRow(KeyOf[p], Diagnostic(TRUE, origin, fitness))
    <3>1. /\ Diagnostic(TRUE, origin, fitness).success
          /\ Diagnostic(TRUE, origin, fitness).fitness = fitness
      BY DEF Diagnostic
    <3>2. fitness > 0
      BY <2>3
    <3> QED BY <1>1, <2>2, <2>4, <3>1, <3>2 DEF IsRow
  <2> QED BY <2>1, <2>5
<1> QED BY <1>2, <1>3

\* The part of the invariant that a step of the pipeline disturbs.
StagesInv == /\ Rows(memory) /\ Rows(table)
             /\ AnswersAreKept /\ ProvedAreVerified /\ DeckIsNumbered

\* A hit.
LEMMA HitStays ==
  ASSUME StagesInv, NEW p \in Programs, NEW readFails, AnswersFromCache(p, readFails)
  PROVE  StagesInv' /\ Stable
<1>1. PICK d \in Lookup(p, readFails) :
          /\ memory' = Put(memory, KeyOf[p], d)
          /\ answers' = Put(answers, p, [d EXCEPT !.success = d.fitness > 0])
          /\ UNCHANGED <<table, checks, history, proved>>
  BY DEF AnswersFromCache
<1>2. /\ IsRow(KeyOf[p], d)
      /\ KeyOf[p] \in DOMAIN memory => memory[KeyOf[p]] = d
  BY DEF Lookup, StagesInv, Rows
<1>3. [d EXCEPT !.success = d.fitness > 0] = d
  <2> DEFINE has == d.fitness > 0
  <2>1. d \in Diagnostics /\ d.success \in BOOLEAN /\ (d.success <=> has)
    BY <1>2 DEF IsRow, Diagnostics
  <2> HIDE DEF has
  <2>2. has \in BOOLEAN
    BY DEF has
  <2>3. d.success = has
    BY <2>1, <2>2
  <2>4. d = [x \in DOMAIN d |-> d[x]]
    BY <2>1 DEF Diagnostics
  <2>5. [d EXCEPT !.success = has] = d
    BY <2>1, <2>3, <2>4
  <2> QED BY <2>5 DEF has
<1>4. AnswersAreKept' /\ Stable /\ DOMAIN memory \subseteq DOMAIN memory'
  BY <1>1, <1>2, <1>3, AnswersStayKept DEF StagesInv
<1>5. Rows(memory)'
  BY <1>1, <1>2, PutRow DEF StagesInv, Rows
<1>6. Rows(table)'
  BY <1>1 DEF StagesInv, Rows
<1>7. ProvedAreVerified'
  BY <1>1 DEF StagesInv, ProvedAreVerified
<1>8. DeckIsNumbered'
  BY <1>1, <1>4, DeckStays DEF StagesInv
<1> QED BY <1>4, <1>5, <1>6, <1>7, <1>8 DEF StagesInv

\* What put remembers.
LEMMA RemembersStays ==
  ASSUME StagesInv, NEW p \in Programs, NEW d, NEW writeFails, IsRow(KeyOf[p], d),
         KeyOf[p] \notin DOMAIN memory, Remembers(p, d, writeFails)
  PROVE  /\ Rows(memory)' /\ Rows(table)' /\ AnswersAreKept' /\ Stable
         /\ DOMAIN memory' = DOMAIN memory \cup {KeyOf[p]}
<1>1. /\ memory' = Put(memory, KeyOf[p], d)
      /\ table' = IF writeFails THEN table ELSE Put(table, KeyOf[p], d)
      /\ answers' = Put(answers, p, d)
  BY DEF Remembers
<1>2. AnswersAreKept' /\ Stable
  BY <1>1, AnswersStayKept DEF StagesInv
<1>3. Rows(Put(memory, KeyOf[p], d)) /\ Rows(Put(table, KeyOf[p], d))
  BY PutRow DEF StagesInv
<1>4. Rows(memory)' /\ Rows(table)'
  BY <1>1, <1>3 DEF StagesInv, Rows
<1>5. DOMAIN memory' = DOMAIN memory \cup {KeyOf[p]}
  <2>1. DOMAIN Put(memory, KeyOf[p], d) = DOMAIN memory \cup {KeyOf[p]}
    BY DEF Put
  <2> QED BY <1>1, <2>1
<1> QED BY <1>2, <1>4, <1>5

\* A miss.
LEMMA MissStays ==
  ASSUME StagesInv, NEW p \in Programs, NEW readFails, NEW givesUp, NEW writeFails,
         Lookup(p, readFails) = {}, RunsStages(p, givesUp, writeFails)
  PROVE  StagesInv' /\ Stable
<1>1. KeyOf[p] \notin DOMAIN memory /\ KeyOf[p] \in Programs
  BY OneKeyPerForm DEF Lookup
<1>2. ASSUME NEW d, IsRow(KeyOf[p], d), Remembers(p, d, writeFails),
             UNCHANGED <<checks, history>>, ProvedAreVerified'
      PROVE  StagesInv' /\ Stable
  <2>1. /\ Rows(memory)' /\ Rows(table)' /\ AnswersAreKept' /\ Stable
        /\ DOMAIN memory \subseteq DOMAIN memory'
    BY <1>1, <1>2, RemembersStays
  <2>2. DeckIsNumbered'
    BY <1>2, <2>1, DeckStays DEF StagesInv
  <2> QED BY <1>2, <2>1, <2>2 DEF StagesInv
<1>3. proved' = proved => ProvedAreVerified'
  BY DEF StagesInv, ProvedAreVerified
<1>4. CASE ~Sanitized(Text[p]) /\ Remembers(p, Diagnostic(FALSE, "AST_SECURITY_REJECTED", 0), writeFails)
           /\ UNCHANGED <<checks, history, proved>>
  BY <1>1, <1>2, <1>3, <1>4, FailuresAreRows
<1>5. CASE Remembers(p, Diagnostic(FALSE, "WASM_TRAP", 0), writeFails)
           /\ UNCHANGED <<checks, history, proved>>
  BY <1>1, <1>2, <1>3, <1>5, FailuresAreRows
<1>6. CASE /\ RecordsCounterexample(p)
           /\ Remembers(p, Diagnostic(FALSE, "Z3_REFUTED", 0), writeFails)
           /\ proved' = proved \ {p}
  <2> DEFINE event == [id |-> checks.total + 1, status |-> "VIOLATED",
                       source |-> "pipeline", program |-> p]
  <2>1. /\ Rows(memory)' /\ Rows(table)' /\ AnswersAreKept' /\ Stable
        /\ DOMAIN memory' = DOMAIN memory \cup {KeyOf[p]}
    <3>1. IsRow(KeyOf[p], Diagnostic(FALSE, "Z3_REFUTED", 0))
      BY <1>1, FailuresAreRows
    <3> QED BY <1>1, <1>6, <3>1, RemembersStays
  <2>2. ProvedAreVerified'
    BY <1>6 DEF StagesInv, ProvedAreVerified
  <2>3. /\ checks.total \in Nat /\ checks.violations \in Nat /\ checks.violations <= checks.total
        /\ checks' = [total |-> checks.total + 1, violations |-> checks.violations + 1]
        /\ history' = Push(event)
    BY <1>6 DEF StagesInv, DeckIsNumbered, RecordsCounterexample
  <2>4. event \in DeckEvents /\ event.id = checks.total + 1 /\ event.program = p
    BY <2>3 DEF DeckEvents
  <2> HIDE DEF event
  <2>5. /\ checks' \in [total : Nat, violations : Nat]
        /\ checks'.total = checks.total + 1 /\ checks'.violations <= checks'.total
    BY <2>3
  <2>6. DeckIsNumbered'
    BY <1>1, <2>1, <2>3, <2>4, <2>5, DeckGrows DEF StagesInv
  <2> QED BY <2>1, <2>2, <2>6 DEF StagesInv
<1>7. CASE /\ Sanitized(Text[p]) /\ Remembers(p, Measured(p), writeFails)
           /\ proved' = IF SolverSays(p, givesUp) = "verified" THEN proved \cup {p}
                        ELSE proved \ {p}
           /\ UNCHANGED <<checks, history>>
  <2>1. SolverSays(p, givesUp) = "verified" => VerdictOf[p] = "verified"
    BY DEF SolverSays
  <2>2. ProvedAreVerified'
    BY <1>7, <2>1 DEF StagesInv, ProvedAreVerified
  <2> QED BY <1>2, <1>7, <2>2, MeasuresAreRows
<1> QED BY <1>4, <1>5, <1>6, <1>7 DEF RunsStages

\* The invariant holds when the process starts for the first time.
LEMMA EvaluationStarts == EvaluationInit => EvaluationInv
<1> SUFFICES ASSUME EvaluationInit PROVE EvaluationInv
  OBVIOUS
<1>1. DOMAIN memory = {} /\ DOMAIN table = {} /\ DOMAIN answers = {} /\ proved = {}
  BY DEF EvaluationInit
<1>2. Rows(memory) /\ Rows(table) /\ AnswersAreKept /\ ProvedAreVerified
  BY <1>1 DEF Rows, AnswersAreKept, ProvedAreVerified
<1>3. DeckIsNumbered
  BY EvaluationAssumption DEF EvaluationInit, DeckIsNumbered
<1>4. budget \in [Purposes -> Nat]
  BY EvaluationAssumption DEF EvaluationInit, Purposes
<1> QED BY <1>2, <1>3, <1>4 DEF EvaluationInit, EvaluationInv

\* Every step keeps the invariant, and what has been answered.
LEMMA EvaluationSteps ==
  ASSUME EvaluationInv, [EvaluationNext]_evaluationVars
  PROVE  EvaluationInv' /\ Stable
<1>0. StagesInv /\ budget \in [Purposes -> Nat]
  BY DEF EvaluationInv, StagesInv
<1>1. ASSUME NEW p \in Programs, Evaluate(p) PROVE EvaluationInv' /\ Stable
  <2>1. PICK givesUp \in BOOLEAN, fails \in SUBSET {"read", "write"} :
            /\ Spend([evaluations |-> 1, giveUps |-> IF givesUp THEN 1 ELSE 0,
                      failures |-> Cardinality(fails)])
            /\ \/ AnswersFromCache(p, "read" \in fails)
               \/ /\ Lookup(p, "read" \in fails) = {}
                  /\ RunsStages(p, givesUp, "write" \in fails)
            /\ UNCHANGED engine
    BY <1>1 DEF Evaluate
  <2>2. StagesInv' /\ Stable
    BY <1>0, <2>1, HitStays, MissStays
  <2>3. Cardinality(fails) \in Nat
    <3>1. IsFiniteSet({"read"})
      BY FS_Singleton
    <3>2. IsFiniteSet({"read"} \cup {"write"})
      BY <3>1, FS_AddElement
    <3>3. fails \in SUBSET ({"read"} \cup {"write"})
      OBVIOUS
    <3> QED BY <3>2, <3>3, FS_Subset, FS_CardinalityType
  <2> DEFINE costs == [evaluations |-> 1, giveUps |-> IF givesUp THEN 1 ELSE 0,
                       failures |-> Cardinality(fails)]
  <2>4. \A b \in DOMAIN costs : b \in Purposes /\ costs[b] \in Nat
    BY <2>3 DEF Purposes
  <2> HIDE DEF costs
  <2>5. budget' \in [Purposes -> Nat]
    BY <1>0, <2>1, <2>4, SpendStays DEF costs
  <2> QED BY <2>1, <2>2, <2>5 DEF EvaluationInv, StagesInv
<1>2. ASSUME NEW p \in Programs, Probe(p) PROVE EvaluationInv' /\ Stable
  <2>0. PICK givesUp \in BOOLEAN :
            /\ Spend([probes |-> 1, giveUps |-> IF givesUp THEN 1 ELSE 0])
            /\ RecordsEvent(IF SolverSays(p, givesUp) = "refuted" THEN "VIOLATED" ELSE "VERIFIED")
    BY <1>2 DEF Probe
  <2> DEFINE status == IF SolverSays(p, givesUp) = "refuted" THEN "VIOLATED" ELSE "VERIFIED"
             costs == [probes |-> 1, giveUps |-> IF givesUp THEN 1 ELSE 0]
             event == [id |-> checks.total + 1, status |-> status, source |-> "probe"]
  <2>1. /\ Spend(costs) /\ RecordsEvent(status)
        /\ UNCHANGED <<memory, table, engine, answers, proved>>
    BY <1>2, <2>0 DEF Probe
  <2>2. /\ checks.total \in Nat /\ checks.violations \in Nat /\ checks.violations <= checks.total
        /\ checks' = [total |-> checks.total + 1,
                      violations |-> checks.violations + (IF status = "VIOLATED" THEN 1 ELSE 0)]
        /\ history' = Push(event)
    BY <1>0, <2>1 DEF StagesInv, DeckIsNumbered, RecordsEvent
  <2>3. event \in DeckEvents /\ event.id = checks.total + 1 /\ event.source # "pipeline"
    BY <2>2 DEF DeckEvents
  <2> HIDE DEF event, costs
  <2>4. /\ checks' \in [total : Nat, violations : Nat]
        /\ checks'.total = checks.total + 1 /\ checks'.violations <= checks'.total
    BY <2>2
  <2>5. DeckIsNumbered'
    BY <1>0, <2>1, <2>2, <2>3, <2>4, DeckGrows DEF StagesInv
  <2>6. Rows(memory)' /\ Rows(table)' /\ AnswersAreKept' /\ ProvedAreVerified' /\ Stable
    BY <1>0, <2>1 DEF StagesInv, Rows, AnswersAreKept, ProvedAreVerified, Stable
  <2>7. budget' \in [Purposes -> Nat]
    <3>1. \A b \in DOMAIN costs : b \in Purposes /\ costs[b] \in Nat
      BY DEF Purposes, costs
    <3> QED BY <1>0, <2>1, <3>1, SpendStays DEF costs
  <2> QED BY <2>1, <2>5, <2>6, <2>7 DEF EvaluationInv
<1>3. ASSUME Restart PROVE EvaluationInv' /\ Stable
  <2>1. /\ DOMAIN memory' = {} /\ DOMAIN answers' = {} /\ proved' = {} /\ table' = table
        /\ engine' \in {"absent", "broken", "works"}
    BY <1>3 DEF Restart
  <2>2. Rows(memory)' /\ Rows(table)' /\ AnswersAreKept' /\ ProvedAreVerified' /\ Stable
    BY <1>0, <2>1 DEF StagesInv, Rows, AnswersAreKept, ProvedAreVerified, Stable
  <2>3. DeckIsNumbered'
    BY <1>3, EvaluationAssumption DEF Restart, DeckIsNumbered
  <2>4. budget' \in [Purposes -> Nat]
    BY <1>0, <1>3 DEF Restart, Purposes
  <2> QED BY <2>1, <2>2, <2>3, <2>4 DEF EvaluationInv
<1>4. ASSUME UNCHANGED evaluationVars PROVE EvaluationInv' /\ Stable
  BY <1>4 DEF EvaluationInv, evaluationVars, Rows, AnswersAreKept, ProvedAreVerified,
              DeckIsNumbered, Stable
<1> QED BY <1>1, <1>2, <1>3, <1>4 DEF EvaluationNext

\* The invariant is one of the pipeline.
THEOREM EvaluationInvariant == EvaluationSpec => []EvaluationInv
<1>1. EvaluationInv /\ [EvaluationNext]_evaluationVars => EvaluationInv'
  BY EvaluationSteps
<1> QED BY EvaluationStarts, <1>1, PTL DEF EvaluationSpec

\* What the solver has verified has one fitness in both engines and a
\* fingerprint: the three simulations and the two readers of the text agree.
THEOREM EnginesAlwaysAgree == EvaluationSpec => []EnginesAgree
<1>1. EvaluationInv => EnginesAgree
  BY VerifiedAgrees DEF EvaluationInv, ProvedAreVerified, EnginesAgree
<1> QED BY <1>1, EvaluationInvariant, PTL

\* Whatever has a fitness has one that an engine measured, of its own form.
THEOREM FitnessIsMeasured == EvaluationSpec => []FitnessWasMeasured
<1>1. EvaluationInv => FitnessWasMeasured
  <2> SUFFICES ASSUME EvaluationInv, NEW p \in DOMAIN answers, answers[p].fitness > 0
               PROVE  \E q \in Alike[p] : \E f \in {LocalFitness, EngineFitness} :
                          q \in DOMAIN f /\ answers[p].fitness = f[q]
    BY DEF FitnessWasMeasured
  <2>1. p \in Programs /\ IsRow(KeyOf[p], answers[p])
    BY DEF EvaluationInv, AnswersAreKept, Rows
  <2>2. PICK q \in Programs : /\ KeyOf[q] = KeyOf[p]
                              /\ \E f \in {LocalFitness, EngineFitness} :
                                     q \in DOMAIN f /\ answers[p].fitness = f[q]
    BY <2>1 DEF IsRow
  <2>3. q \in Alike[p]
    BY <2>1, <2>2, OneKeyPerForm DEF Alike
  <2> QED BY <2>2, <2>3
<1> QED BY <1>1, EvaluationInvariant, PTL

\* Whatever is accepted would pass the guard, also when the cache answers.
THEOREM GuardIsPassed == EvaluationSpec => []AcceptedPassesTheGuard
<1>1. EvaluationInv => AcceptedPassesTheGuard
  <2> SUFFICES ASSUME EvaluationInv, NEW p \in DOMAIN answers, answers[p].success
               PROVE  Sanitized(Text[p])
    BY DEF AcceptedPassesTheGuard
  <2>1. p \in Programs /\ IsRow(KeyOf[p], answers[p])
    BY DEF EvaluationInv, AnswersAreKept, Rows
  <2>2. PICK q \in Programs : KeyOf[q] = KeyOf[p] /\ Sanitized(Text[q])
    BY <2>1 DEF IsRow
  <2> QED BY <2>1, <2>2, OneKeyPerForm DEF Sanitized
<1> QED BY <1>1, EvaluationInvariant, PTL

\* A verdict stays what it was, and a refutation is reported once.
THEOREM VerdictsStay == EvaluationSpec => VerdictsAreStable
<1>1. EvaluationInv /\ [EvaluationNext]_evaluationVars =>
          [\A p \in DOMAIN answers \cap DOMAIN answers' : answers'[p] = answers[p]]_evaluationVars
  BY EvaluationSteps DEF Stable
<1>2. EvaluationInv => EvaluationTypeOK
  <2> SUFFICES ASSUME EvaluationInv PROVE EvaluationTypeOK
    OBVIOUS
  <2>1. /\ \A k \in DOMAIN memory : k \in Programs /\ memory[k] \in Diagnostics
        /\ \A k \in DOMAIN table : k \in Programs /\ table[k] \in Diagnostics
    BY DEF EvaluationInv, Rows, IsRow
  <2>2. \A p \in DOMAIN answers : p \in Programs /\ answers[p] \in Diagnostics
    BY <2>1 DEF EvaluationInv, AnswersAreKept
  <2>3. Range(memory) \cup Range(table) \cup Range(answers) \subseteq Diagnostics
    BY <2>1, <2>2 DEF Range
  <2>4. \A b \in DOMAIN budget : budget[b] >= 0
    BY DEF EvaluationInv
  <2> QED BY <2>1, <2>2, <2>3, <2>4
          DEF EvaluationInv, ProvedAreVerified, DeckIsNumbered, EvaluationTypeOK
<1>3. EvaluationInv => ReportedOnce
  <2> SUFFICES ASSUME EvaluationInv, NEW j \in DOMAIN history, NEW k \in DOMAIN history
               PROVE  /\ history[j].id - history[k].id = k - j
                      /\ (j # k /\ history[j].source = "pipeline" /\ history[k].source = "pipeline")
                           => history[j].program \notin Alike[history[k].program]
    BY DEF ReportedOnce
  <2>1. checks.total \in Nat /\ j \in Int /\ k \in Int
    BY DEF EvaluationInv, DeckIsNumbered
  <2>2. history[j].id = checks.total + 1 - j /\ history[k].id = checks.total + 1 - k
    BY DEF EvaluationInv, DeckIsNumbered
  <2>3. ASSUME j # k, history[j].source = "pipeline", history[k].source = "pipeline"
        PROVE  history[j].program \notin Alike[history[k].program]
    <3>1. history[j] \in DeckEvents /\ history[k] \in DeckEvents
      BY DEF EvaluationInv, DeckIsNumbered
    <3>2. history[j].program \in Programs /\ history[k].program \in Programs
      BY <2>3, <3>1 DEF DeckEvents
    <3>3. KeyOf[history[j].program] # KeyOf[history[k].program]
      BY <2>3 DEF EvaluationInv, DeckIsNumbered
    <3> QED BY <3>2, <3>3, OneKeyPerForm DEF Alike
  <2> QED BY <2>1, <2>2, <2>3
<1> QED BY <1>1, <1>2, <1>3, EvaluationInvariant, PTL DEF EvaluationSpec, VerdictsAreStable

(***************************************************************************)
(* The nightly discovery.                                                  *)
(***************************************************************************)
Uploading == {"py", "lean", "pull"}
Publishing == {"ref", "branch"} \cup Uploading

\* At most one pipeline is inside, and is_executing and the loop know of it.
OneInside ==
    /\ \A p, q \in Inside : p = q
    /\ executing <=> Inside # {}
    /\ loop.at = "executing" <=> Loop \in Inside

\* Searches are counted by the dashboard's bound and by the pipelines, and a
\* pipeline that has not begun its search has one to its credit.
SearchesCounted ==
    /\ fs.champ.search <= MaxSearches + pipelines
    /\ \A p \in Pipes : pub[p].at = "launched" =>
           /\ pipelines >= 1
           /\ fs.champ.search + 1 <= MaxSearches + pipelines

\* A pipeline that has got as far as GitHub holds the proof of its program.
HoldsItsProof ==
    \A p \in Pipes : pub[p].at \in Publishing =>
        pub[p].proof = pub[p].prog /\ pub[p].prog.good

\* A publisher's branch exists, carries its program only, and has no pull
\* request yet.
HoldsItsBranch ==
    \A p \in Publishers :
        /\ pub[p].branch # 0 <=> pub[p].at \in Uploading
        /\ pub[p].branch # 0 =>
               /\ pub[p].branch \in refs
               /\ \A f \in files : f.branch = pub[p].branch => f.prog = pub[p].prog
               /\ \A r \in pulls : r.branch # pub[p].branch

\* The inductive invariant.
IInv == /\ TypeOK /\ OneInside /\ SearchesCounted
        /\ HoldsItsProof /\ PublishesWhatWasProved
        /\ HoldsItsBranch /\ BranchesAreOnesOwn

\* What the steps of the scheduler loop and of the search do not touch.
Public == <<pub, refs, files, pulls>>

\* The sets the invariant is about are expanded throughout.
USE DEF Pipes, Publishers, Program, Steps, Inside

\* The invariant holds when the process starts.
LEMMA InitInvariant == Init => IInv
<1> SUFFICES ASSUME Init PROVE IInv
  OBVIOUS
<1> USE NightlyAssumption DEF Init, Idle, NoProgram
<1>1. TypeOK
  <2>1. NoProgram \in Program
    OBVIOUS
  <2>2. Idle \in [at : Steps, prog : Program, proof : Program, branch : 0..MaxSecond]
    BY <2>1
  <2>3. pub \in [Publishers -> [at : Steps, prog : Program, proof : Program,
                               branch : 0..MaxSecond]]
    BY <2>2
  <2>4. fs \in [running : BOOLEAN, champ : Program]
    BY <2>1
  <2>5. /\ second \in 1..MaxSecond /\ pipelines \in 0..MaxPipelines /\ cron \in 0..MaxUpdates
        /\ loop \in [at : {"waiting", "executing", "dead"}, cron : 0..MaxUpdates]
    OBVIOUS
  <2> QED
    BY <2>3, <2>4, <2>5 DEF TypeOK
<1>2. OneInside /\ SearchesCounted
  BY DEF OneInside, SearchesCounted
<1>3. HoldsItsProof /\ PublishesWhatWasProved
  BY DEF HoldsItsProof, PublishesWhatWasProved, Publishing, Uploading
<1>4. HoldsItsBranch /\ BranchesAreOnesOwn
  BY DEF HoldsItsBranch, BranchesAreOnesOwn, Uploading
<1> QED
  BY <1>1, <1>2, <1>3, <1>4 DEF IInv

\* What the steps that touch neither publishers nor GitHub leave alone.
LEMMA NothingPublic ==
    ASSUME IInv, UNCHANGED Public
    PROVE  /\ HoldsItsProof' /\ PublishesWhatWasProved'
           /\ HoldsItsBranch' /\ BranchesAreOnesOwn'
  BY DEF IInv, Public, HoldsItsProof, PublishesWhatWasProved, HoldsItsBranch,
         BranchesAreOnesOwn, Publishing, Uploading

\* The clock, the cron expression, and searches that the dashboard controls.
LEMMA Others ==
    ASSUME IInv,
           UpdateCron \/ Reschedules \/ Tick \/ Improves \/ DashboardStarts \/ DashboardStops
    PROVE  IInv'
<1> USE NightlyAssumption DEF sched, github
<1>1. UNCHANGED Public
  BY DEF UpdateCron, Reschedules, Tick, Improves, DashboardStarts, DashboardStops, Public
<1>2. TypeOK'
  <2> USE DEF IInv, TypeOK
  <2>1. CASE UpdateCron BY <2>1 DEF UpdateCron
  <2>2. CASE Reschedules BY <2>2 DEF Reschedules, Waiting
  <2>3. CASE Tick BY <2>3 DEF Tick
  <2>4. CASE Improves BY <2>4 DEF Improves
  <2>5. CASE DashboardStarts BY <2>5 DEF DashboardStarts, Started
  <2>6. CASE DashboardStops BY <2>6 DEF DashboardStops, Stopped
  <2> QED BY <2>1, <2>2, <2>3, <2>4, <2>5, <2>6
<1>3. OneInside'
  BY DEF IInv, TypeOK, OneInside, UpdateCron, Reschedules, Waiting, Tick, Improves,
         DashboardStarts, DashboardStops
<1>4. SearchesCounted'
  BY DEF IInv, TypeOK, SearchesCounted, UpdateCron, Reschedules, Tick, Improves,
         DashboardStarts, Started, DashboardStops, Stopped
<1> QED
  BY <1>1, <1>2, <1>3, <1>4, NothingPublic DEF IInv

\* What a publisher is at, and what it holds.
Slot == [at : Steps, prog : Program, proof : Program, branch : 0..MaxSecond]

\* A publisher takes a step within its stage, or gives up: its branch stays its
\* own or is left to nobody.
LEMMA OneMoves ==
    ASSUME IInv, NEW p \in Publishers, NEW slot \in Slot,
           pub' = [pub EXCEPT ![p] = slot], UNCHANGED github,
           slot.branch = 0 \/ (slot.branch = pub[p].branch /\ slot.prog = pub[p].prog),
           slot.branch # 0 <=> slot.at \in Uploading
    PROVE  HoldsItsBranch' /\ BranchesAreOnesOwn' /\ PublishesWhatWasProved'
<1> USE DEF IInv, TypeOK, Slot, github
<1>1. /\ UNCHANGED <<refs, files, pulls>>
      /\ \A q \in Publishers : q # p => pub'[q] = pub[q]
      /\ pub'[p] = slot
  OBVIOUS
<1>2. HoldsItsBranch'
  <2> SUFFICES ASSUME NEW q \in Publishers
               PROVE  /\ pub'[q].branch # 0 <=> pub'[q].at \in Uploading
                      /\ pub'[q].branch # 0 =>
                           /\ pub'[q].branch \in refs
                           /\ \A f \in files : f.branch = pub'[q].branch => f.prog = pub'[q].prog
                           /\ \A r \in pulls : r.branch # pub'[q].branch
    BY <1>1 DEF HoldsItsBranch
  <2>1. CASE q # p
    BY <1>1, <2>1 DEF HoldsItsBranch
  <2>2. CASE q = p
    BY <1>1, <2>2 DEF HoldsItsBranch
  <2> QED
    BY <2>1, <2>2
<1>3. BranchesAreOnesOwn'
  BY <1>1 DEF BranchesAreOnesOwn
<1>4. PublishesWhatWasProved'
  BY <1>1 DEF PublishesWhatWasProved
<1> QED
  BY <1>2, <1>3, <1>4

\* A publisher that gives up or comes to its end frees the scheduler, if it was
\* the pipeline.
LEMMA Leaving ==
    ASSUME IInv, NEW p \in Publishers, pub[p].at \notin {"idle", "created"},
           Leaves(p), UNCHANGED <<cron, fs, pipelines>>
    PROVE  /\ pub' = [pub EXCEPT ![p] = Idle] /\ Idle \in Slot
           /\ pub' \in [Publishers -> Slot] /\ executing' \in BOOLEAN
           /\ loop' \in [at : {"waiting", "executing", "dead"}, cron : 0..MaxUpdates]
           /\ OneInside' /\ SearchesCounted' /\ HoldsItsProof'
<1> USE NightlyAssumption DEF IInv, Leaves, TypeOK, Slot
<1>1. NoProgram \in Program
  BY DEF NoProgram
<1>2. Idle \in Slot /\ Idle.at = "idle"
  BY <1>1 DEF Idle
<1>3. /\ pub' = [pub EXCEPT ![p] = Idle] /\ pub' \in [Publishers -> Slot]
      /\ executing' \in BOOLEAN
      /\ loop' \in [at : {"waiting", "executing", "dead"}, cron : 0..MaxUpdates]
  BY <1>2 DEF Waiting
<1>4. OneInside'
  <2>1. CASE p \in Pipes
    BY <1>2, <1>3, <2>1 DEF OneInside, Waiting
  <2>2. CASE p = Dash
    BY <1>2, <1>3, <2>2 DEF OneInside, Waiting
  <2> QED
    BY <2>1, <2>2
<1>5. SearchesCounted' /\ HoldsItsProof'
  BY <1>2, <1>3 DEF SearchesCounted, HoldsItsProof, Publishing, Uploading
<1> QED
  BY <1>2, <1>3, <1>4, <1>5

\* A publisher that goes on stays inside.
LEMMA GoingOn ==
    ASSUME IInv, NEW p \in Publishers, NEW slot \in Slot,
           pub[p].at \notin {"idle", "created"},
           slot.at \notin {"idle", "created"},
           pub' = [pub EXCEPT ![p] = slot],
           UNCHANGED <<executing, loop>>
    PROVE  pub' \in [Publishers -> Slot] /\ OneInside'
  BY NightlyAssumption DEF IInv, TypeOK, Slot, OneInside

\* A task outside the pipeline moves outside of it.
LEMMA MovesOutside ==
    ASSUME IInv, NEW t \in Tasks, NEW slot \in Slot,
           pub[t].at \in {"idle", "created"}, slot.at \in {"idle", "created"},
           slot.branch = 0, pub' = [pub EXCEPT ![t] = slot],
           UNCHANGED <<sched, executing, fs, second, github, pipelines>>
    PROVE  IInv'
<1>1. t \in Publishers /\ (slot.branch # 0 <=> slot.at \in Uploading) /\ UNCHANGED github
  BY DEF Uploading
<1>2. HoldsItsBranch' /\ BranchesAreOnesOwn' /\ PublishesWhatWasProved'
  BY <1>1, OneMoves
<1> USE NightlyAssumption DEF IInv, sched, github
<1>3. TypeOK'
  BY DEF TypeOK, Slot
<1>4. OneInside'
  BY DEF OneInside, TypeOK, Slot
<1>5. SearchesCounted' /\ HoldsItsProof'
  BY DEF SearchesCounted, HoldsItsProof, TypeOK, Slot, Publishing, Uploading
<1> QED
  BY <1>2, <1>3, <1>4, <1>5

\* A pipeline begins, when none is inside.
LEMMA Beginning ==
    ASSUME IInv, NEW p \in Pipes, ~executing, pub[p].at \in {"idle", "created"},
           Begins(p), UNCHANGED <<cron, resched, fs, second, github>>,
           loop' = IF p = Loop THEN [loop EXCEPT !.at = "executing"] ELSE loop
    PROVE  IInv'
<1> USE NightlyAssumption
<1> DEFINE slot == [pub[p] EXCEPT !.at = "launched"]
<1>1. /\ slot \in Slot /\ slot.at = "launched" /\ p \in Publishers
      /\ pub' = [pub EXCEPT ![p] = slot]
      /\ pipelines < MaxPipelines /\ pipelines' = pipelines + 1
      /\ executing' /\ executing' \in BOOLEAN
  BY DEF IInv, Begins, TypeOK, Slot
<1>2. Inside = {}
  BY DEF IInv, OneInside
<1>3. slot.branch = 0
  BY DEF IInv, HoldsItsBranch, Uploading, TypeOK
<1> HIDE DEF slot
<1>4. slot.branch # 0 <=> slot.at \in Uploading
  BY <1>1, <1>3 DEF Uploading
<1>5. HoldsItsBranch' /\ BranchesAreOnesOwn' /\ PublishesWhatWasProved'
  BY <1>1, <1>3, <1>4, OneMoves
<1> USE DEF IInv
<1>6. TypeOK'
  BY <1>1 DEF TypeOK, Slot, github
<1>7. OneInside'
  BY <1>1, <1>2 DEF OneInside, TypeOK, Slot
<1>8. SearchesCounted' /\ HoldsItsProof'
  BY <1>1, <1>2 DEF SearchesCounted, HoldsItsProof, TypeOK, Slot, Publishing, Uploading
<1> QED
  BY <1>5, <1>6, <1>7, <1>8

\* The loop comes to its time, and begins a pipeline or finds one inside.
LEMMA LoopFires == IInv /\ Fires => IInv'
<1> SUFFICES ASSUME IInv, Fires PROVE IInv'
  OBVIOUS
<1> USE NightlyAssumption DEF IInv
<1>1. CASE executing
  <2>1. UNCHANGED Public /\ UNCHANGED <<executing, pub, pipelines, cron, resched, fs, second>>
    BY <1>1 DEF Fires, Public, github
  <2>2. TypeOK'
    BY <1>1, <2>1 DEF TypeOK, Fires, Waiting, Public
  <2>3. OneInside' /\ SearchesCounted'
    BY <1>1, <2>1 DEF OneInside, SearchesCounted, TypeOK, Fires, Waiting
  <2> QED
    BY <2>1, <2>2, <2>3, NothingPublic
<1>2. CASE ~executing
  <2>1. /\ Begins(Loop) /\ loop' = [loop EXCEPT !.at = "executing"]
        /\ UNCHANGED <<cron, resched, fs, second, github>>
    BY <1>2 DEF Fires
  <2>2. Loop \in Pipes /\ pub[Loop].at \in {"idle", "created"}
    BY <1>2 DEF OneInside, TypeOK
  <2> QED
    BY <1>2, <2>1, <2>2, Beginning
<1> QED
  BY <1>1, <1>2 DEF TypeOK
\* A task of the dashboard is created, and begins a pipeline or gives up.
LEMMA TaskSteps ==
    ASSUME IInv, NEW t \in Tasks, TriggerNow(t) \/ TaskRuns(t)
    PROVE  IInv'
<1> USE NightlyAssumption DEF IInv
<1>1. CASE TriggerNow(t)
  <2> DEFINE slot == [pub[t] EXCEPT !.at = "created"]
  <2>1. slot \in Slot /\ pub' = [pub EXCEPT ![t] = slot] /\ slot.at = "created"
    BY <1>1 DEF TriggerNow, Slot, TypeOK
  <2>2. slot.branch = 0 /\ pub[t].at = "idle"
    BY <1>1 DEF TriggerNow, TypeOK, HoldsItsBranch, Uploading
  <2>3. UNCHANGED <<sched, executing, fs, second, github, pipelines>>
    BY <1>1 DEF TriggerNow
  <2> HIDE DEF slot
  <2> QED
    BY <2>1, <2>2, <2>3, MovesOutside
<1>2. CASE TaskRuns(t) /\ executing
  <2>1. /\ pub[t].at = "created" /\ pub' = [pub EXCEPT ![t] = Idle]
        /\ UNCHANGED <<sched, executing, fs, second, github, pipelines>>
    BY <1>2 DEF TaskRuns
  <2>2. Idle \in Slot /\ Idle.at = "idle" /\ Idle.branch = 0
    BY DEF Idle, NoProgram, Slot, TypeOK
  <2> QED
    BY <2>1, <2>2, MovesOutside
<1>3. CASE TaskRuns(t) /\ ~executing
  <2>1. /\ pub[t].at = "created" /\ Begins(t) /\ t # Loop /\ t \in Pipes
        /\ UNCHANGED <<cron, resched, loop, fs, second, github>>
    BY <1>3 DEF TaskRuns, sched
  <2> QED
    BY <1>3, <2>1, Beginning
<1> QED
  BY <1>1, <1>2, <1>3 DEF TypeOK
\* The pipeline, up to the publication.
LEMMA PipelineSteps ==
    ASSUME IInv, NEW p \in Pipes, Pipeline(p)
    PROVE  IInv'
<1> USE NightlyAssumption
<1>1. CASE Searches(p) \/ TakesChampion(p)
  <2> DEFINE slot == IF Searches(p) THEN [pub[p] EXCEPT !.at = "sleeping"]
                     ELSE [pub[p] EXCEPT !.at = "proving", !.prog = fs.champ]
  <2>0. /\ p \in Publishers /\ pub \in [Publishers -> Slot] /\ fs.champ \in Program
        /\ pub[p] \in Slot
    BY DEF IInv, TypeOK, Slot
  <2>1. /\ slot \in Slot /\ p \in Publishers /\ slot.at \in {"sleeping", "proving"}
        /\ pub' = [pub EXCEPT ![p] = slot] /\ pub[p].at \in {"launched", "sleeping"}
        /\ UNCHANGED <<cron, resched, loop, executing, second, pipelines>> /\ UNCHANGED github
    <3>1. CASE Searches(p)
      <4>1. slot = [pub[p] EXCEPT !.at = "sleeping"]
        BY <3>1
      <4>2. slot \in Slot /\ slot.at = "sleeping"
        BY <2>0, <4>1 DEF Slot, Steps
      <4>3. /\ pub' = [pub EXCEPT ![p] = slot] /\ pub[p].at = "launched"
            /\ UNCHANGED <<cron, resched, loop, executing, second, pipelines>>
            /\ UNCHANGED github
        BY <3>1, <4>1 DEF Searches, sched
      <4> QED
        BY <2>0, <4>2, <4>3
    <3>2. CASE ~Searches(p)
      <4>1. slot = [pub[p] EXCEPT !.at = "proving", !.prog = fs.champ]
        BY <3>2
      <4>2. slot \in Slot /\ slot.at = "proving"
        BY <2>0, <4>1 DEF Slot, Steps
      <4>3. /\ pub' = [pub EXCEPT ![p] = slot] /\ pub[p].at = "sleeping"
            /\ UNCHANGED <<cron, resched, loop, executing, second, pipelines>>
            /\ UNCHANGED github
        BY <1>1, <3>2, <4>1 DEF TakesChampion, sched
      <4> QED
        BY <2>0, <4>2, <4>3
    <3> QED
      BY <3>1, <3>2
  <2>2. slot.branch = 0
    BY <1>1 DEF IInv, Searches, TakesChampion, TypeOK, HoldsItsBranch, Uploading
  <2> HIDE DEF slot
  <2>3. slot.branch # 0 <=> slot.at \in Uploading
    BY <2>1, <2>2 DEF Uploading
  <2>4. HoldsItsBranch' /\ BranchesAreOnesOwn' /\ PublishesWhatWasProved'
    BY <2>1, <2>2, <2>3, OneMoves
  <2>5. OneInside'
    BY <2>1, GoingOn
  <2>6. /\ fs' \in [running : BOOLEAN, champ : Program]
        /\ fs'.champ.search <= MaxSearches + pipelines
        /\ pub[p].at = "launched" \/ fs'.champ = fs.champ
    <3>1. /\ fs \in [running : BOOLEAN, champ : Program] /\ pipelines \in 0..MaxPipelines
          /\ fs.champ \in Program /\ fs.champ.search \in Nat
          /\ fs.champ.search <= MaxSearches + pipelines
          /\ pub[p].at = "launched" => fs.champ.search + 1 <= MaxSearches + pipelines
      BY DEF IInv, TypeOK, SearchesCounted
    <3>2. CASE Searches(p) /\ ~fs.running
      <4> DEFINE champ == [search |-> fs.champ.search + 1, good |-> FALSE]
      <4>1. fs' = [running |-> TRUE, champ |-> champ] /\ pub[p].at = "launched"
        BY <3>2 DEF Searches, Started
      <4>2. champ \in Program /\ champ.search <= MaxSearches + pipelines
        BY <3>1, <4>1
      <4> HIDE DEF champ
      <4> QED
        BY <4>1, <4>2
    <3>3. CASE Searches(p) /\ fs.running
      BY <3>1, <3>3 DEF Searches, Started
    <3>4. CASE TakesChampion(p)
      BY <3>1, <3>4 DEF TakesChampion, Stopped
    <3> QED
      BY <1>1, <3>1, <3>2, <3>3, <3>4
  <2>7. SearchesCounted'
    <3> SUFFICES ASSUME NEW q \in Pipes, pub'[q].at = "launched"
                 PROVE  /\ pipelines' >= 1
                        /\ fs'.champ.search + 1 <= MaxSearches + pipelines'
      BY <2>1, <2>6 DEF SearchesCounted
    <3>1. q # p /\ pub[q].at = "launched"
      BY <2>1 DEF IInv, TypeOK, Slot
    <3>2. FALSE
      BY <3>1, <2>1 DEF IInv, OneInside
    <3> QED BY <3>2
  <2>8. TypeOK'
    BY <2>1, <2>6 DEF IInv, TypeOK, Slot, github
  <2>9. HoldsItsProof'
    BY <2>1 DEF IInv, TypeOK, HoldsItsProof, Slot, Publishing, Uploading
  <2> QED
    BY <2>4, <2>5, <2>7, <2>8, <2>9 DEF IInv
<1>2. CASE Proves(p) /\ ~Leaves(p)
  <2> DEFINE slot == [pub[p] EXCEPT !.at = "ref", !.proof = pub[p].prog]
  <2>1. /\ slot \in Slot /\ p \in Publishers
        /\ slot.at = "ref" /\ slot.proof = slot.prog /\ slot.prog.good
        /\ pub' = [pub EXCEPT ![p] = slot] /\ pub[p].at = "proving"
        /\ UNCHANGED <<cron, resched, loop, executing, fs, second, pipelines>>
        /\ UNCHANGED github
    <3>1. pub[p] \in Slot /\ p \in Publishers /\ pub = [q \in Publishers |-> pub[q]]
      BY DEF IInv, TypeOK, Slot
    <3>2. slot \in Slot /\ slot.at = "ref" /\ slot.proof = slot.prog
      BY <3>1 DEF Slot
    <3>3. /\ slot.prog.good
          /\ pub' = [pub EXCEPT ![p] = slot] /\ pub[p].at = "proving"
          /\ UNCHANGED <<cron, resched, loop, executing, fs, second, pipelines>>
          /\ UNCHANGED github
      BY <1>2, <3>1 DEF Proves, Slot
    <3> QED BY <3>1, <3>2, <3>3
  <2>2. slot.branch = 0
    BY <1>2 DEF IInv, Proves, TypeOK, HoldsItsBranch, Uploading
  <2> HIDE DEF slot
  <2>3. slot.branch # 0 <=> slot.at \in Uploading
    BY <2>1, <2>2 DEF Uploading
  <2>4. HoldsItsBranch' /\ BranchesAreOnesOwn' /\ PublishesWhatWasProved'
    BY <2>1, <2>2, <2>3, OneMoves
  <2>5. OneInside'
    BY <2>1, GoingOn
  <2>6. SearchesCounted' /\ TypeOK' /\ HoldsItsProof'
    BY <2>1 DEF IInv, TypeOK, SearchesCounted, HoldsItsProof, Slot, github
  <2> QED
    BY <2>4, <2>5, <2>6 DEF IInv
<1>3. CASE Proves(p) /\ Leaves(p)
  <2>1. /\ p \in Publishers /\ pub[p].at = "proving" /\ Leaves(p)
        /\ UNCHANGED <<cron, resched, fs, second, pipelines>> /\ UNCHANGED github
    BY <1>3 DEF Proves
  <2>2. /\ pub' = [pub EXCEPT ![p] = Idle] /\ Idle \in Slot
        /\ pub' \in [Publishers -> Slot] /\ executing' \in BOOLEAN
        /\ loop' \in [at : {"waiting", "executing", "dead"}, cron : 0..MaxUpdates]
        /\ OneInside' /\ SearchesCounted' /\ HoldsItsProof'
    BY <2>1, Leaving
  <2>3. Idle.branch = 0 /\ (Idle.branch # 0 <=> Idle.at \in Uploading)
    BY DEF Idle, Uploading
  <2>4. HoldsItsBranch' /\ BranchesAreOnesOwn' /\ PublishesWhatWasProved'
    BY <2>1, <2>2, <2>3, OneMoves
  <2>5. TypeOK'
    BY <2>1, <2>2 DEF IInv, TypeOK, Slot, github
  <2> QED
    BY <2>2, <2>4, <2>5 DEF IInv
<1>4. CASE PipelineRaises(p)
  <2>1. /\ p \in Publishers /\ pub[p].at = "proving" /\ ~executing' /\ executing' \in BOOLEAN
        /\ pub' = [pub EXCEPT ![p] = Idle]
        /\ loop' = IF p = Loop THEN [loop EXCEPT !.at = "dead"] ELSE loop
        /\ UNCHANGED <<cron, resched, fs, second, pipelines>> /\ UNCHANGED github
    BY <1>4 DEF PipelineRaises
  <2>2. Idle \in Slot /\ Idle.at = "idle" /\ Idle.branch = 0
    BY DEF Idle, NoProgram, Slot, TypeOK, IInv
  <2>3. Idle.branch # 0 <=> Idle.at \in Uploading
    BY <2>2 DEF Uploading
  <2>4. HoldsItsBranch' /\ BranchesAreOnesOwn' /\ PublishesWhatWasProved'
    BY <2>1, <2>2, <2>3, OneMoves
  <2>5. TypeOK'
    BY <2>1, <2>2 DEF IInv, TypeOK, Slot, github
  <2>6. OneInside'
    BY <2>1, <2>2 DEF IInv, OneInside, TypeOK, Slot
  <2>7. SearchesCounted' /\ HoldsItsProof'
    BY <2>1, <2>2 DEF IInv, SearchesCounted, HoldsItsProof, TypeOK, Slot, Publishing, Uploading
  <2> QED
    BY <2>4, <2>5, <2>6, <2>7 DEF IInv
<1> QED
  BY <1>1, <1>2, <1>3, <1>4 DEF Pipeline
\* What a step of create_discovery_pr does outside of GitHub.
PrivateOK ==
    /\ cron \in 0..MaxUpdates /\ resched \in BOOLEAN /\ executing \in BOOLEAN
    /\ loop \in [at : {"waiting", "executing", "dead"}, cron : 0..MaxUpdates]
    /\ pub \in [Publishers -> Slot]
    /\ fs \in [running : BOOLEAN, champ : Program]
    /\ second \in 1..MaxSecond /\ pipelines \in 0..MaxPipelines
    /\ OneInside /\ SearchesCounted /\ HoldsItsProof

\* A publisher gives up at any step, or comes to its end.
LEMMA GivingUp ==
    ASSUME IInv, NEW p \in Publishers, pub[p].at \in Publishing, Leaves(p),
           UNCHANGED <<cron, resched, fs, second, pipelines>>
    PROVE  /\ PrivateOK'
           /\ pub' = [pub EXCEPT ![p] = Idle]
           /\ Idle \in Slot /\ Idle.branch = 0 /\ Idle.at \notin Uploading
<1>1. pub[p].at \notin {"idle", "created"}
  BY DEF Publishing, Uploading
<1>2. cron \in 0..MaxUpdates /\ resched \in BOOLEAN /\ second \in 1..MaxSecond
      /\ fs \in [running : BOOLEAN, champ : Program] /\ pipelines \in 0..MaxPipelines
  BY DEF IInv, TypeOK
<1>3. Idle.branch = 0 /\ Idle.at \notin Uploading
  BY DEF Idle, Uploading
<1> QED
  BY <1>1, <1>2, <1>3, Leaving DEF PrivateOK

\* A publisher goes on to another step.
LEMMA Continuing ==
    ASSUME IInv, NEW p \in Publishers, NEW slot \in Slot,
           pub[p].at \in Publishing, slot.at \in Publishing,
           slot.prog = pub[p].prog, slot.proof = pub[p].proof,
           pub' = [pub EXCEPT ![p] = slot],
           UNCHANGED <<sched, executing, fs, second, pipelines>>
    PROVE  PrivateOK'
<1>1. /\ pub[p].at \notin {"idle", "created"} /\ slot.at \notin {"idle", "created"}
      /\ slot.at # "launched" /\ UNCHANGED <<cron, resched, loop>>
  BY DEF Publishing, Uploading, sched
<1>2. OneInside' /\ pub' \in [Publishers -> Slot]
  BY <1>1, GoingOn
<1>3. SearchesCounted'
  BY <1>1 DEF IInv, TypeOK, SearchesCounted, Slot
<1>4. HoldsItsProof'
  BY DEF IInv, TypeOK, HoldsItsProof, Slot
<1> QED
  BY <1>1, <1>2, <1>3, <1>4 DEF IInv, TypeOK, PrivateOK

\* GitHub as the publishers see it, when a step of one of them changes it.
LEMMA Together ==
    ASSUME PrivateOK', refs' \subseteq 1..MaxSecond,
           \A f \in files' : f.branch \in refs', \A r \in pulls' : r.branch \in refs',
           HoldsItsBranch', BranchesAreOnesOwn', PublishesWhatWasProved'
    PROVE  IInv'
  BY DEF PrivateOK, IInv, TypeOK, Slot

\* The first call to GitHub reads, and changes nothing there.
LEMMA RefSteps ==
    ASSUME IInv, NEW p \in Publishers, GetsRef(p)
    PROVE  IInv'
<1>1. PICK slot \in Slot : /\ PrivateOK' /\ pub' = [pub EXCEPT ![p] = slot]
                           /\ slot.branch = 0 /\ slot.at \notin Uploading
  <2>1. CASE Leaves(p)
    <3>1. pub[p].at \in Publishing /\ UNCHANGED <<cron, resched, fs, second, pipelines>>
      BY DEF GetsRef, Publishing
    <3> QED
      BY <2>1, <3>1, GivingUp
  <2>2. CASE GoesOn(p, "branch")
    <3> DEFINE slot == [pub[p] EXCEPT !.at = "branch"]
    <3>1. /\ slot \in Slot /\ pub' = [pub EXCEPT ![p] = slot] /\ slot.branch = pub[p].branch
          /\ slot.at = "branch" /\ slot.prog = pub[p].prog /\ slot.proof = pub[p].proof
          /\ pub[p].at = "ref" /\ UNCHANGED <<sched, executing, fs, second, pipelines>>
      BY <2>2 DEF GetsRef, GoesOn, IInv, TypeOK, Slot, sched
    <3>2. pub[p].branch = 0
      BY <3>1 DEF IInv, HoldsItsBranch, Uploading
    <3> HIDE DEF slot
    <3>3. pub[p].at \in Publishing /\ slot.at \in Publishing /\ slot.at \notin Uploading
      BY <3>1 DEF Publishing, Uploading
    <3>4. PrivateOK'
      BY <3>1, <3>3, Continuing
    <3> QED
      BY <3>1, <3>2, <3>3, <3>4
  <2> QED
    BY <2>1, <2>2 DEF GetsRef
<1>2. UNCHANGED github /\ UNCHANGED <<refs, files, pulls>>
  BY DEF GetsRef, github
<1>3. HoldsItsBranch' /\ BranchesAreOnesOwn' /\ PublishesWhatWasProved'
  BY <1>1, <1>2, OneMoves
<1>4. refs' \subseteq 1..MaxSecond /\ (\A f \in files' : f.branch \in refs')
      /\ \A r \in pulls' : r.branch \in refs'
  BY <1>2 DEF IInv, TypeOK
<1> QED
  BY <1>1, <1>3, <1>4, Together
\* A branch is created where there was none, or refused.
LEMMA BranchSteps ==
    ASSUME IInv, NEW p \in Publishers, CreatesBranch(p)
    PROVE  IInv'
<1>1. /\ pub[p].at = "branch" /\ pub[p].at \in Publishing
      /\ UNCHANGED <<cron, resched, fs, second, pipelines>>
      /\ files' = files /\ pulls' = pulls
  BY DEF CreatesBranch, Publishing
<1>2. /\ second \in 1..MaxSecond /\ refs \subseteq 1..MaxSecond
      /\ \A f \in files : f.branch \in refs
      /\ \A r \in pulls : r.branch \in refs
  BY DEF IInv, TypeOK
<1>3. PICK slot \in Slot :
        /\ PrivateOK' /\ pub' = [pub EXCEPT ![p] = slot]
        /\ refs' \in {refs, refs \cup {second}}
        /\ slot.branch # 0 <=> slot.at \in Uploading
        /\ slot.branch = 0 \/ (slot.branch = second /\ second \notin refs /\ second \in refs')
  <2>1. CASE Leaves(p)
    <3>1. refs' \in {refs, refs \cup {second}}
      BY DEF CreatesBranch
    <3> QED
      BY <1>1, <2>1, <3>1, GivingUp
  <2>2. CASE ~Leaves(p)
    <3> DEFINE slot == [pub[p] EXCEPT !.at = "py", !.branch = second]
    <3>1. /\ slot \in Slot /\ pub' = [pub EXCEPT ![p] = slot] /\ slot.branch = second
          /\ slot.at = "py" /\ slot.prog = pub[p].prog /\ slot.proof = pub[p].proof
          /\ UNCHANGED <<sched, executing, fs, second, pipelines>>
          /\ second \notin refs /\ refs' = refs \cup {second}
      <4>1. /\ pub' = [pub EXCEPT ![p].at = "py", ![p].branch = second]
            /\ UNCHANGED <<executing, loop>>
            /\ second \notin refs /\ refs' = refs \cup {second}
        BY <2>2 DEF CreatesBranch
      <4>2. pub \in [Publishers -> Slot] /\ pub[p] \in Slot
        BY DEF IInv, TypeOK, Slot
      <4>3. /\ slot \in Slot /\ slot.branch = second /\ slot.at = "py"
            /\ slot.prog = pub[p].prog /\ slot.proof = pub[p].proof
        <5>1. "py" \in Steps /\ second \in 0..MaxSecond
          BY <1>2
        <5> HIDE DEF Steps, Program
        <5> QED
          BY <5>1, <4>2 DEF Slot
      <4>4. pub' = [pub EXCEPT ![p] = slot]
        BY <4>1, <4>2 DEF Slot
      <4> QED
        BY <1>1, <4>1, <4>3, <4>4 DEF sched
    <3> HIDE DEF slot
    <3>2. slot.at \in Publishing /\ slot.at \in Uploading /\ slot.branch # 0
      BY <1>2, <3>1 DEF Publishing, Uploading
    <3>3. PrivateOK'
      BY <1>1, <3>1, <3>2, Continuing
    <3> QED
      BY <3>1, <3>2, <3>3
  <2> QED
    BY <2>1, <2>2
<1>4. /\ \A q \in Publishers : q # p => pub'[q] = pub[q]
      /\ pub'[p] = slot /\ pub \in [Publishers -> Slot]
  BY <1>3 DEF IInv, TypeOK, Slot
<1>5. HoldsItsBranch'
  <2> SUFFICES ASSUME NEW q \in Publishers
               PROVE  /\ pub'[q].branch # 0 <=> pub'[q].at \in Uploading
                      /\ pub'[q].branch # 0 =>
                           /\ pub'[q].branch \in refs'
                           /\ \A f \in files : f.branch = pub'[q].branch => f.prog = pub'[q].prog
                           /\ \A r \in pulls : r.branch # pub'[q].branch
    BY <1>1 DEF HoldsItsBranch
  <2>1. CASE q = p
    BY <1>2, <1>3, <1>4, <2>1
  <2>2. CASE q # p
    BY <1>3, <1>4, <2>2 DEF IInv, HoldsItsBranch
  <2> QED
    BY <2>1, <2>2
<1>6. BranchesAreOnesOwn'
  <2>1. \A q \in Publishers : pub[q].branch # 0 => pub[q].branch \in refs
    BY DEF IInv, HoldsItsBranch
  <2> QED
    BY <1>1, <1>3, <1>4, <2>1 DEF IInv, BranchesAreOnesOwn
<1>7. PublishesWhatWasProved'
  BY <1>1 DEF IInv, PublishesWhatWasProved
<1>8. refs' \subseteq 1..MaxSecond /\ (\A f \in files' : f.branch \in refs')
      /\ \A r \in pulls' : r.branch \in refs'
  BY <1>1, <1>2, <1>3
<1> QED
  BY <1>3, <1>5, <1>6, <1>7, <1>8, Together

\* A file is put on the branch of the publisher, or is not.
LEMMA FileSteps ==
    ASSUME IInv, NEW p \in Publishers, NEW kind \in {"py", "lean"}, NEW next \in {"lean", "pull"},
           PutsFile(p, kind, next)
    PROVE  IInv'
<1> DEFINE file == [branch |-> pub[p].branch, kind |-> kind, prog |-> pub[p].prog]
<1>1. /\ pub[p].at = kind /\ pub[p].at \in Publishing /\ pub[p].at \in Uploading
      /\ UNCHANGED <<cron, resched, fs, second, pipelines>>
      /\ refs' = refs /\ pulls' = pulls
  BY DEF PutsFile, Publishing, Uploading
<1>2. \A f \in files' : f \in files \/ (f.branch = pub[p].branch /\ f.prog = pub[p].prog)
  BY DEF PutsFile
<1>3. /\ pub[p].branch \in refs
      /\ \A f \in files : f.branch = pub[p].branch => f.prog = pub[p].prog
      /\ \A r \in pulls : r.branch # pub[p].branch
  BY <1>1 DEF IInv, HoldsItsBranch
<1>4. PICK slot \in Slot :
        /\ PrivateOK' /\ pub' = [pub EXCEPT ![p] = slot]
        /\ slot.branch # 0 <=> slot.at \in Uploading
        /\ slot.branch = 0 \/ (slot.branch = pub[p].branch /\ slot.prog = pub[p].prog)
  <2>1. CASE Leaves(p)
    BY <1>1, <2>1, GivingUp
  <2>2. CASE GoesOn(p, next)
    <3> DEFINE slot == [pub[p] EXCEPT !.at = next]
    <3>1. /\ slot \in Slot /\ pub' = [pub EXCEPT ![p] = slot] /\ slot.branch = pub[p].branch
          /\ slot.at = next /\ slot.prog = pub[p].prog /\ slot.proof = pub[p].proof
          /\ UNCHANGED <<sched, executing, fs, second, pipelines>>
      BY <1>1, <2>2 DEF GoesOn, IInv, TypeOK, Slot, sched
    <3>2. pub[p].branch # 0
      BY <1>1 DEF IInv, HoldsItsBranch
    <3> HIDE DEF slot
    <3>3. slot.at \in Publishing /\ slot.at \in Uploading
      BY <3>1 DEF Publishing, Uploading
    <3>4. PrivateOK'
      BY <1>1, <3>1, <3>3, Continuing
    <3> QED
      BY <3>1, <3>2, <3>3, <3>4
  <2> QED
    BY <2>1, <2>2 DEF PutsFile
<1>5. /\ \A q \in Publishers : q # p => pub'[q] = pub[q]
      /\ pub'[p] = slot /\ pub \in [Publishers -> Slot]
  BY <1>4 DEF IInv, TypeOK, Slot
<1>6. \A q \in Publishers : q # p => pub[q].branch # pub[p].branch
  <2>1. pub[p].branch # 0
    BY <1>1 DEF IInv, HoldsItsBranch
  <2> QED
    BY <2>1 DEF IInv, BranchesAreOnesOwn
<1>7. HoldsItsBranch'
  <2> SUFFICES ASSUME NEW q \in Publishers
               PROVE  /\ pub'[q].branch # 0 <=> pub'[q].at \in Uploading
                      /\ pub'[q].branch # 0 =>
                           /\ pub'[q].branch \in refs
                           /\ \A f \in files' : f.branch = pub'[q].branch => f.prog = pub'[q].prog
                           /\ \A r \in pulls : r.branch # pub'[q].branch
    BY <1>1 DEF HoldsItsBranch
  <2>1. CASE q = p
    BY <1>2, <1>3, <1>4, <1>5, <2>1
  <2>2. CASE q # p
    BY <1>2, <1>5, <1>6, <2>2 DEF IInv, HoldsItsBranch
  <2> QED
    BY <2>1, <2>2
<1>8. BranchesAreOnesOwn'
  <2>1. \A f, g \in files' : f.branch = g.branch => f.prog = g.prog
    BY <1>2, <1>3 DEF IInv, BranchesAreOnesOwn
  <2> QED
    BY <1>1, <1>4, <1>5, <2>1 DEF IInv, BranchesAreOnesOwn
<1>9. PublishesWhatWasProved'
  BY <1>1 DEF IInv, PublishesWhatWasProved
<1>10. refs' \subseteq 1..MaxSecond /\ (\A f \in files' : f.branch \in refs')
       /\ \A r \in pulls' : r.branch \in refs'
  BY <1>1, <1>2, <1>3 DEF IInv, TypeOK
<1> QED
  BY <1>4, <1>7, <1>8, <1>9, <1>10, Together

\* The pull request is opened on the branch of the publisher, or is not.
LEMMA PullSteps ==
    ASSUME IInv, NEW p \in Publishers, OpensPull(p)
    PROVE  IInv'
<1>1. /\ pub[p].at = "pull" /\ pub[p].at \in Publishing /\ pub[p].at \in Uploading
      /\ UNCHANGED <<cron, resched, fs, second, pipelines>> /\ Leaves(p)
      /\ refs' = refs /\ files' = files
  BY DEF OpensPull, Publishing, Uploading
<1>2. \/ pulls' = pulls
      \/ \E r : /\ pulls' = pulls \cup {r} /\ r.branch = pub[p].branch
               /\ r.prog = pub[p].prog /\ r.proof = pub[p].proof /\ r.by = p
  BY DEF OpensPull
<1>3. /\ pub[p].branch \in refs /\ pub[p].branch # 0
      /\ \A r \in pulls : r.branch # pub[p].branch
  BY <1>1 DEF IInv, HoldsItsBranch
<1>4. /\ PrivateOK' /\ pub' = [pub EXCEPT ![p] = Idle]
      /\ Idle \in Slot /\ Idle.branch = 0 /\ Idle.at \notin Uploading
  BY <1>1, GivingUp
<1>5. /\ \A q \in Publishers : q # p => pub'[q] = pub[q]
      /\ pub'[p] = Idle
      /\ \A q \in Publishers : q # p => pub[q].branch # pub[p].branch
  BY <1>3, <1>4 DEF IInv, TypeOK, BranchesAreOnesOwn
<1>6. \A r \in pulls' : r \in pulls \/ r.branch = pub[p].branch
  BY <1>2
<1>7. HoldsItsBranch'
  <2> SUFFICES ASSUME NEW q \in Publishers
               PROVE  /\ pub'[q].branch # 0 <=> pub'[q].at \in Uploading
                      /\ pub'[q].branch # 0 =>
                           /\ pub'[q].branch \in refs
                           /\ \A f \in files : f.branch = pub'[q].branch => f.prog = pub'[q].prog
                           /\ \A r \in pulls' : r.branch # pub'[q].branch
    BY <1>1 DEF HoldsItsBranch
  <2>1. CASE q = p
    BY <1>4, <1>5, <2>1
  <2>2. CASE q # p
    BY <1>5, <1>6, <2>2 DEF IInv, HoldsItsBranch
  <2> QED
    BY <2>1, <2>2
<1>8. BranchesAreOnesOwn'
  <2>1. \A r, s \in pulls' : r.branch = s.branch => r = s
    BY <1>2, <1>3 DEF IInv, BranchesAreOnesOwn
  <2> QED
    BY <1>1, <1>4, <1>5, <2>1 DEF IInv, BranchesAreOnesOwn
<1>9. PublishesWhatWasProved'
  <2>1. p \in Pipes => pub[p].proof = pub[p].prog /\ pub[p].prog.good
    BY <1>1 DEF IInv, HoldsItsProof
  <2> QED
    BY <1>2, <2>1 DEF IInv, PublishesWhatWasProved
<1>10. refs' \subseteq 1..MaxSecond /\ (\A f \in files' : f.branch \in refs')
       /\ \A r \in pulls' : r.branch \in refs'
  BY <1>1, <1>3, <1>6 DEF IInv, TypeOK
<1> QED
  BY <1>4, <1>7, <1>8, <1>9, <1>10, Together

\* The dashboard begins a publication.
LEMMA DashboardPublishes == ASSUME IInv, DashPublishes PROVE IInv'
<1> USE NightlyAssumption
<1> DEFINE slot == [pub[Dash] EXCEPT !.at = "ref", !.prog = fs.champ]
<1>1. /\ slot \in Slot /\ Dash \in Publishers /\ pub' = [pub EXCEPT ![Dash] = slot]
      /\ slot.at = "ref" /\ slot.branch = pub[Dash].branch /\ pub[Dash].at = "idle"
      /\ pipelines' = pipelines + 1 /\ pipelines < MaxPipelines
      /\ UNCHANGED <<cron, resched, loop, executing, fs, second>> /\ UNCHANGED github
  <2>1. /\ pub \in [Publishers -> Slot] /\ Dash \in Publishers /\ fs.champ \in Program
    BY DEF IInv, TypeOK, Slot
  <2>2. slot \in Slot /\ slot.at = "ref" /\ slot.branch = pub[Dash].branch
    <3>1. pub[Dash] \in Slot
      BY <2>1
    <3> QED
      BY <2>1, <3>1 DEF Slot
  <2>3. pub' = [pub EXCEPT ![Dash] = slot]
    BY <2>1 DEF DashPublishes, Slot
  <2> QED
    BY <2>1, <2>2, <2>3 DEF DashPublishes, sched
<1>2. slot.branch = 0
  BY <1>1 DEF IInv, HoldsItsBranch, Uploading
<1> HIDE DEF slot
<1>3. slot.branch # 0 <=> slot.at \in Uploading
  BY <1>1, <1>2 DEF Uploading
<1>4. HoldsItsBranch' /\ BranchesAreOnesOwn' /\ PublishesWhatWasProved'
  BY <1>1, <1>2, <1>3, OneMoves
<1>5. TypeOK'
  BY <1>1 DEF IInv, TypeOK, Slot, github
<1>6. OneInside' /\ SearchesCounted' /\ HoldsItsProof'
  BY <1>1 DEF IInv, TypeOK, OneInside, SearchesCounted, HoldsItsProof, Slot
<1> QED
  BY <1>4, <1>5, <1>6 DEF IInv
\* Nothing happens.
LEMMA Stutter == ASSUME IInv, UNCHANGED vars PROVE IInv'
  BY DEF IInv, vars, TypeOK, OneInside, SearchesCounted, HoldsItsProof,
         PublishesWhatWasProved, HoldsItsBranch, BranchesAreOnesOwn

\* The invariant holds in every behaviour.
LEMMA Invariance == Spec => []IInv
<1>1. ASSUME IInv, [Next]_vars PROVE IInv'
  <2>1. CASE \E t \in Tasks : TriggerNow(t) \/ TaskRuns(t)
    BY <1>1, <2>1, TaskSteps
  <2>2. CASE \E p \in Pipes : Pipeline(p)
    BY <1>1, <2>2, PipelineSteps
  <2>3. CASE \E p \in Publishers : Publish(p)
    BY <1>1, <2>3, RefSteps, BranchSteps, FileSteps, PullSteps DEF Publish
  <2> QED
    BY <1>1, <2>1, <2>2, <2>3, Others, LoopFires, DashboardPublishes, Stutter DEF Next
<1> QED
  BY <1>1, InitInvariant, PTL DEF Spec

\* Two tasks that the dashboard has created at once, the scheduler's own time and
\* exceptions at any step: is_executing is set exactly while one pipeline is inside,
\* and the loop waits for the time of the current expression.
THEOREM SchedulerExact == Spec => []SchedulerIsExact
<1>1. IInv => ExecutingIsExact
  <2> SUFFICES ASSUME IInv PROVE ExecutingIsExact
    OBVIOUS
  <2> USE DEF IInv, OneInside
  <2>1. CASE executing
    <3>1. PICK p : Inside = {p}
      BY <2>1
    <3> HIDE DEF Inside
    <3>2. Cardinality(Inside) = 1
      BY <3>1, FS_Singleton
    <3> QED
      BY <2>1, <3>2 DEF ExecutingIsExact
  <2>2. CASE ~executing
    <3>1. Inside = {}
      BY <2>2
    <3> HIDE DEF Inside
    <3>2. Cardinality(Inside) = 0
      BY <3>1, FS_EmptySet
    <3> QED
      BY <2>2, <3>2 DEF ExecutingIsExact
  <2> QED
    BY <2>1, <2>2
<1>2. Init => WaitsForTheCurrentCron
  BY DEF Init, WaitsForTheCurrentCron
<1>3. IInv /\ WaitsForTheCurrentCron /\ [Next]_vars => WaitsForTheCurrentCron'
  <2> SUFFICES ASSUME IInv, WaitsForTheCurrentCron, [Next]_vars PROVE WaitsForTheCurrentCron'
    OBVIOUS
  <2> USE DEF WaitsForTheCurrentCron, sched
  <2>1. CASE UpdateCron \/ Reschedules
    BY <2>1 DEF UpdateCron, Reschedules, Waiting
  <2>2. CASE Fires
    <3>1. loop' = Waiting \/ loop'.at = "executing"
      BY <2>2 DEF Fires, IInv, TypeOK
    <3>2. UNCHANGED <<cron, resched>>
      BY <2>2 DEF Fires
    <3> QED
      BY <3>1, <3>2 DEF Waiting
  <2>3. CASE \E t \in Tasks : TriggerNow(t) \/ TaskRuns(t)
    <3>1. UNCHANGED sched
      BY <2>3 DEF TriggerNow, TaskRuns
    <3> QED
      BY <3>1
  <2>4. CASE \E p \in Pipes : Pipeline(p)
    <3>1. PICK p \in Pipes : Pipeline(p)
      BY <2>4
    <3>2. UNCHANGED <<cron, resched>>
      BY <3>1 DEF Pipeline, Searches, TakesChampion, Proves, PipelineRaises
    <3>3. loop' = loop \/ loop' = Waiting \/ loop' = [loop EXCEPT !.at = "dead"]
      BY <3>1 DEF Pipeline, Searches, TakesChampion, Proves, PipelineRaises, Leaves
    <3>4. loop \in [at : {"waiting", "executing", "dead"}, cron : 0..MaxUpdates]
      BY DEF IInv, TypeOK
    <3> QED
      BY <3>2, <3>3, <3>4 DEF Waiting
  <2>5. CASE \E p \in Publishers : Publish(p)
    <3>1. PICK p \in Publishers : Publish(p)
      BY <2>5
    <3>2. UNCHANGED <<cron, resched>>
      BY <3>1 DEF Publish, GetsRef, CreatesBranch, PutsFile, OpensPull
    <3>3. loop' = loop \/ loop' = Waiting
      BY <3>1 DEF Publish, GetsRef, CreatesBranch, PutsFile, OpensPull, GoesOn, Leaves
    <3> QED
      BY <3>2, <3>3 DEF Waiting
  <2>6. CASE DashPublishes \/ Improves \/ DashboardStarts \/ DashboardStops \/ Tick
    BY <2>6 DEF DashPublishes, Improves, DashboardStarts, DashboardStops, Tick
  <2>7. CASE UNCHANGED vars
    BY <2>7 DEF vars
  <2> QED
    BY <2>1, <2>2, <2>3, <2>4, <2>5, <2>6, <2>7 DEF Next
<1>4. Spec => []WaitsForTheCurrentCron
  BY <1>2, <1>3, Invariance, PTL DEF Spec
<1>5. IInv => TypeOK
  BY DEF IInv
<1>6. TypeOK /\ ExecutingIsExact /\ WaitsForTheCurrentCron => SchedulerIsExact
  BY DEF SchedulerIsExact
<1> QED
  BY <1>1, <1>4, <1>5, <1>6, Invariance, PTL

\* A pull request of the pipeline is about the very program that Lean accepted, also
\* when the dashboard starts and stops searches meanwhile.
THEOREM ProvedIsPublished == Spec => []PublishesWhatWasProved
<1>1. IInv => PublishesWhatWasProved
  BY DEF IInv
<1> QED
  BY <1>1, Invariance, PTL

\* However many publishers there are, and whatever GitHub answers or fails to do, no
\* two of them share a branch.
THEOREM BranchesUnshared == Spec => []BranchesAreOnesOwn
<1>1. IInv => BranchesAreOnesOwn
  BY DEF IInv
<1> QED
  BY <1>1, Invariance, PTL
=============================================================================
