----------------------------- MODULE Heuristics -----------------------------
(***************************************************************************)
(* What a candidate heuristic means to each part that reads its text: the  *)
(* guard (agent/ast_guard.py), the compiler to WebAssembly and its engine  *)
(* (wat_compiler.py, wasm_sandbox.py), the local simulation (problem.py,   *)
(* evaluator_harness.py), the fingerprint (behavior.py), the solver        *)
(* (cegis_verifier.py) and the cache key (ast_cache.py).                   *)
(*                                                                         *)
(* A program is a function of two parameters that returns an expression,   *)
(* given as its nodes in the order the visitors leave them: <<"num", k>>,  *)
(* <<"name", n>>, <<op, l, r>> with an arithmetic op, "max" or "<", or     *)
(* <<"if", l, r, a, b>>, which is a where l > r and b elsewhere.  The      *)
(* operands l, r, a, b are places of earlier nodes, each of one operator;  *)
(* the last node is the value, and only that one may be a comparison "<",  *)
(* which stands for each that Python has.                                  *)
(* Its shape says what else the text is: "function" (nothing else),        *)
(* "raises" (a top-level statement that fails when it is executed),        *)
(* "missing" (no function called priority, or no return), "unsafe" (a node *)
(* outside the allowlist) or "malformed" (no Python).                      *)
(*                                                                         *)
(* Numbers are fractions <<n, d>>; d = 0 is an infinity of the sign of n,  *)
(* or NaN for n = 0.  Rounding, overflow and negative zero are left out.   *)
(***************************************************************************)
EXTENDS Integers, Sequences, FiniteSetsExt

CONSTANTS
    Size,       \* bin_size, the 100.0 of every simulation; items are 1..Size
    Sequences,  \* the dataset, a sequence of item streams
    Probes      \* DIAGNOSTIC_PROBES of the fingerprint

\* An efficiency is a whole number of percent, so that a bin is no larger than 100.
ASSUME HeuristicsAssumption ==
    /\ Size \in 1 .. 100
    /\ Sequences \in Seq(Seq(1 .. Size)) /\ Probes \in Seq(Seq(1 .. Size))
    /\ \E s \in DOMAIN Sequences : Sequences[s] # <<>>

Operators == {"+", "-", "*", "/", "max", "<"}

Nodes == ({"num"} \X Int) \cup ({"name"} \X STRING) \cup (Operators \X Nat \X Nat)
         \cup ({"if"} \X Nat \X Nat \X Nat \X Nat)

Shapes == {"function", "raises", "missing", "unsafe", "malformed"}

IsProgram(p) ==
    /\ p \in [shape : Shapes, item : STRING, cap : STRING, ret : Seq(Nodes)]
    /\ p.ret # <<>>
    /\ \A k \in DOMAIN p.ret : p.ret[k][1] \in Operators \cup {"if"} =>
           \A j \in 2 .. Len(p.ret[k]) : p.ret[k][j] \in 1 .. (k - 1)
    /\ \A k \in DOMAIN p.ret : p.ret[k][1] = "<" => k = Len(p.ret)

NaN == <<0, 0>>
MinusInf == <<-1, 0>>
Raises == <<>>          \* a Python exception instead of a number
ErrorScore == <<-1000, 1>>   \* -1e9: below every number the run computes

Number(n, d) == IF d # 0 THEN <<n, d>>
                ELSE <<(IF n > 0 THEN 1 ELSE IF n < 0 THEN -1 ELSE 0), 0>>

Plus(x, y) == IF x[2] = 0 /\ y[2] = 0 THEN (IF x = y THEN x ELSE NaN)
              ELSE Number(x[1] * y[2] + y[1] * x[2], x[2] * y[2])

Minus(x, y) == Plus(x, <<-y[1], y[2]>>)

Times(x, y) == Number(x[1] * y[1], x[2] * y[2])

\* IEEE division: x / 0 is an infinity or NaN, as f64.div computes it.
Over(x, y) ==
    IF y = NaN THEN NaN
    ELSE Times(x, IF y[1] < 0 THEN <<-y[2], -y[1]>>
                  ELSE IF y[1] = 0 THEN <<1, 0>> ELSE <<y[2], y[1]>>)

Gt(x, y) == /\ x # NaN /\ y # NaN
            /\ IF x[2] = 0 /\ y[2] = 0 THEN x[1] > y[1]
               ELSE x[1] * y[2] > y[1] * x[2]

-----------------------------------------------------------------------------
(* Expressions. *)

NamesOf(e) == {e[k][2] : k \in {j \in DOMAIN e : e[j][1] = "name"}}

Contract == {"item", "bin_capacity"}

\* The names and the operators that both visitors know; every other one is
\* a ValueError.
Readable(e) == /\ NamesOf(e) \subseteq Contract
               /\ \A k \in DOMAIN e : e[k][1] # "max"

\* compile_python_to_wat raises for what it cannot read.  It has no visitor
\* for a conditional expression or a comparison, so that the children leave a
\* number each, and the engine refuses a body that leaves more than one.
Compiles(p) == /\ p.shape \in {"function", "raises"}
               /\ Readable(p.ret)
               /\ \A k \in DOMAIN p.ret : p.ret[k][1] \notin {"if", "<"}

Arith(op, l, r) == CASE op = "+" -> Plus(l, r) [] op = "-" -> Minus(l, r)
                     [] op = "*" -> Times(l, r) [] op = "/" -> Over(l, r)

(* What a node adds to the values V of the earlier ones, for Python, for   *)
(* the solver and for the instruction it becomes.  The solver divides by 1 *)
(* where the divisor is 0; Python raises.  A name outside env raises, and  *)
(* an operand that raises is the value of the whole.                       *)
Visit(by, node, env, V) ==
    CASE node[1] = "num" -> <<node[2], 1>>
      [] node[1] = "name" -> IF node[2] \in DOMAIN env THEN env[node[2]] ELSE Raises
      [] OTHER ->
         LET l == V[node[2]]
             r == V[node[3]] IN
         IF l = Raises \/ r = Raises THEN Raises
         ELSE CASE node[1] = "if" -> IF Gt(l, r) THEN V[node[4]] ELSE V[node[5]]
                [] node[1] = "max" -> IF Gt(r, l) THEN r ELSE l
                [] node[1] = "<" -> IF Gt(r, l) THEN <<1, 1>> ELSE <<0, 1>>
                [] node[1] = "/" /\ r[1] = 0 /\ by # "engine" ->
                     IF by = "python" THEN Raises ELSE l
                [] OTHER -> Arith(node[1], l, r)

Values(by, e, env) == LET V[k \in DOMAIN e] == Visit(by, e[k], env, V) IN V

\* The solver and the compiler know the parameters by name, Python by position.
ByName(i, c) == [n \in Contract |-> IF n = "item" THEN <<i, 1>> ELSE <<c, 1>>]

ByPosition(p, i, c) == [n \in {p.item, p.cap} |-> IF n = p.item THEN <<i, 1>> ELSE <<c, 1>>]

EngineValue(p, i, c) == Values("engine", p.ret, ByName(i, c))[Len(p.ret)]

PythonValue(p, i, c) == Values("python", p.ret, ByPosition(p, i, c))[Len(p.ret)]

-----------------------------------------------------------------------------
(* The simulation that problem.py, evaluator_harness.py, wasm_sandbox.py   *)
(* and behavior.py each write out: the first bin with the best score.      *)

\* An item and the room of a bin that takes it: what a simulation asks about, and
\* what the solver assumes.
Points == {q \in (1 .. Size) \X (1 .. Size) : q[2] >= q[1]}

Places(score, bins, item) ==
    LET fits == {k \in DOMAIN bins : bins[k] >= item}
        best == {k \in fits : /\ Gt(score[item, bins[k]], MinusInf)
                              /\ \A j \in fits : ~Gt(score[item, bins[j]], score[item, bins[k]])}
    IN IF best = {} THEN Append(bins, Size - item)
       ELSE [bins EXCEPT ![Min(best)] = @ - item]

\* The room in the bins, and the volume of the items, after each item.
Packs(score, stream) ==
    LET After[n \in 0 .. Len(stream)] ==
          IF n = 0 THEN [bins |-> <<>>, volume |-> 0]
          ELSE LET st == After[n - 1] IN
               [bins |-> Places(score, st.bins, stream[n]), volume |-> st.volume + stream[n]]
    IN After

\* Efficiency in percent; 0 for a dataset without items.
Simulate(score) ==
    LET Total[n \in 0 .. Len(Sequences)] ==
          IF n = 0 THEN [used |-> 0, volume |-> 0]
          ELSE LET t == Total[n - 1]
                   st == Packs(score, Sequences[n])[Len(Sequences[n])] IN
               [used |-> t.used + Len(st.bins), volume |-> t.volume + st.volume]
        t == Total[Len(Sequences)]
    IN IF t.used = 0 THEN 0 ELSE Min({100, (100 * t.volume) \div (t.used * Size)})

\* float(priority_fn(item, cap)), or -1e9 when it raises.
PythonScore(p) == [q \in Points |-> LET v == PythonValue(p, q[1], q[2])
                                    IN IF v = Raises THEN ErrorScore ELSE v]

PythonFitness(p) == Simulate(PythonScore(p))
WasmFitness(p) == Simulate([q \in Points |-> EngineValue(p, q[1], q[2])])

\* get_behavioral_fingerprint is "invalid_runtime" as soon as one score raises.
HasFingerprint(p) ==
    \A s \in DOMAIN Probes : \A k \in DOMAIN Probes[s] :
        LET bins == Packs(PythonScore(p), Probes[s])[k - 1].bins IN
        \A j \in DOMAIN bins :
            bins[j] >= Probes[s][k] => PythonValue(p, Probes[s][k], bins[j]) # Raises

-----------------------------------------------------------------------------
(* The solver.  It reasons about reals; the model about the grid 1..Size.  *)
(* For an expression that is a quotient of two linear ones the answers are *)
(* the same when every pole is a point of the grid: away from a pole such  *)
(* a quotient is monotone in bin_capacity, so two points decide.           *)

AtPoint(e, i, c) == Values("z3", e, ByName(i, c))

Divisors(e) == {e[k][3] : k \in {j \in DOMAIN e : e[j][1] = "/"}}

\* Fault: a divisor must be 0 everywhere to be noticed.
Singular_Everywhere(e) == \E d \in Divisors(e) : \A q \in Points : AtPoint(e, q[1], q[2])[d][1] = 0

\* Invariant 1: some divisor is 0 at some point.
Singular(e) == \E d \in Divisors(e) : \E q \in Points : AtPoint(e, q[1], q[2])[d][1] = 0

\* Invariant 2: some looser fit has the higher score.
LooserWins(e) == \E q \in Points : \E c2 \in (q[2] + 1) .. Size :
                    Gt(AtPoint(e, q[1], c2)[Len(e)], AtPoint(e, q[1], q[2])[Len(e)])

\* Refuted before the solver is asked: a missing function, text that is no
\* Python, or a comparison, which has no visitor, so that verify fails when it
\* compares the scores ("VerificationCrash").
RefutedUnasked(p) == \/ p.shape \in {"missing", "malformed"}
                     \/ Readable(p.ret) /\ p.ret[Len(p.ret)][1] = "<"

\* SymbolicContractVerifier.verify; "unread" is the (True, None) it answers
\* after a ValueError.
Verdict(p) == IF RefutedUnasked(p) THEN "refuted"
              ELSE IF ~Readable(p.ret) THEN "unread"
              ELSE IF Singular(p.ret) \/ LooserWins(p.ret) THEN "refuted"
              ELSE "verified"

-----------------------------------------------------------------------------
(* sanitize_ast; a SyntaxError becomes a SecurityError too. *)
Sanitized(p) == p.shape \notin {"malformed", "unsafe"}

\* Fault: both parameters become one name.
CanonicalName_OneFamily(n) ==
    IF n \in {"bin_capacity", "capacity", "cap", "c", "item", "item_size", "it", "x", "i"}
    THEN "v" ELSE n

(* The cache key: families of names become one name each, wherever they    *)
(* stand and whatever they refer to.                                       *)
CanonicalName(n) == CASE n \in {"bin_capacity", "capacity", "cap", "c"} -> "c"
                      [] n \in {"item", "item_size", "it", "x", "i"} -> "i"
                      [] n \in {"gap", "residual", "rem", "r", "g"} -> "g"
                      [] OTHER -> n

\* A parameter is renamed only within the first two families.
CanonicalParameter(n) == IF CanonicalName(n) = "g" THEN n ELSE CanonicalName(n)

Renamed(e) == [k \in DOMAIN e |-> IF e[k][1] = "name"
                                   THEN <<"name", CanonicalName(e[k][2])>> ELSE e[k]]

\* What is left of a program that parses.
Form(p, shape) == [shape |-> shape, item |-> CanonicalParameter(p.item),
                   cap |-> CanonicalParameter(p.cap), ret |-> Renamed(p.ret)]

\* Fault: only the function is part of the key, not what surrounds it.
Canonical_FunctionOnly(p) == IF p.shape = "malformed" THEN p ELSE Form(p, "function")

Canonical(p) == IF p.shape = "malformed" THEN p ELSE Form(p, p.shape)
=============================================================================
