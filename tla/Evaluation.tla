----------------------------- MODULE Evaluation -----------------------------
(***************************************************************************)
(* The staged evaluation of candidates (agent/staged_pipeline.py): the     *)
(* two-layer cache of verdicts (agent/ast_cache.py), the guard, the smoke  *)
(* test, the solver and the two-tier benchmark (sandbox.py,                *)
(* agent/gvisor_sandbox.py), with the tracker of counterexamples           *)
(* (agent/cegis_tracker.py) that the dashboard's probe writes too.         *)
(*                                                                         *)
(* evaluate never yields, so it is one action.  Its inputs are the         *)
(* candidate, whether the solver answers or reaches its timeout, and       *)
(* whether the read and the write of the SQLite layer fail.  A restart     *)
(* loses the memory layer and may find another WebAssembly engine: none    *)
(* (the import fails), one whose every call fails, or one that works.      *)
(* The service always runs inside the loop, where sandbox.py falls back to *)
(* the local simulation, so the container tier is not modelled.            *)
(***************************************************************************)
EXTENDS Heuristics, FiniteSets

CONSTANTS
    Text,            \* the candidates: a program for each of their names
    Baseline,        \* baseline_fitness_threshold, in percent
    MaxHistory,      \* maxlen of the tracker's deque
    MaxEvaluations,  \* bound on evaluations
    MaxProbes,       \* bound on probes of the dashboard
    MaxGiveUps,      \* bound on solver timeouts
    MaxFailures,     \* bound on failing reads and writes
    MaxRestarts      \* bound on restarts

ASSUME EvaluationAssumption ==
    /\ \A p \in DOMAIN Text : IsProgram(Text[p])
    /\ Baseline \in 0 .. 100
    /\ MaxHistory \in Nat \ {0}
    /\ {MaxEvaluations, MaxProbes, MaxGiveUps, MaxFailures, MaxRestarts} \subseteq Nat

Programs == DOMAIN Text

\* Computed once for each candidate.  A key of the cache is represented by
\* one of the candidates whose canonical form it is.
KeyOf == [p \in Programs |-> CHOOSE q \in Programs : Canonical(Text[q]) = Canonical(Text[p])]
VerdictOf == [p \in Programs |-> Verdict(Text[p])]
LocalFitness == [p \in {q \in Programs : Text[q].shape = "function"} |-> PythonFitness(Text[p])]
EngineFitness == [p \in {q \in Programs : Compiles(Text[q])} |-> WasmFitness(Text[p])]

VARIABLES
    memory,   \* _memory_cache: key -> diagnostic
    table,    \* ast_memo_cache: key -> diagnostic
    engine,   \* the WebAssembly engine of this process
    checks,   \* total_checks and total_violations of the tracker
    history,  \* the tracker's deque, the newest first
    answers,  \* program -> the last diagnostic of this process
    proved,   \* the programs whose last fresh run the solver verified
    budget    \* evaluations, give-ups, failures and restarts left

evaluationVars == <<memory, table, engine, checks, history, answers, proved, budget>>

Diagnostic(success, origin, fitness) ==
    [success |-> success, origin |-> origin, fitness |-> fitness]

EvaluationInit ==
    /\ memory = <<>> /\ table = <<>>
    /\ engine \in {"absent", "broken", "works"}
    /\ checks = [total |-> 0, violations |-> 0] /\ history = <<>>
    /\ answers = <<>> /\ proved = {}
    /\ budget = [evaluations |-> MaxEvaluations, probes |-> MaxProbes,
                 giveUps |-> MaxGiveUps, failures |-> MaxFailures, restarts |-> MaxRestarts]

-----------------------------------------------------------------------------
(* The cache. *)

Put(f, key, d) == [k \in DOMAIN f \cup {key} |-> IF k = key THEN d ELSE f[k]]

\* What get answers: {} for a miss.
Lookup(p, readFails) ==
    LET key == KeyOf[p] IN
    IF key \in DOMAIN memory THEN {memory[key]}
    ELSE IF ~readFails /\ key \in DOMAIN table THEN {table[key]} ELSE {}

\* Fault: a hit is judged by the threshold of the islands.
AnswersFromCache_Threshold(p, readFails) ==
    \E d \in Lookup(p, readFails) :
        /\ memory' = Put(memory, KeyOf[p], d)
        /\ answers' = Put(answers, p, [d EXCEPT !.success = d.fitness >= Baseline])
        /\ UNCHANGED <<table, checks, history, proved>>

\* The rest of get: a row found in the table is kept in memory.
\* A hit is judged by its fitness.
AnswersFromCache(p, readFails) ==
    \E d \in Lookup(p, readFails) :
        /\ memory' = Put(memory, KeyOf[p], d)
        /\ answers' = Put(answers, p, [d EXCEPT !.success = d.fitness > 0])
        /\ UNCHANGED <<table, checks, history, proved>>

\* put: the memory layer first, then the row, whose failure is swallowed.
Remembers(p, d, writeFails) ==
    /\ memory' = Put(memory, KeyOf[p], d)
    /\ table' = IF writeFails THEN table ELSE Put(table, KeyOf[p], d)
    /\ answers' = Put(answers, p, d)

-----------------------------------------------------------------------------
(* The tracker. *)

Push(event) == SubSeq(<<event>> \o history, 1, Min({MaxHistory, Len(history) + 1}))

RecordsCounterexample(p) ==
    /\ checks' = [total |-> checks.total + 1, violations |-> checks.violations + 1]
    /\ history' = Push([id |-> checks.total + 1, status |-> "VIOLATED",
                        source |-> "pipeline", program |-> p])

RecordsEvent(status) ==
    /\ checks' = [total |-> checks.total + 1,
                  violations |-> checks.violations + (IF status = "VIOLATED" THEN 1 ELSE 0)]
    /\ history' = Push([id |-> checks.total + 1, status |-> status,
                        source |-> "probe"])

-----------------------------------------------------------------------------
(* The stages. *)

\* Straight-line code can neither trap nor use up its fuel: only an engine
\* that fails to run a module it has compiled stops a candidate here.
SmokeTraps(p) == engine = "broken" /\ p \in DOMAIN EngineFitness

\* The solver's answer: neither check is sat when it reaches its timeout.
SolverSays(p, givesUp) ==
    IF givesUp /\ VerdictOf[p] # "unread" /\ ~RefutedUnasked(Text[p]) THEN "gave up"
    ELSE VerdictOf[p]

\* evaluate_heuristic_dual: the engine's score, or else the local one, which
\* fails when the module does.
Benchmark(p) ==
    IF engine = "works" /\ p \in DOMAIN EngineFitness THEN {EngineFitness[p]}
    ELSE IF p \in DOMAIN LocalFitness THEN {LocalFitness[p]} ELSE {}

Measured(p) ==
    IF Benchmark(p) = {} THEN Diagnostic(FALSE, "BENCHMARK_LOW", 0)
    ELSE LET fitness == CHOOSE f \in Benchmark(p) : TRUE IN
         Diagnostic(TRUE, IF fitness < Baseline THEN "BENCHMARK_LOW" ELSE "none", fitness)

RunsStages(p, givesUp, writeFails) ==
    \/ /\ ~Sanitized(Text[p])
       /\ Remembers(p, Diagnostic(FALSE, "AST_SECURITY_REJECTED", 0), writeFails)
       /\ UNCHANGED <<checks, history, proved>>
    \/ /\ Sanitized(Text[p]) /\ SmokeTraps(p)
       /\ Remembers(p, Diagnostic(FALSE, "WASM_TRAP", 0), writeFails)
       /\ UNCHANGED <<checks, history, proved>>
    \/ /\ Sanitized(Text[p]) /\ ~SmokeTraps(p)
       /\ SolverSays(p, givesUp) = "refuted"
       /\ RecordsCounterexample(p)
       /\ Remembers(p, Diagnostic(FALSE, "Z3_REFUTED", 0), writeFails)
       /\ proved' = proved \ {p}
    \/ /\ Sanitized(Text[p]) /\ ~SmokeTraps(p)
       /\ SolverSays(p, givesUp) # "refuted"
       /\ Remembers(p, Measured(p), writeFails)
       /\ proved' = IF SolverSays(p, givesUp) = "verified" THEN proved \cup {p}
                    ELSE proved \ {p}
       /\ UNCHANGED <<checks, history>>

Spend(costs) == /\ \A b \in DOMAIN costs : budget[b] >= costs[b]
                /\ budget' = [b \in DOMAIN budget |->
                                budget[b] - (IF b \in DOMAIN costs THEN costs[b] ELSE 0)]

\* StagedEvaluationPipeline.evaluate; a fault counts only where it can occur.
Evaluate(p) ==
    \E givesUp \in BOOLEAN, fails \in SUBSET {"read", "write"} :
        /\ Spend([evaluations |-> 1, giveUps |-> IF givesUp THEN 1 ELSE 0,
                  failures |-> Cardinality(fails)])
        /\ "read" \in fails => KeyOf[p] \notin DOMAIN memory
        /\ IF Lookup(p, "read" \in fails) # {}
           THEN AnswersFromCache(p, "read" \in fails) /\ ~givesUp /\ "write" \notin fails
           ELSE RunsStages(p, givesUp, "write" \in fails)
        /\ UNCHANGED engine

\* POST /api/cegis/probe: the solver in an executor thread, then one event.
Probe(p) ==
    /\ \E givesUp \in BOOLEAN :
          /\ Spend([probes |-> 1, giveUps |-> IF givesUp THEN 1 ELSE 0])
          /\ RecordsEvent(IF SolverSays(p, givesUp) = "refuted" THEN "VIOLATED" ELSE "VERIFIED")
    /\ UNCHANGED <<memory, table, engine, answers, proved>>

Restart ==
    /\ budget.restarts > 0
    /\ budget' = [budget EXCEPT !.restarts = @ - 1]
    /\ engine' \in {"absent", "broken", "works"}
    /\ memory' = <<>> /\ answers' = <<>> /\ proved' = {}
    /\ checks' = [total |-> 0, violations |-> 0] /\ history' = <<>>
    /\ UNCHANGED table

EvaluationNext ==
    \/ \E p \in Programs : Evaluate(p) \/ Probe(p)
    \/ Restart

EvaluationSpec == EvaluationInit /\ [][EvaluationNext]_evaluationVars

-----------------------------------------------------------------------------
(* Properties. *)

Diagnostics == [success : BOOLEAN, fitness : 0 .. 100,
                origin : {"none", "AST_SECURITY_REJECTED", "WASM_TRAP",
                          "Z3_REFUTED", "BENCHMARK_LOW"}]

\* The caches hold diagnostics by canonical form, the tracker's deque is
\* bounded and its two counters count.
EvaluationTypeOK ==
    /\ DOMAIN memory \cup DOMAIN table \subseteq Programs
    /\ Range(memory) \cup Range(table) \cup Range(answers) \subseteq Diagnostics
    /\ DOMAIN answers \subseteq Programs /\ proved \subseteq Programs
    /\ engine \in {"absent", "broken", "works"}
    /\ Len(history) <= MaxHistory
    /\ checks.violations <= checks.total
    /\ \A b \in DOMAIN budget : budget[b] >= 0

\* The parameters are the only names, and neither has the name of the other's role.
OwnNames(p) == /\ p.shape = "function" /\ NamesOf(p.ret) \subseteq {p.item, p.cap}
               /\ p.item # "bin_capacity" /\ p.cap # "item"

Fingerprinted == {p \in Programs : Text[p].shape = "function" /\ HasFingerprint(Text[p])}

\* What the solver has verified means the same everywhere: the WebAssembly
\* engine and the local simulation give it one fitness, and it raises in no
\* simulation, so it has a fingerprint.  A division by zero is an infinity
\* or NaN in the one and -1e9 in the other, and "invalid_runtime" in the
\* third.
EnginesAgree ==
    \A p \in proved : OwnNames(Text[p]) =>
        /\ p \in DOMAIN EngineFitness => EngineFitness[p] = LocalFitness[p]
        /\ p \in Fingerprinted

\* Nodes and parameters correspond, names within their families; a parameter
\* has no third family.
SameForm(p, q) ==
    LET Roles == {{"bin_capacity", "capacity", "cap", "c"},
                  {"item", "item_size", "it", "x", "i"}}
        Gaps == {"gap", "residual", "rem", "r", "g"}
        Same(n, m, families) == n = m \/ \E f \in families : n \in f /\ m \in f
    IN p = q \/ (/\ p.shape = q.shape /\ p.shape # "malformed"
                 /\ Same(p.item, q.item, Roles) /\ Same(p.cap, q.cap, Roles)
                 /\ Len(p.ret) = Len(q.ret)
                 /\ \A k \in DOMAIN p.ret :
                       \/ p.ret[k] = q.ret[k]
                       \/ /\ p.ret[k][1] = "name" /\ q.ret[k][1] = "name"
                          /\ Same(p.ret[k][2], q.ret[k][2], Roles \cup {Gaps}))

Alike == [p \in Programs |-> {q \in Programs : SameForm(Text[p], Text[q])}]

\* A fitness that is answered, from either layer and across restarts, was
\* measured, by one of the engines, of a candidate of the same form.
FitnessWasMeasured ==
    \A p \in DOMAIN answers : answers[p].fitness > 0 =>
        \E q \in Alike[p] : \E f \in {LocalFitness, EngineFitness} :
            q \in DOMAIN f /\ answers[p].fitness = f[q]

\* The guard is behind the cache, and still no candidate it would reject is
\* ever accepted: it shares its form with none that passed.
AcceptedPassesTheGuard ==
    \A p \in DOMAIN answers : answers[p].success => Sanitized(Text[p])

\* A refutation is reported to the deck once per form and process, however
\* often the islands propose the candidate, and the events are numbered
\* without a gap although two parts of the program number them.
ReportedOnce ==
    \A j, k \in DOMAIN history :
        /\ history[j].id - history[k].id = k - j
        /\ (j # k /\ history[j].source = "pipeline" /\ history[k].source = "pipeline")
             => history[j].program \notin Alike[history[k].program]

\* Within a process a candidate keeps its diagnostic, although a later run
\* of the solver might give up, or the database fail: also the success,
\* which a hit derives from the fitness.  Nor is a refutation told again.
VerdictsAreStable ==
    /\ [][\A p \in DOMAIN answers \cap DOMAIN answers' : answers'[p] = answers[p]]_evaluationVars
    /\ [](EvaluationTypeOK /\ ReportedOnce)

\* "Stage 3: Z3 Invariant Probe (<15ms) -> CEGIS Buffer on failure": what
\* the solver refutes does not pass the pipeline.
AcceptedIsNotRefuted ==
    \A p \in DOMAIN answers : answers[p].success => VerdictOf[p] # "refuted"
=============================================================================
