------------------------------ MODULE Nightly ------------------------------
(***************************************************************************)
(* The scheduler loop and its pipeline (agent/scheduler.py,                *)
(* nightly_discovery.py), composed with the FunSearch service as far as    *)
(* they share it (agent/funsearch_service.py: start, stop, the champion)   *)
(* and with the publication on GitHub (agent/gitops.py).                   *)
(*                                                                         *)
(* A pipeline is run by the scheduler loop or by a task that the dashboard *)
(* has created; the dashboard also starts and stops searches and opens     *)
(* pull requests of its own.  All of them share one event loop and change  *)
(* places at every await.  A call to GitHub is answered, is refused, or    *)
(* raises, before or after it has taken effect.                            *)
(***************************************************************************)
EXTENDS Naturals, FiniteSets

CONSTANTS
    Loop,           \* the scheduler loop, as the one that runs a pipeline
    Tasks,          \* tasks that POST /scheduler/trigger-now creates
    Dash,           \* a request to POST /gitops/create-pr
    MaxUpdates,     \* bound of the model: changes of the cron expression
    MaxPipelines,   \* bound of the model: pipelines, and publications of the dashboard
    MaxSearches,    \* bound of the model: searches when the dashboard starts one
    MaxSecond       \* bound of the model: the clock that names branches

Pipes == Tasks \cup {Loop}
Publishers == Pipes \cup {Dash}

ASSUME NightlyAssumption ==
    /\ Loop \notin Tasks /\ Dash \notin Pipes
    /\ {MaxUpdates, MaxPipelines, MaxSearches} \subseteq Nat
    /\ MaxSecond \in Nat \ {0}

VARIABLES
    cron,       \* version of cron_expression
    resched,    \* _reschedule_event
    loop,       \* the loop: waiting, executing, or dead; cron it waits for
    executing,  \* is_executing
    pub,        \* what each publisher is at, the program and the Lean proof it holds
    fs,         \* the FunSearch service: is_running, champion
    second,     \* the clock
    refs,       \* GitHub: branches, named by the second of their creation
    files,      \* GitHub: files on them
    pulls,      \* GitHub: pull requests
    pipelines   \* bound: of them begun

sched == <<cron, resched, loop>>
github == <<refs, files, pulls>>
vars == <<cron, resched, loop, executing, pub, fs, second, refs, files, pulls,
          pipelines>>

\* A program: the search it comes from, and whether its fitness is >= 0.80.
\* A proof that Lean has accepted is named by the program it is about.
NoProgram == [search |-> 0, good |-> FALSE]
Idle == [at |-> "idle", prog |-> NoProgram, proof |-> NoProgram, branch |-> 0]

Init ==
    /\ cron = 0 /\ resched = FALSE /\ loop = [at |-> "waiting", cron |-> 0]
    /\ executing = FALSE
    /\ pub = [p \in Publishers |-> Idle]
    /\ fs = [running |-> FALSE, champ |-> NoProgram]
    /\ second = 1 /\ refs = {} /\ files = {} /\ pulls = {}
    /\ pipelines = 0
----------------------------------------------------------------------------
\* FunSearchService.start and stop, and what its workers do to the champion.
\* is_running stays set when the workers have come to their end.
Started == IF fs.running THEN fs
           ELSE [running |-> TRUE,
                 champ |-> [search |-> fs.champ.search + 1, good |-> FALSE]]

Stopped == [fs EXCEPT !.running = FALSE]

Improves ==
    /\ fs.running /\ ~fs.champ.good
    /\ fs' = [fs EXCEPT !.champ.good = TRUE]
    /\ UNCHANGED <<sched, executing, pub, second, github, pipelines>>

DashboardStarts ==
    /\ ~fs.running /\ fs.champ.search < MaxSearches /\ fs' = Started
    /\ UNCHANGED <<sched, executing, pub, second, github, pipelines>>

DashboardStops ==
    /\ fs.running /\ fs' = Stopped
    /\ UNCHANGED <<sched, executing, pub, second, github, pipelines>>
----------------------------------------------------------------------------
\* The scheduler loop.

UpdateCron ==
    /\ cron < MaxUpdates /\ cron' = cron + 1 /\ resched' = TRUE
    /\ UNCHANGED <<loop, executing, pub, fs, second, github, pipelines>>

Waiting == [at |-> "waiting", cron |-> cron]

Reschedules ==
    /\ loop.at = "waiting" /\ resched
    /\ resched' = FALSE /\ loop' = Waiting
    /\ UNCHANGED <<cron, executing, pub, fs, second, github, pipelines>>

\* execute_pipeline, up to its first await.
Begins(p) ==
    /\ pipelines < MaxPipelines /\ pipelines' = pipelines + 1
    /\ executing' = TRUE
    /\ pub' = [pub EXCEPT ![p].at = "launched"]

\* The timeout of the wait.  While another pipeline executes, execute_pipeline
\* returns at once.
Fires ==
    /\ loop.at = "waiting"
    /\ IF executing
       THEN loop' = Waiting /\ UNCHANGED <<executing, pub, pipelines>>
       ELSE loop' = [loop EXCEPT !.at = "executing"] /\ Begins(Loop)
    /\ UNCHANGED <<cron, resched, fs, second, github>>

\* POST /scheduler/trigger-now: two requests may create two tasks before the
\* first of them runs.
TriggerNow(t) ==
    /\ ~executing /\ pub[t].at = "idle" /\ pipelines < MaxPipelines
    /\ pub' = [pub EXCEPT ![t].at = "created"]
    /\ UNCHANGED <<sched, executing, fs, second, github, pipelines>>

\* Fault: is_executing is checked by the endpoint only.
TaskRuns_Unchecked(t) ==
    /\ pub[t].at = "created" /\ Begins(t)
    /\ UNCHANGED <<sched, fs, second, github>>

TaskRuns(t) ==
    /\ pub[t].at = "created"
    /\ IF executing
       THEN pub' = [pub EXCEPT ![t] = Idle] /\ UNCHANGED <<executing, pipelines>>
       ELSE Begins(t)
    /\ UNCHANGED <<sched, fs, second, github>>
----------------------------------------------------------------------------
\* The pipeline: run the search, stop it, prove the champion, publish it.
Searches(p) ==
    /\ pub[p].at = "launched"
    /\ fs' = Started
    /\ pub' = [pub EXCEPT ![p].at = "sleeping"]
    /\ UNCHANGED <<sched, executing, second, github, pipelines>>

\* Champion and fitness are read with no await after stop().
TakesChampion(p) ==
    /\ pub[p].at = "sleeping"
    /\ fs' = Stopped
    /\ pub' = [pub EXCEPT ![p].at = "proving", ![p].prog = fs.champ]
    /\ UNCHANGED <<sched, executing, second, github, pipelines>>

\* finally: is_executing = False.  The loop then waits for the next time.
Leaves(p) ==
    /\ pub' = [pub EXCEPT ![p] = Idle]
    /\ executing' = IF p \in Pipes THEN FALSE ELSE executing
    /\ loop' = IF p = Loop THEN Waiting ELSE loop

\* Fault: the program is looked up again when the proof is there.
Proves_Rereads(p) ==
    /\ pub[p].at = "proving"
    /\ \/ /\ pub[p].prog.good
          /\ pub' = [pub EXCEPT ![p].at = "ref", ![p].prog = fs.champ,
                                ![p].proof = pub[p].prog]
          /\ UNCHANGED <<executing, loop>>
       \/ Leaves(p)
    /\ UNCHANGED <<cron, resched, fs, second, github, pipelines>>

\* Lean accepts the proof of a good program; or it does not, or times out, or
\* the fitness is too low.
Proves(p) ==
    /\ pub[p].at = "proving"
    /\ \/ /\ pub[p].prog.good
          /\ pub' = [pub EXCEPT ![p].at = "ref", ![p].proof = pub[p].prog]
          /\ UNCHANGED <<executing, loop>>
       \/ Leaves(p)
    /\ UNCHANGED <<cron, resched, fs, second, github, pipelines>>

\* Fault: is_executing is not reset by a finally.
PipelineRaises_NoFinally(p) ==
    /\ p \in Pipes /\ pub[p].at = "proving"
    /\ pub' = [pub EXCEPT ![p] = Idle]
    /\ loop' = IF p = Loop THEN [loop EXCEPT !.at = "dead"] ELSE loop
    /\ UNCHANGED <<cron, resched, executing, fs, second, github, pipelines>>

\* An exception of the pipeline (transpiling the champion, the file for Lean)
\* leaves execute_pipeline and, out of the handler of the timeout, the loop.
PipelineRaises(p) ==
    /\ p \in Pipes /\ pub[p].at = "proving"
    /\ pub' = [pub EXCEPT ![p] = Idle] /\ executing' = FALSE
    /\ loop' = IF p = Loop THEN [loop EXCEPT !.at = "dead"] ELSE loop
    /\ UNCHANGED <<cron, resched, fs, second, github, pipelines>>
----------------------------------------------------------------------------
\* create_discovery_pr.  Nothing is verified for the dashboard.
DashPublishes ==
    /\ pub[Dash].at = "idle" /\ fs.champ # NoProgram
    /\ pipelines < MaxPipelines /\ pipelines' = pipelines + 1
    /\ pub' = [pub EXCEPT ![Dash].at = "ref", ![Dash].prog = fs.champ]
    /\ UNCHANGED <<sched, executing, fs, second, github>>

GoesOn(p, at) ==
    /\ pub' = [pub EXCEPT ![p].at = at]
    /\ UNCHANGED <<executing, loop>>

GetsRef(p) ==
    /\ pub[p].at = "ref"
    /\ GoesOn(p, "branch") \/ Leaves(p)
    /\ UNCHANGED <<cron, resched, fs, second, github, pipelines>>

\* Fault: the answer is not checked.
CreatesBranch_Unchecked(p) ==
    /\ pub[p].at = "branch"
    /\ refs' = refs \cup {second}
    /\ \/ /\ pub' = [pub EXCEPT ![p].at = "py", ![p].branch = second]
          /\ UNCHANGED <<executing, loop>>
       \/ Leaves(p)
    /\ UNCHANGED <<cron, resched, fs, second, files, pulls, pipelines>>

\* raise_for_status: a branch that exists is refused.
CreatesBranch(p) ==
    /\ pub[p].at = "branch"
    /\ \/ /\ second \notin refs /\ refs' = refs \cup {second}
          /\ \/ /\ pub' = [pub EXCEPT ![p].at = "py", ![p].branch = second]
                /\ UNCHANGED <<executing, loop>>
             \/ Leaves(p)
       \/ Leaves(p) /\ UNCHANGED refs
    /\ UNCHANGED <<cron, resched, fs, second, files, pulls, pipelines>>

\* The answers of the two PUTs are not looked at.
PutsFile(p, kind, next) ==
    /\ pub[p].at = kind
    /\ files' \in {files, files \cup {[branch |-> pub[p].branch, kind |-> kind,
                                       prog |-> pub[p].prog]}}
    /\ GoesOn(p, next) \/ Leaves(p)
    /\ UNCHANGED <<cron, resched, fs, second, refs, pulls, pipelines>>

\* GitHub opens no pull request for a branch without a commit.
OpensPull(p) ==
    /\ pub[p].at = "pull"
    /\ pulls' \in {pulls} \cup
         {pulls \cup {[branch |-> f.branch, prog |-> pub[p].prog,
                         proof |-> pub[p].proof, by |-> p]} :
             f \in {f \in files : f.branch = pub[p].branch}}
    /\ Leaves(p)
    /\ UNCHANGED <<cron, resched, fs, second, refs, files, pipelines>>

Publish(p) == \/ GetsRef(p) \/ CreatesBranch(p)
              \/ PutsFile(p, "py", "lean") \/ PutsFile(p, "lean", "pull")
              \/ OpensPull(p)

Tick ==
    /\ second < MaxSecond /\ second' = second + 1
    /\ UNCHANGED <<sched, executing, pub, fs, github, pipelines>>

Pipeline(p) == Searches(p) \/ TakesChampion(p) \/ Proves(p) \/ PipelineRaises(p)

Next ==
    \/ UpdateCron \/ Reschedules \/ Fires
    \/ \E t \in Tasks : TriggerNow(t) \/ TaskRuns(t)
    \/ \E p \in Pipes : Pipeline(p)
    \/ DashPublishes
    \/ \E p \in Publishers : Publish(p)
    \/ Improves \/ DashboardStarts \/ DashboardStops \/ Tick

\* The event loop runs every task that can go on; sleeps and requests end.
Fairness ==
    /\ WF_vars(Reschedules)
    /\ \A t \in Tasks : WF_vars(TaskRuns(t))
    /\ \A p \in Pipes : WF_vars(Pipeline(p))
    /\ \A p \in Publishers : WF_vars(Publish(p))

Spec == Init /\ [][Next]_vars /\ Fairness
----------------------------------------------------------------------------
Program == [search : 0..MaxSearches + MaxPipelines, good : BOOLEAN]
Steps == {"idle", "created", "launched", "sleeping", "proving",
          "ref", "branch", "py", "lean", "pull"}

\* Every variable has its type, and what GitHub holds hangs together: files are
\* on branches that exist.
TypeOK ==
    /\ cron \in 0..MaxUpdates /\ resched \in BOOLEAN /\ executing \in BOOLEAN
    /\ loop \in [at : {"waiting", "executing", "dead"}, cron : 0..MaxUpdates]
    /\ pub \in [Publishers -> [at : Steps, prog : Program, proof : Program,
                           branch : 0..MaxSecond]]
    /\ fs \in [running : BOOLEAN, champ : Program]
    /\ second \in 1..MaxSecond /\ pipelines \in 0..MaxPipelines
    /\ refs \subseteq 1..MaxSecond
    /\ \A f \in files : f.branch \in refs
    /\ \A r \in pulls : r.branch \in refs

\* is_executing is set exactly while one pipeline is inside, whatever ended the
\* one before; two tasks created at once do not both get in.
Inside == {p \in Pipes : pub[p].at \notin {"idle", "created"}}
ExecutingIsExact ==
    /\ Cardinality(Inside) = IF executing THEN 1 ELSE 0
    /\ (loop.at = "executing") = (Loop \in Inside)

\* The loop never sleeps towards the time of an old cron expression: it waits
\* for the current one, or it is about to be woken.
WaitsForTheCurrentCron == loop.at = "waiting" => loop.cron = cron \/ resched

\* One pipeline at a time, at the time the current expression says.
SchedulerIsExact ==
    /\ TypeOK
    /\ ExecutingIsExact
    /\ WaitsForTheCurrentCron

\* The pipeline opens pull requests only for the very program that Lean has
\* accepted and that was good enough, whatever becomes champion meanwhile.
PublishesWhatWasProved ==
    \A r \in pulls : r.by \in Pipes => r.proof = r.prog /\ r.prog.good

\* Two publications never mix on one branch, even within one second: what is
\* on a branch belongs to one program and one publisher.
BranchesAreOnesOwn ==
    /\ \A f, g \in files : f.branch = g.branch => f.prog = g.prog
    /\ \A p, q \in Publishers :
           pub[p].branch # 0 /\ pub[p].branch = pub[q].branch => p = q
    /\ \A r, s \in pulls : r.branch = s.branch => r = s

\* A pipeline that has begun ends, and the next one may begin.
PipelinesEnd == executing ~> ~executing

\* A new cron expression is taken up, unless the loop is dead.
NewCronIsHeard == resched ~> (~resched \/ loop.at = "dead")

\* Nothing the nightly run waits for stays away for good.
NightlyGoesOn == PipelinesEnd /\ NewCronIsHeard
=============================================================================
