---------------------------- MODULE VulnPipeline ----------------------------
(***************************************************************************)
(* Vuln tasks: what a replayed seed that reached a risky line leads to.     *)
(*                                                                         *)
(*   thread B puts a result for every seed it replays into a queue          *)
(*   thread C, MutationScheduler, turns the targets a result has hit into   *)
(*            tasks, within a budget per target                             *)
(*   thread D, MutationWorker, serves a task with a seed that was           *)
(*            quarantined at startup while there is one, and with seeds of  *)
(*            the model's otherwise                                         *)
(*                                                                         *)
(* Seeds are identified by their content.  A generated seed that equals one *)
(* already known takes over its row, and with it the tasks' "module".       *)
(***************************************************************************)
EXTENDS TaskTable

CONSTANTS
    MaxTasks,    \* max_vuln_tasks
    ExtraTasks,  \* max_vuln_generated_extra_tasks_per_target
    Catalog,     \* targets the knowledge base can materialize
    Staged,      \* names of the seeds quarantined at startup
    InjectLimit, \* the largest inject_limit of a plan: seeds one task may give
    MaxHits      \* bound: hits of one result, over all its messages

ASSUME BudgetAssumption ==
    /\ MaxTasks \in Nat \ {0}
    /\ ExtraTasks \in Nat
    /\ InjectLimit \in Nat \ {0}
    /\ MaxHits \in Nat

ASSUME CatalogAssumption == Catalog \subseteq Targets

VARIABLES
    known,     \* targets with a row in the targets table
    analyzed,  \* those of them with the verdict "vuln-task-limit"
    module,    \* per seed: task_kind in its metadata
    degraded,  \* metric replay_health
    sched,     \* thread C: the result it is at, the hits still to go through
    worker,    \* thread D: place, the claimed task, the seeds it has given so
               \* far, the staged file at hand
    pending,   \* files in vuln_staging/pending
    injected   \* those that have been injected

schedVars == <<known, analyzed, sched>>
workerVars == <<worker, pending, injected>>
vars == <<tasks, known, analyzed, module, degraded, sched, worker, pending, injected>>

Lanes == {"coverage", "generated-handoff"}
Modules == {"none", "boundary-generate", "vuln-generate"}
HitLists == UNION {[1..n -> Targets] : n \in 0..MaxHits}

\* fresh: the replay has reached new lines or branches, or flipped a branch.
Result == [seed : Contexts, lane : Lanes, replayed : BOOLEAN, fresh : BOOLEAN]

Accepted(r) == r.replayed /\ (r.lane = "coverage" \/ r.fresh)

NoFile == "no-file"

Init ==
    /\ tasks = << >>
    /\ known = {}
    /\ analyzed = {}
    /\ module = [s \in Contexts |-> "none"]
    /\ degraded = FALSE
    /\ sched \in [result : Result, todo : {<< >>}]
    /\ worker = [pc |-> "idle", task |-> 0, seeds |-> 0, file |-> NoFile]
    /\ pending = Staged
    /\ injected = {}

-----------------------------------------------------------------------------
(* Thread C                                                                  *)

\* A result of the generated lane is scheduled from even when it brought
\* nothing new; no result is while replay feedback is degraded.
Schedules(r) ==
    /\ ~degraded
    /\ \/ r.lane = "generated-handoff" /\ r.replayed /\ ~Accepted(r)
       \/ Accepted(r)

TakeResult ==
    /\ sched.todo = << >>
    /\ \E r \in Result, hits \in HitLists :
         /\ known' = IF r.lane = "generated-handoff"
                     THEN known \cup ({hits[i] : i \in DOMAIN hits} \cap Catalog)
                     ELSE known
         /\ sched' = IF Schedules(r) THEN [result |-> r, todo |-> hits] ELSE sched
    /\ UNCHANGED <<tasks, analyzed, module, degraded, workerVars>>

ModuleCount(t, m) == Cardinality({i \in Rows(t) : module[tasks[i].context] = m})

\* Mutant: one extra task too many.
ExtraAllowedOffByOne(t, r) ==
    /\ ExtraTasks > 0
    /\ r.lane = "generated-handoff"
    /\ r.fresh
    /\ module[r.seed] # "none"
    /\ ModuleCount(t, module[r.seed]) = 0
    /\ CountTasks(t) - MaxTasks <= ExtraTasks
\* Beyond the limit, the seed has to be a generated one that found something
\* new, and the first of its module for this target.
ExtraAllowed(t, r) ==
    /\ ExtraTasks > 0
    /\ r.lane = "generated-handoff"
    /\ r.fresh
    /\ module[r.seed] # "none"
    /\ ModuleCount(t, module[r.seed]) = 0
    /\ CountTasks(t) - MaxTasks < ExtraTasks

\* The next hit.
Turn(t) ==
    /\ sched.todo # << >>
    /\ t = Head(sched.todo)
    /\ sched' = [sched EXCEPT !.todo = Tail(@)]
    /\ UNCHANGED <<module, degraded, workerVars>>

MissingTarget ==
    /\ \E t \in Targets \ Catalog : Turn(t)
    /\ UNCHANGED <<tasks, known, analyzed>>

\* Mutant: the limit verdict one task early.
OverLimitEarly(t) == CountTasks(t) + 1 >= MaxTasks /\ ~ExtraAllowed(t, sched.result)
OverLimit(t) == CountTasks(t) >= MaxTasks /\ ~ExtraAllowed(t, sched.result)

TargetTaskLimit ==
    \E t \in Catalog :
        /\ Turn(t)
        /\ OverLimit(t)
        /\ known' = known \cup {t}
        /\ analyzed' = analyzed \cup {t}
        /\ UNCHANGED tasks

\* Mutant: the test for an earlier task from the same seed is dropped.
RefusedActiveOnly(t) == HasActiveTask(t)
\* The same seed again, or a task for the target is open.  The status of a row
\* is all that another thread changes, and it is read once, so the look-ups
\* and the creation are one step.
Refused(t) == HasTask(t, sched.result.seed) \/ HasActiveTask(t)

GatedHit ==
    \E t \in Catalog :
        /\ Turn(t)
        /\ ~OverLimit(t)
        /\ Refused(t)
        /\ known' = known \cup {t}
        /\ UNCHANGED <<tasks, analyzed>>

QueueTask ==
    \E t \in Catalog :
        /\ Turn(t)
        /\ ~OverLimit(t)
        /\ ~Refused(t)
        /\ known' = known \cup {t}
        /\ CreateTask(t, sched.result.seed)
        /\ UNCHANGED analyzed

Scheduler == TakeResult \/ MissingTarget \/ TargetTaskLimit \/ GatedHit \/ QueueTask

-----------------------------------------------------------------------------
(* Thread D                                                                  *)

Claim ==
    /\ worker.pc = "idle"
    /\ \E i \in DOMAIN tasks :
         /\ ClaimTask(i)
         /\ worker' = [worker EXCEPT !.pc = "running", !.task = i]
    /\ UNCHANGED <<schedVars, module, degraded, pending, injected>>

\* Mutant: the file leaves the pending directory before it is injected.
InjectStagedMoved ==
    /\ worker.pc = "running"
    /\ \E f \in pending :
         /\ worker' = [worker EXCEPT !.pc = "injected", !.seeds = 1, !.file = f]
         /\ pending' = pending \ {f}
    /\ UNCHANGED <<tasks, schedVars, module, degraded, injected>>

InjectStaged ==
    /\ worker.pc = "running"
    /\ \E f \in pending :
         /\ worker' = [worker EXCEPT !.pc = "injected", !.seeds = 1, !.file = f]
         /\ injected' = injected \cup {f}
    /\ UNCHANGED <<tasks, schedVars, module, degraded, pending>>

\* The file goes to the consumed directory.
MoveStaged ==
    /\ worker.pc = "injected"
    /\ worker' = [worker EXCEPT !.pc = "served"]
    /\ pending' = pending \ {worker.file}
    /\ UNCHANGED <<tasks, schedVars, module, degraded, injected>>

\* _enqueue_generated_seed records the kind of the task in the seed's row.  Any
\* content may come of the model, a known one too.
EnqueueGeneratedSeed(kind) ==
    \E s \in Contexts : module' = [module EXCEPT ![s] = kind]

\* The next candidate of the model's answer is injected and recorded.
EmitSeed ==
    /\ \/ worker.pc = "running" /\ pending = {}
       \/ worker.pc = "emitted"
    /\ worker.seeds < InjectLimit
    /\ worker' = [worker EXCEPT !.pc = "emitted", !.seeds = @ + 1]
    /\ EnqueueGeneratedSeed("vuln-generate")
    /\ UNCHANGED <<tasks, schedVars, degraded, pending, injected>>

FinishServed ==
    /\ worker.pc \in {"served", "emitted"}
    /\ FinishTask(worker.task, "completed")
    /\ worker' = [worker EXCEPT !.pc = "idle", !.seeds = 0]
    /\ UNCHANGED <<schedVars, module, degraded, pending, injected>>

\* Mutant: the exception handler does not finish the task.
AbandonTask ==
    /\ worker.pc # "idle"
    /\ worker' = [worker EXCEPT !.pc = "idle", !.seeds = 0]
    /\ UNCHANGED <<tasks, schedVars, module, degraded, pending, injected>>

\* The model declines, its answer is of no use, or an exception is raised,
\* also between an injection and the move, or between two injections.
GiveUp ==
    /\ worker.pc # "idle"
    /\ \E outcome \in {"completed", "failed"} : FinishTask(worker.task, outcome)
    /\ worker' = [worker EXCEPT !.pc = "idle", !.seeds = 0]
    /\ UNCHANGED <<schedVars, module, degraded, pending, injected>>

Worker == Claim \/ InjectStaged \/ MoveStaged \/ EmitSeed \/ FinishServed \/ GiveUp

-----------------------------------------------------------------------------
(* The rest of the runtime: a boundary task has given a seed; replays move    *)
(* the health record.                                                        *)

BoundarySeed ==
    /\ EnqueueGeneratedSeed("boundary-generate")
    /\ UNCHANGED <<tasks, schedVars, degraded, workerVars>>

ReplayHealth ==
    /\ degraded' = ~degraded
    /\ UNCHANGED <<tasks, schedVars, module, workerVars>>

Next == Scheduler \/ Worker \/ BoundarySeed \/ ReplayHealth

Spec == Init /\ [][Next]_vars

\* Thread D polls in a loop that nothing blocks.
FairSpec == Spec /\ WF_vars(Worker)

-----------------------------------------------------------------------------
WorkerState == [pc : {"idle", "running", "injected", "served", "emitted"},
                task : Nat, seeds : 0..InjectLimit, file : Staged \cup {NoFile}]

TypeOK ==
    /\ tasks \in Seq(Row)
    /\ known \subseteq Catalog
    /\ analyzed \subseteq Catalog
    /\ module \in [Contexts -> Modules]
    /\ degraded \in BOOLEAN
    /\ sched \in [result : Result, todo : Seq(Targets)]
    /\ worker \in WorkerState
    /\ worker.pc # "idle" => worker.task \in DOMAIN tasks
    /\ pending \subseteq Staged
    /\ injected \subseteq Staged

\* However often seeds change hands between modules, a target never gets more
\* tasks than the limit and the extra budget together.
VulnBudget == \A t \in Targets : CountTasks(t) <= MaxTasks + ExtraTasks

\* No two tasks of a target come from the same seed, and no two of them are
\* open at a time, although a result may hit a target several times and the
\* same seed may be replayed again and again.
NoDuplicateWork ==
    \A i, j \in DOMAIN tasks :
        i # j /\ tasks[i].target = tasks[j].target =>
            /\ tasks[i].context # tasks[j].context
            /\ ~(IsActive(i) /\ IsActive(j))

\* The verdict "vuln-task-limit" stands on targets that have had their tasks.
LimitVerdictEarned == \A t \in analyzed : CountTasks(t) >= MaxTasks

\* A quarantined seed waits in the pending directory until it has been
\* injected, whatever exception interrupts the worker.
StagedNotLost == Staged = pending \cup injected

\* A leased task is the one the worker is at: whatever an exception interrupts,
\* no task stays leased behind it and keeps its target closed to new ones.
LeasedIsHeld ==
    \A i \in DOMAIN tasks :
        tasks[i].status = "leased" => worker.pc # "idle" /\ worker.task = i

\* A task is worked on once and alone, all its seeds come while it is held, and
\* there are no more of them than the limit says, whether they come from the
\* staging directory or from the model, and wherever an exception strikes.
Lifecycle == INSTANCE TaskLifecycle WITH
    queued <- WithStatus({"pending"}),
    held <- WithStatus({"leased"}),
    seeds <- worker.seeds,
    done <- WithStatus({"completed", "failed"}),
    SeedLimit <- InjectLimit

ImplementsTaskLifecycle == Lifecycle!Spec

\* A target is worked on by one task at a time, at most once for a seed, and
\* not more often than both limits allow together.
Work == INSTANCE TargetWork WITH
    tried <- Occasions,
    spent <- Spent,
    open <- OpenTargets,
    Budget <- MaxTasks + ExtraTasks

ImplementsTargetWork == Work!Spec

\* An open task is finished in the end; the budget keeps newer tasks from
\* holding it up for ever.
TasksFinish == \A t \in Targets : HasActiveTask(t) ~> ~HasActiveTask(t)
=============================================================================
