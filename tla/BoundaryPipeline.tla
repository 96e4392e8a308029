-------------------------- MODULE BoundaryPipeline --------------------------
(***************************************************************************)
(* Boundary tasks: how an uncovered branch side is tried, retried, settled. *)
(*                                                                         *)
(*   thread C, MutationScheduler     picks a batch of targets when coverage *)
(*                                   has stagnated, one batch at a time     *)
(*   thread D, MutationWorker        claims a task, asks the model, emits   *)
(*                                   seeds or skips, may retire the target  *)
(*   thread B, CoverageReplayWorker  replays a seed and sees the flip       *)
(*   thread A, QueueWatcher          hands a seed afl-fuzz kept to B again  *)
(*                                                                         *)
(* They share the state database and two queues.  Each database method is   *)
(* atomic; the scheduler's batch is built from rows it read before, and the *)
(* worker's retirement from a verdict it read before.                       *)
(***************************************************************************)
EXTENDS TaskTable

CONSTANTS
    AttemptLimit,  \* max_boundary_attempts_per_target
    BatchSize,     \* max_guess_boundary_tasks
    InjectLimit,   \* the largest inject_limit of a plan: seeds one task may give
    Lane,          \* measurement_lane of emitted seeds: "generated-handoff", or
                   \* "coverage" when replay_queue_filter_mode is "all"
    MaxBatches     \* bound: no batch is collected after this many

ASSUME LimitsAssumption ==
    /\ AttemptLimit \in Nat \ {0}
    /\ BatchSize \in Nat \ {0}
    /\ InjectLimit \in Nat \ {0}
    /\ MaxBatches \in Nat
    /\ Contexts = 1..MaxBatches
    /\ Lane \in {"generated-handoff", "coverage"}

ASSUME TargetsAssumption == IsFiniteSet(Targets)

VARIABLES
    known,     \* targets with a row in the targets table
    analyzed,  \* targets.analyzed
    verdict,   \* targets.analysis_result
    batch,     \* metric active_boundary_batch; id also counts the batches
    clock,     \* what the time-dependent metrics say: the initial replay has
               \* completed, the stagnation window has passed since
    degraded,  \* metric replay_health
    sched,     \* thread C: place in its loop; targets left of the batch; those
               \* of them whose row said "branch-flipped"; some task was queued;
               \* a recent result offers a message to mutate
    worker,    \* thread D: place, the claimed task, the seeds it has given so
               \* far, the verdict D has read
    emitted,   \* tasks of which a seed has been written for afl-fuzz
    replays,   \* those of which a seed is in replay_queue
    reports,   \* coverage_result_queue: the flipped target of a result, if any
    late       \* history: tasks created for a target that was analyzed already

targetVars == <<known, analyzed, verdict>>
vars == <<tasks, known, analyzed, verdict, batch, clock, degraded, sched,
          worker, emitted, replays, reports, late>>

NoFlip == "no-flip"

Init ==
    /\ tasks = << >>
    /\ known \in SUBSET Targets
    /\ analyzed = [t \in Targets |-> FALSE]
    /\ verdict = [t \in Targets |-> "none"]
    /\ batch = [active |-> FALSE, id |-> 0]
    /\ clock = [initial |-> FALSE, quiet |-> FALSE]
    /\ degraded = FALSE
    /\ sched = [pc |-> "idle", todo |-> {}, flipped |-> {}, queued |-> FALSE,
                context |-> FALSE]
    /\ worker = [pc |-> "idle", task |-> 0, seeds |-> 0, saw |-> "none"]
    /\ emitted = {}
    /\ replays = {}
    /\ reports = {}
    /\ late = [t \in Targets |-> 0]

-----------------------------------------------------------------------------
(* Thread C: MutationScheduler                                               *)

\* A result is taken from the queue.  A flip sets the verdict and leaves
\* analyzed alone.  Results without a replayed message can push every usable
\* one out of the window of 64.
ConsumeResult ==
    /\ sched.pc = "idle"
    /\ \E r \in reports :
         /\ reports' = reports \ {r}
         /\ IF r = NoFlip
            THEN /\ \E c \in BOOLEAN : sched' = [sched EXCEPT !.context = c]
                 /\ UNCHANGED verdict
            ELSE /\ sched' = [sched EXCEPT !.context = TRUE]
                 /\ verdict' = [verdict EXCEPT ![r] = "flipped"]
    /\ UNCHANGED <<tasks, known, analyzed, batch, clock, degraded, worker,
                   emitted, replays, late>>

\* The running batch has no open task left.  Its completion restarts the
\* stagnation window, which ends this round of the loop.
CloseBatch ==
    /\ sched.pc = "idle"
    /\ ~degraded
    /\ batch.active
    /\ ~BatchOpen(batch.id)
    /\ batch' = [batch EXCEPT !.active = FALSE]
    /\ clock' = [clock EXCEPT !.quiet = FALSE]
    /\ UNCHANGED <<tasks, targetVars, degraded, sched, worker, emitted, replays,
                   reports, late>>

\* Every gate in front of the collection is open.
PassGates ==
    /\ sched.pc = "idle"
    /\ ~degraded
    /\ ~batch.active
    /\ clock.initial /\ clock.quiet
    /\ batch.id < MaxBatches
    /\ sched' = [sched EXCEPT !.pc = "collecting"]
    /\ UNCHANGED <<tasks, targetVars, batch, clock, degraded, worker, emitted,
                   replays, reports, late>>

\* Mutant: one attempt too many.
AttemptsSpentOffByOne(t, flipped) == CountTasks(t) > AttemptLimit /\ ~flipped
AttemptsSpent(t, flipped) == CountTasks(t) >= AttemptLimit /\ ~flipped

\* Mutant: settled targets stay candidates.
CandidatesWithSettled(T) ==
    {t \in T : ~AttemptsSpent(t, verdict[t] = "flipped")}
Candidates(T) ==
    {t \in T : ~analyzed[t] /\ ~AttemptsSpent(t, verdict[t] = "flipped")}

\* Mutant: tried and untried targets share a pool.
PoolOfAll(C) == C
Pool(C) ==
    LET untried == {t \in C : CountTasks(t) = 0}
    IN  IF untried # {} THEN untried ELSE C

Batches(pool) ==
    {S \in SUBSET pool : S # {} /\ \/ Cardinality(S) = BatchSize
                                   \/ S = pool /\ Cardinality(S) < BatchSize}

\* Frontier targets get their rows, candidates are read and a batch is chosen
\* from them.  The scores that rank the candidates are not modelled.
Collect ==
    /\ sched.pc = "collecting"
    /\ \E new \in SUBSET Targets : known' = known \cup new
    /\ LET pool == IF sched.context THEN Pool(Candidates(known')) ELSE {}
       IN  \/ /\ pool = {}
              /\ sched' = [sched EXCEPT !.pc = "idle"]
           \/ \E S \in Batches(pool) :
                sched' = [sched EXCEPT
                            !.pc = "creating", !.todo = S, !.queued = FALSE,
                            !.flipped = {t \in S : verdict[t] = "flipped"}]
    /\ UNCHANGED <<tasks, analyzed, verdict, batch, clock, degraded, worker,
                   emitted, replays, reports, late>>

\* _create_one_shot_task looks at the row the batch was chosen from, and asks
\* the database again for active tasks and for the number of attempts.
CreateNext ==
    /\ sched.pc = "creating"
    /\ \E t \in sched.todo :
         IF HasActiveTask(t) \/ AttemptsSpent(t, t \in sched.flipped)
         THEN /\ sched' = [sched EXCEPT !.todo = @ \ {t}]
              /\ UNCHANGED <<tasks, late>>
         ELSE /\ sched' = [sched EXCEPT !.todo = @ \ {t}, !.queued = TRUE]
              /\ CreateTask(t, batch.id + 1)
              /\ late' = IF analyzed[t] THEN [late EXCEPT ![t] = @ + 1] ELSE late
    /\ UNCHANGED <<targetVars, batch, clock, degraded, worker, emitted, replays,
                   reports>>

\* The metric is written after the last task.
PublishBatch ==
    /\ sched.pc = "creating"
    /\ sched.todo = {}
    /\ sched' = [sched EXCEPT !.pc = "idle"]
    /\ batch' = IF sched.queued THEN [active |-> TRUE, id |-> batch.id + 1] ELSE batch
    /\ UNCHANGED <<tasks, targetVars, clock, degraded, worker, emitted, replays,
                   reports, late>>

Scheduler == ConsumeResult \/ CloseBatch \/ PassGates \/ Collect \/ CreateNext
             \/ PublishBatch

-----------------------------------------------------------------------------
(* Thread D: MutationWorker                                                  *)

workerOthers == <<batch, clock, degraded, sched, reports, late>>

Target == tasks[worker.task].target

Claim ==
    /\ worker.pc = "idle"
    /\ \E i \in DOMAIN tasks :
         /\ ClaimTask(i)
         /\ worker' = [worker EXCEPT !.pc = "running", !.task = i]
    /\ UNCHANGED <<targetVars, emitted, replays, workerOthers>>

\* Mutant: the exception handler leaves the task leased.
GiveUpLeased ==
    /\ worker.pc # "idle"
    /\ worker' = [worker EXCEPT !.pc = "idle", !.seeds = 0]
    /\ UNCHANGED <<tasks, targetVars, emitted, replays, workerOthers>>

\* No usable context, no usable answer, or an exception anywhere in _run_task,
\* between two seeds as well.
GiveUp ==
    /\ worker.pc # "idle"
    /\ \E outcome \in {"completed", "failed"} : FinishTask(worker.task, outcome)
    /\ worker' = [worker EXCEPT !.pc = "idle", !.seeds = 0]
    /\ UNCHANGED <<targetVars, emitted, replays, workerOthers>>

\* The model declines: the task is finished before its target is looked at.
Skip ==
    /\ worker.pc = "running"
    /\ FinishTask(worker.task, "completed")
    /\ worker' = [worker EXCEPT !.pc = "skipped"]
    /\ UNCHANGED <<targetVars, emitted, replays, workerOthers>>

\* Mutant: the verdict is not looked at.
ReadVerdictUnchecked ==
    /\ worker.pc = "skipped"
    /\ \E next \in {"idle", "retiring"} :
         worker' = [worker EXCEPT !.pc = next, !.saw = verdict[Target]]
    /\ UNCHANGED <<tasks, targetVars, emitted, replays, workerOthers>>

\* _maybe_retire_boundary_target reads the verdict.  It goes on unless the
\* target has flipped or the reason given is not a hard one.
ReadVerdict ==
    /\ worker.pc = "skipped"
    /\ \E next \in {"idle", "retiring"} :
         /\ next = "retiring" => verdict[Target] # "flipped"
         /\ worker' = [worker EXCEPT !.pc = next, !.saw = verdict[Target]]
    /\ UNCHANGED <<tasks, targetVars, emitted, replays, workerOthers>>

Retire ==
    /\ worker.pc = "retiring"
    /\ analyzed' = [analyzed EXCEPT ![Target] = TRUE]
    /\ verdict' = [verdict EXCEPT ![Target] = "retired"]
    /\ worker' = [worker EXCEPT !.pc = "idle"]
    /\ UNCHANGED <<tasks, known, emitted, replays, workerOthers>>

\* _enqueue_generated_seed: the seed is recorded, with the task's target and the
\* lane in its metadata, and put into replay_queue.
EnqueueGeneratedSeed(i) ==
    /\ emitted' = emitted \cup {i}
    /\ replays' = replays \cup {i}

\* The next candidate of the answer is injected and enqueued.  A failure between
\* the two leaves a seed that no record knows, and is a GiveUp like any other.
Emit ==
    /\ worker.pc \in {"running", "emitted"}
    /\ worker.seeds < InjectLimit
    /\ EnqueueGeneratedSeed(worker.task)
    /\ worker' = [worker EXCEPT !.pc = "emitted", !.seeds = @ + 1]
    /\ UNCHANGED <<tasks, targetVars, workerOthers>>

\* Only after the last of the candidates is the task finished.
FinishEmitted ==
    /\ worker.pc = "emitted"
    /\ FinishTask(worker.task, "completed")
    /\ worker' = [worker EXCEPT !.pc = "idle", !.seeds = 0]
    /\ UNCHANGED <<targetVars, emitted, replays, workerOthers>>

Worker == Claim \/ GiveUp \/ Skip \/ ReadVerdict \/ Retire \/ Emit \/ FinishEmitted

-----------------------------------------------------------------------------
(* Threads A and B, and time                                                 *)

replayOthers == <<tasks, known, batch, sched, worker, emitted, late>>

\* A replay in the coverage lane that finds new coverage restarts the window;
\* any replay moves the health record.
NoteReplay(lane) ==
    /\ \E q \in {clock.quiet, clock.quiet /\ lane # "coverage"} :
         clock' = [clock EXCEPT !.quiet = q]
    /\ degraded' \in BOOLEAN

\* An emitted seed is replayed; another one of the same task may be left in the
\* queue.  A flip outside the coverage lane settles the target here; the result
\* goes to thread C.
ReplayEmitted ==
    /\ \E i \in replays :
         LET t == tasks[i].target
         IN  /\ replays' \in {replays, replays \ {i}}
             /\ \/ /\ reports' = reports \cup {NoFlip}
                   /\ UNCHANGED <<analyzed, verdict>>
                \/ /\ reports' = reports \cup {t}
                   /\ IF Lane = "coverage"
                      THEN UNCHANGED <<analyzed, verdict>>
                      ELSE /\ analyzed' = [analyzed EXCEPT ![t] = TRUE]
                           /\ verdict' = [verdict EXCEPT ![t] = "flipped"]
    /\ NoteReplay(Lane)
    /\ UNCHANGED replayOthers

\* A seed of afl-fuzz's own is replayed; it names no target.
ReplayQueueSeed ==
    /\ reports' = reports \cup {NoFlip}
    /\ NoteReplay("coverage")
    /\ UNCHANGED <<replays, analyzed, verdict, replayOthers>>

\* afl-fuzz has kept an emitted seed: the watcher queues it again, with the
\* target and the lane its metadata carries.
WatchImported ==
    /\ \E i \in emitted : replays' = replays \cup {i}
    /\ UNCHANGED <<analyzed, verdict, clock, degraded, reports, replayOthers>>

\* The gate of the initial replay opens, or is shut again by a write of thread
\* B (InitialReplayGate shows how); its opening starts the stagnation window.
InitialReplayGateMoves ==
    /\ clock' = [initial |-> ~clock.initial, quiet |-> FALSE]
    /\ UNCHANGED <<replays, analyzed, verdict, degraded, reports, replayOthers>>

StagnationPasses ==
    /\ clock.initial /\ ~clock.quiet
    /\ clock' = [clock EXCEPT !.quiet = TRUE]
    /\ UNCHANGED <<replays, analyzed, verdict, degraded, reports, replayOthers>>

Environment == ReplayEmitted \/ ReplayQueueSeed \/ WatchImported
               \/ InitialReplayGateMoves \/ StagnationPasses

Next == Scheduler \/ Worker \/ Environment

Spec == Init /\ [][Next]_vars

\* Threads C and D poll in loops that nothing blocks: the model call of D has
\* a timeout, and its failure finishes the task.
FairSpec == Spec /\ WF_vars(Scheduler) /\ WF_vars(CloseBatch) /\ WF_vars(Worker)

-----------------------------------------------------------------------------
Verdict == {"none", "flipped", "retired"}

SchedState == [pc : {"idle", "collecting", "creating"}, todo : SUBSET Targets,
               flipped : SUBSET Targets, queued : BOOLEAN, context : BOOLEAN]

WorkerState == [pc : {"idle", "running", "skipped", "retiring", "emitted"},
                task : Nat, seeds : 0..InjectLimit, saw : Verdict]

TypeOK ==
    /\ tasks \in Seq(Row)
    /\ known \in SUBSET Targets
    /\ analyzed \in [Targets -> BOOLEAN]
    /\ verdict \in [Targets -> Verdict]
    /\ batch \in [active : BOOLEAN, id : 0..MaxBatches]
    /\ clock \in [initial : BOOLEAN, quiet : BOOLEAN]
    /\ degraded \in BOOLEAN
    /\ sched \in SchedState
    /\ worker \in WorkerState
    /\ worker.pc # "idle" => worker.task \in DOMAIN tasks
    /\ emitted \subseteq DOMAIN tasks
    /\ replays \subseteq emitted
    /\ reports \subseteq Targets \cup {NoFlip}
    /\ late \in [Targets -> Nat]

\* Unless a flip was confirmed, no target is tried more than AttemptLimit
\* times; and when emitted seeds are measured in the handoff lane, not even
\* then, since the replay that confirms the flip settles the target as well.
AttemptBudget ==
    \A t \in Targets :
        CountTasks(t) > AttemptLimit =>
            Lane = "coverage" /\ (verdict[t] = "flipped" \/ analyzed[t])

\* Open tasks all belong to one batch and work on different targets, although
\* no lock or transaction spans the creation of a batch.
BatchesDoNotOverlap ==
    \A i, j \in DOMAIN tasks :
        IsActive(i) /\ IsActive(j) /\ i # j =>
            /\ tasks[i].context = tasks[j].context
            /\ tasks[i].target # tasks[j].target

\* A verdict that lands while a batch is being created comes too late for that
\* batch only: a settled target gets at most one more task.
AtMostOneLateTask == \A t \in Targets : late[t] <= 1

\* A target is tried again only after every known target that is not settled
\* has been tried.
UntriedFirst ==
    [][\A t \in Targets :
          CountTasks(t) >= 1 /\ CountTasks(t)' > CountTasks(t) =>
              \A u \in known : analyzed[u] \/ CountTasks(u) >= 1]_vars

\* A confirmed flip is overruled only by the retirement of a worker that had
\* read the target before it flipped; nothing else turns the verdict back.
FlipOverruledOnlyIfUnseen ==
    [][\A t \in Targets :
          verdict[t] = "flipped" /\ verdict'[t] # "flipped" =>
              worker.pc = "retiring" /\ Target = t /\ worker.saw # "flipped"]_vars

\* A batch that is not over has a task that waits for the worker or that the
\* worker is at.  No batch is published without tasks, and none of its tasks
\* is left leased by a worker that has gone on.
OpenBatchHasWork ==
    batch.active /\ BatchOpen(batch.id) =>
        \E i \in RowsIn(batch.id) :
            \/ tasks[i].status = "pending"
            \/ worker.pc \in {"running", "emitted"} /\ worker.task = i

\* A task is worked on once and alone, all its seeds come while it is held, and
\* there are no more of them than the limit says: also when an exception comes
\* between two seeds, or when the worker, done with the task, goes on to retire
\* its target and fails then.
Lifecycle == INSTANCE TaskLifecycle WITH
    queued <- WithStatus({"pending"}),
    held <- WithStatus({"leased"}),
    seeds <- worker.seeds,
    done <- WithStatus({"completed", "failed"}),
    SeedLimit <- InjectLimit

ImplementsTaskLifecycle == Lifecycle!Spec

\* A target is worked on by one task at a time, at most once per batch, and
\* not more often than the limit says; in the coverage lane, where a flip lifts
\* the limit, not more often than there are batches.
Work == INSTANCE TargetWork WITH
    tried <- Occasions,
    spent <- Spent,
    open <- OpenTargets,
    Budget <- IF Lane = "coverage" THEN MaxBatches ELSE AttemptLimit

ImplementsTargetWork == Work!Spec

\* A batch in flight is closed, or the replay feedback is found degraded, which
\* suspends the scheduler before it looks at the batch.
BatchEventuallyCloses == batch.active ~> (~batch.active \/ degraded)
=============================================================================
