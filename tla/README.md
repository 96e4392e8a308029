# A TLA+ model of the S2AFL runtime

S2AFL drives AFLNet with seeds written by a language model. This directory models
the part of it that decides what is tried, when, and with what effect: the runtime
under `src/python/S2AFL/runtime`, and the function of `afl-fuzz.c` through which
seeds enter the fuzzer. The modules are checked with TLC on small instances, and
the central properties are proved with TLAPS for all values of the constants.

## 1. Inventory

One Python process, four working threads, two child processes, one SQLite file.

| Part | State it keeps | Operations | Talks to |
|---|---|---|---|
| `controller.py` | start-up attempt, summary of the preparation, stop reason | bootstrap, start with recovery, health checks, import-health gate, stop | starts everything; reads metrics |
| `psei_bootstrap.py` | `afl_input_dir`, `vuln_staging/pending`, manifest | prepare, screen, quarantine | controller, mutation worker (the staging directory) |
| `aflnet.py`, `AFLNetSyncInjector` | `_counter`; `agent-sync/queue` | `inject_seed` | called by A and D; read by `afl-fuzz` |
| `aflnet.py`, `AFLNetRuntime` | processes, log files | start, stop, stats | controller, watcher |
| `afl-fuzz.c`, `sync_fuzzers` | number in `.synced/agent-sync` | scan of the sibling's queue | file system only |
| `queue_watcher.py` (thread A) | names seen, staged groups | scan queue and faults, poll metrics, inject bootstrap and staged seeds | B through `replay_queue`, database |
| `coverage_replay.py` (thread B) | replay-health window | replay a seed, attribute coverage, detect flips | C through `coverage_result_queue`, database |
| `scheduler.py` (thread C) | last 64 results, random generator | consume results, vuln tasks, boundary batches | D through the tasks table |
| `mutation_worker.py` (thread D) | seeds emitted, targets confirmed | claim, run, emit, retire, staged injection | injector, database, `replay_queue` |
| `state_db.py` | seeds, targets, tasks, metrics, coverage, events | one lock, held per method | all threads |
| `child_reaper.py`, `command_utils.py` | zombies, running commands | `waitpid`, `subprocess` | operating system |
| `replay_monitor.py` | own watcher and replay thread | stand-alone variant of A and B | file system |
| `mutation_executor.py`, `llm*.py`, `chatafl_template_server.py` | none shared | prompts, answers, HTTP | D |
| knowledge, PSEI, CLI, scripts | files built offline | generation and lookup | read by C and D |

What is hard about it. Every database method is atomic and nothing above it is: a
decision is a sequence of calls, and the rows move in between. Metrics that are
dictionaries are read and written back whole, by more than one thread. Seeds reach
the fuzzer through a directory that two threads fill without a lock while a C program
scans it and forgets everything but one number. Exceptions end a task in one thread
and the thread itself in the others. Startup repeats with a corpus that shrinks.

What makes each part correct:

- hand-off: no seed is overwritten, cut short, run twice or passed over;
- boundary tasks: one batch at a time, bounded attempts, everything is tried before
  anything is tried again, a confirmed flip is not overruled by a retirement that has seen it,
  a batch ends;
- vuln tasks: bounded per target, no duplicate work, a "limit" verdict only when earned,
  quarantined seeds are used and not lost, a task ends;
- startup: a good seed is found if there is one, no seed disappears, the loop ends;
- initial replay: the gate opens when it should, only when it should, and stays open.

`PROJECT.json` lists the hazards with their lines. Some have no property yet; section 7
says which, and where they are planned.

## 2. Modules

| Module | Models | Composes |
|---|---|---|
| `SyncHandoff` | `inject_seed` by several threads, `sync_fuzzers` | |
| `TaskTable` | the tasks table, one operator per method | |
| `BoundaryPipeline` | C, D, B and A as far as boundary tasks go | extends `TaskTable` |
| `VulnPipeline` | C and D as far as vuln tasks go, and the staging directory | extends `TaskTable` |
| `StartupRecovery` | screening, start, quarantine, replacement, retry | |
| `InitialReplayGate` | the metric `initial_replay_progress` | |
| `SeedMailbox` | abstract: what the hand-off promises | implemented by `SyncHandoff` |
| `TaskLifecycle` | abstract: how a task is worked on | implemented by both pipelines |
| `TargetWork` | abstract: how a target is worked on | implemented by both pipelines |
| `MC...` | instances for TLC | the module of the same name |
| `..._proofs` | theorems | the module of the same name, TLAPS |

The two pipelines instantiate the same table with a different meaning of "context":
the batch for boundary rows, the seed for vuln rows. A row of one kind is never looked at by
questions about the other, which filter by kind, so they are checked apart.

### The abstract specifications

Each says in a page what the detailed modules promise together, without the mechanism, and is a
property of them through `INSTANCE ... WITH`.

- `SeedMailbox` (`ImplementsSeedMailbox`): seeds are placed, taken at most once, and owed by a scan that began
  after they were placed in time; what a scan passes over stays passed; the fuzzer may stop, even in a
  scan. There are no ids, no temporary files and no remembered number; the mapping takes the
  entries with a final name, and calls one passed when it was not imported and is below the number
  or of a size that `afl-fuzz` ignores.
- `TaskLifecycle` (`ImplementsTaskLifecycle`): a task is queued, held while no other is, gives its seeds, up to
  a limit, only while it is held, and is then over for good. The mapping is the status column and the
  number of seeds the worker has injected for the claimed task. Retiring a target after its task is
  finished, or failing in that, is a stuttering step.
- `TargetWork` (`ImplementsTargetWork`): a target has one open task, at most one for an occasion, and a
  budget. An occasion is a batch for boundary tasks and a seed for vuln tasks; the budget is the
  attempt limit (in the "coverage" lane, where a flip lifts that limit, the number of batches) or
  the two vuln limits together.

### SyncHandoff

Each action ends where another thread, or `afl-fuzz`, can see the state: the
counter is read into the path (`ReadCounter`), stepped and the path looked up
(`BumpAndCheck`), the temporary file is created (`OpenTmp`), filled (`FillTmp`),
renamed (`Replace`). `afl-fuzz` parses the id of a name and nothing else, so
the `.tmp` file is an entry like any other, and raises the remembered number.
A scan may or may not return names that come or go while it runs, as POSIX has it.
`Leftover` are files of an attempt that was reset: `_reset_aflnet_output_for_retry` sets the counter to
0 and ignores errors when it removes the directory. Writers use disjoint sets of tags
(`TagsAssumption`): a tag names the module, and the tags of A and D differ.

`Fail` is an exception of the write or the rename, which leaves the temporary file behind. `Odd` are the
names whose seeds are empty or larger than `MAX_FILE`; `Opened` skips them, and the half-written file of any
seed may be skipped likewise. `Stop` is `stop_soon` or the end of the process: a scan in progress is
left without writing the number back.

Not in the model: the read-back and its exception, which comes after the rename and changes no shared
state; wrap-around of the 32-bit number, out of reach at one id per seed.

### TaskTable and BoundaryPipeline

Rows are a sequence; a row number stands for its `task_id`. The scheduler's round is
cut where its reads go stale: `PassGates`, `Collect` (reads all rows, chooses the
batch), one `CreateNext` per target (asks the database again, but uses the row read before),
`PublishBatch` (the metric). Thread D's retirement is cut the same way:
`ReadVerdict`, then `Retire`. A plan yields up to `inject_limit` seeds (clamped to 1..3 in the code): `Emit` is one injection with its
record and its place in `replay_queue`, and an exception (`GiveUp`) may come before, between and after them.
Replays are one step: B writes the verdict and then queues
the result, and nothing reads both in between. `Lane` selects the lane of emitted seeds: in
"generated-handoff" (the default) the replay that sees the flip marks the target analyzed,
in "coverage" only C records the flip. Time is the pair `clock`: the initial-replay gate is open, and the
stagnation window has passed. `InitialReplayGateMoves` lets the gate shut again, because
`InitialReplayGate` shows that a stale write can do that. The score that ranks
candidates is abstracted to a free choice within the pool that the code ranks.

The guards of `PassGates` are tested in one step. The code tests them one by one, each against
a value that only moves by the steps of C itself (the batch, the window after a closed batch) or
by environment steps that the model lets happen just before.

### VulnPipeline

`TakeResult` takes a result from the queue with an arbitrary list of hits; each hit is one
step (`MissingTarget`, `TargetTaskLimit`, `GatedHit`, `QueueTask`), because the rows of other
seeds can change module between two of them. `ExtraAllowed` is
`_vuln_limit_override`: beyond the limit only for a fresh seed of the generated lane, and the first
of its module. `BoundarySeed` and `EmitSeed` overwrite the module of a seed whose content
repeats, which is what the row merge does. `EmitSeed` is one of up to `inject_limit` seeds, as in the other pipeline. `InjectStaged` and `MoveStaged`
are separate because an exception may come between them (`GiveUp`). Thread D takes the first staged file by name; the
model takes any.

### StartupRecovery

One action per phase of one attempt. `bad` is fixed in the initial state and is
never consulted by the controller: it is the truth that `honest` (a history variable)
compares verdicts with. Failures are otherwise free: any kind may be reported, with any name or none.
Two values are sizes that the code reads once per attempt: `failure.count` is the
count taken before the start. The directory of enriched seeds is taken to exist when
the delivery is "sync".

### InitialReplayGate

The record is copied by `ReadProgress` and `ReadForTimeout` and written back from the copy by
`WriteProgress` and `OpenByTimeout`; both threads may be between the two. `absent` are names
counted in `expected_count` that never reach `afl-fuzz`'s queue, because startup recovery
quarantined them after they were counted.

## 3. Runs

| Run | Instance | What it shows |
|---|---|---|
| `sync_safety` | 2 writers, ids up to 2, one leftover file, seeds of a size that is ignored | nothing overwritten, nothing run twice, final names are whole; implements `SeedMailbox` |
| `sync_fair` | ids up to 1, fair scans | a seed of ordinary size at or above the number, between scans, is imported unless `afl-fuzz` stops |
| `sync_lost` | no leftover | **violation**: see section 6 |
| `boundary_retry` | 2 targets, limit 2, batches of 1, at most 3 batches | budget, late tasks, order of attempts, standing flips; implements `TargetWork` |
| `boundary_coverage` | 2 targets, limit 1, batches of 2, at most 2 batches, "coverage" lane | batches do not overlap |
| `boundary_fair` | batches of 2, one batch, up to 3 seeds for a task, fair | a batch ends, or feedback is degraded; an open batch has work; implements `TaskLifecycle` |
| `vuln_budget` | 2 targets (1 in the catalog), 4 seeds, limit 2, extra 1, 2 hits | budget, duplicates, verdicts |
| `vuln_work` | as `vuln_budget`, with the target in the catalog alone | implements `TargetWork` |
| `vuln_fair` | 2 targets, 1 seed, limit 1, 2 hits, a staged file, up to 3 seeds for a task, fair worker | staged seeds are not lost, no task is left leased, tasks finish; implements `TaskLifecycle` |
| `startup_input` | 3 seeds, screened, limits 3 and 2 | nothing lost, last seed stays, healthy corpus starts |
| `startup_sync` | 1 seed and 3 enriched ones, limits 4 and 2, copies 2 | no comeback, last seed stays or all enriched ones have failed, healthy corpus starts, every step is one fewer, startup ends |
| `initial_replay` | 3 initial seeds, fair | the gate opens only when earned, lost updates are harmless, a shut gate waits for seeds, the gate opens and stays open |

Bounds. `MaxId` stops injections and `MaxBatches` stops collections; both are guards
of a single action and the properties do not mention the bounds. Two ids are enough for a
name to be taken, retried, and passed by the number; three batches (two in the larger
instance) let a target be tried, retried and reach the limit while the other is settled late. A task row is
never deleted, so the vuln instances are finite through the budget itself. `InjectLimit` is 3, the largest the code
allows, in the two runs that check `TaskLifecycle`, and 1 in the other runs of the pipelines, whose properties do
not tell one seed of a task from the next. Limits of
the code (16, 3 and 32 in startup, 3, 5, 3 and 2 in scheduling) are replaced by the smallest
numbers that keep their order; the assumptions named in the modules say what is
needed of them. Symmetry is used on the targets of the boundary safety runs and on the seeds of
`vuln_budget` and `vuln_work`, where the instances do not tell them apart, and in no
liveness run.

Deadlock is checked in all runs but those of `StartupRecovery`, where startup is over once it
is ready or failed, of `SyncHandoff`, where nothing is left to do once `afl-fuzz` has stopped and the
last id is used, and of `InitialReplayGate`, where nothing is left to do once the replay thread
has died and the time is up.

Every property has a mutant: a variant of a mapped definition with a plausible bug, placed just before
it and marked `Mutant`, which breaks the property.

## 4. Fairness

- `sync_fuzzers` is called from the main loop of `afl-fuzz` every `SYNC_INTERVAL` rounds, and
  its loop over the directory ends: weak fairness of opening, reading and ending a scan.
- Threads C and D loop with a timed wait and no lock held across it; the model call of D has a
  timeout and its failure finishes the task: weak fairness of `Scheduler`, `CloseBatch` and `Worker`.
  `CloseBatch` has its own because C drains the result queue first; this assumes that
  results arrive more slowly than they are taken, and each replay takes seconds.
- Startup is one thread whose waits have deadlines: weak fairness of `Next`.
- Threads B and C in `InitialReplayGate`, and time, are weakly fair; the health of the
  feedback and the death of B are not. `GateStaysOpen` therefore assumes that the feedback stays healthy.
  `GateOpens` has the death of the thread as its alternative; it asks for healthy feedback only when
  some seed is absent, because completion by count does not look at it, and it promises nothing when all are
  absent, because the timeout needs one replayed seed.

## 5. Proofs

Proved for all values of the constants that satisfy the named assumptions, by an invariant
that holds initially and is preserved by each action:

- `SyncHandoff_proofs`. `TypeCorrect`; `NamesAreFresh` (`NoOverwrite`): the names a writer has
  found free stay free because other writers use other tags, and ids only grow;
  `NoEntryRunTwice` (`AtMostOnce`): whatever has been run lies below the remembered number or
  among the names the current scan has returned; `FinalSeedsAreWhole`
  (`FinalIsWhole`): only temporary names are ever incomplete.
  `HandoffIsMailbox` (`ImplementsSeedMailbox`): every step is a step of the mailbox or none. It rests on
  the three invariants above and on `DueInv`: what a scan still has to return under a final name is in
  the directory, and between scans nothing is owed. A seed that is ignored is passed from the moment it is
  placed (`FinalIsItself` and `StopMailbox` are the lemmas for it and for the stop).
- `TaskTable_proofs`. What creating, claiming and finishing a row does to the counts, to the sets of rows by
  status, and to the three variables of `TargetWork`; cited by both pipelines.
- `BoundaryPipeline_proofs`. `OneBatchAtATime`: open rows carry the number of the batch
  being created or of the published one, and while there is an active batch no other is begun;
  `AttemptsBounded`: a row count above the limit needs a target recorded as flipped when the batch was
  chosen, which in the handoff lane is analyzed; `LateOnce`: a target that is analyzed is not
  chosen again, so only the batch being created can be late;
  `UntriedComeFirst` and `FlipsStand` are action properties proved from the same invariants.
  `BoundaryTasksRunOnce` (`ImplementsTaskLifecycle`) rests on `LeaseInv`, the leased row is the one the worker is at
  until `Skip` or `FinishEmitted`, and `SeedInv`, seeds are out for finished rows and that one.
  `BoundaryWorkIsBudgeted` (`ImplementsTargetWork`) adds `WorkInv`: the rows of a target are no more, and of no
  later batches, than the batches there have been; that makes the batch number new for the target, and
  bounds the coverage lane. `BatchesCanEnd` (`OpenBatchHasWork`) adds that a batch is published with rows in it.
- `VulnPipeline_proofs`. `BudgetKept`, `NoWorkTwice`, `VerdictEarned`: from the counts and the
  guards of `QueueTask`; `StagedKept`: a file is out of `pending` only when it is injected.
  `VulnTasksRunOnce`, `VulnWorkIsBudgeted` and `NoTaskStranded` (`LeasedIsHeld`) as in the other pipeline.
- `InitialReplayGate_proofs`. `GateEarned` (`OpenOnlyWhenEarned`): the copies the threads hold
  are as good as the metric they will replace; `UndoneHarmlessly` (`LostUpdatesAreHarmless`): what C
  holds is never more than the metric, and what B holds never less, since only C's write drops names;
  `ShutGateWaits` (`ShutGateAwaitsSeeds`): a record read while the gate was shut lacks only seeds that are still to
  come, so a write that shuts the gate brings the dropped names back.
- `StartupRecovery_proofs`. `SeedsAreKept` and `QuarantineIsFinal` are inductive as they stand.
  `GoodSeedStarts` (`HealthyCorpusStarts`) needs an invariant that pays for every attempt: as long as
  every verdict was right, only bad seeds are in `pending`, and each attempt has put one there, but for
  attempts spent on a last seed that nothing can replace, and then the whole corpus is bad. So giving up
  means as many bad seeds as attempts. `OneSeedRemains` (`LastSeedStays`): the count taken before the start
  is still that of the directory when the blamed seed is moved by quarantine; when it is moved by the replacement
  and none was accepted, every fresh seed was rejected, and all others were in `pending` before. `StartupIsBounded` (`StepsRunOut`): a natural
  number gets smaller with every step.

The assumptions are those the modules name: limits are naturals, positive where a limit of zero
would schedule nothing, sets of targets and seeds are finite, tags are disjoint, no seed has the name that stands for "none".
TLC evaluates them in the runs.

Only model-checked: the liveness properties (`InTimeIsImported`, `BatchEventuallyCloses`,
`TasksFinish`, `StartupEnds`, `GateStaysOpen`, `GateOpens`), which are out of the prover's reach. What each of
them rests on, apart from fairness, is proved: a scan that ends has taken what it owed (`HandoffIsMailbox`), an
open batch has work (`BatchesCanEnd`), a leased task has its worker (`NoTaskStranded`), startup runs out
of steps (`StartupIsBounded`), a shut gate waits for seeds that are on their way unless some are absent (`ShutGateWaits`).
Every invariant, action property and refinement of the passing runs has a theorem. The abstract `TargetWork`
counts with a variable and not with `Cardinality`, because an instance has operators of its own for those of
a module it extends, and the prover does not identify the two.

## 6. Finding

`sync_lost`. `inject_seed` is documented to write a seed "so AFLNet can import it automatically".
`afl-fuzz` remembers the highest id it has seen plus one, and looks at nothing below.
A scan that runs between the creation of the `.tmp` file and the rename raises the number past
the id of the seed; so does a scan that sees a higher id of the other thread first. The seed is
then in place and is never imported under its final name. What does hold is
`InTimeIsImported`: a seed that is in place before the number passes it is imported.

Other observations, not stated as findings: `expected_count` is taken before startup recovery, so that
after a quarantine only the timeout opens the boundary gate; a note of thread B can shut a gate
that C has just opened, until C opens it again; `flip_confirmation_queue` has no consumer.

## 7. Plan

In this order:

1. `SeedLineage`: merge of seed metadata in `_scan_queue` and `upsert_seed`, lanes, the targets a
   replay may report as flipped;
2. `BootstrapInjection`: before-AFL, after-AFL and asynchronous injection by controller and watcher;
3. `ChildReaper`: `waitpid` against `subprocess.run`;
4. `ReplayHealth`: the window of recent replays and how feedback becomes degraded and recovers;
5. `RuntimeLifecycle`: threads that die, the import-health gate, shutdown, the stand-alone monitor;
6. composition of `InitialReplayGate` with `BoundaryPipeline`.

Hazards without a property yet: the metadata merge (1), double injection and the asynchronous groups (2),
the reaper (3), feedback that stays degraded (4), threads that die and `import_health` (5). The repeated injection
of a staged file whose move failed is in the model, but the code promises nothing about it. Two more are
covered in part, as their notes say: a flip inside D's own window between reading and retiring is overwritten, and in the
"coverage" lane a flipped target is retried without end.

## 8. Not modelled

Prompts, answers and their repair (`mutation_executor.py`, `llm.py`, `agent/`, most of
`mutation_worker.py`): the pipelines see the outcome of a task, which is a free choice. Coverage capture and
attribution, scores and priorities: free choices likewise. Knowledge extraction, PSEI and CLI run offline.
AFLNet beyond `sync_fuzzers` is upstream. A crash of the runtime itself is not modelled: a run has its own
state directory and is not resumed.
