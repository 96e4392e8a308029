----------------------- MODULE BoundaryPipeline_proofs -----------------------
(***************************************************************************)
(* Proofs about BoundaryPipeline for any number of targets, any limit, any  *)
(* size of a batch, either lane and any number of batches.                  *)
(***************************************************************************)
EXTENDS BoundaryPipeline, TaskTable_proofs

\* The disjuncts of Next, one per line of a case split.
LEMMA StepCases ==
    ASSUME [Next]_vars
    PROVE  \/ ConsumeResult \/ CloseBatch \/ PassGates \/ Collect
           \/ CreateNext \/ PublishBatch
           \/ Claim \/ GiveUp \/ Skip \/ ReadVerdict \/ Retire \/ Emit
           \/ FinishEmitted
           \/ ReplayEmitted \/ ReplayQueueSeed \/ WatchImported
           \/ InitialReplayGateMoves \/ StagnationPasses
           \/ UNCHANGED vars
BY DEF Next, Scheduler, Worker, Environment

-----------------------------------------------------------------------------
(* Types.  A new row's batch_id is in range because the gate in front of the *)
(* collection looked at the number of batches.                               *)

TypeInv ==
    /\ TypeOK
    /\ sched.pc # "idle" => batch.id < MaxBatches

LEMMA InitTypeInv == Init => TypeInv
<1> SUFFICES ASSUME Init PROVE TypeInv
  OBVIOUS
<1>1. tasks \in Seq(Row)
  BY EmptySeq DEF Init
<1>2. sched \in SchedState
  BY DEF Init, SchedState
<1>3. worker \in WorkerState
  BY LimitsAssumption DEF Init, WorkerState, Verdict
<1>4. verdict \in [Targets -> Verdict]
  BY DEF Init, Verdict
<1>5. batch \in [active : BOOLEAN, id : 0..MaxBatches]
  BY LimitsAssumption DEF Init
<1>6. sched.pc = "idle" /\ worker.pc = "idle"
  BY DEF Init
<1>7. late \in [Targets -> Nat] /\ analyzed \in [Targets -> BOOLEAN]
  BY DEF Init
<1>8. clock \in [initial : BOOLEAN, quiet : BOOLEAN] /\ degraded \in BOOLEAN
  BY DEF Init
<1>9. known \in SUBSET Targets /\ emitted = {} /\ replays = {} /\ reports = {}
  BY DEF Init
<1> QED
  BY <1>1, <1>2, <1>3, <1>4, <1>5, <1>6, <1>7, <1>8, <1>9 DEF TypeInv, TypeOK

LEMMA TargetType ==
    ASSUME TypeInv, NEW i \in DOMAIN tasks
    PROVE  tasks[i].target \in Targets
<1>1. tasks \in Seq(Row) /\ i \in 1..Len(tasks)
  BY DEF TypeInv, TypeOK
<1>2. tasks[i] \in Row
  BY <1>1, ElementOfSeq
<1> QED BY <1>2 DEF Row

\* A row of the table, seen from the worker.
LEMMA FinishStep ==
    ASSUME TypeInv, worker.pc # "idle", NEW outcome \in {"completed", "failed"},
           FinishTask(worker.task, outcome)
    PROVE  /\ tasks' \in Seq(Row)
           /\ SameRows
           /\ \A j \in DOMAIN tasks : IsActive(j)' => IsActive(j)
<1>1. worker.task \in DOMAIN tasks /\ tasks \in Seq(Row)
  BY DEF TypeInv, TypeOK
<1>2. /\ tasks' \in Seq(Row)
      /\ SameRows
      /\ tasks'[worker.task].status = outcome
      /\ \A j \in DOMAIN tasks : j # worker.task => tasks'[j] = tasks[j]
  BY <1>1, StatusStep DEF FinishTask, Status
<1> QED BY <1>1, <1>2 DEF IsActive, ActiveStatus

LEMMA ClaimStep ==
    ASSUME TypeInv, NEW i \in DOMAIN tasks, ClaimTask(i)
    PROVE  /\ tasks' \in Seq(Row)
           /\ SameRows
           /\ \A j \in DOMAIN tasks : IsActive(j)' => IsActive(j)
<1>1. tasks \in Seq(Row)
  BY DEF TypeInv, TypeOK
<1>2. /\ tasks' \in Seq(Row)
      /\ SameRows
      /\ \A j \in DOMAIN tasks : j # i => tasks'[j] = tasks[j]
  BY <1>1, StatusStep DEF ClaimTask, Status
<1> QED BY <1>1, <1>2 DEF IsActive, ActiveStatus, ClaimTask

\* What CreateNext does for one target.
CreateFor(t) ==
    IF HasActiveTask(t) \/ AttemptsSpent(t, t \in sched.flipped)
    THEN /\ sched' = [sched EXCEPT !.todo = @ \ {t}]
         /\ UNCHANGED <<tasks, late>>
    ELSE /\ sched' = [sched EXCEPT !.todo = @ \ {t}, !.queued = TRUE]
         /\ CreateTask(t, batch.id + 1)
         /\ late' = IF analyzed[t] THEN [late EXCEPT ![t] = @ + 1] ELSE late

LEMMA CreateNextFor ==
    ASSUME TypeInv, CreateNext
    PROVE  \E t \in sched.todo : CreateFor(t) /\ t \in Targets
BY DEF CreateNext, CreateFor, TypeInv, TypeOK, SchedState

\* The scheduler's own record, whichever step it takes.
LEMMA SchedStep ==
    ASSUME TypeInv, Scheduler
    PROVE  sched' \in SchedState
<1> USE DEF TypeInv, TypeOK, SchedState
<1>1. CASE ConsumeResult
  BY <1>1 DEF ConsumeResult
<1>2. CASE CloseBatch \/ PassGates \/ PublishBatch
  BY <1>2 DEF CloseBatch, PassGates, PublishBatch
<1>3. CASE Collect
  <2> DEFINE pool == IF sched.context THEN Pool(Candidates(known')) ELSE {}
  <2>1. pool \subseteq Targets
    <3>1. known' \in SUBSET Targets
      BY <1>3 DEF Collect
    <3> QED BY <3>1 DEF Pool, Candidates
  <2>2. \/ sched' = [sched EXCEPT !.pc = "idle"]
        \/ \E S \in Batches(pool) :
             sched' = [sched EXCEPT
                         !.pc = "creating", !.todo = S, !.queued = FALSE,
                         !.flipped = {t \in S : verdict[t] = "flipped"}]
    BY <1>3 DEF Collect
  <2>3. CASE sched' = [sched EXCEPT !.pc = "idle"]
    BY <2>3
  <2>4. ASSUME NEW S \in Batches(pool),
               sched' = [sched EXCEPT
                           !.pc = "creating", !.todo = S, !.queued = FALSE,
                           !.flipped = {t \in S : verdict[t] = "flipped"}]
        PROVE  sched' \in SchedState
    <3>1. S \in SUBSET Targets
      BY <2>1 DEF Batches
    <3> QED BY <2>4, <3>1
  <2> QED BY <2>2, <2>3, <2>4
<1>4. CASE CreateNext
  <2> PICK t \in sched.todo : CreateFor(t)
    BY <1>4, CreateNextFor
  <2>1. CASE sched' = [sched EXCEPT !.todo = @ \ {t}]
    BY <2>1
  <2>2. CASE sched' = [sched EXCEPT !.todo = @ \ {t}, !.queued = TRUE]
    BY <2>2
  <2> QED BY <2>1, <2>2 DEF CreateFor
<1> QED BY <1>1, <1>2, <1>3, <1>4 DEF Scheduler

LEMMA StepTypeInv == TypeInv /\ [Next]_vars => TypeInv'
<1> SUFFICES ASSUME TypeInv, [Next]_vars PROVE TypeInv'
  OBVIOUS
<1> USE LimitsAssumption DEF TypeInv, TypeOK, targetVars, workerOthers, replayOthers
<1>1. CASE ConsumeResult
  <2>1. sched' \in SchedState /\ sched'.pc = sched.pc
    BY <1>1, SchedStep DEF Scheduler, ConsumeResult, SchedState
  <2>2. verdict' \in [Targets -> Verdict] /\ reports' \subseteq Targets \cup {NoFlip}
    BY <1>1 DEF ConsumeResult, Verdict
  <2> QED BY <1>1, <2>1, <2>2 DEF ConsumeResult
<1>2. CASE CloseBatch
  BY <1>2 DEF CloseBatch
<1>3. CASE PassGates
  BY <1>3, SchedStep DEF PassGates, Scheduler
<1>4. CASE Collect
  <2>1. sched' \in SchedState /\ sched.pc # "idle"
    BY <1>4, SchedStep DEF Scheduler, Collect
  <2> QED BY <1>4, <2>1 DEF Collect
<1>5. CASE CreateNext
  <2>1. sched' \in SchedState /\ sched.pc # "idle"
    BY <1>5, SchedStep DEF Scheduler, CreateNext
  <2> PICK t \in Targets : CreateFor(t)
    BY <1>5, CreateNextFor
  <2>2. CASE UNCHANGED <<tasks, late>>
    BY <1>5, <2>1, <2>2 DEF CreateNext
  <2>3. CASE CreateTask(t, batch.id + 1)
    <3>1. batch.id + 1 \in Contexts
      BY <1>5 DEF CreateNext
    <3>2. tasks' \in Seq(Row) /\ DOMAIN tasks \subseteq DOMAIN tasks'
      BY <2>3, <3>1, CreateStep
    <3>3. late' \in [Targets -> Nat]
      BY DEF CreateFor
    <3> QED BY <1>5, <2>1, <3>2, <3>3 DEF CreateNext
  <2> QED BY <2>2, <2>3 DEF CreateFor
<1>6. CASE PublishBatch
  <2>1. sched' \in SchedState /\ sched'.pc = "idle"
    BY <1>6, SchedStep DEF Scheduler, PublishBatch, SchedState
  <2>2. batch' \in [active : BOOLEAN, id : 0..MaxBatches]
    BY <1>6 DEF PublishBatch
  <2> QED BY <1>6, <2>1, <2>2 DEF PublishBatch
<1>7. CASE Claim
  <2> PICK i \in DOMAIN tasks :
         /\ ClaimTask(i)
         /\ worker' = [worker EXCEPT !.pc = "running", !.task = i]
    BY <1>7 DEF Claim
  <2>1. tasks' \in Seq(Row) /\ DOMAIN tasks' = DOMAIN tasks
    BY ClaimStep DEF SameRows
  <2>2. i \in Nat
    OBVIOUS
  <2>3. worker' \in WorkerState /\ worker'.task \in DOMAIN tasks
    BY <2>2 DEF WorkerState
  <2> QED BY <1>7, <2>1, <2>3 DEF Claim
<1>8. CASE GiveUp \/ Skip \/ FinishEmitted
  <2>1. tasks' \in Seq(Row) /\ DOMAIN tasks' = DOMAIN tasks
    BY <1>8, FinishStep DEF SameRows, GiveUp, Skip, FinishEmitted
  <2>2. worker' \in WorkerState /\ worker'.task = worker.task /\ worker.pc # "idle"
    <3>1. 0 \in 0..InjectLimit
      BY LimitsAssumption
    <3> QED BY <1>8, <3>1 DEF WorkerState, GiveUp, Skip, FinishEmitted
  <2> QED BY <1>8, <2>1, <2>2 DEF GiveUp, Skip, FinishEmitted
<1>9. CASE ReadVerdict
  <2>1. Target \in Targets
    BY <1>9, TargetType DEF ReadVerdict, Target
  <2>2. worker' \in WorkerState /\ worker'.task = worker.task /\ worker.pc # "idle"
    BY <1>9, <2>1 DEF ReadVerdict, WorkerState
  <2> QED BY <1>9, <2>2 DEF ReadVerdict
<1>10. CASE Retire
  <2>1. /\ verdict' \in [Targets -> Verdict]
        /\ analyzed' \in [Targets -> BOOLEAN]
    BY <1>10 DEF Retire, Verdict
  <2>2. worker' \in WorkerState /\ worker'.pc = "idle"
    BY <1>10 DEF Retire, WorkerState
  <2> QED BY <1>10, <2>1, <2>2 DEF Retire
<1>11. CASE Emit
  <2>1. worker' \in WorkerState /\ worker'.task = worker.task /\ worker.pc # "idle"
    <3>1. worker.seeds + 1 \in 0..InjectLimit
      BY <1>11, LimitsAssumption DEF Emit, WorkerState
    <3> QED BY <1>11, <3>1 DEF Emit, WorkerState
  <2>2. emitted' \subseteq DOMAIN tasks /\ replays' \subseteq emitted'
    BY <1>11, <2>1 DEF Emit, EnqueueGeneratedSeed
  <2> QED BY <1>11, <2>1, <2>2 DEF Emit
<1>12. CASE ReplayEmitted
  <2> PICK i \in replays :
         /\ replays' \in {replays, replays \ {i}}
         /\ \/ /\ reports' = reports \cup {NoFlip}
               /\ UNCHANGED <<analyzed, verdict>>
            \/ /\ reports' = reports \cup {tasks[i].target}
               /\ IF Lane = "coverage"
                  THEN UNCHANGED <<analyzed, verdict>>
                  ELSE /\ analyzed' = [analyzed EXCEPT ![tasks[i].target] = TRUE]
                       /\ verdict' = [verdict EXCEPT ![tasks[i].target] = "flipped"]
    BY <1>12 DEF ReplayEmitted
  <2>1. tasks[i].target \in Targets
    BY TargetType
  <2>2. /\ reports' \subseteq Targets \cup {NoFlip}
        /\ analyzed' \in [Targets -> BOOLEAN]
        /\ verdict' \in [Targets -> Verdict]
        /\ replays' \subseteq emitted
    BY <2>1 DEF Verdict
  <2>3. clock' \in [initial : BOOLEAN, quiet : BOOLEAN] /\ degraded' \in BOOLEAN
    BY <1>12 DEF ReplayEmitted, NoteReplay
  <2> QED BY <1>12, <2>2, <2>3 DEF ReplayEmitted
<1>13. CASE ReplayQueueSeed
  <2>1. clock' \in [initial : BOOLEAN, quiet : BOOLEAN] /\ degraded' \in BOOLEAN
    BY <1>13 DEF ReplayQueueSeed, NoteReplay
  <2> QED BY <1>13, <2>1 DEF ReplayQueueSeed
<1>14. CASE WatchImported
  BY <1>14 DEF WatchImported
<1>15. CASE InitialReplayGateMoves \/ StagnationPasses
  <2>1. (~clock.initial) \in BOOLEAN
    BY Zenon
  <2>2. clock' \in [initial : BOOLEAN, quiet : BOOLEAN]
    <3>1. CASE InitialReplayGateMoves
      BY <2>1, <3>1, Zenon DEF InitialReplayGateMoves
    <3>2. CASE StagnationPasses
      BY <3>2 DEF StagnationPasses
    <3> QED BY <1>15, <3>1, <3>2
  <2>3. UNCHANGED <<replays, analyzed, verdict, degraded, reports, replayOthers>>
    BY <1>15 DEF InitialReplayGateMoves, StagnationPasses
  <2> QED BY <2>2, <2>3
<1>16. CASE UNCHANGED vars
  BY <1>16 DEF vars
<1> QED
  BY <1>1, <1>2, <1>3, <1>4, <1>5, <1>6, <1>7, <1>8, <1>9, <1>10, <1>11, <1>12,
     <1>13, <1>14, <1>15, <1>16, StepCases

\* Every state of the system has the types TypeOK states.
THEOREM TypeCorrect == Spec => []TypeOK
<1>1. TypeInv => TypeOK
  BY DEF TypeInv
<1> QED BY <1>1, InitTypeInv, StepTypeInv, PTL DEF Spec

-----------------------------------------------------------------------------
(* One batch at a time.  Open rows belong to the batch the metric names, or, *)
(* before the metric is written, to the one being created; so a batch that   *)
(* is closed leaves no open row behind.                                      *)

BatchInv ==
    /\ BatchesDoNotOverlap
    /\ batch.active => sched.pc = "idle"
    /\ \A i \in DOMAIN tasks :
          IsActive(i) =>
             \/ batch.active /\ tasks[i].context = batch.id
             \/ /\ ~batch.active /\ sched.pc = "creating" /\ sched.queued
                /\ tasks[i].context = batch.id + 1

LEMMA BatchInvSettles ==
    ASSUME BatchInv, SameRows, UNCHANGED <<batch, sched>>,
           \A i \in DOMAIN tasks : IsActive(i)' => IsActive(i)
    PROVE  BatchInv'
BY DEF BatchInv, BatchesDoNotOverlap, SameRows

LEMMA BatchInvKept ==
    ASSUME BatchInv, UNCHANGED <<tasks, batch, sched>>
    PROVE  BatchInv'
BY DEF BatchInv, BatchesDoNotOverlap, IsActive

LEMMA StepBatchInv == TypeInv /\ BatchInv /\ [Next]_vars => BatchInv'
<1> SUFFICES ASSUME TypeInv, BatchInv, [Next]_vars PROVE BatchInv'
  OBVIOUS
<1>1. ASSUME tasks' = tasks, batch' = batch, sched'.pc = sched.pc, sched'.queued = sched.queued
      PROVE  BatchInv'
  BY <1>1 DEF BatchInv, BatchesDoNotOverlap, IsActive
<1>2. CASE ConsumeResult
  <2>1. sched'.pc = sched.pc /\ sched'.queued = sched.queued
    BY <1>2 DEF ConsumeResult, TypeInv, TypeOK, SchedState
  <2> QED BY <1>1, <1>2, <2>1 DEF ConsumeResult
<1>3. CASE CloseBatch
  <2>1. batch'.active = FALSE /\ batch'.id = batch.id
    BY <1>3 DEF CloseBatch, TypeInv, TypeOK
  <2>2. \A i \in DOMAIN tasks : ~IsActive(i)
    BY <1>3 DEF CloseBatch, BatchOpen, RowsIn, BatchInv
  <2> QED BY <1>3, <2>1, <2>2 DEF CloseBatch, BatchInv, BatchesDoNotOverlap, IsActive
<1>4. CASE PassGates \/ Collect
  <2>1. \A i \in DOMAIN tasks : ~IsActive(i)
    BY <1>4 DEF PassGates, Collect, BatchInv
  <2>2. ~batch.active
    BY <1>4 DEF PassGates, Collect, BatchInv
  <2> QED BY <1>4, <2>1, <2>2 DEF PassGates, Collect, BatchInv, BatchesDoNotOverlap, IsActive
<1>5. CASE CreateNext
  <2> PICK t \in sched.todo : CreateFor(t) /\ t \in Targets
    BY <1>5, CreateNextFor
  <2>1. ~batch.active /\ UNCHANGED batch
    BY <1>5 DEF CreateNext, BatchInv
  <2>2. sched' \in SchedState /\ sched'.pc = "creating"
    BY <1>5, SchedStep DEF Scheduler, CreateNext, CreateFor, TypeInv, TypeOK, SchedState
  <2>3. CASE HasActiveTask(t) \/ AttemptsSpent(t, t \in sched.flipped)
    <3>1. sched'.queued = sched.queued /\ sched'.pc = sched.pc /\ UNCHANGED tasks
      BY <2>3 DEF CreateFor, TypeInv, TypeOK, SchedState
    <3> QED BY <1>1, <2>1, <3>1
  <2>4. CASE ~(HasActiveTask(t) \/ AttemptsSpent(t, t \in sched.flipped))
    <3> DEFINE n == Len(tasks) + 1
    <3>1. batch.id + 1 \in Contexts /\ CreateTask(t, batch.id + 1)
      BY <1>5, <2>4, LimitsAssumption DEF CreateNext, CreateFor, TypeInv, TypeOK
    <3>2. /\ DOMAIN tasks' = DOMAIN tasks \cup {n}
          /\ n \notin DOMAIN tasks
          /\ \A i \in DOMAIN tasks : tasks'[i] = tasks[i]
          /\ tasks'[n] = [target |-> t, context |-> batch.id + 1, status |-> "pending"]
      BY <3>1, CreateStep DEF TypeInv, TypeOK
    <3>3. sched'.queued
      BY <2>4 DEF CreateFor, TypeInv, TypeOK, SchedState
    <3> HIDE DEF n
    <3>4. tasks'[n].target = t /\ tasks'[n].context = batch.id + 1
      BY <3>2
    <3>5. \A i \in DOMAIN tasks : IsActive(i) =>
             tasks[i].target # t /\ tasks[i].context = batch.id + 1
      BY <2>1, <2>4 DEF HasActiveTask, Rows, BatchInv
    <3>6. BatchesDoNotOverlap'
      BY <3>2, <3>4, <3>5 DEF BatchInv, BatchesDoNotOverlap, IsActive
    <3>7. \A i \in DOMAIN tasks' : IsActive(i)' => tasks'[i].context = batch.id + 1
      BY <3>2, <3>4, <3>5 DEF IsActive
    <3> QED BY <2>1, <2>2, <3>3, <3>6, <3>7 DEF BatchInv
  <2> QED BY <2>3, <2>4
<1>6. CASE PublishBatch
  <2>1. ~batch.active /\ UNCHANGED tasks
    BY <1>6 DEF PublishBatch, BatchInv
  <2>2. sched'.pc = "idle"
    BY <1>6 DEF PublishBatch, TypeInv, TypeOK, SchedState
  <2>3. CASE sched.queued
    <3>1. batch'.active /\ batch'.id = batch.id + 1
      BY <1>6, <2>3 DEF PublishBatch
    <3> QED BY <2>1, <2>2, <3>1 DEF BatchInv, BatchesDoNotOverlap, IsActive
  <2>4. CASE ~sched.queued
    <3>1. \A i \in DOMAIN tasks : ~IsActive(i)
      BY <2>1, <2>4 DEF BatchInv
    <3>2. batch' = batch
      BY <1>6, <2>4 DEF PublishBatch
    <3> QED BY <2>1, <2>2, <3>1, <3>2 DEF BatchInv, BatchesDoNotOverlap, IsActive
  <2> QED BY <2>3, <2>4
<1>7. CASE Claim
  <2>1. PICK i \in DOMAIN tasks : ClaimTask(i)
    BY <1>7 DEF Claim
  <2> QED BY <1>7, <2>1, ClaimStep, BatchInvSettles DEF Claim, workerOthers
<1>8. CASE GiveUp \/ Skip \/ FinishEmitted
  <2>1. PICK outcome \in {"completed", "failed"} : FinishTask(worker.task, outcome)
    BY <1>8 DEF GiveUp, Skip, FinishEmitted
  <2>2. worker.pc # "idle" /\ UNCHANGED <<batch, sched>>
    BY <1>8 DEF GiveUp, Skip, FinishEmitted, workerOthers
  <2> QED BY <2>1, <2>2, FinishStep, BatchInvSettles
<1>9. CASE ReadVerdict \/ Retire \/ Emit
  BY <1>9, BatchInvKept DEF ReadVerdict, Retire, Emit, workerOthers
<1>10. CASE Environment
  BY <1>10, BatchInvKept
  DEF Environment, ReplayEmitted, ReplayQueueSeed, WatchImported,
      InitialReplayGateMoves, StagnationPasses, replayOthers
<1>11. CASE UNCHANGED vars
  BY <1>11, BatchInvKept DEF vars
<1> QED
  BY <1>2, <1>3, <1>4, <1>5, <1>6, <1>7, <1>8, <1>9, <1>10, <1>11
  DEF Next, Scheduler, Worker

\* Open tasks belong to one batch and work on different targets.
THEOREM OneBatchAtATime == Spec => []BatchesDoNotOverlap
<1>1. Init => BatchInv
  BY DEF Init, BatchInv, BatchesDoNotOverlap
<1>2. BatchInv => BatchesDoNotOverlap
  BY DEF BatchInv
<1> QED BY <1>1, <1>2, InitTypeInv, StepTypeInv, StepBatchInv, PTL DEF Spec

-----------------------------------------------------------------------------
(* Settled targets.  Nothing makes a settled target unsettled; in the        *)
(* handoff lane a flip is never seen before the target is analyzed, so the   *)
(* exemption for confirmed flips never applies there.                        *)

Settled(t) == verdict[t] = "flipped" \/ analyzed[t]

LEMMA SettledForGood ==
    ASSUME TypeInv, [Next]_vars, NEW t \in Targets
    PROVE  /\ analyzed[t] => analyzed'[t]
           /\ Settled(t) => Settled(t)'
<1> USE DEF TypeInv, TypeOK, Settled
<1>1. CASE ConsumeResult
  BY <1>1 DEF ConsumeResult
<1>2. CASE Retire
  BY <1>2 DEF Retire
<1>3. CASE ReplayEmitted
  BY <1>3 DEF ReplayEmitted
<1>4. CASE UNCHANGED targetVars
  BY <1>4 DEF targetVars
<1>5. CASE UNCHANGED <<analyzed, verdict>>
  BY <1>5
<1> QED
  BY <1>1, <1>2, <1>3, <1>4, <1>5, StepCases
  DEF CloseBatch, PassGates, Collect, CreateNext, PublishBatch, Claim, GiveUp,
      Skip, ReadVerdict, Emit, FinishEmitted, ReplayQueueSeed, WatchImported,
      InitialReplayGateMoves, StagnationPasses, vars, targetVars

\* The targets a batch is collected from.
LEMMA CollectStep ==
    ASSUME TypeInv, Collect
    PROVE  \/ sched' = [sched EXCEPT !.pc = "idle"]
           \/ /\ sched' = [sched EXCEPT
                             !.pc = "creating", !.todo = sched'.todo, !.queued = FALSE,
                             !.flipped = {t \in sched'.todo : verdict[t] = "flipped"}]
              /\ sched'.todo \subseteq known'
              /\ \A t \in sched'.todo : ~analyzed[t]
              /\ \/ \A t \in sched'.todo : CountTasks(t) = 0
                 \/ \A u \in known' : analyzed[u] \/ CountTasks(u) >= 1
<1> DEFINE pool == IF sched.context THEN Pool(Candidates(known')) ELSE {}
<1>1. \/ sched' = [sched EXCEPT !.pc = "idle"]
      \/ \E S \in Batches(pool) :
           sched' = [sched EXCEPT
                       !.pc = "creating", !.todo = S, !.queued = FALSE,
                       !.flipped = {t \in S : verdict[t] = "flipped"}]
  BY DEF Collect
<1>2. ASSUME NEW S \in Batches(pool),
             sched' = [sched EXCEPT
                         !.pc = "creating", !.todo = S, !.queued = FALSE,
                         !.flipped = {t \in S : verdict[t] = "flipped"}]
      PROVE  /\ sched'.todo = S
             /\ S \subseteq known'
             /\ \A t \in S : ~analyzed[t]
             /\ \/ \A t \in S : CountTasks(t) = 0
                \/ \A u \in known' : analyzed[u] \/ CountTasks(u) >= 1
  <2>1. sched'.todo = S
    BY <1>2 DEF TypeInv, TypeOK, SchedState
  <2>2. S \subseteq Pool(Candidates(known'))
    BY DEF Batches
  <2>3. S \subseteq Candidates(known')
    BY <2>2 DEF Pool
  <2>4. \A u : CountTasks(u) \in Nat
    BY RowsFinite DEF TypeInv, TypeOK
  <2>5. \A u \in known' : analyzed[u] \/ u \in Candidates(known') \/ CountTasks(u) >= 1
    BY <2>4, LimitsAssumption DEF Candidates, AttemptsSpent
  <2>6. \/ \A t \in S : CountTasks(t) = 0
        \/ \A u \in Candidates(known') : CountTasks(u) # 0
    BY <2>2 DEF Pool
  <2> QED BY <2>1, <2>3, <2>4, <2>5, <2>6 DEF Candidates
<1> QED BY <1>1, <1>2

\* Only CreateNext changes what CountTasks says.
LEMMA CountsKept ==
    ASSUME TypeInv, [Next]_vars, ~CreateNext
    PROVE  \A t : CountTasks(t)' = CountTasks(t)
<1>1. CASE UNCHANGED tasks
  BY <1>1 DEF CountTasks, Rows
<1>2. CASE Claim
  BY <1>2, ClaimStep, SameRowsCount DEF Claim
<1>3. CASE GiveUp \/ Skip \/ FinishEmitted
  BY <1>3, FinishStep, SameRowsCount DEF GiveUp, Skip, FinishEmitted
<1> QED
  BY <1>1, <1>2, <1>3, StepCases
  DEF ConsumeResult, CloseBatch, PassGates, Collect, PublishBatch, ReadVerdict,
      Retire, Emit, ReplayEmitted, ReplayQueueSeed, WatchImported,
      InitialReplayGateMoves, StagnationPasses, vars, replayOthers

LEMMA CreateNextCounts ==
    ASSUME TypeInv, CreateNext, NEW t \in Targets, CreateFor(t)
    PROVE  /\ \A u : u # t => CountTasks(u)' = CountTasks(u)
           /\ CountTasks(t)' \in {CountTasks(t), CountTasks(t) + 1}
           /\ CountTasks(t)' # CountTasks(t) => ~AttemptsSpent(t, t \in sched.flipped)
<1>1. CASE UNCHANGED tasks
  BY <1>1 DEF CountTasks, Rows
<1>2. CASE ~(HasActiveTask(t) \/ AttemptsSpent(t, t \in sched.flipped))
  <2>1. batch.id + 1 \in Contexts /\ CreateTask(t, batch.id + 1)
    BY <1>2, LimitsAssumption DEF CreateNext, CreateFor, TypeInv, TypeOK
  <2> QED BY <1>2, <2>1, CreateCount DEF TypeInv, TypeOK
<1> QED BY <1>1, <1>2 DEF CreateFor

-----------------------------------------------------------------------------
(* Attempts.  The row the scheduler collected may be stale when the task is  *)
(* created, but only in one direction: a target it saw flipped stays         *)
(* settled, and in the handoff lane it saw none flipped.                     *)

FlipInv ==
    /\ \A t \in sched.flipped : Settled(t)
    /\ Lane # "coverage" =>
          /\ sched.flipped = {}
          /\ \A t \in Targets : verdict[t] = "flipped" => analyzed[t]
          /\ \A r \in reports : r # NoFlip => analyzed[r]

LEMMA StepFlipInv == TypeInv /\ FlipInv /\ [Next]_vars => FlipInv'
<1> SUFFICES ASSUME TypeInv, FlipInv, [Next]_vars PROVE FlipInv'
  OBVIOUS
<1> USE DEF TypeInv, TypeOK
<1>1. sched.flipped \subseteq Targets /\ \A t \in Targets : Settled(t) => Settled(t)'
  BY SettledForGood DEF SchedState
<1>2. CASE Collect
  <2>1. \/ sched'.flipped = sched.flipped
        \/ /\ sched'.flipped = {t \in sched'.todo : verdict[t] = "flipped"}
           /\ sched'.todo \subseteq Targets
           /\ \A t \in sched'.todo : ~analyzed[t]
    BY <1>2, CollectStep DEF SchedState, Collect
  <2>2. UNCHANGED <<analyzed, verdict, reports>>
    BY <1>2 DEF Collect
  <2> QED BY <2>1, <2>2 DEF FlipInv, Settled
<1>3. CASE ConsumeResult
  <2>1. sched'.flipped = sched.flipped
    BY <1>3 DEF ConsumeResult, SchedState
  <2>2. PICK r \in reports :
           /\ reports' = reports \ {r}
           /\ IF r = NoFlip THEN UNCHANGED verdict
                            ELSE verdict' = [verdict EXCEPT ![r] = "flipped"]
    BY <1>3 DEF ConsumeResult
  <2>3. UNCHANGED analyzed
    BY <1>3 DEF ConsumeResult
  <2> QED BY <1>1, <2>1, <2>2, <2>3 DEF FlipInv
<1>4. CASE Retire
  <2>1. /\ analyzed' = [analyzed EXCEPT ![Target] = TRUE]
        /\ verdict' = [verdict EXCEPT ![Target] = "retired"]
        /\ UNCHANGED <<sched, reports>>
    BY <1>4 DEF Retire, workerOthers
  <2>2. reports \subseteq Targets \cup {NoFlip}
    OBVIOUS
  <2> QED BY <1>1, <2>1, <2>2 DEF FlipInv
<1>5. CASE ReplayEmitted
  <2>1. PICK i \in replays :
           \/ /\ reports' = reports \cup {NoFlip}
              /\ UNCHANGED <<analyzed, verdict>>
           \/ /\ reports' = reports \cup {tasks[i].target}
              /\ IF Lane = "coverage"
                 THEN UNCHANGED <<analyzed, verdict>>
                 ELSE /\ analyzed' = [analyzed EXCEPT ![tasks[i].target] = TRUE]
                      /\ verdict' = [verdict EXCEPT ![tasks[i].target] = "flipped"]
    BY <1>5 DEF ReplayEmitted
  <2>2. tasks[i].target \in Targets /\ UNCHANGED sched
    BY <1>5, TargetType DEF ReplayEmitted, replayOthers
  <2>3. reports \subseteq Targets \cup {NoFlip}
    OBVIOUS
  <2>4. CASE UNCHANGED <<analyzed, verdict>>
    BY <1>1, <2>1, <2>2, <2>3, <2>4 DEF FlipInv
  <2>5. CASE ~UNCHANGED <<analyzed, verdict>>
    <3>1. /\ Lane # "coverage"
          /\ reports' = reports \cup {tasks[i].target}
          /\ analyzed' = [analyzed EXCEPT ![tasks[i].target] = TRUE]
          /\ verdict' = [verdict EXCEPT ![tasks[i].target] = "flipped"]
      BY <2>1, <2>5
    <3> QED BY <1>1, <2>2, <2>3, <3>1 DEF FlipInv
  <2> QED BY <2>4, <2>5
<1>6. CASE ReplayQueueSeed
  BY <1>1, <1>6 DEF ReplayQueueSeed, replayOthers, FlipInv
<1>7. CASE UNCHANGED <<analyzed, verdict, reports>> /\ sched'.flipped = sched.flipped
  BY <1>1, <1>7 DEF FlipInv
<1>8. CASE CreateNext
  <2>1. sched'.flipped = sched.flipped
    BY <1>8, CreateNextFor DEF CreateFor, SchedState
  <2> QED BY <1>7, <1>8, <2>1 DEF CreateNext, targetVars
<1>9. CASE PassGates \/ PublishBatch
  BY <1>7, <1>9 DEF PassGates, PublishBatch, targetVars, SchedState
<1> QED
  BY <1>2, <1>3, <1>4, <1>5, <1>6, <1>7, <1>8, <1>9, StepCases
  DEF CloseBatch, Claim, GiveUp, Skip, ReadVerdict, Emit, FinishEmitted,
      WatchImported, InitialReplayGateMoves, StagnationPasses, vars, targetVars,
      workerOthers, replayOthers

LEMMA StepAttemptBudget ==
    TypeInv /\ FlipInv /\ AttemptBudget /\ [Next]_vars => AttemptBudget'
<1> SUFFICES ASSUME TypeInv, FlipInv, AttemptBudget, [Next]_vars,
                    NEW t \in Targets, CountTasks(t)' > AttemptLimit
             PROVE  Lane = "coverage" /\ Settled(t)'
  BY DEF AttemptBudget, Settled
<1>1. CountTasks(t) \in Nat /\ AttemptLimit \in Nat
  BY RowsFinite, LimitsAssumption DEF TypeInv, TypeOK
<1>2. CASE CountTasks(t)' = CountTasks(t)
  BY <1>2, SettledForGood DEF AttemptBudget, Settled
<1>3. CASE CreateNext /\ CountTasks(t)' # CountTasks(t)
  <2>1. PICK u \in Targets : CreateFor(u)
    BY <1>3, CreateNextFor
  <2>2. u = t /\ CountTasks(t)' = CountTasks(t) + 1 /\ ~AttemptsSpent(t, t \in sched.flipped)
    BY <1>3, <2>1, CreateNextCounts
  <2>3. t \in sched.flipped
    BY <1>1, <2>2 DEF AttemptsSpent
  <2> QED BY <2>3, SettledForGood DEF FlipInv
<1> QED BY <1>2, <1>3, CountsKept

\* No target is tried more than AttemptLimit times, a confirmed flip in the
\* coverage lane excepted.
THEOREM AttemptsBounded == Spec => []AttemptBudget
<1>1. Init => FlipInv
  BY DEF Init, FlipInv
<1>2. Init => AttemptBudget
  <2> SUFFICES ASSUME Init, NEW t \in Targets PROVE ~(CountTasks(t) > AttemptLimit)
    BY DEF AttemptBudget
  <2>1. Rows(t) = {} /\ tasks \in Seq(Row)
    BY EmptySeq DEF Init, Rows
  <2>2. CountTasks(t) = 0
    BY <2>1, RowsFinite
  <2> QED BY <2>2, LimitsAssumption
<1> QED
  BY <1>1, <1>2, InitTypeInv, StepTypeInv, StepFlipInv, StepAttemptBudget, PTL DEF Spec

-----------------------------------------------------------------------------
(* Late tasks.  A target that has had one is analyzed and is no longer in    *)
(* the batch, and no later batch takes it.                                   *)

LateInv ==
    \A t \in Targets :
        late[t] = 0 \/ (late[t] = 1 /\ analyzed[t] /\ t \notin sched.todo)

LEMMA StepLateInv == TypeInv /\ LateInv /\ [Next]_vars => LateInv'
<1> SUFFICES ASSUME TypeInv, LateInv, [Next]_vars, NEW t \in Targets
             PROVE  late'[t] = 0 \/ (late'[t] = 1 /\ analyzed'[t] /\ t \notin sched'.todo)
  BY DEF LateInv
<1> USE DEF TypeInv, TypeOK
<1>1. late[t] = 0 \/ (late[t] = 1 /\ analyzed[t] /\ t \notin sched.todo)
  BY DEF LateInv
<1>2. analyzed[t] => analyzed'[t]
  BY SettledForGood
<1>3. CASE late' = late /\ sched'.todo = sched.todo
  BY <1>1, <1>2, <1>3
<1>4. CASE Collect
  <2>1. \/ sched'.todo = sched.todo
        \/ \A u \in sched'.todo : ~analyzed[u]
    BY <1>4, CollectStep DEF SchedState
  <2> QED BY <1>1, <1>2, <1>4, <2>1 DEF Collect
<1>5. CASE CreateNext
  <2>1. PICK u \in sched.todo : CreateFor(u) /\ u \in Targets
    BY <1>5, CreateNextFor
  <2>2. sched'.todo = sched.todo \ {u}
    BY <2>1 DEF CreateFor, SchedState
  <2>3. late' = late \/ (analyzed[u] /\ late' = [late EXCEPT ![u] = @ + 1])
    BY <2>1 DEF CreateFor
  <2>4. analyzed'[t] = analyzed[t]
    BY <1>5 DEF CreateNext, targetVars
  <2>5. CASE t = u
    BY <1>1, <2>1, <2>2, <2>3, <2>4, <2>5
  <2>6. CASE t # u
    BY <1>1, <2>2, <2>3, <2>4, <2>6
  <2> QED BY <2>5, <2>6
<1>6. CASE ConsumeResult \/ PassGates \/ PublishBatch
  BY <1>3, <1>6 DEF ConsumeResult, PassGates, PublishBatch, SchedState
<1> QED
  BY <1>3, <1>4, <1>5, <1>6, StepCases
  DEF CloseBatch, Claim, GiveUp, Skip, ReadVerdict, Retire, Emit, FinishEmitted,
      ReplayEmitted, ReplayQueueSeed, WatchImported, InitialReplayGateMoves,
      StagnationPasses, vars, workerOthers, replayOthers

\* A verdict that lands while a batch is created is too late for that batch
\* only.
THEOREM LateOnce == Spec => []AtMostOneLateTask
<1>1. Init => LateInv
  BY DEF Init, LateInv
<1>2. LateInv => AtMostOneLateTask
  BY DEF LateInv, AtMostOneLateTask
<1> QED BY <1>1, <1>2, InitTypeInv, StepTypeInv, StepLateInv, PTL DEF Spec

-----------------------------------------------------------------------------
(* The order of attempts.  While a batch is created, whatever else runs, its *)
(* targets are untried or no known target is left untried.                   *)

UntriedInv ==
    sched.pc = "creating" =>
        /\ sched.todo \subseteq known
        /\ \/ \A t \in sched.todo : CountTasks(t) = 0
           \/ \A u \in known : analyzed[u] \/ CountTasks(u) >= 1

LEMMA StepUntriedInv == TypeInv /\ UntriedInv /\ [Next]_vars => UntriedInv'
<1> SUFFICES ASSUME TypeInv, UntriedInv, [Next]_vars, sched'.pc = "creating"
             PROVE  UntriedInv'
  BY DEF UntriedInv
<1> USE DEF TypeInv, TypeOK
<1>1. \A u \in Targets : CountTasks(u) \in Nat /\ (analyzed[u] => analyzed'[u])
  BY RowsFinite, SettledForGood
<1>2. CASE Collect
  <2>1. /\ sched'.todo \subseteq known'
        /\ \/ \A t \in sched'.todo : CountTasks(t) = 0
           \/ \A u \in known' : analyzed[u] \/ CountTasks(u) >= 1
    BY <1>2, CollectStep DEF SchedState
  <2>2. \A u : CountTasks(u)' = CountTasks(u)
    BY <1>2, CountsKept DEF Collect, CreateNext
  <2> QED BY <1>2, <2>1, <2>2 DEF Collect, UntriedInv
<1>3. CASE CreateNext
  <2>1. PICK t \in sched.todo : CreateFor(t) /\ t \in Targets
    BY <1>3, CreateNextFor
  <2>2. sched'.todo = sched.todo \ {t} /\ sched.pc = "creating"
    BY <1>3, <2>1 DEF CreateFor, CreateNext, SchedState
  <2>3. UNCHANGED <<known, analyzed>>
    BY <1>3 DEF CreateNext, targetVars
  <2>4. /\ \A u : u # t => CountTasks(u)' = CountTasks(u)
        /\ CountTasks(t)' \in {CountTasks(t), CountTasks(t) + 1}
    BY <1>3, <2>1, CreateNextCounts
  <2>5. CASE \A v \in sched.todo : CountTasks(v) = 0
    <3>1. \A v \in sched'.todo : CountTasks(v)' = 0
      BY <2>2, <2>4, <2>5
    <3> QED BY <2>2, <2>3, <3>1 DEF UntriedInv
  <2>6. CASE \A u \in known : analyzed[u] \/ CountTasks(u) >= 1
    <3>1. ASSUME NEW u \in Targets, CountTasks(u) >= 1 PROVE CountTasks(u)' >= 1
      <4>1. CountTasks(t) \in Nat /\ CountTasks(u) \in Nat
        BY <1>1, <2>1
      <4>2. CASE u = t
        BY <2>4, <3>1, <4>1, <4>2
      <4>3. CASE u # t
        BY <2>4, <3>1, <4>1, <4>3
      <4> QED BY <4>2, <4>3
    <3>2. \A u \in known' : analyzed'[u] \/ CountTasks(u)' >= 1
      BY <2>3, <2>6, <3>1
    <3> QED BY <2>2, <2>3, <3>2 DEF UntriedInv
  <2> QED BY <2>2, <2>5, <2>6 DEF UntriedInv
<1>4. CASE /\ sched'.pc = sched.pc /\ sched'.todo = sched.todo
           /\ UNCHANGED known /\ ~CreateNext
  <2>1. \A u : CountTasks(u)' = CountTasks(u)
    BY <1>4, CountsKept
  <2> QED BY <1>1, <1>4, <2>1 DEF UntriedInv
<1>5. CASE ConsumeResult
  BY <1>4, <1>5 DEF ConsumeResult, CreateNext, SchedState
<1>6. CASE PassGates \/ PublishBatch
  BY <1>6 DEF PassGates, PublishBatch, SchedState
<1> QED
  BY <1>2, <1>3, <1>4, <1>5, <1>6, StepCases
  DEF CloseBatch, Claim, GiveUp, Skip, ReadVerdict, Retire, Emit, FinishEmitted,
      ReplayEmitted, ReplayQueueSeed, WatchImported, InitialReplayGateMoves,
      StagnationPasses, vars, targetVars, workerOthers, replayOthers

\* No target is tried again while a known target that is not settled is
\* untried.
THEOREM UntriedComeFirst == Spec => UntriedFirst
<1>1. Init => UntriedInv
  BY DEF Init, UntriedInv
<1>2. TypeInv /\ UntriedInv /\ [Next]_vars =>
        [\A t \in Targets :
            CountTasks(t) >= 1 /\ CountTasks(t)' > CountTasks(t) =>
                \A u \in known : analyzed[u] \/ CountTasks(u) >= 1]_vars
  <2> SUFFICES ASSUME TypeInv, UntriedInv, [Next]_vars, NEW t \in Targets,
                      CountTasks(t) >= 1, CountTasks(t)' > CountTasks(t)
               PROVE  \A u \in known : analyzed[u] \/ CountTasks(u) >= 1
    OBVIOUS
  <2>1. CountTasks(t) \in Nat
    BY RowsFinite DEF TypeInv, TypeOK
  <2>2. CreateNext
    BY <2>1, CountsKept
  <2>3. PICK v \in sched.todo : CreateFor(v) /\ v \in Targets
    BY <2>2, CreateNextFor
  <2>4. v = t
    BY <2>1, <2>2, <2>3, CreateNextCounts
  <2> QED BY <2>1, <2>2, <2>3, <2>4 DEF UntriedInv, CreateNext
<1> QED
  BY <1>1, <1>2, InitTypeInv, StepTypeInv, StepUntriedInv, PTL DEF Spec, UntriedFirst

-----------------------------------------------------------------------------
(* Verdicts.                                                                 *)

SawInv == worker.pc = "retiring" => worker.saw # "flipped"

LEMMA StepSawInv == TypeInv /\ SawInv /\ [Next]_vars => SawInv'
<1> SUFFICES ASSUME TypeInv, SawInv, [Next]_vars PROVE SawInv'
  OBVIOUS
<1> USE DEF TypeInv, TypeOK, SawInv, WorkerState
<1>1. CASE UNCHANGED worker
  BY <1>1
<1>2. CASE ReadVerdict
  BY <1>2 DEF ReadVerdict
<1>3. CASE Claim \/ GiveUp \/ Skip \/ Retire \/ Emit \/ FinishEmitted
  BY <1>3 DEF Claim, GiveUp, Skip, Retire, Emit, FinishEmitted
<1> QED
  BY <1>1, <1>2, <1>3, StepCases
  DEF ConsumeResult, CloseBatch, PassGates, Collect, CreateNext, PublishBatch,
      ReplayEmitted, ReplayQueueSeed, WatchImported, InitialReplayGateMoves,
      StagnationPasses, vars, replayOthers

\* A confirmed flip is overruled only by a retirement decided before it.
THEOREM FlipsStand == Spec => FlipOverruledOnlyIfUnseen
<1>1. Init => SawInv
  BY DEF Init, SawInv
<1>2. TypeInv /\ SawInv /\ [Next]_vars =>
        [\A t \in Targets :
            verdict[t] = "flipped" /\ verdict'[t] # "flipped" =>
                worker.pc = "retiring" /\ Target = t /\ worker.saw # "flipped"]_vars
  <2> SUFFICES ASSUME TypeInv, SawInv, [Next]_vars, NEW t \in Targets,
                      verdict[t] = "flipped", verdict'[t] # "flipped"
               PROVE  worker.pc = "retiring" /\ Target = t /\ worker.saw # "flipped"
    OBVIOUS
  <2> USE DEF TypeInv, TypeOK
  <2>1. ~ConsumeResult
    BY DEF ConsumeResult
  <2>2. ~ReplayEmitted
    BY DEF ReplayEmitted
  <2>3. verdict' # verdict
    OBVIOUS
  <2>4. Retire
    BY <2>1, <2>2, <2>3, StepCases
    DEF CloseBatch, PassGates, Collect, CreateNext, PublishBatch, Claim, GiveUp,
        Skip, ReadVerdict, Emit, FinishEmitted, ReplayQueueSeed, WatchImported,
        InitialReplayGateMoves, StagnationPasses, vars, targetVars
  <2> QED BY <2>4 DEF Retire, SawInv
<1> QED
  BY <1>1, <1>2, InitTypeInv, StepTypeInv, StepSawInv, PTL
  DEF Spec, FlipOverruledOnlyIfUnseen

-----------------------------------------------------------------------------
(* Tasks are worked on once.  A row is leased as long as the worker is at    *)
(* it; from Skip on it is finished, although the worker still has it.        *)

Queued == WithStatus({"pending"})
Held == WithStatus({"leased"})
Done == WithStatus({"completed", "failed"})

LeaseInv ==
    /\ Held = IF worker.pc \in {"running", "emitted"} THEN {worker.task} ELSE {}
    /\ worker.pc \in {"skipped", "retiring"} => worker.task \in Done

\* Seeds are counted from the first one of a task on, until it is finished.
SeedInv == worker.pc # "emitted" => worker.seeds = 0

LEMMA CreateNextSets ==
    ASSUME TypeInv, CreateNext
    PROVE  \/ UNCHANGED tasks
           \/ /\ Len(tasks) + 1 \notin DOMAIN tasks
              /\ Queued' = Queued \cup {Len(tasks) + 1}
              /\ UNCHANGED <<Held, Done>>
<1> PICK t \in sched.todo : CreateFor(t) /\ t \in Targets
  BY CreateNextFor
<1>1. CASE CreateTask(t, batch.id + 1)
  <2>1. tasks \in Seq(Row) /\ batch.id + 1 \in Contexts
    BY LimitsAssumption DEF CreateNext, TypeInv, TypeOK
  <2> QED BY <1>1, <2>1, CreateStep, CreateSets DEF Queued, Held, Done
<1> QED BY <1>1 DEF CreateFor

LEMMA FinishSets ==
    ASSUME TypeInv, worker.pc # "idle", NEW outcome \in {"completed", "failed"},
           FinishTask(worker.task, outcome)
    PROVE  /\ Queued' = Queued \ {worker.task}
           /\ Held' = Held \ {worker.task}
           /\ Done' = Done \cup {worker.task}
<1>1. /\ tasks \in Seq(Row)
      /\ worker.task \in DOMAIN tasks
      /\ outcome \in Status
      /\ tasks' = [tasks EXCEPT ![worker.task].status = outcome]
  BY DEF TypeInv, TypeOK, FinishTask, Status
<1>2. \A S \in {{"pending"}, {"leased"}, {"completed", "failed"}} :
         WithStatus(S)' = IF outcome \in S THEN WithStatus(S) \cup {worker.task}
                          ELSE WithStatus(S) \ {worker.task}
  BY <1>1, StatusSets
<1> QED BY <1>2 DEF Queued, Held, Done

LEMMA ClaimSets ==
    ASSUME TypeInv, NEW i \in DOMAIN tasks, ClaimTask(i)
    PROVE  /\ i \in Queued /\ i \notin Done
           /\ Queued' = Queued \ {i}
           /\ Held' = Held \cup {i}
           /\ UNCHANGED Done
<1>1. /\ tasks \in Seq(Row)
      /\ "leased" \in Status
      /\ tasks' = [tasks EXCEPT ![i].status = "leased"]
      /\ tasks[i].status = "pending"
  BY DEF TypeInv, TypeOK, ClaimTask, Status
<1>2. \A S \in {{"pending"}, {"leased"}, {"completed", "failed"}} :
         WithStatus(S)' = IF "leased" \in S THEN WithStatus(S) \cup {i}
                          ELSE WithStatus(S) \ {i}
  BY <1>1, StatusSets
<1>3. i \in Queued /\ i \notin Done
  BY <1>1 DEF Queued, Done, WithStatus
<1> QED BY <1>2, <1>3 DEF Queued, Held, Done

LEMMA SetsKept == ASSUME UNCHANGED tasks PROVE UNCHANGED <<Queued, Held, Done>>
BY DEF Queued, Held, Done, WithStatus

\* The steps by which the worker moves on without touching the table.
WorkerMoves == ReadVerdict \/ Retire \/ Emit

LEMMA StepLease == TypeInv /\ LeaseInv /\ [Next]_vars => LeaseInv'
<1> SUFFICES ASSUME TypeInv, LeaseInv, [Next]_vars PROVE LeaseInv'
  OBVIOUS
<1>0. worker \in WorkerState
  BY DEF TypeInv, TypeOK
<1>1. CASE CreateNext
  <2>1. UNCHANGED <<Held, Done, worker>>
    BY <1>1, CreateNextSets, SetsKept DEF CreateNext
  <2> QED BY <2>1 DEF LeaseInv
<1>2. CASE Claim
  <2> PICK i \in DOMAIN tasks :
         /\ ClaimTask(i)
         /\ worker' = [worker EXCEPT !.pc = "running", !.task = i]
    BY <1>2 DEF Claim
  <2>1. worker.pc = "idle" /\ worker'.pc = "running" /\ worker'.task = i
    BY <1>0, <1>2 DEF Claim, WorkerState
  <2> QED BY <2>1, ClaimSets DEF LeaseInv
<1>3. CASE GiveUp \/ Skip \/ FinishEmitted
  <2>1. PICK outcome \in {"completed", "failed"} : FinishTask(worker.task, outcome)
    BY <1>3 DEF GiveUp, Skip, FinishEmitted
  <2>2. /\ worker.pc # "idle"
        /\ worker'.pc \in {"idle", "skipped"}
        /\ worker'.task = worker.task
    BY <1>0, <1>3 DEF GiveUp, Skip, FinishEmitted, WorkerState
  <2> QED BY <2>1, <2>2, FinishSets DEF LeaseInv
<1>4. CASE WorkerMoves
  <2>1. UNCHANGED tasks /\ worker'.task = worker.task
    BY <1>0, <1>4 DEF WorkerMoves, ReadVerdict, Retire, Emit, WorkerState
  <2>2. \/ worker.pc = "skipped" /\ worker'.pc \in {"idle", "retiring"}
        \/ worker.pc = "retiring" /\ worker'.pc = "idle"
        \/ worker.pc \in {"running", "emitted"} /\ worker'.pc = "emitted"
    BY <1>0, <1>4 DEF WorkerMoves, ReadVerdict, Retire, Emit, WorkerState
  <2> QED BY <2>1, <2>2, SetsKept DEF LeaseInv
<1>5. CASE UNCHANGED <<tasks, worker>>
  BY <1>5, SetsKept DEF LeaseInv
<1> QED
  BY <1>1, <1>2, <1>3, <1>4, <1>5, StepCases
  DEF WorkerMoves, ConsumeResult, CloseBatch, PassGates, Collect, PublishBatch,
      ReplayEmitted, ReplayQueueSeed, WatchImported, InitialReplayGateMoves,
      StagnationPasses, vars, replayOthers

LEMMA StepSeedInv == TypeInv /\ SeedInv /\ [Next]_vars => SeedInv'
<1> SUFFICES ASSUME TypeInv, SeedInv, [Next]_vars PROVE SeedInv'
  OBVIOUS
<1>0. worker \in WorkerState
  BY DEF TypeInv, TypeOK
<1>1. CASE Claim \/ GiveUp \/ FinishEmitted
  <2>1. worker'.seeds = 0
    BY <1>0, <1>1 DEF Claim, GiveUp, FinishEmitted, WorkerState, SeedInv
  <2> QED BY <2>1 DEF SeedInv
<1>2. CASE Skip \/ ReadVerdict \/ Retire
  <2>1. worker.seeds = 0 /\ worker'.seeds = worker.seeds
    BY <1>0, <1>2 DEF Skip, ReadVerdict, Retire, WorkerState, SeedInv
  <2> QED BY <2>1 DEF SeedInv
<1>3. CASE Emit
  <2>1. worker'.pc = "emitted"
    BY <1>0, <1>3 DEF Emit, WorkerState
  <2> QED BY <2>1 DEF SeedInv
<1>4. CASE UNCHANGED worker
  BY <1>4 DEF SeedInv
<1> QED
  BY <1>1, <1>2, <1>3, <1>4, StepCases
  DEF ConsumeResult, CloseBatch, PassGates, Collect, CreateNext, PublishBatch,
      ReplayEmitted, ReplayQueueSeed, WatchImported, InitialReplayGateMoves,
      StagnationPasses, vars, replayOthers

LEMMA LifecycleKept ==
    ASSUME UNCHANGED <<Queued, Held, Done>>, UNCHANGED worker.seeds
    PROVE  UNCHANGED Lifecycle!vars
BY DEF Lifecycle!vars, Queued, Held, Done

LEMMA StepLifecycle ==
    ASSUME TypeInv, LeaseInv, SeedInv, [Next]_vars
    PROVE  Lifecycle!Next \/ UNCHANGED Lifecycle!vars
<1>0. worker \in WorkerState /\ (worker.pc # "idle" => worker.task \in DOMAIN tasks)
  BY DEF TypeInv, TypeOK
<1>1. CASE CreateNext
  <2> DEFINE n == Len(tasks) + 1
  <2>1. UNCHANGED worker.seeds
    BY <1>1 DEF CreateNext
  <2>2. CASE UNCHANGED tasks
    BY <2>1, <2>2, SetsKept, LifecycleKept
  <2>3. CASE ~UNCHANGED tasks
    <3>1. /\ n \notin DOMAIN tasks
          /\ Queued' = Queued \cup {n}
          /\ UNCHANGED <<Held, Done>>
      BY <1>1, <2>3, CreateNextSets
    <3>2. n \notin Queued \cup Held \cup Done
      BY <3>1 DEF Queued, Held, Done, WithStatus
    <3> HIDE DEF n
    <3> QED
      BY <2>1, <3>1, <3>2
      DEF Lifecycle!Next, Lifecycle!Queue, Queued, Held, Done
  <2> QED BY <2>2, <2>3
<1>2. CASE Claim
  <2> PICK i \in DOMAIN tasks :
         /\ ClaimTask(i)
         /\ worker' = [worker EXCEPT !.pc = "running", !.task = i]
    BY <1>2 DEF Claim
  <2>1. worker.pc = "idle" /\ worker'.seeds = worker.seeds
    BY <1>0, <1>2 DEF Claim, WorkerState
  <2>2. Held = {}
    BY <2>1 DEF LeaseInv
  <2>3. i \in Queued /\ Queued' = Queued \ {i} /\ Held' = {i} /\ UNCHANGED Done
    BY <2>2, ClaimSets
  <2> QED
    BY <2>1, <2>2, <2>3 DEF Lifecycle!Next, Lifecycle!Take, Queued, Held, Done
<1>3. CASE GiveUp \/ Skip \/ FinishEmitted
  <2>1. PICK outcome \in {"completed", "failed"} : FinishTask(worker.task, outcome)
    BY <1>3 DEF GiveUp, Skip, FinishEmitted
  <2>2. worker.pc # "idle" /\ worker'.seeds = 0
    BY <1>0, <1>3 DEF GiveUp, Skip, FinishEmitted, WorkerState, SeedInv
  <2>3. /\ Queued' = Queued \ {worker.task}
        /\ Held' = Held \ {worker.task}
        /\ Done' = Done \cup {worker.task}
    BY <2>1, <2>2, FinishSets
  <2>4. worker.task \notin Queued
    BY <1>0, <2>2 DEF LeaseInv, Queued, Held, Done, WithStatus, WorkerState
  <2>5. CASE worker.pc \in {"running", "emitted"}
    <3>1. Held = {worker.task}
      BY <2>5 DEF LeaseInv
    <3> QED
      BY <2>2, <2>3, <2>4, <3>1
      DEF Lifecycle!Next, Lifecycle!Finish, Queued, Held, Done
  <2>6. CASE worker.pc \in {"skipped", "retiring"}
    <3>1. Held = {} /\ worker.task \in Done /\ worker.seeds = 0
      BY <2>6 DEF LeaseInv, SeedInv
    <3> QED BY <2>2, <2>3, <2>4, <3>1, LifecycleKept
  <2> QED BY <1>0, <2>2, <2>5, <2>6 DEF WorkerState
<1>4. CASE Emit
  <2>1. /\ worker.pc \in {"running", "emitted"}
        /\ worker.seeds < InjectLimit
        /\ worker'.seeds = worker.seeds + 1
    BY <1>0, <1>4 DEF Emit, WorkerState
  <2>2. Held # {}
    BY <2>1 DEF LeaseInv
  <2>3. UNCHANGED <<Queued, Held, Done>>
    BY <1>4, SetsKept DEF Emit
  <2> QED
    BY <2>1, <2>2, <2>3 DEF Lifecycle!Next, Lifecycle!Answer, Queued, Held, Done
<1>5. CASE ReadVerdict \/ Retire
  <2>1. UNCHANGED tasks /\ worker'.seeds = worker.seeds
    BY <1>0, <1>5 DEF ReadVerdict, Retire, WorkerState
  <2> QED BY <2>1, SetsKept, LifecycleKept
<1>6. CASE UNCHANGED <<tasks, worker>>
  BY <1>6, SetsKept, LifecycleKept
<1> QED
  BY <1>1, <1>2, <1>3, <1>4, <1>5, <1>6, StepCases
  DEF ConsumeResult, CloseBatch, PassGates, Collect, PublishBatch,
      ReplayEmitted, ReplayQueueSeed, WatchImported, InitialReplayGateMoves,
      StagnationPasses, vars, replayOthers

\* A task is taken up once and alone, gives seeds only while it is held and never
\* more than InjectLimit, and once finished gives none and is not taken up again,
\* although the worker that retires its target is not done with it then.
THEOREM BoundaryTasksRunOnce == Spec => ImplementsTaskLifecycle
<1>1. Init => LeaseInv /\ SeedInv
  BY DEF Init, LeaseInv, SeedInv, Held, WithStatus
<1>2. Init => Lifecycle!Init
  BY DEF Init, Lifecycle!Init, WithStatus
<1>3. TypeInv /\ LeaseInv /\ SeedInv /\ [Next]_vars => [Lifecycle!Next]_Lifecycle!vars
  BY StepLifecycle
<1> QED
  BY <1>1, <1>2, <1>3, InitTypeInv, StepTypeInv, StepLease, StepSeedInv, PTL
  DEF Spec, ImplementsTaskLifecycle, Lifecycle!Spec

-----------------------------------------------------------------------------
(* Targets are worked on within a budget.  The rows of a target are from     *)
(* different batches and from none to come; the batch under creation counts  *)
(* only for the targets that have left its list.                             *)

Within(t, n) ==
    /\ CountTasks(t) <= n
    /\ \A i \in Rows(t) : tasks[i].context <= n

WorkInv ==
    \A t \in Targets :
        \/ Within(t, batch.id)
        \/ /\ sched.pc = "creating" /\ sched.queued /\ t \notin sched.todo
           /\ Within(t, batch.id + 1)

\* Rows are the same unless CreateNext adds one.
LEMMA RowsKept ==
    ASSUME TypeInv, [Next]_vars, ~CreateNext
    PROVE  SameRows
<1>1. CASE UNCHANGED tasks
  BY <1>1 DEF SameRows
<1>2. CASE Claim
  BY <1>2, ClaimStep DEF Claim
<1>3. CASE GiveUp \/ Skip \/ FinishEmitted
  BY <1>3, FinishStep DEF GiveUp, Skip, FinishEmitted
<1> QED
  BY <1>1, <1>2, <1>3, StepCases
  DEF ConsumeResult, CloseBatch, PassGates, Collect, PublishBatch, ReadVerdict,
      Retire, Emit, ReplayEmitted, ReplayQueueSeed, WatchImported,
      InitialReplayGateMoves, StagnationPasses, vars, replayOthers

LEMMA StepWorkInv == TypeInv /\ WorkInv /\ [Next]_vars => WorkInv'
<1> SUFFICES ASSUME TypeInv, WorkInv, [Next]_vars, NEW t \in Targets
             PROVE  \/ Within(t, batch.id)'
                    \/ /\ sched'.pc = "creating" /\ sched'.queued /\ t \notin sched'.todo
                       /\ Within(t, batch.id + 1)'
  BY DEF WorkInv
<1>0. /\ sched \in SchedState /\ tasks \in Seq(Row)
      /\ batch \in [active : BOOLEAN, id : 0..MaxBatches]
      /\ CountTasks(t) \in Nat
  BY RowsFinite DEF TypeInv, TypeOK
<1>1. \/ Within(t, batch.id)
      \/ /\ sched.pc = "creating" /\ sched.queued /\ t \notin sched.todo
         /\ Within(t, batch.id + 1)
  BY DEF WorkInv
<1>2. CASE CreateNext
  <2> PICK u \in sched.todo : CreateFor(u) /\ u \in Targets
    BY <1>2, CreateNextFor
  <2>1. /\ sched.pc = "creating" /\ sched'.pc = "creating"
        /\ sched'.todo = sched.todo \ {u}
        /\ sched.queued => sched'.queued
    BY <1>0, <1>2 DEF CreateNext, CreateFor, SchedState
  <2>2. UNCHANGED batch
    BY <1>2 DEF CreateNext
  <2>3. CASE UNCHANGED tasks
    <3>1. UNCHANGED <<Rows(t), CountTasks(t)>>
      BY <2>3 DEF CountTasks, Rows
    <3> QED BY <1>1, <2>1, <2>2, <2>3, <3>1 DEF Within
  <2>4. CASE ~(HasActiveTask(u) \/ AttemptsSpent(u, u \in sched.flipped))
    <3> DEFINE n == Len(tasks) + 1
    <3>1. CreateTask(u, batch.id + 1) /\ batch.id + 1 \in Contexts
      BY <1>0, <1>2, <2>4, LimitsAssumption DEF CreateNext, CreateFor, TypeInv
    <3>2. /\ DOMAIN tasks' = DOMAIN tasks \cup {n}
          /\ n \notin DOMAIN tasks
          /\ \A i \in DOMAIN tasks : tasks'[i] = tasks[i]
          /\ tasks'[n] = [target |-> u, context |-> batch.id + 1, status |-> "pending"]
      BY <1>0, <3>1, CreateStep
    <3>3. tasks'[n].target = u /\ tasks'[n].context = batch.id + 1
      BY <3>2
    <3>4. CountTasks(t)' = IF t = u THEN CountTasks(t) + 1 ELSE CountTasks(t)
      BY <1>0, <3>1, CreateCount
    <3> HIDE DEF n
    <3>5. CASE t = u
      <4>1. Within(t, batch.id)
        BY <1>1, <3>5
      <4>2. Rows(t)' = Rows(t) \cup {n}
        BY <3>2, <3>3, <3>5 DEF Rows
      <4>3. \A i \in Rows(t) : tasks[i].context \in Nat /\ tasks'[i] = tasks[i]
        <5>1. \A i \in Rows(t) : tasks[i] \in Row
          BY <1>0, ElementOfSeq DEF Rows
        <5> QED BY <3>2, <5>1, LimitsAssumption DEF Row, Rows
      <4>4. \A i \in Rows(t)' : tasks'[i].context <= batch.id + 1
        BY <1>0, <3>3, <4>1, <4>2, <4>3, LimitsAssumption DEF Within
      <4>5. CountTasks(t)' <= batch.id + 1
        BY <1>0, <3>4, <3>5, <4>1 DEF Within
      <4>6. sched'.queued
        BY <1>0, <2>4 DEF CreateFor, SchedState
      <4> QED BY <2>1, <2>2, <3>5, <4>4, <4>5, <4>6 DEF Within
    <3>6. CASE t # u
      <4>1. Rows(t)' = Rows(t)
        BY <3>2, <3>3, <3>6 DEF Rows
      <4>2. \A i \in Rows(t) : tasks'[i] = tasks[i]
        BY <3>2 DEF Rows
      <4>3. CountTasks(t)' = CountTasks(t)
        BY <3>4, <3>6
      <4> QED BY <1>1, <2>1, <2>2, <4>1, <4>2, <4>3 DEF Within
    <3> QED BY <3>5, <3>6
  <2> QED BY <2>3, <2>4 DEF CreateFor
<1>3. CASE ~CreateNext
  <2>1. /\ UNCHANGED <<Rows(t), CountTasks(t)>>
        /\ \A i \in Rows(t) : tasks'[i].context = tasks[i].context
    BY <1>3, RowsKept, SameRowsCount DEF SameRows, Rows
  <2>2. CASE UNCHANGED <<batch, sched>>
    BY <1>1, <2>1, <2>2 DEF Within
  <2>3. CASE batch'.id = batch.id /\ sched.pc # "creating"
    BY <1>1, <2>1, <2>3 DEF Within
  <2>4. CASE PublishBatch /\ sched.queued
    <3>1. batch'.id = batch.id + 1
      BY <2>4 DEF PublishBatch
    <3>2. \A i \in Rows(t) : tasks[i].context \in Nat
      <4>1. \A i \in Rows(t) : tasks[i] \in Row
        BY <1>0, ElementOfSeq DEF Rows
      <4> QED BY <4>1, LimitsAssumption DEF Row
    <3>3. Within(t, batch.id + 1)
      BY <1>0, <1>1, <3>2 DEF Within
    <3> QED BY <2>1, <3>1, <3>3 DEF Within
  <2>5. CASE PublishBatch /\ ~sched.queued
    BY <1>1, <2>1, <2>5 DEF PublishBatch, Within
  <2> QED
    BY <1>0, <1>3, <2>2, <2>3, <2>4, <2>5, StepCases
    DEF ConsumeResult, CloseBatch, PassGates, Collect, Claim, GiveUp, Skip,
        ReadVerdict, Retire, Emit, FinishEmitted, ReplayEmitted, ReplayQueueSeed,
        WatchImported, InitialReplayGateMoves, StagnationPasses, vars,
        workerOthers, replayOthers
<1> QED BY <1>2, <1>3

LEMMA StepWork ==
    ASSUME TypeInv, BatchInv, FlipInv, WorkInv, [Next]_vars
    PROVE  Work!Next \/ UNCHANGED Work!vars
<1>0. /\ tasks \in Seq(Row)
      /\ batch \in [active : BOOLEAN, id : 0..MaxBatches]
      /\ worker.pc # "idle" => worker.task \in DOMAIN tasks
  BY DEF TypeInv, TypeOK
<1>1. CASE CreateNext /\ ~UNCHANGED tasks
  <2> PICK t \in sched.todo : CreateFor(t) /\ t \in Targets
    BY <1>1, CreateNextFor
  <2> DEFINE c == batch.id + 1
  <2>1. /\ ~HasActiveTask(t)
        /\ ~AttemptsSpent(t, t \in sched.flipped)
        /\ CreateTask(t, c)
    BY <1>1 DEF CreateFor
  <2>2. c \in Contexts /\ batch.id < MaxBatches
    BY <1>0, <1>1, LimitsAssumption DEF CreateNext, TypeInv
  <2>3. /\ Occasions' = [Occasions EXCEPT ![t] = @ \cup {c}]
        /\ Spent' = [Spent EXCEPT ![t] = @ + 1]
        /\ OpenTargets' = OpenTargets \cup {t}
    BY <1>0, <2>1, <2>2, CreateWork
  <2>4. t \notin OpenTargets
    BY <1>0, <2>1, OpenTargetsAre
  <2>5. Within(t, batch.id)
    BY DEF WorkInv
  <2>6. c \notin Occasions[t]
    <3>1. \A i \in Rows(t) : tasks[i] \in Row
      BY <1>0, ElementOfSeq DEF Rows
    <3>2. \A i \in Rows(t) : tasks[i].context # c
      BY <1>0, <2>5, <3>1, LimitsAssumption DEF Within, Row
    <3> QED BY <3>2 DEF Occasions
  <2>7. Spent[t] < IF Lane = "coverage" THEN MaxBatches ELSE AttemptLimit
    <3>1. CountTasks(t) \in Nat /\ Spent[t] = CountTasks(t)
      BY <1>0, RowsFinite DEF Spent
    <3>2. CASE Lane = "coverage"
      BY <1>0, <2>2, <2>5, <3>1, <3>2, LimitsAssumption DEF Within
    <3>3. CASE Lane # "coverage"
      BY <2>1, <3>1, <3>3, LimitsAssumption DEF AttemptsSpent, FlipInv
    <3> QED BY <3>2, <3>3
  <2> HIDE DEF c
  <2>8. Work!Begin(t, c)
    BY <2>3, <2>4, <2>6, <2>7 DEF Work!Begin
  <2> QED BY <2>2, <2>3, <2>4, <2>8 DEF Work!Next
<1>2. CASE Claim
  <2> PICK i \in DOMAIN tasks : ClaimTask(i)
    BY <1>2 DEF Claim
  <2>1. tasks' = [tasks EXCEPT ![i].status = "leased"]
    BY DEF ClaimTask
  <2>2. IsActive(i) /\ "leased" \in ActiveStatus /\ "leased" \in Status
    BY DEF ClaimTask, IsActive, ActiveStatus, Status
  <2> QED BY <1>0, <2>1, <2>2, StatusWorkSame DEF Work!vars
<1>3. CASE GiveUp \/ Skip \/ FinishEmitted
  <2>1. PICK outcome \in {"completed", "failed"} : FinishTask(worker.task, outcome)
    BY <1>3 DEF GiveUp, Skip, FinishEmitted
  <2> DEFINE i == worker.task
  <2>2. i \in DOMAIN tasks
    BY <1>0, <1>3 DEF GiveUp, Skip, FinishEmitted
  <2>3. tasks' = [tasks EXCEPT ![i].status = outcome] /\ outcome \in Status \ ActiveStatus
    BY <2>1 DEF FinishTask, Status, ActiveStatus
  <2> HIDE DEF i
  <2>4. CASE ~IsActive(i)
    BY <1>0, <2>2, <2>3, <2>4, StatusWorkSame DEF Work!vars
  <2>5. CASE IsActive(i)
    <3>1. \A j \in DOMAIN tasks :
             IsActive(j) /\ tasks[j].target = tasks[i].target => j = i
      BY <2>2, <2>5 DEF BatchInv, BatchesDoNotOverlap
    <3>2. /\ UNCHANGED <<Occasions, Spent>>
          /\ tasks[i].target \in OpenTargets
          /\ OpenTargets' = OpenTargets \ {tasks[i].target}
      BY <1>0, <2>2, <2>3, <2>5, <3>1, CloseWork
    <3> QED BY <3>2 DEF Work!Next, Work!End
  <2> QED BY <2>4, <2>5
<1>4. CASE UNCHANGED tasks
  BY <1>4 DEF Work!vars, Occasions, Spent, OpenTargets, CountTasks, Rows, WithStatus
<1> QED
  BY <1>1, <1>2, <1>3, <1>4, StepCases
  DEF ConsumeResult, CloseBatch, PassGates, Collect, PublishBatch, ReadVerdict,
      Retire, Emit, ReplayEmitted, ReplayQueueSeed, WatchImported,
      InitialReplayGateMoves, StagnationPasses, vars, replayOthers

\* A target is worked on by one task at a time, once per batch, and within the
\* limit; in the coverage lane, where a flip lifts the limit, once per batch.
THEOREM BoundaryWorkIsBudgeted == Spec => ImplementsTargetWork
<1>1. Init => BatchInv /\ FlipInv
  BY DEF Init, BatchInv, BatchesDoNotOverlap, FlipInv
<1>2. Init => WorkInv
  <2> SUFFICES ASSUME Init, NEW t \in Targets PROVE Within(t, batch.id)
    BY DEF WorkInv
  <2>1. Rows(t) = {} /\ tasks \in Seq(Row) /\ batch.id = 0
    BY EmptySeq DEF Init, Rows
  <2>2. CountTasks(t) = 0
    BY <2>1, RowsFinite
  <2> QED BY <2>1, <2>2 DEF Within
<1>3. Init => Work!Init
  BY EmptyWork DEF Init, Work!Init
<1>4. TypeInv /\ BatchInv /\ FlipInv /\ WorkInv /\ [Next]_vars => [Work!Next]_Work!vars
  BY StepWork
<1> QED
  BY <1>1, <1>2, <1>3, <1>4, InitTypeInv, StepTypeInv, StepBatchInv, StepFlipInv,
     StepWorkInv, PTL
  DEF Spec, ImplementsTargetWork, Work!Spec

-----------------------------------------------------------------------------
(* A batch can end.  It is published with rows in it, rows are never taken   *)
(* away, and an open row is waiting or held.                                 *)

RowsInv ==
    /\ batch.active => RowsIn(batch.id) # {}
    /\ sched.pc = "creating" /\ sched.queued => RowsIn(batch.id + 1) # {}

LEMMA StepRowsInv == TypeInv /\ RowsInv /\ [Next]_vars => RowsInv'
<1> SUFFICES ASSUME TypeInv, RowsInv, [Next]_vars PROVE RowsInv'
  OBVIOUS
<1>0. /\ sched \in SchedState /\ tasks \in Seq(Row)
      /\ batch \in [active : BOOLEAN, id : 0..MaxBatches]
  BY DEF TypeInv, TypeOK
<1>1. CASE CreateNext
  <2> PICK t \in sched.todo : CreateFor(t) /\ t \in Targets
    BY <1>1, CreateNextFor
  <2>1. UNCHANGED batch /\ sched.pc = "creating"
    BY <1>1 DEF CreateNext
  <2>2. CASE UNCHANGED tasks /\ sched'.queued = sched.queued
    BY <2>1, <2>2 DEF RowsInv, RowsIn
  <2>3. CASE ~(HasActiveTask(t) \/ AttemptsSpent(t, t \in sched.flipped))
    <3> DEFINE n == Len(tasks) + 1
    <3>1. CreateTask(t, batch.id + 1) /\ batch.id + 1 \in Contexts
      BY <1>0, <1>1, <2>3, LimitsAssumption DEF CreateNext, CreateFor, TypeInv
    <3>2. /\ DOMAIN tasks' = DOMAIN tasks \cup {n}
          /\ \A i \in DOMAIN tasks : tasks'[i] = tasks[i]
          /\ tasks'[n] = [target |-> t, context |-> batch.id + 1, status |-> "pending"]
      BY <1>0, <3>1, CreateStep
    <3>3. tasks'[n].context = batch.id + 1
      BY <3>2
    <3> HIDE DEF n
    <3> QED BY <2>1, <3>2, <3>3 DEF RowsInv, RowsIn
  <2> QED BY <1>0, <2>2, <2>3 DEF CreateFor, SchedState
<1>2. CASE ~CreateNext
  <2>1. \A c : {i \in DOMAIN tasks' : tasks'[i].context = c} = RowsIn(c)
    BY <1>2, RowsKept DEF SameRows, RowsIn
  <2>2. CASE UNCHANGED <<batch, sched>>
    BY <2>1, <2>2 DEF RowsInv, RowsIn
  <2>3. CASE Collect
    <3>1. sched'.pc = "creating" => ~sched'.queued
      BY <1>0, <2>3, CollectStep DEF SchedState
    <3> QED BY <2>1, <2>3, <3>1 DEF Collect, RowsInv, RowsIn
  <2>4. CASE ConsumeResult \/ CloseBatch \/ PassGates
    <3>1. /\ sched'.pc # "creating"
          /\ batch'.id = batch.id
          /\ batch'.active => batch.active
      BY <1>0, <2>4 DEF ConsumeResult, CloseBatch, PassGates, SchedState
    <3> QED BY <2>1, <3>1 DEF RowsInv, RowsIn
  <2>5. CASE PublishBatch
    <3>1. sched.pc = "creating" /\ sched'.pc = "idle"
      BY <1>0, <2>5 DEF PublishBatch, SchedState
    <3>2. \/ sched.queued /\ batch'.id = batch.id + 1
          \/ batch' = batch
      BY <1>0, <2>5 DEF PublishBatch
    <3> QED BY <2>1, <3>1, <3>2 DEF RowsInv, RowsIn
  <2> QED
    BY <1>2, <2>2, <2>3, <2>4, <2>5, StepCases
    DEF Claim, GiveUp, Skip, ReadVerdict, Retire, Emit, FinishEmitted,
        ReplayEmitted, ReplayQueueSeed, WatchImported, InitialReplayGateMoves,
        StagnationPasses, vars, workerOthers, replayOthers
<1> QED BY <1>1, <1>2

\* A batch that is not over has a task that waits for the worker or that the
\* worker is at.
THEOREM BatchesCanEnd == Spec => []OpenBatchHasWork
<1>1. Init => LeaseInv /\ RowsInv
  BY DEF Init, LeaseInv, Held, WithStatus, RowsInv
<1>2. LeaseInv /\ RowsInv => OpenBatchHasWork
  <2> SUFFICES ASSUME LeaseInv, RowsInv, batch.active, BatchOpen(batch.id)
               PROVE  \E i \in RowsIn(batch.id) :
                         \/ tasks[i].status = "pending"
                         \/ worker.pc \in {"running", "emitted"} /\ worker.task = i
    BY DEF OpenBatchHasWork
  <2> PICK i \in RowsIn(batch.id) : IsActive(i)
    BY DEF RowsInv, BatchOpen
  <2>1. CASE tasks[i].status = "leased"
    <3>1. i \in Held
      BY <2>1 DEF Held, WithStatus, RowsIn
    <3> QED BY <3>1 DEF LeaseInv
  <2> QED BY <2>1 DEF IsActive, ActiveStatus
<1> QED
  BY <1>1, <1>2, InitTypeInv, StepTypeInv, StepLease, StepRowsInv, PTL DEF Spec
=============================================================================
