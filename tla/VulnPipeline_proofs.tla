------------------------- MODULE VulnPipeline_proofs -------------------------
(***************************************************************************)
(* Proofs about VulnPipeline for any number of targets, seeds and staged    *)
(* files and any limits.                                                    *)
(***************************************************************************)
EXTENDS VulnPipeline, TaskTable_proofs

\* The disjuncts of Next, one per line of a case split.
LEMMA StepCases ==
    ASSUME [Next]_vars
    PROVE  \/ TakeResult \/ MissingTarget \/ TargetTaskLimit \/ GatedHit \/ QueueTask
           \/ Claim \/ InjectStaged \/ MoveStaged \/ EmitSeed \/ FinishServed \/ GiveUp
           \/ BoundarySeed \/ ReplayHealth
           \/ UNCHANGED vars
BY DEF Next, Scheduler, Worker

-----------------------------------------------------------------------------
(* What the steps do to the table.                                           *)

LEMMA FinishStep ==
    ASSUME TypeOK, worker.pc # "idle", NEW outcome \in {"completed", "failed"},
           FinishTask(worker.task, outcome)
    PROVE  /\ tasks' \in Seq(Row)
           /\ SameRows
           /\ \A j \in DOMAIN tasks : IsActive(j)' => IsActive(j)
<1>1. worker.task \in DOMAIN tasks /\ tasks \in Seq(Row)
  BY DEF TypeOK
<1>2. /\ tasks' \in Seq(Row)
      /\ SameRows
      /\ tasks'[worker.task].status = outcome
      /\ \A j \in DOMAIN tasks : j # worker.task => tasks'[j] = tasks[j]
  BY <1>1, StatusStep DEF FinishTask, Status
<1> QED BY <1>1, <1>2 DEF IsActive, ActiveStatus

LEMMA ClaimStep ==
    ASSUME TypeOK, NEW i \in DOMAIN tasks, ClaimTask(i)
    PROVE  /\ tasks' \in Seq(Row)
           /\ SameRows
           /\ \A j \in DOMAIN tasks : IsActive(j)' => IsActive(j)
<1>1. tasks \in Seq(Row)
  BY DEF TypeOK
<1>2. /\ tasks' \in Seq(Row)
      /\ SameRows
      /\ \A j \in DOMAIN tasks : j # i => tasks'[j] = tasks[j]
  BY <1>1, StatusStep DEF ClaimTask, Status
<1> QED BY <1>1, <1>2 DEF IsActive, ActiveStatus, ClaimTask

\* Thread D, and whatever else is not QueueTask, only moves the status of
\* rows, and never makes a closed one open.
LEMMA OnlyQueueTaskCreates ==
    ASSUME TypeOK, [Next]_vars, ~QueueTask
    PROVE  /\ tasks' \in Seq(Row)
           /\ SameRows
           /\ \A j \in DOMAIN tasks : IsActive(j)' => IsActive(j)
<1> USE DEF schedVars, workerVars
<1>1. CASE Claim
  BY <1>1, ClaimStep DEF Claim
<1>2. CASE FinishServed \/ GiveUp
  <2>1. PICK outcome \in {"completed", "failed"} : FinishTask(worker.task, outcome)
    BY <1>2 DEF FinishServed, GiveUp
  <2>2. worker.pc # "idle"
    BY <1>2 DEF FinishServed, GiveUp
  <2> QED BY <2>1, <2>2, FinishStep
<1>3. CASE UNCHANGED tasks
  <2>1. tasks \in Seq(Row)
    BY DEF TypeOK
  <2> QED BY <1>3, <2>1 DEF SameRows, IsActive
<1> QED
  BY <1>1, <1>2, <1>3, StepCases
  DEF TakeResult, MissingTarget, TargetTaskLimit, GatedHit, InjectStaged,
      MoveStaged, EmitSeed, BoundarySeed, ReplayHealth, vars

\* QueueTask for one target.
QueueFor(t) ==
    /\ ~OverLimit(t)
    /\ ~Refused(t)
    /\ CreateTask(t, sched.result.seed)

LEMMA QueueTaskFor ==
    ASSUME TypeOK, QueueTask
    PROVE  /\ sched.result.seed \in Contexts
           /\ \E t \in Targets : QueueFor(t)
BY CatalogAssumption DEF QueueTask, QueueFor, TypeOK, Result

-----------------------------------------------------------------------------
(* Types.                                                                    *)

LEMMA InitTypeOK == Init => TypeOK
<1> SUFFICES ASSUME Init PROVE TypeOK
  OBVIOUS
<1>1. tasks \in Seq(Row) /\ << >> \in Seq(Targets)
  BY EmptySeq DEF Init
<1>2. sched \in [result : Result, todo : Seq(Targets)]
  BY <1>1 DEF Init
<1>3. worker \in WorkerState /\ worker.pc = "idle"
  BY BudgetAssumption DEF Init, WorkerState
<1>4. module \in [Contexts -> Modules]
  BY DEF Init, Modules
<1>5. /\ known \subseteq Catalog /\ analyzed \subseteq Catalog /\ degraded \in BOOLEAN
      /\ pending \subseteq Staged /\ injected \subseteq Staged
  BY DEF Init
<1> QED BY <1>1, <1>2, <1>3, <1>4, <1>5 DEF TypeOK

\* A turn of the loop over the hits.
LEMMA TurnStep ==
    ASSUME TypeOK, NEW t, Turn(t)
    PROVE  sched' \in [result : Result, todo : Seq(Targets)]
<1>1. sched \in [result : Result, todo : Seq(Targets)] /\ sched.todo # << >>
  BY DEF TypeOK, Turn
<1>2. Tail(sched.todo) \in Seq(Targets)
  BY <1>1, HeadTailProperties
<1>3. sched' = [sched EXCEPT !.todo = Tail(sched.todo)]
  BY DEF Turn
<1> HIDE DEF Result
<1> QED BY <1>1, <1>2, <1>3

LEMMA StepTypeOK == TypeOK /\ [Next]_vars => TypeOK'
<1> SUFFICES ASSUME TypeOK, [Next]_vars PROVE TypeOK'
  OBVIOUS
<1> USE DEF schedVars, workerVars
<1>1. CASE TakeResult
  <2>1. PICK r \in Result, hits \in HitLists :
          /\ known' = IF r.lane = "generated-handoff"
                      THEN known \cup ({hits[i] : i \in DOMAIN hits} \cap Catalog)
                      ELSE known
          /\ sched' = IF Schedules(r) THEN [result |-> r, todo |-> hits] ELSE sched
    BY <1>1 DEF TakeResult
  <2>2. hits \in Seq(Targets)
    <3>1. PICK n \in 0..MaxHits : hits \in [1..n -> Targets]
      BY DEF HitLists
    <3> QED BY <3>1, BudgetAssumption
  <2>3. sched' \in [result : Result, todo : Seq(Targets)]
    BY <2>1, <2>2 DEF TypeOK
  <2>4. known' \subseteq Catalog
    BY <2>1 DEF TypeOK
  <2>5. UNCHANGED <<tasks, analyzed, module, degraded, workerVars>>
    BY <1>1 DEF TakeResult
  <2> QED BY <2>3, <2>4, <2>5 DEF TypeOK
<1>2. CASE MissingTarget \/ TargetTaskLimit \/ GatedHit
  <2>1. sched' \in [result : Result, todo : Seq(Targets)]
    BY <1>2, TurnStep DEF MissingTarget, TargetTaskLimit, GatedHit
  <2>2. known' \subseteq Catalog /\ analyzed' \subseteq Catalog
    BY <1>2 DEF MissingTarget, TargetTaskLimit, GatedHit, TypeOK
  <2>3. UNCHANGED <<tasks, module, degraded, workerVars>>
    BY <1>2 DEF MissingTarget, TargetTaskLimit, GatedHit, Turn
  <2> QED BY <2>1, <2>2, <2>3 DEF TypeOK
<1>3. CASE QueueTask
  <2>1. sched' \in [result : Result, todo : Seq(Targets)]
    BY <1>3, TurnStep DEF QueueTask
  <2>2. /\ known' \subseteq Catalog
        /\ UNCHANGED <<analyzed, module, degraded, workerVars>>
    BY <1>3 DEF QueueTask, Turn, TypeOK
  <2>3. sched.result.seed \in Contexts
    BY <1>3, QueueTaskFor
  <2> PICK t \in Targets : QueueFor(t)
    BY <1>3, QueueTaskFor
  <2>4. tasks' \in Seq(Row) /\ DOMAIN tasks \subseteq DOMAIN tasks'
    BY <2>3, CreateStep DEF QueueFor, TypeOK
  <2> QED BY <2>1, <2>2, <2>4 DEF TypeOK
<1>4. CASE Claim
  <2> PICK i \in DOMAIN tasks :
         /\ ClaimTask(i)
         /\ worker' = [worker EXCEPT !.pc = "running", !.task = i]
    BY <1>4 DEF Claim
  <2>1. tasks' \in Seq(Row) /\ DOMAIN tasks' = DOMAIN tasks
    BY ClaimStep DEF SameRows
  <2>2. i \in Nat
    BY DEF TypeOK
  <2>3. worker' \in WorkerState /\ worker'.task \in DOMAIN tasks
    BY <2>2 DEF WorkerState, TypeOK
  <2> QED BY <1>4, <2>1, <2>3 DEF Claim, TypeOK
<1>5. CASE FinishServed \/ GiveUp
  <2>1. tasks' \in Seq(Row) /\ DOMAIN tasks' = DOMAIN tasks
    <3>1. PICK outcome \in {"completed", "failed"} : FinishTask(worker.task, outcome)
      BY <1>5 DEF FinishServed, GiveUp
    <3>2. worker.pc # "idle"
      BY <1>5 DEF FinishServed, GiveUp
    <3> QED BY <3>1, <3>2, FinishStep DEF SameRows
  <2>2. worker' \in WorkerState /\ worker'.pc = "idle"
    <3>1. 0 \in 0..InjectLimit
      BY BudgetAssumption
    <3>2. worker \in WorkerState
      BY DEF TypeOK
    <3>3. worker' = [worker EXCEPT !.pc = "idle", !.seeds = 0]
      BY <1>5 DEF FinishServed, GiveUp
    <3> QED BY <3>1, <3>2, <3>3 DEF WorkerState
  <2> QED BY <1>5, <2>1, <2>2 DEF FinishServed, GiveUp, TypeOK
<1>6. CASE InjectStaged
  <2> PICK f \in pending :
         /\ worker' = [worker EXCEPT !.pc = "injected", !.seeds = 1, !.file = f]
         /\ injected' = injected \cup {f}
    BY <1>6 DEF InjectStaged
  <2>1. 1 \in 0..InjectLimit
    BY BudgetAssumption
  <2>2. worker \in WorkerState /\ f \in Staged
    BY DEF TypeOK
  <2>3. worker' \in WorkerState /\ worker'.task = worker.task
    BY <2>1, <2>2 DEF WorkerState
  <2>4. worker.pc # "idle" /\ injected' \subseteq Staged
    BY <1>6, <2>2 DEF InjectStaged, TypeOK
  <2> QED BY <1>6, <2>3, <2>4 DEF InjectStaged, TypeOK
<1>7. CASE MoveStaged \/ EmitSeed
  <2>1. worker' \in WorkerState /\ worker'.task = worker.task /\ worker.pc # "idle"
    <3> DEFINE n == worker.seeds + 1
    <3>1. worker \in WorkerState
      BY DEF TypeOK
    <3>2. worker.seeds \in Nat /\ InjectLimit \in Nat
      BY <3>1, BudgetAssumption DEF WorkerState
    <3>3. EmitSeed => n \in 0..InjectLimit
      BY <3>2 DEF EmitSeed
    <3>4. CASE EmitSeed
      <4>1. worker' = [worker EXCEPT !.pc = "emitted", !.seeds = n]
        BY <3>4 DEF EmitSeed
      <4>2. worker.pc # "idle"
        BY <3>4 DEF EmitSeed
      <4> HIDE DEF n
      <4> QED BY <3>1, <3>3, <3>4, <4>1, <4>2 DEF WorkerState
    <3> QED BY <1>7, <3>1, <3>4 DEF MoveStaged, WorkerState
  <2>2. pending' \subseteq Staged /\ module' \in [Contexts -> Modules]
    BY <1>7 DEF MoveStaged, EmitSeed, EnqueueGeneratedSeed, TypeOK, Modules
  <2> QED BY <1>7, <2>1, <2>2 DEF MoveStaged, EmitSeed, TypeOK
<1>8. CASE BoundarySeed \/ ReplayHealth
  BY <1>8 DEF BoundarySeed, EnqueueGeneratedSeed, ReplayHealth, TypeOK, Modules
<1>9. CASE UNCHANGED vars
  BY <1>9 DEF vars, TypeOK
<1> QED BY <1>1, <1>2, <1>3, <1>4, <1>5, <1>6, <1>7, <1>8, <1>9, StepCases

\* Every state of the system has the types TypeOK states.
THEOREM TypeCorrect == Spec => []TypeOK
BY InitTypeOK, StepTypeOK, PTL DEF Spec

-----------------------------------------------------------------------------
(* The budget.                                                               *)

LEMMA CountStep ==
    ASSUME TypeOK, [Next]_vars, NEW u \in Targets
    PROVE  /\ CountTasks(u) \in Nat /\ CountTasks(u)' \in Nat
           /\ CountTasks(u) <= CountTasks(u)'
           /\ CountTasks(u)' <= CountTasks(u) + 1
           /\ CountTasks(u)' # CountTasks(u) => ~OverLimit(u)
<1>1. CountTasks(u) \in Nat
  BY RowsFinite DEF TypeOK
<1>2. CASE QueueTask
  <2> PICK t \in Targets : QueueFor(t)
    BY <1>2, QueueTaskFor
  <2>1. CountTasks(u)' = IF u = t THEN CountTasks(u) + 1 ELSE CountTasks(u)
    BY <1>2, QueueTaskFor, CreateCount DEF QueueFor, TypeOK
  <2> QED BY <1>1, <2>1 DEF QueueFor
<1>3. CASE ~QueueTask
  <2>1. CountTasks(u)' = CountTasks(u)
    BY <1>3, OnlyQueueTaskCreates, SameRowsCount
  <2> QED BY <1>1, <2>1
<1> QED BY <1>2, <1>3

\* No target ever has more tasks than the limit and the extra budget allow.
THEOREM BudgetKept == Spec => []VulnBudget
<1>1. Init => VulnBudget
  <2> SUFFICES ASSUME Init, NEW t \in Targets PROVE CountTasks(t) <= MaxTasks + ExtraTasks
    BY DEF VulnBudget
  <2>1. tasks \in Seq(Row) /\ Rows(t) = {}
    BY InitTypeOK DEF Init, TypeOK, Rows
  <2>2. CountTasks(t) = 0
    BY <2>1, RowsFinite
  <2> QED BY <2>2, BudgetAssumption
<1>2. TypeOK /\ VulnBudget /\ [Next]_vars => VulnBudget'
  <2> SUFFICES ASSUME TypeOK, VulnBudget, [Next]_vars, NEW t \in Targets
               PROVE  CountTasks(t)' <= MaxTasks + ExtraTasks
    BY DEF VulnBudget
  <2>1. CountTasks(t) \in Nat /\ CountTasks(t)' \in Nat /\ CountTasks(t)' <= CountTasks(t) + 1
    BY CountStep
  <2>2. CASE CountTasks(t)' = CountTasks(t)
    BY <2>2 DEF VulnBudget
  <2>3. CASE ~OverLimit(t)
    <3>1. CountTasks(t) < MaxTasks \/ CountTasks(t) - MaxTasks < ExtraTasks
      BY <2>1, <2>3, BudgetAssumption DEF OverLimit, ExtraAllowed
    <3> QED BY <2>1, <3>1, BudgetAssumption
  <2> QED BY <2>2, <2>3, CountStep
<1> QED BY <1>1, <1>2, InitTypeOK, StepTypeOK, PTL DEF Spec

\* A target with the verdict "vuln-task-limit" has had its tasks.
THEOREM VerdictEarned == Spec => []LimitVerdictEarned
<1>1. Init => LimitVerdictEarned
  BY DEF Init, LimitVerdictEarned
<1>2. TypeOK /\ LimitVerdictEarned /\ [Next]_vars => LimitVerdictEarned'
  <2> SUFFICES ASSUME TypeOK, LimitVerdictEarned, [Next]_vars, NEW t \in analyzed'
               PROVE  CountTasks(t)' >= MaxTasks
    BY DEF LimitVerdictEarned
  <2>1. TypeOK'
    BY StepTypeOK
  <2>2. t \in Targets
    BY <2>1, CatalogAssumption DEF TypeOK
  <2>3. /\ CountTasks(t) \in Nat /\ CountTasks(t)' \in Nat
        /\ CountTasks(t) <= CountTasks(t)'
    BY <2>2, CountStep
  <2>4. CASE t \in analyzed
    BY <2>3, <2>4, BudgetAssumption DEF LimitVerdictEarned
  <2>5. CASE t \notin analyzed
    <3>1. TargetTaskLimit
      BY <2>5, StepCases
      DEF TakeResult, MissingTarget, GatedHit, QueueTask, Claim, InjectStaged,
          MoveStaged, EmitSeed, FinishServed, GiveUp, BoundarySeed, ReplayHealth,
          vars, schedVars, workerVars
    <3>2. PICK u \in Catalog : OverLimit(u) /\ analyzed' = analyzed \cup {u}
      BY <3>1 DEF TargetTaskLimit
    <3>3. t = u
      BY <2>5, <3>2
    <3>4. CountTasks(t) >= MaxTasks
      BY <3>2, <3>3 DEF OverLimit
    <3> QED BY <2>3, <3>4, BudgetAssumption
  <2> QED BY <2>4, <2>5
<1> QED BY <1>1, <1>2, InitTypeOK, StepTypeOK, PTL DEF Spec

-----------------------------------------------------------------------------
(* Duplicate work.  The property is inductive: a row is only added when no   *)
(* row of the target is open and none is from the seed.                      *)

\* A target's tasks come from different seeds, and at most one is open.
THEOREM NoWorkTwice == Spec => []NoDuplicateWork
<1>1. Init => NoDuplicateWork
  BY DEF Init, NoDuplicateWork
<1>2. TypeOK /\ NoDuplicateWork /\ [Next]_vars => NoDuplicateWork'
  <2> SUFFICES ASSUME TypeOK, NoDuplicateWork, [Next]_vars PROVE NoDuplicateWork'
    OBVIOUS
  <2>1. CASE ~QueueTask
    BY <2>1, OnlyQueueTaskCreates DEF NoDuplicateWork, SameRows
  <2>2. CASE QueueTask
    <3> PICK t \in Targets : QueueFor(t)
      BY <2>2, QueueTaskFor
    <3> DEFINE n == Len(tasks) + 1
    <3>1. sched.result.seed \in Contexts
      BY <2>2, QueueTaskFor
    <3>2. /\ DOMAIN tasks' = DOMAIN tasks \cup {n}
          /\ n \notin DOMAIN tasks
          /\ \A i \in DOMAIN tasks : tasks'[i] = tasks[i]
          /\ tasks'[n] = [target |-> t, context |-> sched.result.seed,
                          status |-> "pending"]
      BY <3>1, CreateStep DEF QueueFor, TypeOK
    <3> HIDE DEF n
    <3>3. tasks'[n].target = t /\ tasks'[n].context = sched.result.seed
      BY <3>2
    <3>4. \A i \in DOMAIN tasks : tasks[i].target = t =>
             tasks[i].context # sched.result.seed /\ ~IsActive(i)
      BY DEF QueueFor, Refused, HasTask, HasActiveTask, Rows, RowsIn
    <3> QED BY <3>2, <3>3, <3>4 DEF NoDuplicateWork, IsActive
  <2> QED BY <2>1, <2>2
<1> QED BY <1>1, <1>2, InitTypeOK, StepTypeOK, PTL DEF Spec

-----------------------------------------------------------------------------
(* Staged seeds.  What is at hand to be moved has been injected.             *)

StagedInv ==
    /\ StagedNotLost
    /\ worker.pc = "injected" => worker.file \in injected

LEMMA StepStagedInv == TypeOK /\ StagedInv /\ [Next]_vars => StagedInv'
<1> SUFFICES ASSUME TypeOK, StagedInv, [Next]_vars PROVE StagedInv'
  OBVIOUS
<1> USE DEF StagedInv, StagedNotLost
<1>0. worker \in WorkerState
  BY DEF TypeOK
<1>1. CASE UNCHANGED workerVars
  BY <1>1 DEF workerVars
<1>2. CASE Claim
  <2>1. worker'.pc = "running"
    BY <1>0, <1>2 DEF Claim, WorkerState
  <2> QED BY <1>2, <2>1 DEF Claim
<1>3. CASE InjectStaged
  <2> PICK f \in pending :
         /\ worker' = [worker EXCEPT !.pc = "injected", !.seeds = 1, !.file = f]
         /\ injected' = injected \cup {f}
    BY <1>3 DEF InjectStaged
  <2>1. worker'.file = f
    BY <1>0 DEF WorkerState
  <2> QED BY <1>3, <2>1 DEF InjectStaged
<1>4. CASE MoveStaged
  <2>1. worker'.pc = "served"
    BY <1>0, <1>4 DEF MoveStaged, WorkerState
  <2> QED BY <1>4, <2>1 DEF MoveStaged
<1>5. CASE EmitSeed
  <2>1. worker'.pc = "emitted"
    BY <1>0, <1>5 DEF EmitSeed, WorkerState
  <2> QED BY <1>5, <2>1 DEF EmitSeed
<1>6. CASE FinishServed \/ GiveUp
  <2>1. worker'.pc = "idle"
    BY <1>0, <1>6 DEF FinishServed, GiveUp, WorkerState
  <2> QED BY <1>6, <2>1 DEF FinishServed, GiveUp
<1> QED
  BY <1>1, <1>2, <1>3, <1>4, <1>5, <1>6, StepCases
  DEF TakeResult, MissingTarget, TargetTaskLimit, GatedHit, QueueTask, Turn,
      BoundarySeed, ReplayHealth, vars, workerVars

\* Every quarantined seed is still waiting or has been injected.
THEOREM StagedKept == Spec => []StagedNotLost
<1>1. Init => StagedInv
  BY DEF Init, StagedInv, StagedNotLost
<1>2. StagedInv => StagedNotLost
  BY DEF StagedInv
<1> QED BY <1>1, <1>2, InitTypeOK, StepTypeOK, StepStagedInv, PTL DEF Spec

-----------------------------------------------------------------------------
(* Tasks are worked on once.  The leased row is the one the worker is at, in *)
(* all of its places.                                                        *)

LeaseInv == WithStatus({"leased"}) = IF worker.pc = "idle" THEN {} ELSE {worker.task}

LEMMA StepLeaseInv == TypeOK /\ LeaseInv /\ [Next]_vars => LeaseInv'
<1> SUFFICES ASSUME TypeOK, LeaseInv, [Next]_vars PROVE LeaseInv'
  OBVIOUS
<1> USE DEF LeaseInv, schedVars, workerVars
<1>0. tasks \in Seq(Row) /\ worker \in WorkerState
      /\ (worker.pc # "idle" => worker.task \in DOMAIN tasks)
  BY DEF TypeOK
<1>1. CASE QueueTask
  <2> PICK t \in Targets : QueueFor(t)
    BY <1>1, QueueTaskFor
  <2>1. WithStatus({"leased"})' = WithStatus({"leased"})
    BY <1>0, <1>1, QueueTaskFor, CreateSets DEF QueueFor
  <2> QED BY <1>1, <2>1 DEF QueueTask, Turn
<1>2. CASE Claim
  <2> PICK i \in DOMAIN tasks :
         /\ ClaimTask(i)
         /\ worker' = [worker EXCEPT !.pc = "running", !.task = i]
    BY <1>2 DEF Claim
  <2>1. WithStatus({"leased"})' = WithStatus({"leased"}) \cup {i}
    BY <1>0, StatusSets DEF ClaimTask, Status
  <2>2. worker'.pc = "running" /\ worker'.task = i
    BY <1>0 DEF WorkerState
  <2> QED BY <1>2, <2>1, <2>2 DEF Claim
<1>3. CASE FinishServed \/ GiveUp
  <2>1. PICK outcome \in {"completed", "failed"} : FinishTask(worker.task, outcome)
    BY <1>3 DEF FinishServed, GiveUp
  <2>2. worker.pc # "idle" /\ worker'.pc = "idle"
    BY <1>0, <1>3 DEF FinishServed, GiveUp, WorkerState
  <2>3. WithStatus({"leased"})' = WithStatus({"leased"}) \ {worker.task}
    BY <1>0, <2>1, <2>2, StatusSets DEF FinishTask, Status
  <2> QED BY <2>2, <2>3
<1>4. CASE InjectStaged \/ MoveStaged \/ EmitSeed
  <2>1. worker.pc # "idle" /\ worker'.pc # "idle" /\ worker'.task = worker.task
    BY <1>0, <1>4 DEF InjectStaged, MoveStaged, EmitSeed, WorkerState
  <2>2. UNCHANGED tasks
    BY <1>4 DEF InjectStaged, MoveStaged, EmitSeed
  <2> QED BY <2>1, <2>2 DEF WithStatus
<1>5. CASE UNCHANGED <<tasks, worker>>
  BY <1>5 DEF WithStatus
<1> QED
  BY <1>1, <1>2, <1>3, <1>4, <1>5, StepCases
  DEF TakeResult, MissingTarget, TargetTaskLimit, GatedHit, Turn, BoundarySeed,
      ReplayHealth, vars

\* No task stays leased behind the worker, whatever exception moves it on.
THEOREM NoTaskStranded == Spec => []LeasedIsHeld
<1>1. Init => LeaseInv
  BY DEF Init, LeaseInv, WithStatus
<1>2. LeaseInv => LeasedIsHeld
  <2> SUFFICES ASSUME LeaseInv, NEW i \in DOMAIN tasks, tasks[i].status = "leased"
               PROVE  worker.pc # "idle" /\ worker.task = i
    BY DEF LeasedIsHeld
  <2>1. i \in WithStatus({"leased"})
    BY DEF WithStatus
  <2> QED BY <2>1 DEF LeaseInv
<1> QED BY <1>1, <1>2, InitTypeOK, StepTypeOK, StepLeaseInv, PTL DEF Spec

\* Seeds are counted from the first one of a task on, until it is finished.
SeedInv == worker.pc \in {"idle", "running"} => worker.seeds = 0

LEMMA StepSeedInv == TypeOK /\ SeedInv /\ [Next]_vars => SeedInv'
<1> SUFFICES ASSUME TypeOK, SeedInv, [Next]_vars PROVE SeedInv'
  OBVIOUS
<1>0. worker \in WorkerState
  BY DEF TypeOK
<1>1. CASE Claim \/ FinishServed \/ GiveUp
  <2>1. worker'.seeds = 0
    BY <1>0, <1>1 DEF Claim, FinishServed, GiveUp, WorkerState, SeedInv
  <2> QED BY <2>1 DEF SeedInv
<1>2. CASE InjectStaged \/ MoveStaged \/ EmitSeed
  <2>1. worker'.pc \in {"injected", "served", "emitted"}
    BY <1>0, <1>2 DEF InjectStaged, MoveStaged, EmitSeed, WorkerState
  <2> QED BY <2>1 DEF SeedInv
<1>3. CASE UNCHANGED worker
  BY <1>3 DEF SeedInv
<1> QED
  BY <1>1, <1>2, <1>3, StepCases
  DEF TakeResult, MissingTarget, TargetTaskLimit, GatedHit, QueueTask, Turn,
      BoundarySeed, ReplayHealth, vars, workerVars

Queued == WithStatus({"pending"})
Held == WithStatus({"leased"})
Done == WithStatus({"completed", "failed"})

LEMMA LifecycleKept ==
    ASSUME UNCHANGED tasks, UNCHANGED worker.seeds
    PROVE  UNCHANGED Lifecycle!vars
BY DEF Lifecycle!vars, WithStatus

LEMMA StepLifecycle ==
    ASSUME TypeOK, LeaseInv, SeedInv, [Next]_vars
    PROVE  Lifecycle!Next \/ UNCHANGED Lifecycle!vars
<1> USE DEF LeaseInv, schedVars, workerVars, Queued, Held, Done
<1>0. tasks \in Seq(Row) /\ worker \in WorkerState
      /\ (worker.pc # "idle" => worker.task \in DOMAIN tasks)
  BY DEF TypeOK
<1>1. CASE QueueTask
  <2> PICK t \in Targets : QueueFor(t)
    BY <1>1, QueueTaskFor
  <2> DEFINE n == Len(tasks) + 1
  <2>1. CreateTask(t, sched.result.seed) /\ sched.result.seed \in Contexts
    BY <1>1, QueueTaskFor DEF QueueFor
  <2>2. n \notin DOMAIN tasks
    BY <1>0, <2>1, CreateStep
  <2>3. /\ Queued' = Queued \cup {n}
        /\ Held' = Held
        /\ Done' = Done
    BY <1>0, <2>1, CreateSets
  <2>4. n \notin Queued \cup Held \cup Done
    BY <2>2 DEF WithStatus
  <2>5. worker'.seeds = worker.seeds
    BY <1>1 DEF QueueTask, Turn
  <2> HIDE DEF n
  <2> QED BY <2>3, <2>4, <2>5 DEF Lifecycle!Next, Lifecycle!Queue
<1>2. CASE Claim
  <2> PICK i \in DOMAIN tasks :
         /\ ClaimTask(i)
         /\ worker' = [worker EXCEPT !.pc = "running", !.task = i]
    BY <1>2 DEF Claim
  <2>1. /\ Queued' = Queued \ {i}
        /\ Held' = Held \cup {i}
        /\ Done' = Done \ {i}
    BY <1>0, StatusSets DEF ClaimTask, Status
  <2>2. i \in Queued /\ i \notin Done
    BY DEF ClaimTask, WithStatus
  <2>3. worker.pc = "idle" /\ worker'.seeds = worker.seeds
    BY <1>0, <1>2 DEF Claim, WorkerState
  <2>4. Held = {}
    BY <2>3
  <2> QED BY <2>1, <2>2, <2>3, <2>4 DEF Lifecycle!Next, Lifecycle!Take
<1>3. CASE FinishServed \/ GiveUp
  <2>1. PICK outcome \in {"completed", "failed"} : FinishTask(worker.task, outcome)
    BY <1>3 DEF FinishServed, GiveUp
  <2>2. worker.pc # "idle" /\ worker'.seeds = 0
    BY <1>0, <1>3 DEF FinishServed, GiveUp, WorkerState
  <2>3. Held = {worker.task}
    BY <2>2
  <2>4. /\ Queued' = Queued \ {worker.task}
        /\ Held' = Held \ {worker.task}
        /\ Done' = Done \cup {worker.task}
    <3>1. /\ worker.task \in DOMAIN tasks /\ outcome \in Status
          /\ tasks' = [tasks EXCEPT ![worker.task].status = outcome]
      BY <1>0, <2>1, <2>2 DEF FinishTask, Status
    <3>2. \A S \in {{"pending"}, {"leased"}, {"completed", "failed"}} :
             WithStatus(S)' = IF outcome \in S THEN WithStatus(S) \cup {worker.task}
                              ELSE WithStatus(S) \ {worker.task}
      BY <1>0, <3>1, StatusSets
    <3> QED BY <3>2
  <2>5. worker.task \notin Queued
    BY <2>3 DEF WithStatus
  <2> QED BY <2>2, <2>3, <2>4, <2>5 DEF Lifecycle!Next, Lifecycle!Finish
<1>4. CASE InjectStaged \/ EmitSeed
  <2>1. /\ worker.pc # "idle"
        /\ worker.seeds < InjectLimit
        /\ worker'.seeds = worker.seeds + 1
    <3>1. CASE InjectStaged
      <4>1. worker.pc = "running" /\ worker.seeds = 0 /\ worker'.seeds = 1
        BY <1>0, <3>1 DEF InjectStaged, WorkerState, SeedInv
      <4> QED BY <4>1, BudgetAssumption
    <3>2. CASE EmitSeed
      BY <1>0, <3>2 DEF EmitSeed, WorkerState
    <3> QED BY <1>4, <3>1, <3>2
  <2>2. UNCHANGED tasks
    BY <1>4 DEF InjectStaged, EmitSeed
  <2>3. Held # {}
    BY <2>1
  <2>4. Queued' = Queued /\ Held' = Held /\ Done' = Done
    BY <2>2 DEF WithStatus
  <2> QED BY <2>1, <2>3, <2>4 DEF Lifecycle!Next, Lifecycle!Answer
<1>5. CASE MoveStaged
  <2>1. worker'.seeds = worker.seeds /\ UNCHANGED tasks
    BY <1>0, <1>5 DEF MoveStaged, WorkerState
  <2> QED BY <2>1, LifecycleKept
<1>6. CASE UNCHANGED <<tasks, worker>>
  BY <1>6, LifecycleKept
<1> QED
  BY <1>1, <1>2, <1>3, <1>4, <1>5, <1>6, StepCases
  DEF TakeResult, MissingTarget, TargetTaskLimit, GatedHit, Turn, BoundarySeed,
      ReplayHealth, vars

\* A task is taken up once and alone, gives seeds only while it is held and never
\* more than InjectLimit, and once finished gives none and is not taken up again,
\* wherever the seeds come from and wherever an exception strikes.
THEOREM VulnTasksRunOnce == Spec => ImplementsTaskLifecycle
<1>1. Init => LeaseInv /\ SeedInv
  BY DEF Init, LeaseInv, SeedInv, WithStatus
<1>2. Init => Lifecycle!Init
  BY DEF Init, Lifecycle!Init, WithStatus
<1>3. TypeOK /\ LeaseInv /\ SeedInv /\ [Next]_vars => [Lifecycle!Next]_Lifecycle!vars
  BY StepLifecycle
<1> QED
  BY <1>1, <1>2, <1>3, InitTypeOK, StepTypeOK, StepLeaseInv, StepSeedInv, PTL
  DEF Spec, ImplementsTaskLifecycle, Lifecycle!Spec

-----------------------------------------------------------------------------
(* Targets are worked on within a budget.                                    *)

LEMMA StepWork ==
    ASSUME TypeOK, NoDuplicateWork, [Next]_vars
    PROVE  Work!Next \/ UNCHANGED Work!vars
<1> USE DEF schedVars, workerVars
<1>0. tasks \in Seq(Row) /\ (worker.pc # "idle" => worker.task \in DOMAIN tasks)
  BY DEF TypeOK
<1>1. CASE QueueTask
  <2> PICK t \in Targets : QueueFor(t)
    BY <1>1, QueueTaskFor
  <2> DEFINE c == sched.result.seed
  <2>1. CreateTask(t, c) /\ c \in Contexts
    BY <1>1, QueueTaskFor DEF QueueFor
  <2>2. /\ Occasions' = [Occasions EXCEPT ![t] = @ \cup {c}]
        /\ Spent' = [Spent EXCEPT ![t] = @ + 1]
        /\ OpenTargets' = OpenTargets \cup {t}
    BY <1>0, <2>1, CreateWork
  <2>3. t \notin OpenTargets
    BY <1>0, OpenTargetsAre DEF QueueFor, Refused
  <2>4. c \notin Occasions[t]
    BY DEF QueueFor, Refused, HasTask, Occasions, Rows, RowsIn
  <2>5. Spent[t] < MaxTasks + ExtraTasks
    <3>1. CountTasks(t) \in Nat
      BY <1>0, RowsFinite
    <3>2. CountTasks(t) < MaxTasks \/ CountTasks(t) - MaxTasks < ExtraTasks
      BY <3>1, BudgetAssumption DEF QueueFor, OverLimit, ExtraAllowed
    <3> QED BY <3>1, <3>2, BudgetAssumption DEF Spent
  <2> HIDE DEF c
  <2>6. Work!Begin(t, c)
    BY <2>2, <2>3, <2>4, <2>5 DEF Work!Begin
  <2> QED BY <2>1, <2>2, <2>3, <2>6 DEF Work!Next
<1>2. CASE Claim
  <2> PICK i \in DOMAIN tasks : ClaimTask(i)
    BY <1>2 DEF Claim
  <2>1. tasks' = [tasks EXCEPT ![i].status = "leased"]
    BY DEF ClaimTask
  <2>2. IsActive(i) /\ "leased" \in ActiveStatus /\ "leased" \in Status
    BY DEF ClaimTask, IsActive, ActiveStatus, Status
  <2>3. UNCHANGED <<Occasions, Spent, OpenTargets>>
    BY <1>0, <2>1, <2>2, StatusWorkSame
  <2> QED BY <2>3 DEF Work!vars
<1>3. CASE FinishServed \/ GiveUp
  <2>1. PICK outcome \in {"completed", "failed"} : FinishTask(worker.task, outcome)
    BY <1>3 DEF FinishServed, GiveUp
  <2> DEFINE i == worker.task
  <2>2. i \in DOMAIN tasks
    BY <1>0, <1>3 DEF FinishServed, GiveUp
  <2>3. tasks' = [tasks EXCEPT ![i].status = outcome] /\ outcome \in Status \ ActiveStatus
    BY <2>1 DEF FinishTask, Status, ActiveStatus
  <2> HIDE DEF i
  <2>4. CASE ~IsActive(i)
    BY <1>0, <2>2, <2>3, <2>4, StatusWorkSame DEF Work!vars
  <2>5. CASE IsActive(i)
    <3>1. \A j \in DOMAIN tasks :
             IsActive(j) /\ tasks[j].target = tasks[i].target => j = i
      BY <2>2, <2>5 DEF NoDuplicateWork
    <3>2. /\ UNCHANGED <<Occasions, Spent>>
          /\ tasks[i].target \in OpenTargets
          /\ OpenTargets' = OpenTargets \ {tasks[i].target}
      BY <1>0, <2>2, <2>3, <2>5, <3>1, CloseWork
    <3> QED BY <3>2 DEF Work!Next, Work!End
  <2> QED BY <2>4, <2>5
<1>4. CASE UNCHANGED tasks
  BY <1>4 DEF Work!vars, Occasions, Spent, OpenTargets, CountTasks, Rows, WithStatus
<1> QED
  BY <1>1, <1>2, <1>3, <1>4, StepCases
  DEF TakeResult, MissingTarget, TargetTaskLimit, GatedHit, InjectStaged,
      MoveStaged, EmitSeed, BoundarySeed, ReplayHealth, vars

\* A target is worked on by one task at a time, once for a seed, and within the
\* two limits together.
THEOREM VulnWorkIsBudgeted == Spec => ImplementsTargetWork
<1>1. Init => Work!Init
  BY EmptyWork DEF Init, Work!Init
<1>2. TypeOK /\ NoDuplicateWork /\ [Next]_vars => [Work!Next]_Work!vars
  BY StepWork
<1>3. Spec => []TypeOK
  BY TypeCorrect
<1> QED
  BY <1>1, <1>2, <1>3, NoWorkTwice, PTL DEF Spec, ImplementsTargetWork, Work!Spec
=============================================================================
