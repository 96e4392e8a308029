--------------------------- MODULE TaskTable_proofs ---------------------------
(***************************************************************************)
(* What one step on the tasks table does to the questions the schedulers    *)
(* ask of it, for any number of targets, contexts and rows.                 *)
(***************************************************************************)
EXTENDS TaskTable, FiniteSetTheorems, SequenceTheorems, TLAPS

LEMMA RowsFinite ==
    ASSUME tasks \in Seq(Row), NEW t
    PROVE  /\ IsFiniteSet(Rows(t))
           /\ CountTasks(t) \in Nat
           /\ CountTasks(t) = 0 <=> Rows(t) = {}
<1>1. DOMAIN tasks = 1..Len(tasks) /\ Len(tasks) \in Nat
  OBVIOUS
<1>2. IsFiniteSet(Rows(t))
  <2>1. IsFiniteSet(1..Len(tasks))
    BY <1>1, FS_Interval
  <2>2. Rows(t) \subseteq 1..Len(tasks)
    BY <1>1 DEF Rows
  <2> QED BY <2>1, <2>2, FS_Subset
<1>3. CountTasks(t) \in Nat
  BY <1>2, FS_CardinalityType DEF CountTasks
<1>4. CountTasks(t) = 0 <=> Rows(t) = {}
  BY <1>2, FS_EmptySet DEF CountTasks
<1> QED BY <1>2, <1>3, <1>4

\* A step that only moves the status of a row.
SameRows ==
    /\ DOMAIN tasks' = DOMAIN tasks
    /\ \A i \in DOMAIN tasks : /\ tasks'[i].target = tasks[i].target
                               /\ tasks'[i].context = tasks[i].context

LEMMA SameRowsCount ==
    ASSUME SameRows
    PROVE  \A t : Rows(t)' = Rows(t) /\ CountTasks(t)' = CountTasks(t)
<1> SUFFICES ASSUME NEW t PROVE Rows(t)' = Rows(t) /\ CountTasks(t)' = CountTasks(t)
  OBVIOUS
<1>1. Rows(t)' = Rows(t)
  BY DEF Rows, SameRows
<1> QED BY <1>1 DEF CountTasks

LEMMA StatusStep ==
    ASSUME tasks \in Seq(Row), NEW i \in DOMAIN tasks, NEW s \in Status,
           tasks' = [tasks EXCEPT ![i].status = s]
    PROVE  /\ tasks' \in Seq(Row)
           /\ SameRows
           /\ tasks'[i].status = s
           /\ \A j \in DOMAIN tasks : j # i => tasks'[j] = tasks[j]
<1>1. tasks[i] \in Row
  BY ElementOfSeq
<1>2. [tasks[i] EXCEPT !.status = s] \in Row
  BY <1>1 DEF Row
<1>3. tasks' = [tasks EXCEPT ![i] = [tasks[i] EXCEPT !.status = s]]
  OBVIOUS
<1>4. tasks' \in Seq(Row)
  BY <1>2, <1>3, ExceptSeq
<1>5. /\ DOMAIN tasks' = DOMAIN tasks
      /\ tasks'[i] = [tasks[i] EXCEPT !.status = s]
      /\ \A j \in DOMAIN tasks : j # i => tasks'[j] = tasks[j]
  BY <1>3
<1>6. /\ tasks'[i].status = s
      /\ tasks'[i].target = tasks[i].target
      /\ tasks'[i].context = tasks[i].context
  BY <1>1, <1>5 DEF Row
<1> QED BY <1>4, <1>5, <1>6 DEF SameRows

LEMMA CreateStep ==
    ASSUME tasks \in Seq(Row), NEW t \in Targets, NEW c \in Contexts, CreateTask(t, c)
    PROVE  /\ tasks' \in Seq(Row)
           /\ DOMAIN tasks' = DOMAIN tasks \cup {Len(tasks) + 1}
           /\ Len(tasks) + 1 \notin DOMAIN tasks
           /\ \A i \in DOMAIN tasks : tasks'[i] = tasks[i]
           /\ tasks'[Len(tasks) + 1] = [target |-> t, context |-> c, status |-> "pending"]
<1> DEFINE r == [target |-> t, context |-> c, status |-> "pending"]
<1>1. r \in Row
  BY DEF Row, Status
<1>2. tasks' = Append(tasks, r)
  BY DEF CreateTask
<1> HIDE DEF r
<1>3. /\ tasks' \in Seq(Row)
      /\ Len(tasks') = Len(tasks) + 1
      /\ \A i \in 1..Len(tasks) : tasks'[i] = tasks[i]
      /\ tasks'[Len(tasks) + 1] = r
  BY <1>1, <1>2, AppendProperties
<1>4. /\ DOMAIN tasks = 1..Len(tasks)
      /\ DOMAIN tasks' = 1..(Len(tasks) + 1)
      /\ Len(tasks) \in Nat
  BY <1>3
<1> QED BY <1>3, <1>4 DEF r

LEMMA CreateCount ==
    ASSUME tasks \in Seq(Row), NEW t \in Targets, NEW c \in Contexts, CreateTask(t, c)
    PROVE  \A u : CountTasks(u)' = IF u = t THEN CountTasks(u) + 1 ELSE CountTasks(u)
<1> SUFFICES ASSUME NEW u
             PROVE  CountTasks(u)' = IF u = t THEN CountTasks(u) + 1 ELSE CountTasks(u)
  OBVIOUS
<1> DEFINE n == Len(tasks) + 1
<1>1. /\ DOMAIN tasks' = DOMAIN tasks \cup {n}
      /\ n \notin DOMAIN tasks
      /\ \A i \in DOMAIN tasks : tasks'[i] = tasks[i]
      /\ tasks'[n] = [target |-> t, context |-> c, status |-> "pending"]
  BY CreateStep
<1> HIDE DEF n
<1>2. CASE u = t
  <2>1. Rows(u)' = Rows(u) \cup {n} /\ n \notin Rows(u)
    BY <1>1, <1>2 DEF Rows
  <2>2. Cardinality(Rows(u) \cup {n}) = Cardinality(Rows(u)) + 1
    BY <2>1, RowsFinite, FS_AddElement
  <2> QED BY <1>2, <2>1, <2>2 DEF CountTasks
<1>3. CASE u # t
  <2>1. Rows(u)' = Rows(u)
    BY <1>1, <1>3 DEF Rows
  <2> QED BY <1>3, <2>1 DEF CountTasks
<1> QED BY <1>2, <1>3

-----------------------------------------------------------------------------
(* Which rows have which status.                                             *)

LEMMA StatusSets ==
    ASSUME tasks \in Seq(Row), NEW i \in DOMAIN tasks, NEW s \in Status,
           tasks' = [tasks EXCEPT ![i].status = s]
    PROVE  \A S : WithStatus(S)' =
                     IF s \in S THEN WithStatus(S) \cup {i} ELSE WithStatus(S) \ {i}
<1>1. /\ DOMAIN tasks' = DOMAIN tasks
      /\ tasks'[i].status = s
      /\ \A j \in DOMAIN tasks : j # i => tasks'[j].status = tasks[j].status
  BY StatusStep DEF SameRows
<1> QED BY <1>1 DEF WithStatus

LEMMA CreateSets ==
    ASSUME tasks \in Seq(Row), NEW t \in Targets, NEW c \in Contexts, CreateTask(t, c)
    PROVE  \A S : WithStatus(S)' =
                     IF "pending" \in S THEN WithStatus(S) \cup {Len(tasks) + 1}
                                        ELSE WithStatus(S)
<1> DEFINE n == Len(tasks) + 1
<1>1. /\ DOMAIN tasks' = DOMAIN tasks \cup {n}
      /\ n \notin DOMAIN tasks
      /\ \A i \in DOMAIN tasks : tasks'[i] = tasks[i]
      /\ tasks'[n] = [target |-> t, context |-> c, status |-> "pending"]
  BY CreateStep
<1>2. tasks'[n].status = "pending"
  BY <1>1
<1> HIDE DEF n
<1>3. \A S : WithStatus(S)' =
                IF "pending" \in S THEN WithStatus(S) \cup {n} ELSE WithStatus(S)
  BY <1>1, <1>2 DEF WithStatus
<1> QED BY <1>3 DEF n

-----------------------------------------------------------------------------
(* The table as TargetWork sees it.                                          *)

LEMMA EmptyWork ==
    ASSUME tasks = << >>
    PROVE  /\ Occasions = [t \in Targets |-> {}]
           /\ Spent = [t \in Targets |-> 0]
           /\ OpenTargets = {}
<1>1. \A t : Rows(t) = {}
  BY DEF Rows
<1>2. \A t : CountTasks(t) = 0
  BY <1>1, FS_EmptySet DEF CountTasks
<1> QED BY <1>1, <1>2 DEF Occasions, Spent, OpenTargets, WithStatus

LEMMA OpenTargetsAre ==
    ASSUME tasks \in Seq(Row)
    PROVE  /\ OpenTargets \subseteq Targets
           /\ \A t : t \in OpenTargets <=> \E i \in DOMAIN tasks :
                        IsActive(i) /\ tasks[i].target = t
           /\ \A t : t \in OpenTargets <=> HasActiveTask(t)
<1>1. \A i \in DOMAIN tasks : tasks[i] \in Row
  BY ElementOfSeq
<1> QED BY <1>1 DEF OpenTargets, WithStatus, IsActive, HasActiveTask, Rows, Row

LEMMA SameRowsOccasions ==
    ASSUME SameRows
    PROVE  UNCHANGED <<Occasions, Spent>>
<1>1. \A t : Rows(t)' = Rows(t) /\ CountTasks(t)' = CountTasks(t)
  BY SameRowsCount
<1>2. \A t \in Targets :
         {tasks'[i].context : i \in Rows(t)} = {tasks[i].context : i \in Rows(t)}
  BY DEF SameRows, Rows
<1> QED BY <1>1, <1>2 DEF Occasions, Spent

\* A row begins work on its target.
LEMMA CreateWork ==
    ASSUME tasks \in Seq(Row), NEW t \in Targets, NEW c \in Contexts, CreateTask(t, c)
    PROVE  /\ Occasions' = [Occasions EXCEPT ![t] = @ \cup {c}]
           /\ Spent' = [Spent EXCEPT ![t] = @ + 1]
           /\ OpenTargets' = OpenTargets \cup {t}
<1> DEFINE n == Len(tasks) + 1
<1>1. /\ DOMAIN tasks' = DOMAIN tasks \cup {n}
      /\ n \notin DOMAIN tasks
      /\ \A i \in DOMAIN tasks : tasks'[i] = tasks[i]
      /\ tasks'[n] = [target |-> t, context |-> c, status |-> "pending"]
  BY CreateStep
<1>2. WithStatus(ActiveStatus)' = WithStatus(ActiveStatus) \cup {n}
  BY CreateSets DEF ActiveStatus
<1>3. tasks'[n].target = t /\ tasks'[n].context = c
  BY <1>1
<1> HIDE DEF n
<1>4. OpenTargets' = OpenTargets \cup {t}
  BY <1>1, <1>2, <1>3 DEF OpenTargets, WithStatus
<1>5. \A u \in Targets :
         {tasks'[i].context : i \in Rows(u)'} =
            IF u = t THEN {tasks[i].context : i \in Rows(u)} \cup {c}
                     ELSE {tasks[i].context : i \in Rows(u)}
  <2> SUFFICES ASSUME NEW u \in Targets
               PROVE  {tasks'[i].context : i \in Rows(u)'} =
                         IF u = t THEN {tasks[i].context : i \in Rows(u)} \cup {c}
                                  ELSE {tasks[i].context : i \in Rows(u)}
    OBVIOUS
  <2>1. Rows(u)' = IF u = t THEN Rows(u) \cup {n} ELSE Rows(u)
    BY <1>1, <1>3 DEF Rows
  <2>2. \A i \in Rows(u) : tasks'[i].context = tasks[i].context
    BY <1>1 DEF Rows
  <2> QED BY <1>3, <2>1, <2>2
<1>6. Occasions' = [Occasions EXCEPT ![t] = @ \cup {c}]
  BY <1>5 DEF Occasions
<1>7. Spent' = [Spent EXCEPT ![t] = @ + 1]
  BY CreateCount DEF Spent
<1> QED BY <1>4, <1>6, <1>7

\* A status moves between two open ones, or between two closed ones: for the
\* targets nothing has happened.
LEMMA StatusWorkSame ==
    ASSUME tasks \in Seq(Row), NEW i \in DOMAIN tasks, NEW s \in Status,
           tasks' = [tasks EXCEPT ![i].status = s],
           s \in ActiveStatus <=> IsActive(i)
    PROVE  UNCHANGED <<Occasions, Spent, OpenTargets>>
<1>1. SameRows
  BY StatusStep
<1>2. WithStatus(ActiveStatus)' = WithStatus(ActiveStatus)
  BY StatusSets DEF WithStatus, IsActive
<1>3. OpenTargets' = OpenTargets
  BY <1>1, <1>2 DEF OpenTargets, SameRows, WithStatus
<1> QED BY <1>1, <1>3, SameRowsOccasions

\* A row that is the only open one of its target is closed.
LEMMA CloseWork ==
    ASSUME tasks \in Seq(Row), NEW i \in DOMAIN tasks, NEW s \in Status,
           tasks' = [tasks EXCEPT ![i].status = s],
           s \notin ActiveStatus, IsActive(i),
           \A j \in DOMAIN tasks :
              IsActive(j) /\ tasks[j].target = tasks[i].target => j = i
    PROVE  /\ UNCHANGED <<Occasions, Spent>>
           /\ tasks[i].target \in OpenTargets
           /\ OpenTargets' = OpenTargets \ {tasks[i].target}
<1>1. SameRows
  BY StatusStep
<1>2. WithStatus(ActiveStatus)' = WithStatus(ActiveStatus) \ {i}
  BY StatusSets
<1>3. \A j \in WithStatus(ActiveStatus) : j # i => tasks[j].target # tasks[i].target
  BY DEF WithStatus, IsActive
<1>4. i \in WithStatus(ActiveStatus)
  BY DEF WithStatus, IsActive
<1>5. OpenTargets' = {tasks[j].target : j \in WithStatus(ActiveStatus) \ {i}}
  BY <1>1, <1>2 DEF OpenTargets, SameRows, WithStatus
<1> QED BY <1>1, <1>3, <1>4, <1>5, SameRowsOccasions DEF OpenTargets
=============================================================================
