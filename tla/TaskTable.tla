----------------------------- MODULE TaskTable -----------------------------
(***************************************************************************)
(* The tasks table of RuntimeStateDB: rows in creation order.  Every method *)
(* of the class holds the lock for its whole body, so each one is atomic;   *)
(* what a caller does between two of them is not.                           *)
(***************************************************************************)
EXTENDS Naturals, Sequences, FiniteSets

CONSTANTS
    Targets,   \* target_id values
    Contexts   \* what else a row records and the schedulers ask about: the
               \* seed_id for vuln tasks, the batch_id for boundary tasks

VARIABLE tasks

Status == {"pending", "leased", "completed", "failed"}
ActiveStatus == {"pending", "leased"}

Row == [target : Targets, context : Contexts, status : Status]

Rows(t) == {i \in DOMAIN tasks : tasks[i].target = t}
RowsIn(c) == {i \in DOMAIN tasks : tasks[i].context = c}
IsActive(i) == tasks[i].status \in ActiveStatus

WithStatus(S) == {i \in DOMAIN tasks : tasks[i].status \in S}

CountTasks(t) == Cardinality(Rows(t))
HasActiveTask(t) == \E i \in Rows(t) : IsActive(i)
HasTask(t, c) == Rows(t) \cap RowsIn(c) # {}

\* Mutant: leased rows are not counted as open.
BatchOpenPendingOnly(c) ==
    RowsIn(c) = {} \/ \E i \in RowsIn(c) : tasks[i].status = "pending"
\* task_batch_status_counts: no row, or some row not finished.
BatchOpen(c) == RowsIn(c) = {} \/ \E i \in RowsIn(c) : IsActive(i)

\* Mutant: a status that claim_next_task does not look for.
CreateTaskQueued(t, c) ==
    tasks' = Append(tasks, [target |-> t, context |-> c, status |-> "queued"])

CreateTask(t, c) ==
    tasks' = Append(tasks, [target |-> t, context |-> c, status |-> "pending"])

\* Mutant: the status of the row is not looked at.
ClaimTaskUnfiltered(i) == tasks' = [tasks EXCEPT ![i].status = "leased"]
\* The row is chosen by priority.  The priority depends on scores that are
\* not modelled, so any pending row may be the one.
ClaimTask(i) ==
    /\ tasks[i].status = "pending"
    /\ tasks' = [tasks EXCEPT ![i].status = "leased"]

FinishTask(i, outcome) == tasks' = [tasks EXCEPT ![i].status = outcome]

-----------------------------------------------------------------------------
(* The table as TargetWork sees it.                                          *)

Occasions == [t \in Targets |-> {tasks[i].context : i \in Rows(t)}]
Spent == [t \in Targets |-> CountTasks(t)]
OpenTargets == {tasks[i].target : i \in WithStatus(ActiveStatus)}
=============================================================================
