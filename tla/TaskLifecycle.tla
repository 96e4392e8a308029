---------------------------- MODULE TaskLifecycle ----------------------------
(***************************************************************************)
(* What the tasks table and the mutation worker promise together: a task is *)
(* worked on once and alone, and every seed that comes of it, up to a       *)
(* limit, comes while it is held: none before, and none once it is over.    *)
(*                                                                         *)
(* An abstract specification.  Tasks are known by their numbers; where a    *)
(* task stands is told by the set it is in.                                 *)
(***************************************************************************)
EXTENDS Naturals

CONSTANT SeedLimit  \* seeds one task may give

VARIABLES
    queued,  \* tasks waiting
    held,    \* the task being worked on, if any
    seeds,   \* how many seeds have come of it
    done     \* tasks that are over, well or badly

vars == <<queued, held, seeds, done>>

Init ==
    /\ queued = {}
    /\ held = {}
    /\ seeds = 0
    /\ done = {}

\* A new task.
Queue ==
    /\ \E i \in queued' \ (queued \cup held \cup done) : queued' = queued \cup {i}
    /\ UNCHANGED <<held, seeds, done>>

\* A task is taken up, when no other is.
Take ==
    /\ held = {}
    /\ \E i \in queued :
         /\ queued' = queued \ {i}
         /\ held' = {i}
    /\ UNCHANGED <<seeds, done>>

\* One more seed comes of it.
Answer ==
    /\ held # {}
    /\ seeds < SeedLimit
    /\ seeds' = seeds + 1
    /\ UNCHANGED <<queued, held, done>>

\* It is over, whatever has come of it.
Finish ==
    /\ held # {}
    /\ done' = done \cup held
    /\ held' = {}
    /\ seeds' = 0
    /\ UNCHANGED queued

Next == Queue \/ Take \/ Answer \/ Finish

Spec == Init /\ [][Next]_vars
=============================================================================
