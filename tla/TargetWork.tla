----------------------------- MODULE TargetWork -----------------------------
(***************************************************************************)
(* What the schedulers promise about a target: it is worked on by one task  *)
(* at a time, once per occasion, and not more often than a budget allows.   *)
(*                                                                         *)
(* An abstract specification.  It knows neither queues nor the worker.  An  *)
(* occasion is a batch for boundary tasks and a seed for vuln tasks.        *)
(***************************************************************************)
EXTENDS Naturals

CONSTANTS
    Targets,
    Contexts,  \* occasions
    Budget     \* how often a target may be worked on

VARIABLES
    tried,  \* per target: the occasions on which it was worked on
    spent,  \* per target: how often it was
    open    \* targets being worked on

vars == <<tried, spent, open>>

Init ==
    /\ tried = [t \in Targets |-> {}]
    /\ spent = [t \in Targets |-> 0]
    /\ open = {}

Begin(t, c) ==
    /\ t \notin open
    /\ c \notin tried[t]
    /\ spent[t] < Budget
    /\ tried' = [tried EXCEPT ![t] = @ \cup {c}]
    /\ spent' = [spent EXCEPT ![t] = @ + 1]
    /\ open' = open \cup {t}

End(t) ==
    /\ t \in open
    /\ open' = open \ {t}
    /\ UNCHANGED <<tried, spent>>

\* The target at issue is the one that has left or joined the open ones.
Next ==
    \/ \E t \in open \ open' : End(t)
    \/ \E t \in open' \ open, c \in Contexts : Begin(t, c)

Spec == Init /\ [][Next]_vars
=============================================================================
