----------------------------- MODULE SeedMailbox -----------------------------
(***************************************************************************)
(* What a directory shared with afl-fuzz promises: seeds appear whole, each *)
(* is taken at most once, and one that lay there when a scan began is taken *)
(* by that scan, unless the fuzzer stops.  Only seeds that appear too late, *)
(* or are of no use to the fuzzer, are passed over, and then for good.      *)
(*                                                                         *)
(* An abstract specification: no numbers, no temporary files, no writers.   *)
(***************************************************************************)
VARIABLES
    placed,    \* seeds in the directory
    taken,     \* those the fuzzer has run
    passed,    \* those it will never look at
    alive,     \* the fuzzer is running
    scanning,  \* it is looking at the directory
    owed       \* what this scan still has to take

vars == <<placed, taken, passed, alive, scanning, owed>>

Waiting == placed \ (taken \cup passed)

Init ==
    /\ taken = {}
    /\ passed \subseteq placed
    /\ alive = TRUE
    /\ scanning = FALSE
    /\ owed = {}

\* A seed appears.  It may be too late for it already, or of no use.
Place ==
    /\ \E s \in placed' \ placed :
         /\ placed' = placed \cup {s}
         /\ passed' \in {passed, passed \cup {s}}
    /\ UNCHANGED <<taken, alive, scanning, owed>>

BeginScan ==
    /\ alive /\ ~scanning
    /\ scanning' = TRUE
    /\ owed' = Waiting
    /\ UNCHANGED <<placed, taken, passed, alive>>

Take ==
    /\ scanning
    /\ \E s \in Waiting :
         /\ taken' = taken \cup {s}
         /\ owed' = owed \ {s}
    /\ UNCHANGED <<placed, passed, alive, scanning>>

\* What has appeared during the scan and was not taken may be passed over.
EndScan ==
    /\ scanning
    /\ owed = {}
    /\ scanning' = FALSE
    /\ passed \subseteq passed'
    /\ passed' \subseteq passed \cup Waiting
    /\ UNCHANGED <<placed, taken, alive, owed>>

\* The fuzzer stops, for good; the scan it was at is not ended.
Stop ==
    /\ alive
    /\ alive' = FALSE
    /\ scanning' = FALSE
    /\ owed' = {}
    /\ UNCHANGED <<placed, taken, passed>>

Next == Place \/ BeginScan \/ Take \/ EndScan \/ Stop

Spec == Init /\ [][Next]_vars
=============================================================================
