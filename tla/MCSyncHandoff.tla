--------------------------- MODULE MCSyncHandoff ---------------------------
(***************************************************************************)
(* Instances of SyncHandoff for TLC: the queue watcher, the mutation        *)
(* worker, a directory that still holds a seed of an earlier run, and a     *)
(* number at which the watcher's seed would be empty.                       *)
(***************************************************************************)
EXTENDS SyncHandoff, TLC

CONSTANTS watcher, worker,           \* threads A and D
          staged, boundary           \* origin tags

MCTagsOf == (watcher :> {staged}) @@ (worker :> {boundary})
MCLeftover == {[id |-> 0, tag |-> boundary, tmp |-> FALSE]}
MCOdd == {[id |-> 1, tag |-> staged, tmp |-> FALSE]}
=============================================================================
