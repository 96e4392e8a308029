---------------------------- MODULE SyncHandoff ----------------------------
(***************************************************************************)
(* The directory through which the Python runtime hands seeds to afl-fuzz. *)
(*                                                                         *)
(* The runtime poses as a sibling fuzzer.  AFLNetSyncInjector.inject_seed   *)
(* allocates the next number, writes "id:NNNNNN,orig:TAG.tmp" and renames   *)
(* it to "id:NNNNNN,orig:TAG".  One injector object is shared by the queue  *)
(* watcher and the mutation worker, with no lock.  afl-fuzz scans the       *)
(* directory in sync_fuzzers and remembers one number, the smallest id it   *)
(* will still accept; whatever lies below that number is never opened.      *)
(*                                                                         *)
(* An entry is a directory entry as afl-fuzz sees one: it parses only the   *)
(* id, so the ".tmp" file of an injection is an entry like any other.       *)
(***************************************************************************)
EXTENDS Naturals, FiniteSets

CONSTANTS
    Writers,   \* the threads that call inject_seed
    TagsOf,    \* the origin tags each of them uses
    Leftover,  \* files the directory already holds when the runtime starts
    Odd,       \* names whose seeds are empty or larger than MAX_FILE
    MaxId      \* bound: no injection starts once the counter has reached it

Tags == UNION {TagsOf[w] : w \in Writers}

ASSUME TagsAssumption ==
    \A v, w \in Writers : v # w => TagsOf[v] \cap TagsOf[w] = {}

Entry == [id : Nat, tag : Tags, tmp : BOOLEAN]

ASSUME LeftoverAssumption == Leftover \subseteq {e \in Entry : ~e.tmp}

ASSUME OddAssumption == Odd \subseteq {e \in Entry : ~e.tmp}

ASSUME MaxIdAssumption == MaxId \in Nat

VARIABLES
    counter,  \* AFLNetSyncInjector._counter
    pc,       \* per writer: where it is inside inject_seed
    name,     \* per writer: the local variable path
    dir,      \* entries of agent-sync/queue
    torn,     \* those of them whose content is not complete
    alive,    \* afl-fuzz is running
    cursor,   \* the number kept in .synced/agent-sync
    scan,     \* a scan in progress: its min_accept, next_min_accept, and the
              \* entries it has returned (seen) and must still return (due)
    imports   \* the runs handed to save_if_interesting: the entry, whether its
              \* content was complete, how often it had been run before

writerVars == <<counter, pc, name>>
readerVars == <<alive, cursor, scan, imports>>
vars == <<counter, pc, name, dir, torn, alive, cursor, scan, imports>>

NoName == [id |-> 0, tag |-> "", tmp |-> FALSE]
NoScan == [on |-> FALSE, min |-> 0, next |-> 0, seen |-> {}, due |-> {}]

TmpOf(e) == [e EXCEPT !.tmp = TRUE]
Imported == {r.entry : r \in imports}
TimesRun(e) == Cardinality({r \in imports : r.entry = e})

Init ==
    /\ counter = 0
    /\ pc = [w \in Writers |-> "idle"]
    /\ name = [w \in Writers |-> NoName]
    /\ dir = Leftover
    /\ torn = {}
    /\ alive = TRUE
    /\ cursor = 0
    /\ scan = NoScan
    /\ imports = {}

-----------------------------------------------------------------------------
(* inject_seed, one action for each point at which another thread or         *)
(* afl-fuzz can run.  "+= 1" is not such a point: CPython (3.10 and later)   *)
(* switches threads at calls and at backward jumps only.                     *)

\* Enters the loop: the number is read into the path.
ReadCounter(w, t) ==
    /\ pc[w] = "idle"
    /\ counter < MaxId
    /\ pc' = [pc EXCEPT ![w] = "named"]
    /\ name' = [name EXCEPT ![w] = [id |-> counter, tag |-> t, tmp |-> FALSE]]
    /\ UNCHANGED <<counter, dir, torn, readerVars>>

\* Mutant: the exists() test is dropped.
BumpUnchecked(w) ==
    /\ pc[w] = "named"
    /\ counter' = counter + 1
    /\ pc' = [pc EXCEPT ![w] = "allocated"]
    /\ UNCHANGED <<name, dir, torn, readerVars>>

\* The number is stepped and the path looked up.
BumpAndCheck(w) ==
    /\ pc[w] = "named"
    /\ counter' = counter + 1
    /\ pc' = [pc EXCEPT ![w] = IF name[w] \in dir THEN "taken" ELSE "allocated"]
    /\ UNCHANGED <<name, dir, torn, readerVars>>

\* The path exists: once more round the loop.
Retry(w) ==
    /\ pc[w] = "taken"
    /\ pc' = [pc EXCEPT ![w] = "named"]
    /\ name' = [name EXCEPT ![w].id = counter]
    /\ UNCHANGED <<counter, dir, torn, readerVars>>

\* Mutant: the seed is written under its final name.
OpenInPlace(w) ==
    /\ pc[w] = "allocated"
    /\ pc' = [pc EXCEPT ![w] = "opened"]
    /\ dir' = dir \cup {name[w]}
    /\ torn' = torn \cup {name[w]}
    /\ UNCHANGED <<counter, name, readerVars>>

\* write_bytes has created the temporary file, and has not filled it yet.
OpenTmp(w) ==
    /\ pc[w] = "allocated"
    /\ pc' = [pc EXCEPT ![w] = "opened"]
    /\ dir' = dir \cup {TmpOf(name[w])}
    /\ torn' = torn \cup {TmpOf(name[w])}
    /\ UNCHANGED <<counter, name, readerVars>>

\* Mutant: the file is closed before its content is complete.
FillPartly(w) ==
    /\ pc[w] = "opened"
    /\ pc' = [pc EXCEPT ![w] = "written"]
    /\ UNCHANGED <<counter, name, dir, torn, readerVars>>

FillTmp(w) ==
    /\ pc[w] = "opened"
    /\ pc' = [pc EXCEPT ![w] = "written"]
    /\ torn' = torn \ {TmpOf(name[w])}
    /\ UNCHANGED <<counter, name, dir, readerVars>>

\* os.replace, then the read-back and the return.
Replace(w) ==
    /\ pc[w] = "written"
    /\ pc' = [pc EXCEPT ![w] = "idle"]
    /\ name' = [name EXCEPT ![w] = NoName]
    /\ dir' = (dir \ {TmpOf(name[w])}) \cup {name[w]}
    /\ UNCHANGED <<counter, torn, readerVars>>

\* write_bytes or os.replace raises: the temporary file stays as it is.  An
\* exception of the read-back comes after Replace and changes nothing here.
Fail(w) ==
    /\ pc[w] \in {"allocated", "opened", "written"}
    /\ pc' = [pc EXCEPT ![w] = "idle"]
    /\ name' = [name EXCEPT ![w] = NoName]
    /\ UNCHANGED <<counter, dir, torn, readerVars>>

-----------------------------------------------------------------------------
(* sync_fuzzers                                                              *)

\* opendir, and the number of the last visit read from .synced.
OpenScan ==
    /\ alive /\ ~scan.on
    /\ scan' = [on |-> TRUE, min |-> cursor, next |-> cursor,
                seen |-> {}, due |-> dir]
    /\ UNCHANGED <<writerVars, dir, torn, alive, cursor, imports>>

\* Mutant: an id equal to min_accept counts as seen.
BelowOrAtMin(e) == e.id <= scan.min
BelowMin(e) == e.id < scan.min

\* Mutant: next_min_accept is the id itself.
NextMinOffByOne(e) == IF e.id >= scan.next THEN e.id ELSE scan.next
NextMinAccept(e) == IF e.id >= scan.next THEN e.id + 1 ELSE scan.next

\* Zero-sized and oversized files are ignored.
Ignored(e) == [e EXCEPT !.tmp = FALSE] \in Odd

\* Opening fails for a name that is gone.  A file caught while it is written is
\* skipped when what it holds so far is of a size that is ignored, and is run
\* with that otherwise.
Opened(e) ==
    \/ e \notin dir /\ UNCHANGED imports
    \/ e \in dir /\ (Ignored(e) \/ e \in torn) /\ UNCHANGED imports
    \/ e \in dir /\ (Ignored(e) => e \in torn) /\ imports' = imports \cup
            {[entry |-> e, whole |-> e \notin torn, before |-> TimesRun(e)]}

\* readdir returns a name.  Those there at opendir come once; those that come
\* or go meanwhile may be returned or not (POSIX leaves it open).
ReadEntry(e) ==
    /\ scan.on
    /\ e \in (scan.due \cup dir) \ scan.seen
    /\ scan' = [scan EXCEPT
                  !.seen = @ \cup {e},
                  !.due = @ \ {e},
                  !.next = IF BelowMin(e) THEN @ ELSE NextMinAccept(e)]
    /\ IF BelowMin(e) THEN UNCHANGED imports ELSE Opened(e)
    /\ UNCHANGED <<writerVars, dir, torn, alive, cursor>>

\* readdir is exhausted: the number is written back.
EndScan ==
    /\ scan.on
    /\ scan.due \cap dir = {}
    /\ cursor' = scan.next
    /\ scan' = NoScan
    /\ UNCHANGED <<writerVars, dir, torn, alive, imports>>

\* afl-fuzz is stopped or dies, between scans or in one, which is then left
\* without writing the number back.
Stop ==
    /\ alive
    /\ alive' = FALSE
    /\ scan' = NoScan
    /\ UNCHANGED <<writerVars, dir, torn, cursor, imports>>

-----------------------------------------------------------------------------
Inject(w) ==
    \/ \E t \in TagsOf[w] : ReadCounter(w, t)
    \/ BumpAndCheck(w)
    \/ Retry(w)
    \/ OpenTmp(w)
    \/ FillTmp(w)
    \/ Replace(w)
    \/ Fail(w)

ReadSome == \E e \in scan.due \cup dir : ReadEntry(e)

SyncFuzzers == OpenScan \/ ReadSome \/ EndScan \/ Stop

Next == (\E w \in Writers : Inject(w)) \/ SyncFuzzers

Spec == Init /\ [][Next]_vars

\* afl-fuzz comes back to sync_fuzzers every SYNC_INTERVAL rounds of its main
\* loop, and its read loop ends.
Fairness == WF_vars(OpenScan) /\ WF_vars(ReadSome) /\ WF_vars(EndScan)

FairSpec == Spec /\ Fairness

-----------------------------------------------------------------------------
TypeOK ==
    /\ counter \in Nat
    /\ pc \in [Writers -> {"idle", "named", "taken", "allocated", "opened", "written"}]
    /\ name \in [Writers -> {NoName} \cup {e \in Entry : ~e.tmp}]
    /\ \A w \in Writers : pc[w] # "idle" => name[w].tag \in TagsOf[w]
    /\ dir \subseteq Entry
    /\ torn \subseteq dir
    /\ alive \in BOOLEAN
    /\ cursor \in Nat
    /\ scan \in [on : BOOLEAN, min : Nat, next : Nat,
                 seen : SUBSET Entry, due : SUBSET Entry]
    /\ imports \subseteq [entry : Entry, whole : BOOLEAN, before : Nat]

Placing(w) == pc[w] \in {"allocated", "opened", "written"}

\* os.replace never overwrites a seed: between the exists() test and the
\* rename no other thread can create the same path, although nothing locks it.
NoOverwrite ==
    \A w \in Writers : Placing(w) => name[w] \notin dir

\* afl-fuzz runs no directory entry twice, over any number of scans, whatever
\* names and ids the two writers come up with.
AtMostOnce ==
    \A r, q \in imports : r.entry = q.entry => r = q

\* A seed that afl-fuzz takes under its final name is complete; only one taken
\* under its temporary name may be cut short.
FinalIsWhole ==
    \A r \in imports : ~r.entry.tmp => r.whole

\* Seen from outside, the directory is a mailbox: seeds appear whole, each is
\* taken at most once, a scan takes all that was waiting when it began unless
\* the fuzzer stops, and only a seed that comes too late or is of a size that is
\* ignored is passed over, and then for good.
Final(S) == {e \in S : ~e.tmp}

Mailbox == INSTANCE SeedMailbox WITH
    placed <- Final(dir),
    taken <- Final(Imported),
    passed <- {e \in Final(dir) \ Imported : e.id < cursor \/ e \in Odd},
    scanning <- scan.on,
    owed <- {e \in Final(scan.due) \ Odd : e.id >= scan.min}

ImplementsSeedMailbox == Mailbox!Spec

\* A seed of ordinary size, in place at or above the remembered number when no
\* scan is running, is imported unless afl-fuzz stops: the next scan has to
\* return it and has to accept it.
InTimeIsImported ==
    \A i \in 0..MaxId, t \in Tags :
        LET e == [id |-> i, tag |-> t, tmp |-> FALSE]
        IN  (e \in dir \ Odd /\ ~scan.on /\ i >= cursor) ~> (e \in Imported \/ ~alive)

\* aflnet.py says of inject_seed that it writes a seed "so AFLNet can import it
\* automatically": while afl-fuzz runs, a seed of ordinary size that is in place
\* has been imported or still can be.
StillImportable ==
    alive /\ ~scan.on =>
        \A e \in dir \ Odd : e.tmp \/ e \in Imported \/ e.id >= cursor
=============================================================================
