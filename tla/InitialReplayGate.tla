-------------------------- MODULE InitialReplayGate --------------------------
(***************************************************************************)
(* The gate in front of the boundary scheduler.                             *)
(*                                                                         *)
(* It opens when every seed of the initial corpus has been replayed, or,    *)
(* after a timeout, when some have.  Its state is one metric, a record that *)
(* is read and written back by two threads with no lock over the two calls: *)
(* thread B adds the name of the seed it has replayed, thread C sets the    *)
(* completion time when the timeout has passed.                             *)
(***************************************************************************)
EXTENDS Naturals, FiniteSets

CONSTANT InitialSeeds  \* initial_seed_names, counted before startup recovery

ASSUME InitialSeedsAssumption == IsFiniteSet(InitialSeeds)

VARIABLES
    absent,    \* those that never reach afl-fuzz's queue: quarantined during
               \* startup, or skipped by afl-fuzz
    queued,    \* those the watcher has not yet found, or thread B not replayed
    progress,  \* metric initial_replay_progress
    late,      \* initial_replay_timeout_sec have passed
    degraded,  \* metric replay_health
    noting,    \* thread B: between the read and the write of the metric
    opening    \* thread C: the same

vars == <<absent, queued, progress, late, degraded, noting, opening>>

\* completed and completed_at are always set together.
Progress == [done : SUBSET InitialSeeds, open : BOOLEAN]

Idle == [pc |-> "idle", seed |-> "none", copy |-> [done |-> {}, open |-> FALSE]]

Init ==
    /\ absent \in SUBSET InitialSeeds
    /\ queued = InitialSeeds \ absent
    /\ progress = [done |-> {}, open |-> InitialSeeds = {}]
    /\ late = FALSE
    /\ degraded = FALSE
    /\ noting = Idle
    /\ opening = Idle

-----------------------------------------------------------------------------
(* Thread B                                                                  *)

\* A seed has been replayed, with or without success, and the health record
\* brought up to date; the metric is read.
ReadProgress ==
    /\ noting.pc = "idle"
    /\ \E s \in queued :
         /\ queued' = queued \ {s}
         /\ noting' = [pc |-> "writing", seed |-> s, copy |-> progress]
    /\ degraded' \in BOOLEAN
    /\ UNCHANGED <<absent, progress, late, opening>>

\* Mutant: seeds that are not initial ones are noted like those that are.
OtherReplayNoted ==
    /\ noting.pc = "idle"
    /\ degraded' \in BOOLEAN
    /\ noting' = [pc |-> "writing", seed |-> "none", copy |-> progress]
    /\ UNCHANGED <<absent, queued, progress, late, opening>>

\* Any other seed is replayed.
OtherReplay ==
    /\ noting.pc = "idle"
    /\ degraded' \in BOOLEAN
    /\ UNCHANGED <<absent, queued, progress, late, noting, opening>>

\* Mutant: the flag in the record is not consulted.
CompleteByCount(done, open) == Cardinality(done) >= Cardinality(InitialSeeds)
\* Mutant: more names are waited for than there are.
CompleteTooLate(done, open) == open \/ Cardinality(done) > Cardinality(InitialSeeds)
\* Mutant: the last name is not waited for.
CompleteOneShort(done, open) == open \/ Cardinality(done) + 1 >= Cardinality(InitialSeeds)
Complete(done, open) == open \/ Cardinality(done) >= Cardinality(InitialSeeds)

\* Mutant: the names noted before are not carried over.
WriteProgressAlone ==
    /\ noting.pc = "writing"
    /\ LET done == {noting.seed}
       IN  progress' = [done |-> done, open |-> Complete(done, noting.copy.open)]
    /\ noting' = Idle
    /\ UNCHANGED <<absent, queued, late, degraded, opening>>

WriteProgress ==
    /\ noting.pc = "writing"
    /\ LET done == noting.copy.done \cup {noting.seed}
       IN  progress' = [done |-> done, open |-> Complete(done, noting.copy.open)]
    /\ noting' = Idle
    /\ UNCHANGED <<absent, queued, late, degraded, opening>>

\* The replay raises, or the metric cannot be written: the thread ends.
ReplayDies ==
    /\ noting.pc # "dead"
    /\ noting' = [Idle EXCEPT !.pc = "dead"]
    /\ UNCHANGED <<absent, queued, progress, late, degraded, opening>>

-----------------------------------------------------------------------------
(* Thread C                                                                  *)

TimeoutOpen == late /\ progress.done # {}

\* Not while replay feedback is degraded.
ReadForTimeout ==
    /\ opening.pc = "idle"
    /\ ~degraded
    /\ ~progress.open
    /\ TimeoutOpen
    /\ opening' = [pc |-> "writing", seed |-> "none", copy |-> progress]
    /\ UNCHANGED <<absent, queued, progress, late, degraded, noting>>

\* Mutant: only the time is written, and so thrown away with the next note.
OpenByTimeoutVolatile ==
    /\ opening.pc = "writing"
    /\ opening' = Idle
    /\ UNCHANGED <<absent, queued, progress, late, degraded, noting>>

OpenByTimeout ==
    /\ opening.pc = "writing"
    /\ progress' = [done |-> opening.copy.done, open |-> TRUE]
    /\ opening' = Idle
    /\ UNCHANGED <<absent, queued, late, degraded, noting>>

TimePasses ==
    /\ ~late
    /\ late' = TRUE
    /\ UNCHANGED <<absent, queued, progress, degraded, noting, opening>>

ReplayThread == ReadProgress \/ WriteProgress
SchedulerThread == ReadForTimeout \/ OpenByTimeout

Next == ReplayThread \/ OtherReplay \/ ReplayDies \/ SchedulerThread \/ TimePasses

Spec == Init /\ [][Next]_vars

\* Both threads poll; a replay has a deadline.
FairSpec == Spec /\ WF_vars(ReplayThread) /\ WF_vars(SchedulerThread) /\ WF_vars(TimePasses)

-----------------------------------------------------------------------------
Local == [pc : {"idle", "writing", "dead"}, seed : InitialSeeds \cup {"none"},
          copy : Progress]

TypeOK ==
    /\ absent \subseteq InitialSeeds
    /\ queued \subseteq InitialSeeds
    /\ progress \in Progress
    /\ late \in BOOLEAN
    /\ degraded \in BOOLEAN
    /\ noting \in Local
    /\ opening \in Local
    /\ noting.pc = "writing" => noting.seed \in InitialSeeds

\* Before the timeout the gate is open only if every seed has been replayed,
\* so one that was quarantined keeps it shut; after it, only if some have.
OpenOnlyWhenEarned ==
    progress.open =>
        \/ progress.done = InitialSeeds
        \/ late /\ progress.done # {}

\* The two threads can undo each other's writes.  A name is dropped only by
\* the write that opens the gate, and the gate is shut again only by a note
\* that was begun before it opened.
LostUpdatesAreHarmless ==
    [][/\ ~(progress.done \subseteq progress'.done) => opening.pc = "writing" /\ progress'.open
       /\ progress.open /\ ~progress'.open => noting.pc = "writing" /\ ~noting.copy.open]_vars

\* While thread B is alive a shut gate waits for a seed: some are missing from
\* the metric, and those are absent, in the queue or at hand.  Names that a
\* write of thread C has dropped are back when the gate is shut again.
ShutGateAwaitsSeeds ==
    ~progress.open /\ noting.pc # "dead" =>
        LET missing == InitialSeeds \ progress.done
            atHand == IF noting.pc = "writing" THEN {noting.seed} ELSE {}
        IN  missing # {} /\ missing = absent \cup queued \cup atHand

\* Once the timeout has passed, a replay has been noted and the feedback stays
\* healthy, the gate ends up open for good, whatever the threads overwrite.
GateStaysOpen ==
    <>[](late /\ progress.done # {} /\ ~degraded) => <>[](progress.open)

\* The gate opens, or the replay thread has died: by count when no seed is
\* absent, however the feedback fares; by the timeout when some are, provided
\* the feedback recovers in the end.  When all are absent it stays shut.
GateOpens ==
    \/ absent = {}
    \/ absent # InitialSeeds /\ <>[]~degraded
    => <>(progress.open \/ noting.pc = "dead")
=============================================================================
