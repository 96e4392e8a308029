----------------------- MODULE InitialReplayGate_proofs -----------------------
(***************************************************************************)
(* Theorems about InitialReplayGate: type correctness, when the gate may be *)
(* open, and what the two threads can undo of each other's writes.          *)
(***************************************************************************)
EXTENDS InitialReplayGate, FiniteSetTheorems, TLAPS

\* One lemma for the shape of a step, so that each proof has one case per
\* action.
LEMMA StepCases ==
    ASSUME [Next]_vars
    PROVE  \/ ReadProgress \/ WriteProgress \/ OtherReplay \/ ReplayDies
           \/ ReadForTimeout \/ OpenByTimeout \/ TimePasses \/ UNCHANGED vars
BY DEF Next, ReplayThread, SchedulerThread

\* The conjuncts of TypeOK are independent of each other but for the last.
LEMMA TypeInductive == TypeOK /\ [Next]_vars => TypeOK'
<1> SUFFICES ASSUME TypeOK, [Next]_vars PROVE TypeOK'
  OBVIOUS
<1> USE DEF TypeOK, Progress, Local
<1>1. CASE ReadProgress
  BY <1>1 DEF ReadProgress
<1>2. CASE WriteProgress
  <2> DEFINE done == noting.copy.done \cup {noting.seed}
  <2>1. done \in SUBSET InitialSeeds
    BY <1>2 DEF WriteProgress
  <2>2. Complete(done, noting.copy.open) \in BOOLEAN
    BY Zenon DEF Complete
  <2>3. progress' = [done |-> done, open |-> Complete(done, noting.copy.open)]
    BY <1>2, Zenon DEF WriteProgress
  <2>4. progress' \in [done : SUBSET InitialSeeds, open : BOOLEAN]
    BY <2>1, <2>2, <2>3, Zenon
  <2>5. noting' = Idle /\ UNCHANGED <<absent, queued, late, degraded, opening>>
    BY <1>2 DEF WriteProgress
  <2> QED BY <2>4, <2>5 DEF Idle
<1>3. CASE OtherReplay
  BY <1>3 DEF OtherReplay
<1>4. CASE ReplayDies
  BY <1>4 DEF ReplayDies, Idle
<1>5. CASE ReadForTimeout
  BY <1>5 DEF ReadForTimeout
<1>6. CASE OpenByTimeout
  BY <1>6 DEF OpenByTimeout, Idle
<1>7. CASE TimePasses
  BY <1>7 DEF TimePasses
<1>8. CASE UNCHANGED vars
  BY <1>8 DEF vars
<1> QED BY <1>1, <1>2, <1>3, <1>4, <1>5, <1>6, <1>7, <1>8, StepCases

LEMMA TypeInitial == Init => TypeOK
<1> SUFFICES ASSUME Init PROVE TypeOK
  OBVIOUS
<1>1. (InitialSeeds = {}) \in BOOLEAN
  BY Zenon
<1>2. progress \in Progress
  BY <1>1 DEF Init, Progress
<1> QED BY <1>2 DEF Init, TypeOK, Local, Idle, Progress

\* The variables keep their types; the thread that is writing holds the name
\* of an initial seed.
THEOREM TypeCorrect == Spec => []TypeOK
BY TypeInitial, TypeInductive, PTL DEF Spec

-----------------------------------------------------------------------------
(* When the gate may be open                                                 *)

\* What OpenOnlyWhenEarned says of the metric, said of any record.
Earned(p) == p.open => p.done = InitialSeeds \/ (late /\ p.done # {})

\* The copies that the threads hold have to be as good as the metric, since
\* they end up in it.
EarnedInv ==
    /\ TypeOK
    /\ Earned(progress)
    /\ noting.pc = "writing" => Earned(noting.copy)
    /\ opening.pc = "writing" => late /\ opening.copy.done # {}

\* Counting the names is enough: there are no others.
LEMMA AllCounted ==
    ASSUME NEW D \in SUBSET InitialSeeds,
           Cardinality(D) >= Cardinality(InitialSeeds)
    PROVE  D = InitialSeeds
<1>1. IsFiniteSet(D) /\ Cardinality(D) <= Cardinality(InitialSeeds)
      /\ (Cardinality(D) = Cardinality(InitialSeeds) => D = InitialSeeds)
  BY InitialSeedsAssumption, FS_Subset
<1>2. Cardinality(D) \in Nat /\ Cardinality(InitialSeeds) \in Nat
  BY <1>1, InitialSeedsAssumption, FS_CardinalityType
<1> QED BY <1>1, <1>2

LEMMA EarnedInductive == EarnedInv /\ [Next]_vars => EarnedInv'
<1> SUFFICES ASSUME EarnedInv, [Next]_vars PROVE EarnedInv'
  OBVIOUS
<1>0. TypeOK'
  BY TypeInductive DEF EarnedInv
<1> USE DEF EarnedInv, Earned
<1>1. CASE ReadProgress
  BY <1>0, <1>1 DEF ReadProgress
<1>2. CASE WriteProgress
  <2> DEFINE done == noting.copy.done \cup {noting.seed}
  <2>1. /\ noting.pc = "writing" /\ noting.seed \in InitialSeeds
        /\ noting.copy.done \in SUBSET InitialSeeds
    BY <1>2 DEF WriteProgress, TypeOK, Local, Progress
  <2>2. progress' = [done |-> done, open |-> Complete(done, noting.copy.open)]
    BY <1>2, Zenon DEF WriteProgress
  <2>3. progress'.done = done /\ (progress'.open <=> Complete(done, noting.copy.open))
    BY <2>2
  <2>4. ASSUME noting.copy.open
        PROVE  done = InitialSeeds \/ (late /\ done # {})
    BY <2>1, <2>4
  <2>5. ASSUME Cardinality(done) >= Cardinality(InitialSeeds)
        PROVE  done = InitialSeeds
    BY <2>1, <2>5, AllCounted
  <2>6. late' = late /\ noting' = Idle /\ opening' = opening
    BY <1>2 DEF WriteProgress
  <2>7. Earned(progress)'
    BY <2>3, <2>4, <2>5, <2>6 DEF Complete
  <2> QED BY <1>0, <2>6, <2>7 DEF Idle
<1>3. CASE OtherReplay
  BY <1>0, <1>3 DEF OtherReplay
<1>4. CASE ReplayDies
  BY <1>0, <1>4 DEF ReplayDies, Idle
<1>5. CASE ReadForTimeout
  BY <1>0, <1>5 DEF ReadForTimeout, TimeoutOpen
<1>6. CASE OpenByTimeout
  BY <1>0, <1>6 DEF OpenByTimeout, Idle
<1>7. CASE TimePasses
  BY <1>0, <1>7 DEF TimePasses
<1>8. CASE UNCHANGED vars
  BY <1>0, <1>8 DEF vars
<1> QED BY <1>1, <1>2, <1>3, <1>4, <1>5, <1>6, <1>7, <1>8, StepCases

LEMMA EarnedInitial == Init => EarnedInv
<1> SUFFICES ASSUME Init PROVE EarnedInv
  OBVIOUS
<1>1. Earned(progress)
  BY DEF Init, Earned
<1> QED BY <1>1, TypeInitial DEF Init, EarnedInv, Idle

\* However the writes of the two threads interleave, the gate is open only when
\* every initial seed has been replayed, or the time is up and some have.
THEOREM GateEarned == Spec => []OpenOnlyWhenEarned
<1>1. EarnedInv => OpenOnlyWhenEarned
  BY DEF EarnedInv, Earned, OpenOnlyWhenEarned
<1> QED BY <1>1, EarnedInitial, EarnedInductive, PTL DEF Spec

-----------------------------------------------------------------------------
(* What a lost update can do                                                 *)

\* Names are dropped by thread C alone, so what it holds is never more than the
\* metric, and what thread B holds is never less.
CopiesInv ==
    /\ TypeOK
    /\ noting.pc = "writing" => progress.done \subseteq noting.copy.done
    /\ opening.pc = "writing" => opening.copy.done \subseteq progress.done

LEMMA CopiesInductive == CopiesInv /\ [Next]_vars => CopiesInv'
<1> SUFFICES ASSUME CopiesInv, [Next]_vars PROVE CopiesInv'
  OBVIOUS
<1>0. TypeOK'
  BY TypeInductive DEF CopiesInv
<1> USE DEF CopiesInv
<1>1. CASE ReadProgress
  BY <1>0, <1>1 DEF ReadProgress
<1>2. CASE WriteProgress
  BY <1>0, <1>2 DEF WriteProgress, Idle
<1>3. CASE OtherReplay
  BY <1>0, <1>3 DEF OtherReplay
<1>4. CASE ReplayDies
  BY <1>0, <1>4 DEF ReplayDies, Idle
<1>5. CASE ReadForTimeout
  BY <1>0, <1>5 DEF ReadForTimeout
<1>6. CASE OpenByTimeout
  BY <1>0, <1>6 DEF OpenByTimeout, Idle
<1>7. CASE TimePasses
  BY <1>0, <1>7 DEF TimePasses
<1>8. CASE UNCHANGED vars
  BY <1>0, <1>8 DEF vars
<1> QED BY <1>1, <1>2, <1>3, <1>4, <1>5, <1>6, <1>7, <1>8, StepCases

\* What a single step may undo, given what the copies hold.
UndoStep ==
    /\ ~(progress.done \subseteq progress'.done) => opening.pc = "writing" /\ progress'.open
    /\ progress.open /\ ~progress'.open => noting.pc = "writing" /\ ~noting.copy.open

LEMMA UndoneOnlyBy == CopiesInv /\ [Next]_vars => UndoStep
<1> SUFFICES ASSUME CopiesInv, [Next]_vars PROVE UndoStep
  OBVIOUS
<1>1. CASE WriteProgress
  <2> DEFINE done == noting.copy.done \cup {noting.seed}
  <2>1. progress' = [done |-> done, open |-> Complete(done, noting.copy.open)]
    BY <1>1, Zenon DEF WriteProgress
  <2>2. progress'.done = done /\ (progress'.open <=> Complete(done, noting.copy.open))
    BY <2>1
  <2>3. noting.pc = "writing" /\ progress.done \subseteq done
    BY <1>1 DEF WriteProgress, CopiesInv
  <2> QED BY <2>2, <2>3 DEF UndoStep, Complete
<1>2. CASE OpenByTimeout
  BY <1>2 DEF OpenByTimeout, UndoStep
<1>3. CASE progress' = progress
  BY <1>3 DEF UndoStep
<1> QED BY <1>1, <1>2, <1>3, StepCases
      DEF ReadProgress, OtherReplay, ReplayDies, ReadForTimeout, TimePasses, vars

\* A name is lost only to the write that opens the gate; the gate is shut only
\* by a note that was begun while it was shut.
THEOREM UndoneHarmlessly == Spec => LostUpdatesAreHarmless
<1>1. Init => CopiesInv
  BY TypeInitial DEF Init, CopiesInv, Idle
<1>2. CopiesInv /\ [Next]_vars => [UndoStep]_vars
  BY UndoneOnlyBy
<1> QED BY <1>1, <1>2, CopiesInductive, PTL DEF Spec, LostUpdatesAreHarmless, UndoStep

-----------------------------------------------------------------------------
(* What a shut gate waits for                                                *)

\* The seeds that have not been replayed and noted.
Outstanding ==
    absent \cup queued \cup (IF noting.pc = "writing" THEN {noting.seed} ELSE {})

\* A record that was read while the gate was shut lacks nothing else; the names
\* that thread C drops are in the copy of thread B when that shuts the gate.
NamesInv ==
    /\ TypeOK
    /\ absent \cap queued = {}
    /\ noting.pc = "writing" => noting.seed \notin absent \cup queued
    /\ ~progress.open => progress.done # InitialSeeds
    /\ ~progress.open /\ noting.pc # "dead" => InitialSeeds \ progress.done = Outstanding
    /\ noting.pc = "writing" /\ ~noting.copy.open =>
          InitialSeeds \ noting.copy.done = Outstanding

LEMMA NamesInitial == Init => NamesInv
<1> SUFFICES ASSUME Init PROVE NamesInv
  OBVIOUS
<1>1. progress.done = {} /\ (progress.open <=> InitialSeeds = {})
  BY DEF Init
<1> QED BY <1>1, TypeInitial DEF Init, NamesInv, Outstanding, Idle

\* A thread that only reads, or time, changes none of it.
LEMMA NamesKept ==
    ASSUME NamesInv, TypeOK', UNCHANGED <<absent, queued, progress, noting>>
    PROVE  NamesInv'
BY DEF NamesInv, Outstanding

LEMMA NamesInductive == NamesInv /\ [Next]_vars => NamesInv'
<1> SUFFICES ASSUME NamesInv, [Next]_vars PROVE NamesInv'
  OBVIOUS
<1>0. TypeOK /\ TypeOK'
  BY TypeInductive DEF NamesInv
<1>1. CASE ReadProgress
  <2> PICK s \in queued :
         /\ queued' = queued \ {s}
         /\ noting' = [pc |-> "writing", seed |-> s, copy |-> progress]
    BY <1>1 DEF ReadProgress
  <2>1. noting'.pc = "writing" /\ noting'.seed = s /\ noting'.copy = progress
    OBVIOUS
  <2>2. noting.pc = "idle" /\ UNCHANGED <<absent, progress>>
    BY <1>1 DEF ReadProgress
  <2>3. Outstanding' = Outstanding
    BY <2>1, <2>2 DEF Outstanding
  <2>4. s \notin absent \cup queued'
    BY DEF NamesInv
  <2> QED BY <1>0, <2>1, <2>2, <2>3, <2>4 DEF NamesInv
<1>2. CASE WriteProgress
  <2> DEFINE done == noting.copy.done \cup {noting.seed}
  <2>1. progress' = [done |-> done, open |-> Complete(done, noting.copy.open)]
    BY <1>2, Zenon DEF WriteProgress
  <2>2. progress'.done = done /\ (progress'.open <=> Complete(done, noting.copy.open))
    BY <2>1
  <2>3. /\ noting.pc = "writing" /\ noting'.pc = "idle"
        /\ UNCHANGED <<absent, queued>>
    BY <1>2 DEF WriteProgress, Idle
  <2>4. Outstanding' = Outstanding \ {noting.seed}
    BY <2>3 DEF Outstanding, NamesInv
  <2>5. ASSUME ~progress'.open
        PROVE  done # InitialSeeds /\ InitialSeeds \ done = Outstanding'
    <3>1. ~noting.copy.open /\ ~(Cardinality(done) >= Cardinality(InitialSeeds))
      BY <2>2, <2>5 DEF Complete
    <3>2. InitialSeeds \ noting.copy.done = Outstanding
      BY <2>3, <3>1 DEF NamesInv
    <3>3. done # InitialSeeds
      <4>1. Cardinality(InitialSeeds) \in Nat
        BY InitialSeedsAssumption, FS_CardinalityType
      <4> QED BY <3>1, <4>1
    <3> QED BY <2>4, <3>2, <3>3
  <2> HIDE DEF done
  <2> QED BY <1>0, <2>2, <2>3, <2>5 DEF NamesInv
<1>3. CASE OtherReplay
  BY <1>0, <1>3, NamesKept DEF OtherReplay
<1>4. CASE ReplayDies
  BY <1>0, <1>4 DEF ReplayDies, Idle, NamesInv
<1>5. CASE ReadForTimeout
  BY <1>0, <1>5, NamesKept DEF ReadForTimeout
<1>6. CASE OpenByTimeout
  <2>1. progress'.open /\ UNCHANGED <<absent, queued, noting>>
    BY <1>6 DEF OpenByTimeout
  <2> QED BY <1>0, <2>1 DEF NamesInv, Outstanding
<1>7. CASE TimePasses
  BY <1>0, <1>7, NamesKept DEF TimePasses
<1>8. CASE UNCHANGED vars
  BY <1>0, <1>8, NamesKept DEF vars
<1> QED BY <1>1, <1>2, <1>3, <1>4, <1>5, <1>6, <1>7, <1>8, StepCases

\* While thread B is alive, a shut gate waits for seeds that are absent, in the
\* queue or at hand, and for no other.
THEOREM ShutGateWaits == Spec => []ShutGateAwaitsSeeds
<1>1. NamesInv => ShutGateAwaitsSeeds
  BY DEF NamesInv, TypeOK, Progress, Outstanding, ShutGateAwaitsSeeds
<1> QED BY <1>1, NamesInitial, NamesInductive, PTL DEF Spec
=============================================================================
