------------------------ MODULE StartupRecovery_proofs ------------------------
(***************************************************************************)
(* Theorems about StartupRecovery: where the seeds are, and that a corpus   *)
(* with a good seed starts.                                                 *)
(***************************************************************************)
EXTENDS StartupRecovery, FiniteSetTheorems, TLAPS

-----------------------------------------------------------------------------
(* Sets of seeds and their sizes                                             *)

LEMMA SeedsFinite == ASSUME NEW S \in SUBSET Seeds
                     PROVE  IsFiniteSet(S) /\ Cardinality(S) \in Nat
<1>1. IsFiniteSet(Seeds)
  BY SeedsAssumption, FS_Union DEF Seeds
<1>2. IsFiniteSet(S)
  BY <1>1, FS_Subset
<1> QED BY <1>2, FS_CardinalityType

LEMMA Grows ==
    ASSUME NEW T \in SUBSET Seeds, NEW S \in SUBSET T
    PROVE  Cardinality(S) <= Cardinality(T)
BY SeedsFinite, FS_Subset

LEMMA OneMore ==
    ASSUME NEW S \in SUBSET Seeds, NEW x \in Seeds \ S
    PROVE  Cardinality(S \cup {x}) = Cardinality(S) + 1
BY SeedsFinite, FS_AddElement

LEMMA OthersRemain ==
    ASSUME NEW S \in SUBSET Seeds, NEW x, Cardinality(S) > 1
    PROVE  S \ {x} # {}
<1> SUFFICES ASSUME S \ {x} = {} PROVE FALSE
  OBVIOUS
<1>1. S \in SUBSET {x}
  OBVIOUS
<1>2. IsFiniteSet({x}) /\ Cardinality({x}) = 1
  BY FS_Singleton
<1>3. Cardinality(S) <= 1
  BY <1>1, <1>2, FS_Subset
<1> QED BY <1>3, SeedsFinite

LEMMA TheOnlyOne ==
    ASSUME NEW S \in SUBSET Seeds, NEW x \in S, Cardinality(S) <= 1
    PROVE  S = {x}
<1>1. {x} \in SUBSET S /\ Cardinality({x}) = 1
  BY FS_Singleton
<1>2. IsFiniteSet(S) /\ Cardinality(S) \in Nat
  BY SeedsFinite
<1>3. Cardinality({x}) <= Cardinality(S) /\ (Cardinality(S) = Cardinality({x}) => S = {x})
  BY <1>1, <1>2, FS_Subset
<1> QED BY <1>1, <1>2, <1>3

-----------------------------------------------------------------------------
(* Where the seeds are                                                       *)

LEMMA BlamedIn == Blamed \subseteq input /\ Blamed \subseteq {failure.seed}
BY DEF Blamed

LEMMA TypeInductive == TypeOK /\ [Next]_vars => TypeOK'
<1> SUFFICES ASSUME TypeOK, [Next]_vars PROVE TypeOK'
  OBVIOUS
<1> USE DEF TypeOK
<1>1. CASE Screen
  <2>1. PICK rejected \in SUBSET input :
          /\ Quarantine(rejected)
          /\ pc' = IF rejected = input THEN "failed" ELSE "starting"
          /\ honest' = (honest /\ rejected \subseteq bad)
    BY <1>1 DEF Screen
  <2>2. (honest /\ rejected \subseteq bad) \in BOOLEAN
    BY Zenon
  <2> QED BY <1>1, <2>1, <2>2 DEF Screen, Quarantine
<1>2. CASE EmptyCorpus
  BY <1>2 DEF EmptyCorpus
<1>3. CASE Ready
  BY <1>3 DEF Ready
<1>4. CASE FailStart
  <2>1. PICK kind \in Kinds, s \in input \cup {NoSeed} :
          /\ failure' = [kind |-> kind, seed |-> s, count |-> Cardinality(input)]
          /\ honest' = (honest /\ kind = "seed_candidate" /\ s \in bad)
    BY <1>4 DEF FailStart
  <2>2. (honest /\ kind = "seed_candidate" /\ s \in bad) \in BOOLEAN
    BY Zenon
  <2>3. failure' \in Failure
    BY <2>1, SeedsFinite DEF Failure
  <2> QED BY <1>4, <2>1, <2>2, <2>3 DEF FailStart
<1>5. CASE Recover
  <2>1. pc' = "quarantining" /\ UNCHANGED <<attempt, failure, bad>>
    BY <1>5 DEF Recover
  <2>2. CASE Replaceable
    <3>1. PICK accepted \in SUBSET FreshSeeds, rejected \in SUBSET FreshSeeds :
            /\ input' = (input \ Blamed) \cup accepted
            /\ pending' = pending \cup Blamed \cup rejected
            /\ honest' = (honest /\ rejected \subseteq bad)
      BY <1>5, <2>2 DEF Recover
    <3>2. (honest /\ rejected \subseteq bad) \in BOOLEAN
      BY Zenon
    <3>3. accepted \subseteq Seeds /\ rejected \subseteq Seeds
      BY DEF FreshSeeds, Seeds
    <3> QED BY <2>1, <3>1, <3>2, <3>3, BlamedIn
  <2>3. CASE ~Replaceable
    BY <1>5, <2>1, <2>3 DEF Recover
  <2> QED BY <2>2, <2>3
<1>6. CASE QuarantineBlamed
  BY <1>6, BlamedIn DEF QuarantineBlamed, Quarantine
<1>7. CASE Retry
  BY <1>7 DEF Retry
<1>8. CASE UNCHANGED vars
  BY <1>8 DEF vars
<1> QED BY <1>1, <1>2, <1>3, <1>4, <1>5, <1>6, <1>7, <1>8 DEF Next

LEMMA TypeInitial == Init => TypeOK
BY DeliveryAssumption DEF Init, TypeOK, Failure, Kinds, Seeds

\* The variables keep their types.
THEOREM TypeCorrect == Spec => []TypeOK
BY TypeInitial, TypeInductive, PTL DEF Spec

\* Every step that takes a seed out of the input directory puts it into
\* pending.
LEMMA NothingLostInductive == NothingLost /\ [Next]_vars => NothingLost'
<1> SUFFICES ASSUME NothingLost, [Next]_vars PROVE NothingLost'
  OBVIOUS
<1> USE DEF NothingLost
<1>1. CASE Screen
  BY <1>1 DEF Screen, Quarantine
<1>2. CASE Recover
  <2>1. CASE Replaceable
    BY <1>2, <2>1, BlamedIn DEF Recover
  <2>2. CASE ~Replaceable
    BY <1>2, <2>2 DEF Recover
  <2> QED BY <2>1, <2>2
<1>3. CASE QuarantineBlamed
  BY <1>3 DEF QuarantineBlamed, Quarantine
<1>4. CASE UNCHANGED <<input, pending>>
  BY <1>4
<1> QED BY <1>1, <1>2, <1>3, <1>4 DEF Next, EmptyCorpus, Ready, FailStart, Retry, vars

\* Whatever fails, and however often, no seed of the corpus disappears.
THEOREM SeedsAreKept == Spec => []NothingLost
<1>1. Init => NothingLost
  BY DEF Init, NothingLost
<1> QED BY <1>1, NothingLostInductive, PTL DEF Spec

\* Only Recover adds to the input directory, and it leaves out what is in
\* pending or goes there in the same step.
LEMMA NoComebackInductive == NoComeback /\ [Next]_vars => NoComeback'
<1> SUFFICES ASSUME NoComeback, [Next]_vars PROVE NoComeback'
  OBVIOUS
<1> USE DEF NoComeback
<1>1. CASE Screen
  BY <1>1 DEF Screen, Quarantine
<1>2. CASE Recover
  <2>1. CASE Replaceable
    BY <1>2, <2>1, BlamedIn DEF Recover, FreshSeeds
  <2>2. CASE ~Replaceable
    BY <1>2, <2>2 DEF Recover
  <2> QED BY <2>1, <2>2
<1>3. CASE QuarantineBlamed
  BY <1>3 DEF QuarantineBlamed, Quarantine
<1>4. CASE UNCHANGED <<input, pending>>
  BY <1>4
<1> QED BY <1>1, <1>2, <1>3, <1>4 DEF Next, EmptyCorpus, Ready, FailStart, Retry, vars

\* A quarantined seed does not return to the input directory.
THEOREM QuarantineIsFinal == Spec => []NoComeback
<1>1. Init => NoComeback
  BY DEF Init, NoComeback
<1> QED BY <1>1, NoComebackInductive, PTL DEF Spec

-----------------------------------------------------------------------------
(* A corpus with a good seed starts                                          *)

\* The failure is that of the corpus as it still is.
Blaming == pc = "recovering" \/ (pc = "quarantining" /\ ~Replaceable)
CountIsCurrent == Blaming => failure.count = Cardinality(input) /\ input # {}

\* As long as every verdict has been right, only bad seeds are in pending, and
\* the one at hand is bad and in the input directory until it is moved.
VerdictsRight ==
    honest =>
        /\ pending \subseteq bad
        /\ pc \in {"recovering", "quarantining", "retrying"} =>
             failure.kind = "seed_candidate" /\ failure.seed \in bad
        /\ Blaming => failure.seed \in input

\* Every attempt has moved a seed to pending, but those spent on a last seed
\* that nothing can replace, and then every other one has been moved.
Moved == pc = "retrying" \/ (pc = "quarantining" /\ Replaceable)
Hopeless == Delivery # "sync" /\ InputSeeds \subseteq bad
AttemptsPaid ==
    honest => \/ Hopeless
              \/ (IF Moved THEN attempt + 1 ELSE attempt) <= Cardinality(pending)

\* The input directory runs empty only when no enriched seed is left.
AllTried ==
    input = {} /\ Delivery = "sync" /\ ~Validate /\ InputSeeds # {} =>
        SyncSeeds \subseteq pending

ScreeningFirst == pc = "screening" => Validate /\ input = InputSeeds

HealthyInv ==
    /\ TypeOK
    /\ NothingLost
    /\ NoComeback
    /\ CountIsCurrent
    /\ VerdictsRight
    /\ AttemptsPaid
    /\ AllTried
    /\ ScreeningFirst
    /\ HealthyCorpusStarts

LEMMA CountType == TypeOK => /\ Cardinality(input) \in Nat
                             /\ Cardinality(pending) \in Nat
                             /\ Cardinality(bad) \in Nat
BY SeedsFinite DEF TypeOK

LEMMA HealthyInitial == Init => HealthyInv
<1> SUFFICES ASSUME Init PROVE HealthyInv
  OBVIOUS
<1>1. TypeOK /\ NothingLost /\ NoComeback
  BY TypeInitial DEF Init, NothingLost, NoComeback
<1>2. pc \in {"screening", "starting"} /\ pc # "failed" /\ (pc = "screening" => Validate)
  BY DEF Init
<1>3. CountIsCurrent /\ VerdictsRight /\ ScreeningFirst /\ HealthyCorpusStarts
  BY <1>2 DEF Init, CountIsCurrent, Blaming, VerdictsRight, ScreeningFirst,
              HealthyCorpusStarts
<1>4. AttemptsPaid
  BY <1>2, FS_EmptySet DEF Init, AttemptsPaid, Moved
<1>5. AllTried
  BY DEF Init, AllTried
<1> QED BY <1>1, <1>3, <1>4, <1>5 DEF HealthyInv

LEMMA HealthyScreen == HealthyInv /\ Screen => HealthyInv'
<1> SUFFICES ASSUME HealthyInv, Screen PROVE HealthyInv'
  OBVIOUS
<1> USE DEF HealthyInv
<1>1. TypeOK' /\ NothingLost' /\ NoComeback'
  BY TypeInductive, NothingLostInductive, NoComebackInductive DEF Next
<1>2. PICK rejected \in SUBSET input :
        /\ input' = input \ rejected /\ pending' = pending \cup rejected
        /\ pc' = IF rejected = input THEN "failed" ELSE "starting"
        /\ honest' = (honest /\ rejected \subseteq bad)
  BY DEF Screen, Quarantine
<1>3. /\ Validate /\ input = InputSeeds /\ pc = "screening"
      /\ UNCHANGED <<attempt, failure, bad>>
  BY DEF Screen, ScreeningFirst
<1>4. pc' \in {"failed", "starting"}
  BY <1>2
<1>5. CountIsCurrent' /\ ScreeningFirst' /\ AllTried'
  BY <1>3, <1>4 DEF CountIsCurrent, Blaming, ScreeningFirst, AllTried
<1>6. VerdictsRight'
  BY <1>2, <1>3, <1>4 DEF VerdictsRight, Blaming
<1>7. AttemptsPaid'
  <2>1. Cardinality(pending) <= Cardinality(pending')
    BY <1>1, <1>2, Grows DEF TypeOK
  <2>2. ~Moved /\ ~Moved'
    BY <1>3, <1>4 DEF Moved
  <2>3. Cardinality(pending) \in Nat /\ Cardinality(pending') \in Nat /\ attempt \in Nat
    BY <1>1, SeedsFinite DEF TypeOK
  <2>4. ASSUME honest', ~Hopeless' PROVE attempt' <= Cardinality(pending')
    <3>1. attempt <= Cardinality(pending)
      BY <1>2, <1>3, <2>2, <2>4 DEF AttemptsPaid, Hopeless
    <3> QED BY <1>3, <2>1, <2>3, <3>1
  <2> QED BY <2>2, <2>4 DEF AttemptsPaid
<1>8. HealthyCorpusStarts'
  BY <1>2, <1>3 DEF HealthyCorpusStarts
<1> QED BY <1>1, <1>5, <1>6, <1>7, <1>8

LEMMA HealthyEmptyCorpus == HealthyInv /\ EmptyCorpus => HealthyInv'
<1> SUFFICES ASSUME HealthyInv, EmptyCorpus PROVE HealthyInv'
  OBVIOUS
<1> USE DEF HealthyInv
<1>1. TypeOK' /\ NothingLost' /\ NoComeback'
  BY TypeInductive, NothingLostInductive, NoComebackInductive DEF Next
<1>2. /\ pc = "starting" /\ pc' = "failed" /\ input = {}
      /\ UNCHANGED <<input, pending, attempt, failure, bad, honest>>
  BY DEF EmptyCorpus
<1>3. CountIsCurrent' /\ ScreeningFirst' /\ AllTried' /\ VerdictsRight'
  BY <1>2 DEF CountIsCurrent, Blaming, ScreeningFirst, AllTried, VerdictsRight
<1>4. AttemptsPaid'
  BY <1>2 DEF AttemptsPaid, Moved, Hopeless
<1>5. HealthyCorpusStarts'
  BY <1>2 DEF HealthyCorpusStarts, NothingLost, VerdictsRight, AllTried
<1> QED BY <1>1, <1>3, <1>4, <1>5

LEMMA HealthyFailStart == HealthyInv /\ FailStart => HealthyInv'
<1> SUFFICES ASSUME HealthyInv, FailStart PROVE HealthyInv'
  OBVIOUS
<1> USE DEF HealthyInv
<1>1. TypeOK' /\ NothingLost' /\ NoComeback'
  BY TypeInductive, NothingLostInductive, NoComebackInductive DEF Next
<1>2. PICK kind \in Kinds, s \in input \cup {NoSeed} :
        /\ failure' = [kind |-> kind, seed |-> s, count |-> Cardinality(input)]
        /\ honest' = (honest /\ kind = "seed_candidate" /\ s \in bad)
  BY DEF FailStart
<1>3. /\ pc = "starting" /\ pc' = "recovering" /\ input # {}
      /\ UNCHANGED <<input, pending, attempt, bad>>
  BY DEF FailStart
<1>4. CountIsCurrent' /\ ScreeningFirst' /\ AllTried'
  BY <1>2, <1>3 DEF CountIsCurrent, ScreeningFirst, AllTried
<1>5. VerdictsRight'
  BY <1>2, <1>3, SeedsAssumption DEF VerdictsRight, TypeOK
<1>6. AttemptsPaid'
  BY <1>2, <1>3 DEF AttemptsPaid, Moved, Hopeless
<1>7. HealthyCorpusStarts'
  BY <1>3 DEF HealthyCorpusStarts
<1> QED BY <1>1, <1>4, <1>5, <1>6, <1>7

LEMMA HealthyRecover == HealthyInv /\ Recover => HealthyInv'
<1> SUFFICES ASSUME HealthyInv, Recover PROVE HealthyInv'
  OBVIOUS
<1> USE DEF HealthyInv
<1>1. TypeOK' /\ NothingLost' /\ NoComeback'
  BY TypeInductive, NothingLostInductive, NoComebackInductive DEF Next
<1>2. /\ pc = "recovering" /\ pc' = "quarantining"
      /\ UNCHANGED <<attempt, failure, bad>>
  BY DEF Recover
<1>3. (Replaceable <=> Replaceable') /\ ScreeningFirst' /\ HealthyCorpusStarts' /\ ~Moved
  BY <1>2 DEF Replaceable, ScreeningFirst, HealthyCorpusStarts, Moved
<1>4. CASE Replaceable
  <2>1. PICK accepted \in SUBSET FreshSeeds, rejected \in SUBSET FreshSeeds :
          /\ \/ accepted \cup rejected = FreshSeeds
             \/ Cardinality(accepted) = CopyLimit
          /\ input' = (input \ Blamed) \cup accepted
          /\ pending' = pending \cup Blamed \cup rejected
          /\ honest' = (honest /\ rejected \subseteq bad)
    BY <1>4 DEF Recover
  <2>2. ~Blaming' /\ Moved'
    BY <1>2, <1>3, <1>4 DEF Blaming, Moved
  <2>3. CountIsCurrent'
    BY <2>2 DEF CountIsCurrent
  <2>4. VerdictsRight'
    BY <1>2, <2>1, <2>2, BlamedIn DEF VerdictsRight
  <2>5. AttemptsPaid'
    <3> SUFFICES ASSUME honest', ~Hopeless' PROVE attempt' + 1 <= Cardinality(pending')
      BY <2>2 DEF AttemptsPaid
    <3>1. attempt <= Cardinality(pending)
      BY <1>2, <1>3, <2>1 DEF AttemptsPaid, Hopeless
    <3>2. failure.seed \in Blamed /\ failure.seed \in Seeds \ pending
      BY <1>2, <2>1 DEF VerdictsRight, Blaming, Blamed, TypeOK, NoComeback
    <3>3. Cardinality(pending \cup {failure.seed}) = Cardinality(pending) + 1
      BY <3>2, OneMore DEF TypeOK
    <3>4. pending \cup {failure.seed} \in SUBSET pending'
      BY <2>1, <3>2
    <3>5. Cardinality(pending \cup {failure.seed}) <= Cardinality(pending')
      BY <1>1, <3>4, Grows DEF TypeOK
    <3>6. Cardinality(pending) \in Nat /\ Cardinality(pending') \in Nat /\ attempt \in Nat
      BY <1>1, SeedsFinite DEF TypeOK
    <3> QED BY <1>2, <3>1, <3>3, <3>5, <3>6
  <2>6. AllTried'
    <3> SUFFICES ASSUME input' = {} PROVE SyncSeeds \subseteq pending'
      BY DEF AllTried
    <3>1. accepted = {} /\ input \subseteq Blamed
      BY <2>1
    <3>2. Cardinality(accepted) # CopyLimit
      BY <3>1, FS_EmptySet, RetriesAssumption
    <3>3. rejected = FreshSeeds
      BY <2>1, <3>1, <3>2
    <3> QED BY <2>1, <3>1, <3>3 DEF FreshSeeds
  <2> QED BY <1>1, <1>3, <2>3, <2>4, <2>5, <2>6
<1>5. CASE ~Replaceable
  <2>1. UNCHANGED <<input, pending, honest>>
    BY <1>5 DEF Recover
  <2>2. Blaming /\ Blaming' /\ ~Moved'
    BY <1>2, <1>3, <1>5 DEF Blaming, Moved
  <2>3. CountIsCurrent' /\ AllTried' /\ VerdictsRight'
    BY <1>2, <2>1, <2>2 DEF CountIsCurrent, AllTried, VerdictsRight
  <2>4. AttemptsPaid'
    BY <1>2, <1>3, <2>1, <2>2 DEF AttemptsPaid, Hopeless
  <2> QED BY <1>1, <1>3, <2>3, <2>4
<1> QED BY <1>4, <1>5

LEMMA HealthyQuarantine == HealthyInv /\ QuarantineBlamed => HealthyInv'
<1> SUFFICES ASSUME HealthyInv, QuarantineBlamed PROVE HealthyInv'
  OBVIOUS
<1> USE DEF HealthyInv
<1>1. TypeOK' /\ NothingLost' /\ NoComeback'
  BY TypeInductive, NothingLostInductive, NoComebackInductive DEF Next
<1>2. /\ pc = "quarantining" /\ pc' = "retrying"
      /\ UNCHANGED <<attempt, failure, bad, honest>>
  BY DEF QuarantineBlamed
<1>3. ~Blaming' /\ Moved'
  BY <1>2 DEF Blaming, Moved
<1>4. CountIsCurrent' /\ ScreeningFirst' /\ HealthyCorpusStarts'
  BY <1>2, <1>3 DEF CountIsCurrent, ScreeningFirst, HealthyCorpusStarts
<1>5. failure.count \in Nat /\ Cardinality(pending) \in Nat /\ attempt \in Nat
  BY SeedsFinite DEF TypeOK, Failure
<1>6. CASE failure.count > 1
  <2>1. input' = input \ Blamed /\ pending' = pending \cup Blamed
    BY <1>6 DEF QuarantineBlamed, Quarantine
  <2>2. ~Replaceable /\ Blaming
    BY <1>2, <1>5, <1>6 DEF Replaceable, Blaming
  <2>3. input' # {}
    BY <1>6, <2>1, <2>2, BlamedIn, OthersRemain DEF CountIsCurrent, TypeOK
  <2>4. AllTried'
    BY <2>3 DEF AllTried
  <2>5. VerdictsRight'
    BY <1>2, <1>3, <2>1, BlamedIn DEF VerdictsRight
  <2>6. AttemptsPaid'
    <3> SUFFICES ASSUME honest, ~Hopeless PROVE attempt + 1 <= Cardinality(pending')
      BY <1>2, <1>3 DEF AttemptsPaid, Hopeless
    <3>1. attempt <= Cardinality(pending)
      BY <1>2, <2>2 DEF AttemptsPaid, Moved
    <3>2. Blamed = {failure.seed} /\ failure.seed \in Seeds \ pending
      BY <1>2, <2>2 DEF VerdictsRight, Blamed, TypeOK, NoComeback
    <3>3. Cardinality(pending') = Cardinality(pending) + 1
      BY <2>1, <3>2, OneMore DEF TypeOK
    <3> QED BY <1>5, <3>1, <3>3
  <2> QED BY <1>1, <1>4, <2>4, <2>5, <2>6
<1>7. CASE ~(failure.count > 1)
  <2>1. input' = input /\ pending' = pending
    BY <1>7 DEF QuarantineBlamed, Quarantine
  <2>2. AllTried' /\ VerdictsRight'
    BY <1>2, <1>3, <2>1 DEF AllTried, VerdictsRight
  <2>3. AttemptsPaid'
    <3>1. CASE Replaceable
      BY <1>2, <1>3, <2>1, <3>1 DEF AttemptsPaid, Moved, Hopeless
    <3>2. CASE ~Replaceable
      <4> SUFFICES ASSUME honest PROVE Hopeless'
        BY <1>2 DEF AttemptsPaid
      <4>1. Blaming /\ failure.kind = "seed_candidate" /\ failure.seed \in input \cap bad
        BY <1>2, <3>2 DEF Blaming, VerdictsRight
      <4>2. Delivery # "sync"
        BY <1>5, <1>7, <3>2, <4>1 DEF Replaceable
      <4>3. input = {failure.seed}
        BY <1>5, <1>7, <4>1, TheOnlyOne DEF CountIsCurrent, TypeOK
      <4> QED BY <1>2, <4>1, <4>2, <4>3 DEF Hopeless, NothingLost, VerdictsRight
    <3> QED BY <3>1, <3>2
  <2> QED BY <1>1, <1>4, <2>2, <2>3
<1> QED BY <1>6, <1>7

LEMMA HealthyRetry == HealthyInv /\ Retry => HealthyInv'
<1> SUFFICES ASSUME HealthyInv, Retry PROVE HealthyInv'
  OBVIOUS
<1> USE DEF HealthyInv
<1>1. TypeOK' /\ NothingLost' /\ NoComeback'
  BY TypeInductive, NothingLostInductive, NoComebackInductive DEF Next
<1>2. /\ pc = "retrying" /\ pc' \in {"starting", "failed"}
      /\ UNCHANGED <<input, pending, failure, bad, honest>>
      /\ pc' = "failed" => attempt + 1 >= Limit /\ attempt' = attempt
      /\ attempt' \in {attempt, attempt + 1}
  BY DEF Retry
<1>3. CountIsCurrent' /\ ScreeningFirst' /\ AllTried' /\ VerdictsRight'
  BY <1>2 DEF CountIsCurrent, Blaming, ScreeningFirst, AllTried, VerdictsRight
<1>4. attempt \in Nat /\ Cardinality(pending) \in Nat /\ Cardinality(bad) \in Nat
  BY CountType DEF TypeOK
<1>5. honest => Hopeless \/ attempt + 1 <= Cardinality(pending)
  BY <1>2 DEF AttemptsPaid, Moved
<1>6. AttemptsPaid'
  <2>1. ~Moved'
    BY <1>2 DEF Moved
  <2> QED BY <1>2, <1>4, <1>5, <2>1 DEF AttemptsPaid, Hopeless
<1>7. HealthyCorpusStarts'
  <2> SUFFICES ASSUME pc' = "failed", honest, Cardinality(bad) < SeedRetries
               PROVE  Hopeless
    BY <1>2 DEF HealthyCorpusStarts, Hopeless
  <2>1. attempt + 1 >= SeedRetries
    BY <1>2 DEF Limit, VerdictsRight
  <2>2. Cardinality(pending) <= Cardinality(bad)
    BY Grows DEF VerdictsRight, TypeOK
  <2> QED BY <1>4, <1>5, <2>1, <2>2, RetriesAssumption
<1> QED BY <1>1, <1>3, <1>6, <1>7

LEMMA HealthyIdle == HealthyInv /\ (Ready \/ UNCHANGED vars) => HealthyInv'
<1> SUFFICES ASSUME HealthyInv, Ready \/ UNCHANGED vars PROVE HealthyInv'
  OBVIOUS
<1> USE DEF HealthyInv
<1>1. TypeOK' /\ NothingLost' /\ NoComeback'
  BY TypeInductive, NothingLostInductive, NoComebackInductive DEF Next
<1>2. CASE Ready
  <2>1. /\ pc = "starting" /\ pc' = "ready"
        /\ UNCHANGED <<input, pending, attempt, failure, bad, honest>>
    BY <1>2 DEF Ready
  <2>2. CountIsCurrent' /\ ScreeningFirst' /\ AllTried' /\ VerdictsRight'
        /\ HealthyCorpusStarts'
    BY <2>1 DEF CountIsCurrent, Blaming, ScreeningFirst, AllTried, VerdictsRight,
                HealthyCorpusStarts
  <2>3. AttemptsPaid'
    BY <2>1 DEF AttemptsPaid, Moved, Hopeless
  <2> QED BY <1>1, <2>2, <2>3
<1>3. CASE UNCHANGED vars
  BY <1>1, <1>3 DEF vars, CountIsCurrent, Blaming, ScreeningFirst, AllTried,
     VerdictsRight, HealthyCorpusStarts, AttemptsPaid, Moved, Hopeless, Replaceable
<1> QED BY <1>2, <1>3

\* When bad seeds are the only trouble and there are fewer of them than
\* attempts, a corpus with a good seed starts, and one of bad seeds that may be
\* replaced starts unless every enriched seed is bad.
THEOREM GoodSeedStarts == Spec => []HealthyCorpusStarts
<1>1. HealthyInv /\ [Next]_vars => HealthyInv'
  BY HealthyScreen, HealthyEmptyCorpus, HealthyFailStart, HealthyRecover,
     HealthyQuarantine, HealthyRetry, HealthyIdle DEF Next
<1>2. HealthyInv => HealthyCorpusStarts
  BY DEF HealthyInv
<1> QED BY <1>1, <1>2, HealthyInitial, PTL DEF Spec

-----------------------------------------------------------------------------
(* The last seed                                                             *)

LastInv == TypeOK /\ CountIsCurrent /\ LastSeedStays

LEMMA LastInductive == LastInv /\ [Next]_vars => LastInv'
<1> SUFFICES ASSUME LastInv, [Next]_vars PROVE LastInv'
  OBVIOUS
<1> USE DEF LastInv
<1>0. TypeOK'
  BY TypeInductive
<1>1. CASE Screen
  <2>1. pc' \in {"failed", "starting"} /\ (input' = {} => pc' = "failed")
    BY <1>1 DEF Screen, Quarantine
  <2> QED BY <1>0, <2>1 DEF CountIsCurrent, Blaming, LastSeedStays
<1>2. CASE EmptyCorpus \/ Ready \/ FailStart
  <2>1. CountIsCurrent'
    BY <1>2 DEF EmptyCorpus, Ready, FailStart, CountIsCurrent, Blaming
  <2>2. LastSeedStays'
    BY <1>2 DEF EmptyCorpus, Ready, FailStart, LastSeedStays
  <2> QED BY <1>0, <2>1, <2>2
<1>3. CASE Recover
  <2>1. pc = "recovering" /\ pc' = "quarantining" /\ failure' = failure
    BY <1>3 DEF Recover
  <2>2. Replaceable' <=> Replaceable
    BY <2>1 DEF Replaceable
  <2>3. CASE Replaceable
    <3>1. LastSeedStays'
      <4> SUFFICES ASSUME input' = {} PROVE SyncSeeds \subseteq pending'
        BY <2>3 DEF LastSeedStays, Replaceable
      <4> PICK accepted \in SUBSET FreshSeeds, rejected \in SUBSET FreshSeeds :
             /\ \/ accepted \cup rejected = FreshSeeds
                \/ Cardinality(accepted) = CopyLimit
             /\ input' = (input \ Blamed) \cup accepted
             /\ pending' = pending \cup Blamed \cup rejected
        BY <1>3, <2>3 DEF Recover
      <4>1. accepted = {} /\ input \subseteq Blamed
        OBVIOUS
      <4>2. Cardinality(accepted) # CopyLimit
        BY <4>1, FS_EmptySet, RetriesAssumption
      <4>3. rejected = FreshSeeds
        BY <4>1, <4>2
      <4> QED BY <4>1, <4>3 DEF FreshSeeds
    <3> QED BY <1>0, <2>1, <2>2, <2>3, <3>1 DEF CountIsCurrent, Blaming
  <2>4. CASE ~Replaceable
    BY <1>0, <1>3, <2>1, <2>4 DEF Recover, CountIsCurrent, Blaming, LastSeedStays
  <2> QED BY <2>3, <2>4
<1>4. CASE QuarantineBlamed
  <2>1. pc = "quarantining" /\ pc' = "retrying"
    BY <1>4 DEF QuarantineBlamed
  <2>2. CountIsCurrent'
    BY <2>1 DEF CountIsCurrent, Blaming
  <2>3. CASE failure.count > 1
    <3>1. ~Replaceable /\ input' = input \ Blamed
      BY <1>4, <2>3 DEF Replaceable, QuarantineBlamed, Quarantine, TypeOK, Failure
    <3>2. input \ {failure.seed} # {}
      BY <2>1, <2>3, <3>1, OthersRemain DEF CountIsCurrent, Blaming, TypeOK
    <3> QED BY <1>0, <2>2, <3>1, <3>2, BlamedIn DEF LastSeedStays
  <2>4. CASE ~(failure.count > 1)
    BY <1>0, <1>4, <2>1, <2>2, <2>4 DEF QuarantineBlamed, Quarantine, LastSeedStays
  <2> QED BY <2>3, <2>4
<1>5. CASE Retry
  BY <1>0, <1>5 DEF Retry, CountIsCurrent, Blaming, LastSeedStays
<1>6. CASE UNCHANGED vars
  BY <1>0, <1>6 DEF vars, CountIsCurrent, Blaming, Replaceable, LastSeedStays
<1> QED BY <1>1, <1>2, <1>3, <1>4, <1>5, <1>6 DEF Next

\* Unless the enriched seeds come by sync, recovery does not move the last seed;
\* when they do, it leaves the input empty only after all of them have failed.
THEOREM OneSeedRemains == Spec => []LastSeedStays
<1>1. Init => LastInv
  BY TypeInitial DEF Init, LastInv, CountIsCurrent, Blaming, LastSeedStays
<1>2. LastInv => LastSeedStays
  BY DEF LastInv
<1> QED BY <1>1, <1>2, LastInductive, PTL DEF Spec

-----------------------------------------------------------------------------
(* Startup runs out of steps.                                                *)

\* The loop variable stays in its range although the limit moves.
AttemptInv ==
    /\ TypeOK
    /\ attempt <= SeedRetries

LEMMA AttemptInitial == Init => AttemptInv
BY TypeInitial, RetriesAssumption DEF Init, AttemptInv

LEMMA LimitType == Limit \in Nat /\ Limit <= SeedRetries
BY RetriesAssumption DEF Limit

LEMMA AttemptInductive == AttemptInv /\ [Next]_vars => AttemptInv'
<1> SUFFICES ASSUME AttemptInv, [Next]_vars PROVE AttemptInv'
  OBVIOUS
<1>0. TypeOK' /\ attempt \in Nat
  BY TypeInductive DEF AttemptInv, TypeOK
<1>1. CASE Retry
  <2>1. CASE attempt + 1 >= Limit
    BY <1>0, <1>1, <2>1 DEF Retry, AttemptInv
  <2>2. CASE ~(attempt + 1 >= Limit)
    BY <1>0, <1>1, <2>2, LimitType, RetriesAssumption DEF Retry, AttemptInv
  <2> QED BY <2>1, <2>2
<1>2. CASE UNCHANGED attempt
  BY <1>0, <1>2 DEF AttemptInv
<1> QED
  BY <1>1, <1>2
  DEF Next, Screen, EmptyCorpus, Ready, FailStart, Recover, QuarantineBlamed, vars

LEMMA FewerSteps ==
    ASSUME AttemptInv, Next
    PROVE  StepsLeft' \in Nat /\ StepsLeft' < StepsLeft
<1>0. /\ attempt \in Nat /\ attempt' \in Nat /\ SeedRetries \in Nat
      /\ attempt <= SeedRetries /\ attempt' <= SeedRetries
  BY AttemptInductive, RetriesAssumption DEF AttemptInv, TypeOK
<1>1. CASE Retry
  <2>1. pc = "retrying"
    BY <1>1 DEF Retry
  <2>2. CASE pc' = "failed" /\ attempt' = attempt
    BY <1>0, <2>1, <2>2 DEF StepsLeft
  <2>3. CASE pc' = "starting" /\ attempt' = attempt + 1
    BY <1>0, <2>1, <2>3 DEF StepsLeft
  <2> QED BY <1>1, <2>2, <2>3 DEF Retry
<1>2. CASE ~Retry
  <2>1. attempt' = attempt
    BY <1>2 DEF Next, Screen, EmptyCorpus, Ready, FailStart, Recover, QuarantineBlamed
  <2>2. \/ pc = "screening" /\ pc' \in {"failed", "starting"}
        \/ pc = "starting" /\ pc' \in {"failed", "ready", "recovering"}
        \/ pc = "recovering" /\ pc' = "quarantining"
        \/ pc = "quarantining" /\ pc' = "retrying"
    BY <1>2 DEF Next, Screen, EmptyCorpus, Ready, FailStart, Recover, QuarantineBlamed
  <2> QED BY <1>0, <2>1, <2>2 DEF StepsLeft
<1> QED BY <1>1, <1>2

\* Startup cannot go on for ever: each step leaves fewer to take.
THEOREM StartupIsBounded == Spec => StepsRunOut
<1>1. AttemptInv /\ [Next]_vars => [StepsLeft' \in Nat /\ StepsLeft' < StepsLeft]_vars
  BY FewerSteps
<1> QED BY <1>1, AttemptInitial, AttemptInductive, PTL DEF Spec, StepsRunOut
=============================================================================
