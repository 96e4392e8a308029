--------------------------- MODULE StartupRecovery ---------------------------
(***************************************************************************)
(* How the controller gets afl-fuzz to accept its input corpus.             *)
(*                                                                         *)
(* The corpus may be screened first.  afl-fuzz is then started until it is  *)
(* ready; a failed start is classified from its log, and when a seed of the *)
(* dry run is to blame the seed is moved to vuln_staging/pending.  The last *)
(* seed is never moved that way; when the enriched seeds are delivered by   *)
(* sync, it is replaced by copies of some of them instead.                  *)
(***************************************************************************)
EXTENDS Naturals, FiniteSets

CONSTANTS
    InputSeeds,   \* names in afl_input_dir after the corpus is prepared
    SyncSeeds,    \* names in sync_seed_dir
    Delivery,     \* psei_seed_delivery_mode
    Validate,     \* startup_validate_initial_seeds
    SeedRetries,  \* _STARTUP_SEED_CANDIDATE_RETRY_LIMIT
    Retries,      \* _STARTUP_RETRY_LIMIT
    CopyLimit     \* _STARTUP_SYNC_RECOVERY_COPY_LIMIT

ASSUME DeliveryAssumption ==
    /\ Delivery \in {"afl-input", "sync", "async"}
    /\ Validate \in BOOLEAN

ASSUME RetriesAssumption ==
    /\ Retries \in Nat /\ SeedRetries \in Nat /\ CopyLimit \in Nat \ {0}
    /\ Retries <= SeedRetries

Seeds == InputSeeds \cup SyncSeeds

NoSeed == "no-seed"  \* also a name that was not read from the log whole

ASSUME SeedsAssumption ==
    IsFiniteSet(InputSeeds) /\ IsFiniteSet(SyncSeeds) /\ NoSeed \notin Seeds

VARIABLES
    pc,       \* where the controller is
    input,    \* afl_input_dir
    pending,  \* vuln_staging/pending, which the manifest repeats
    attempt,  \* the loop variable
    failure,  \* details of the last failed start
    bad,      \* the seeds that do crash the program under test
    honest    \* history: every verdict so far has been the fault of a bad seed

vars == <<pc, input, pending, attempt, failure, bad, honest>>

Kinds == {"seed_candidate", "timeout", "forkserver_lost", "environmental", "unknown"}

Failure == [kind : Kinds, seed : Seeds \cup {NoSeed}, count : Nat]

Init ==
    /\ pc = IF Validate THEN "screening" ELSE "starting"
    /\ input = InputSeeds
    /\ pending = {}
    /\ attempt = 0
    /\ failure = [kind |-> "unknown", seed |-> NoSeed, count |-> 0]
    /\ bad \in SUBSET Seeds
    /\ honest = TRUE

\* quarantine_seed_file moves the file.
Quarantine(S) ==
    /\ input' = input \ S
    /\ pending' = pending \cup S

\* _screen_initial_seed_corpus replays every seed; if none is kept it raises.
Screen ==
    /\ pc = "screening"
    /\ \E rejected \in SUBSET input :
         /\ Quarantine(rejected)
         /\ pc' = IF rejected = input THEN "failed" ELSE "starting"
         /\ honest' = (honest /\ rejected \subseteq bad)
    /\ UNCHANGED <<attempt, failure, bad>>

EmptyCorpus ==
    /\ pc = "starting"
    /\ input = {}
    /\ pc' = "failed"
    /\ UNCHANGED <<input, pending, attempt, failure, bad, honest>>

Ready ==
    /\ pc = "starting"
    /\ input # {}
    /\ pc' = "ready"
    /\ UNCHANGED <<input, pending, attempt, failure, bad, honest>>

\* The seed is the last one the log names as being tried.
FailStart ==
    /\ pc = "starting"
    /\ input # {}
    /\ \E kind \in Kinds, s \in input \cup {NoSeed} :
         /\ failure' = [kind |-> kind, seed |-> s, count |-> Cardinality(input)]
         /\ honest' = (honest /\ kind = "seed_candidate" /\ s \in bad)
    /\ pc' = "recovering"
    /\ UNCHANGED <<input, pending, attempt, bad>>

\* Mutant: the file is not looked for.
BlamedUnchecked == IF failure.kind = "seed_candidate" THEN {failure.seed} ELSE {}
Blamed == IF failure.kind = "seed_candidate" THEN {failure.seed} \cap input ELSE {}

Replaceable == failure.kind = "seed_candidate" /\ failure.count <= 1 /\ Delivery = "sync"

\* Mutant: names that have been quarantined are candidates again.
FreshSeedsAll == (SyncSeeds \ Blamed) \ input
FreshSeeds == (SyncSeeds \ (pending \cup Blamed)) \ input

\* Mutant: the first candidate that fails ends the screening.
RecoverFirst ==
    /\ pc = "recovering"
    /\ IF Replaceable
       THEN \E accepted \in SUBSET FreshSeeds, rejected \in SUBSET FreshSeeds :
              /\ accepted \cap rejected = {}
              /\ Cardinality(accepted) <= CopyLimit
              /\ \/ accepted \cup rejected = FreshSeeds
                 \/ Cardinality(accepted) = CopyLimit
                 \/ rejected # {}
              /\ input' = (input \ Blamed) \cup accepted
              /\ pending' = pending \cup Blamed \cup rejected
              /\ honest' = (honest /\ rejected \subseteq bad)
       ELSE UNCHANGED <<input, pending, honest>>
    /\ pc' = "quarantining"
    /\ UNCHANGED <<attempt, failure, bad>>

\* The candidates are screened in turn, until enough have been copied; those
\* that fail are copied to pending.
Recover ==
    /\ pc = "recovering"
    /\ IF Replaceable
       THEN \E accepted \in SUBSET FreshSeeds, rejected \in SUBSET FreshSeeds :
              /\ accepted \cap rejected = {}
              /\ Cardinality(accepted) <= CopyLimit
              /\ \/ accepted \cup rejected = FreshSeeds
                 \/ Cardinality(accepted) = CopyLimit
              /\ input' = (input \ Blamed) \cup accepted
              /\ pending' = pending \cup Blamed \cup rejected
              /\ honest' = (honest /\ rejected \subseteq bad)
       ELSE UNCHANGED <<input, pending, honest>>
    /\ pc' = "quarantining"
    /\ UNCHANGED <<attempt, failure, bad>>

\* Mutant: the last seed is quarantined as well.
QuarantineLast ==
    /\ pc = "quarantining"
    /\ Quarantine(Blamed)
    /\ pc' = "retrying"
    /\ UNCHANGED <<attempt, failure, bad, honest>>

\* Mutant: the seed is deleted.
QuarantineDeletes ==
    /\ pc = "quarantining"
    /\ input' = IF failure.count > 1 THEN input \ Blamed ELSE input
    /\ pc' = "retrying"
    /\ UNCHANGED <<pending, attempt, failure, bad, honest>>

QuarantineBlamed ==
    /\ pc = "quarantining"
    /\ Quarantine(IF failure.count > 1 THEN Blamed ELSE {})
    /\ pc' = "retrying"
    /\ UNCHANGED <<attempt, failure, bad, honest>>

\* Mutant: every kind has the small number of attempts.
LimitOfAll == Retries
Limit == IF failure.kind = "seed_candidate" THEN SeedRetries ELSE Retries

\* Mutant: the attempts are not counted.
RetryForever ==
    /\ pc = "retrying"
    /\ pc' = "starting"
    /\ UNCHANGED <<input, pending, attempt, failure, bad, honest>>

\* Every kind may be retried; the limit is that of the latest failure.
Retry ==
    /\ pc = "retrying"
    /\ IF attempt + 1 >= Limit
       THEN pc' = "failed" /\ UNCHANGED attempt
       ELSE pc' = "starting" /\ attempt' = attempt + 1
    /\ UNCHANGED <<input, pending, failure, bad, honest>>

Next == Screen \/ EmptyCorpus \/ Ready \/ FailStart \/ Recover \/ QuarantineBlamed
        \/ Retry

Spec == Init /\ [][Next]_vars

\* One thread, whose waits all have a deadline.
FairSpec == Spec /\ WF_vars(Next)

-----------------------------------------------------------------------------
TypeOK ==
    /\ pc \in {"screening", "starting", "recovering", "quarantining", "retrying",
               "ready", "failed"}
    /\ input \subseteq Seeds
    /\ pending \subseteq Seeds
    /\ attempt \in Nat
    /\ failure \in Failure
    /\ bad \subseteq Seeds
    /\ honest \in BOOLEAN

\* No seed of the corpus disappears: whatever is taken out of the input
\* directory is waiting for the mutation worker.
NothingLost == InputSeeds \subseteq input \cup pending

\* A seed that has been quarantined does not come back, not even as a copy of
\* the enriched seed it was.
NoComeback == input \cap pending = {}

\* Recovery does not leave afl-fuzz with nothing.  Unless the enriched seeds come
\* by sync the last seed is never moved; when they do, it is moved only after all
\* of them have been tried, and are in pending as well.
LastSeedStays ==
    InputSeeds # {} /\ input = {} /\ pc # "failed" =>
        Delivery = "sync" /\ SyncSeeds \subseteq pending

\* When bad seeds are the only trouble, and there are fewer of them than
\* attempts, a corpus with a good seed in it starts.  One of bad seeds alone
\* starts when it is not screened and a good seed can be had from sync.
HealthyCorpusStarts ==
    pc = "failed" /\ honest /\ Cardinality(bad) < SeedRetries =>
        /\ InputSeeds \subseteq bad
        /\ Delivery = "sync" /\ ~Validate /\ InputSeeds # {} => SyncSeeds \subseteq bad

\* How many steps startup can still take: four for each attempt that is left,
\* and those of the one it is at.
StepsLeft ==
    4 * (SeedRetries - attempt)
    + CASE pc = "screening" -> 5
        [] pc = "starting" -> 4
        [] pc = "recovering" -> 3
        [] pc = "quarantining" -> 2
        [] pc = "retrying" -> 1
        [] OTHER -> 0

\* Every step is one fewer, whatever kind each failure is and although the
\* limit changes with the kind: no sequence of failures restarts for ever.
StepsRunOut == [][StepsLeft' \in Nat /\ StepsLeft' < StepsLeft]_vars

\* Startup comes to an end.
StartupEnds == <>(pc \in {"ready", "failed"})
=============================================================================
