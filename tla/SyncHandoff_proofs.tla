------------------------ MODULE SyncHandoff_proofs ------------------------
(***************************************************************************)
(* Proofs about SyncHandoff for any set of writers, any disjoint sets of    *)
(* tags, any directory left over and any number of injections, whichever of *)
(* the seeds are empty or too large.                                        *)
(***************************************************************************)
EXTENDS SyncHandoff, FiniteSetTheorems, TLAPS

-----------------------------------------------------------------------------
(* Types.  torn \subseteq dir needs to know that the entry a writer has torn *)
(* is the one it is about to rename, so this part is inductive with the      *)
(* writers' control state.                                                   *)

TypeInv ==
    /\ TypeOK
    /\ IsFiniteSet(imports)
    /\ \A w \in Writers : pc[w] = "written" => TmpOf(name[w]) \notin torn
    /\ \A w \in Writers : pc[w] # "idle" => name[w] \in Entry /\ ~name[w].tmp

LEMMA TmpOfType ==
    ASSUME NEW e \in Entry
    PROVE  /\ TmpOf(e) \in Entry
           /\ TmpOf(e).tmp
           /\ TmpOf(e).id = e.id
           /\ TmpOf(e).tag = e.tag
BY DEF TmpOf, Entry

LEMMA FinalIsItself ==
    ASSUME NEW e \in Entry, ~e.tmp
    PROVE  [e EXCEPT !.tmp = FALSE] = e
<1> DEFINE f == [e EXCEPT !.tmp = FALSE]
<1>1. f \in Entry /\ f.id = e.id /\ f.tag = e.tag /\ f.tmp = FALSE
  BY DEF Entry
<1>2. e.tmp = FALSE
  BY DEF Entry
<1> HIDE DEF f
<1> QED BY <1>1, <1>2 DEF Entry

\* Two writers never hold the same temporary file, since their tags differ.
LEMMA TmpOfDistinct ==
    ASSUME TypeInv, NEW v \in Writers, NEW w \in Writers, v # w,
           pc[v] # "idle", pc[w] # "idle"
    PROVE  /\ name[v] # name[w]
           /\ TmpOf(name[v]) # TmpOf(name[w])
<1>1. name[v].tag # name[w].tag
  BY TagsAssumption DEF TypeInv, TypeOK
<1>2. TmpOf(name[v]).tag = name[v].tag /\ TmpOf(name[w]).tag = name[w].tag
  BY TmpOfType DEF TypeInv
<1> QED BY <1>1, <1>2

LEMMA InitTypeInv == Init => TypeInv
<1> SUFFICES ASSUME Init PROVE TypeInv
  OBVIOUS
<1>1. TypeOK
  BY LeftoverAssumption DEF Init, TypeOK, NoScan
<1>2. IsFiniteSet(imports)
  BY FS_EmptySet DEF Init
<1> QED BY <1>1, <1>2 DEF Init, TypeInv

LEMMA StepTypeInv == TypeInv /\ [Next]_vars => TypeInv'
<1> SUFFICES ASSUME TypeInv, [Next]_vars PROVE TypeInv'
  OBVIOUS
<1> USE DEF TypeInv, TypeOK
<1>1. ASSUME NEW w \in Writers, NEW t \in TagsOf[w], ReadCounter(w, t) PROVE TypeInv'
  <2>1. [id |-> counter, tag |-> t, tmp |-> FALSE] \in Entry
    BY DEF Entry, Tags
  <2> QED BY <1>1, <2>1 DEF ReadCounter, readerVars, TmpOf
<1>2. ASSUME NEW w \in Writers, BumpAndCheck(w) PROVE TypeInv'
  BY <1>2 DEF BumpAndCheck, readerVars, TmpOf
<1>3. ASSUME NEW w \in Writers, Retry(w) PROVE TypeInv'
  <2>1. [name[w] EXCEPT !.id = counter] \in Entry
    BY <1>3 DEF Retry, Entry
  <2> QED BY <1>3, <2>1 DEF Retry, readerVars, TmpOf, Entry
<1>4. ASSUME NEW w \in Writers, OpenTmp(w) PROVE TypeInv'
  <2>1. \A v \in Writers : v # w /\ pc[v] # "idle" => TmpOf(name[v]) # TmpOf(name[w])
    BY <1>4, TmpOfDistinct DEF OpenTmp
  <2>2. TmpOf(name[w]) \in Entry
    BY <1>4, TmpOfType DEF OpenTmp
  <2> QED BY <1>4, <2>1, <2>2 DEF OpenTmp, readerVars
<1>5. ASSUME NEW w \in Writers, FillTmp(w) PROVE TypeInv'
  BY <1>5 DEF FillTmp, readerVars
<1>6. ASSUME NEW w \in Writers, Replace(w) \/ Fail(w) PROVE TypeInv'
  BY <1>6 DEF Replace, Fail, readerVars, NoName
<1>7. ASSUME OpenScan PROVE TypeInv'
  BY <1>7 DEF OpenScan, writerVars
<1>8. ASSUME NEW e \in scan.due \cup dir, ReadEntry(e) PROVE TypeInv'
  <2>1. e \in Entry /\ e.id \in Nat
    BY DEF Entry
  <2>2. scan' \in [on : BOOLEAN, min : Nat, next : Nat, seen : SUBSET Entry, due : SUBSET Entry]
    <3>1. (IF BelowMin(e) THEN scan.next ELSE NextMinAccept(e)) \in Nat
      BY <2>1 DEF NextMinAccept, BelowMin
    <3> QED BY <1>8, <2>1, <3>1 DEF ReadEntry
  <2>3. TimesRun(e) \in Nat
    BY FS_Subset, FS_CardinalityType DEF TimesRun
  <2>4. /\ imports' \subseteq [entry : Entry, whole : BOOLEAN, before : Nat]
        /\ IsFiniteSet(imports')
    <3>1. CASE UNCHANGED imports
      BY <3>1
    <3>2. CASE imports' = imports \cup
                 {[entry |-> e, whole |-> e \notin torn, before |-> TimesRun(e)]}
      <4> DEFINE r == [entry |-> e, whole |-> e \notin torn, before |-> TimesRun(e)]
      <4>1. r \in [entry : Entry, whole : BOOLEAN, before : Nat]
        BY <2>1, <2>3
      <4>2. IsFiniteSet(imports \cup {r})
        BY FS_AddElement
      <4> QED BY <3>2, <4>1, <4>2
    <3> QED BY <1>8, <3>1, <3>2 DEF ReadEntry, Opened
  <2> QED BY <1>8, <2>2, <2>4 DEF ReadEntry, writerVars
<1>9. ASSUME EndScan PROVE TypeInv'
  BY <1>9 DEF EndScan, NoScan, writerVars
<1>11. ASSUME Stop PROVE TypeInv'
  BY <1>11 DEF Stop, NoScan, writerVars
<1>10. CASE UNCHANGED vars
  BY <1>10 DEF vars
<1> QED
  BY <1>1, <1>2, <1>3, <1>4, <1>5, <1>6, <1>7, <1>8, <1>9, <1>10, <1>11
  DEF Next, Inject, SyncFuzzers, ReadSome

\* Every state of the system has the types TypeOK states.
THEOREM TypeCorrect == Spec => []TypeOK
<1>1. TypeInv => TypeOK
  BY DEF TypeInv
<1> QED BY <1>1, InitTypeInv, StepTypeInv, PTL DEF Spec

-----------------------------------------------------------------------------
(* Names.  NoOverwrite is inductive on its own once the types are known: the *)
(* look-up establishes it, and only the writer that owns a tag can add an    *)
(* entry with that tag.                                                      *)

LEMMA StepNoOverwrite == TypeInv /\ NoOverwrite /\ [Next]_vars => NoOverwrite'
<1> SUFFICES ASSUME TypeInv, NoOverwrite, [Next]_vars,
                    NEW v \in Writers, Placing(v)'
             PROVE  name'[v] \notin dir'
  BY DEF NoOverwrite
<1> USE DEF TypeInv, TypeOK, NoOverwrite, Placing
<1>1. ASSUME NEW w \in Writers, NEW t \in TagsOf[w], ReadCounter(w, t)
      PROVE  name'[v] \notin dir'
  BY <1>1 DEF ReadCounter
<1>2. ASSUME NEW w \in Writers, BumpAndCheck(w) PROVE name'[v] \notin dir'
  BY <1>2 DEF BumpAndCheck
<1>3. ASSUME NEW w \in Writers, Retry(w) PROVE name'[v] \notin dir'
  BY <1>3 DEF Retry
<1>4. ASSUME NEW w \in Writers, OpenTmp(w) PROVE name'[v] \notin dir'
  <2>1. TmpOf(name[w]).tmp /\ ~name[v].tmp
    BY <1>4, TmpOfType DEF OpenTmp
  <2> QED BY <1>4, <2>1 DEF OpenTmp
<1>5. ASSUME NEW w \in Writers, FillTmp(w) PROVE name'[v] \notin dir'
  BY <1>5 DEF FillTmp
<1>6. ASSUME NEW w \in Writers, Replace(w) PROVE name'[v] \notin dir'
  <2>1. v # w /\ name[v] # name[w]
    BY <1>6, TmpOfDistinct DEF Replace
  <2> QED BY <1>6, <2>1 DEF Replace
<1>7. ASSUME OpenScan PROVE name'[v] \notin dir'
  BY <1>7 DEF OpenScan, writerVars
<1>8. ASSUME NEW e \in scan.due \cup dir, ReadEntry(e) PROVE name'[v] \notin dir'
  BY <1>8 DEF ReadEntry, writerVars
<1>9. ASSUME EndScan PROVE name'[v] \notin dir'
  BY <1>9 DEF EndScan, writerVars
<1>11. ASSUME Stop PROVE name'[v] \notin dir'
  BY <1>11 DEF Stop, writerVars
<1>12. ASSUME NEW w \in Writers, Fail(w) PROVE name'[v] \notin dir'
  <2>1. v # w
    BY <1>12 DEF Fail
  <2> QED BY <1>12, <2>1 DEF Fail
<1>10. CASE UNCHANGED vars
  BY <1>10 DEF vars
<1> QED
  BY <1>1, <1>2, <1>3, <1>4, <1>5, <1>6, <1>7, <1>8, <1>9, <1>10, <1>11, <1>12
  DEF Next, Inject, SyncFuzzers, ReadSome

\* os.replace never overwrites a seed that is already in the directory, with
\* any number of threads in inject_seed, as long as no two share a tag.
THEOREM NamesAreFresh == Spec => []NoOverwrite
<1>1. Init => NoOverwrite
  BY DEF Init, NoOverwrite, Placing
<1> QED BY <1>1, InitTypeInv, StepTypeInv, StepNoOverwrite, PTL DEF Spec

-----------------------------------------------------------------------------
(* Imports.  What has been run is below the remembered number or has been    *)
(* returned by the scan in progress, and that scan's next_min_accept is      *)
(* above everything it has accepted so far.  A fuzzer that stops in a scan   *)
(* forgets what it has accepted, but it does not scan again.                 *)

ImportInv ==
    /\ AtMostOnce
    /\ scan.on => /\ alive
                  /\ scan.min = cursor
                  /\ scan.next >= cursor
                  /\ \A e \in scan.seen : e.id < scan.next
    /\ alive => \A r \in imports :
                   r.entry.id < cursor \/ (scan.on /\ r.entry \in scan.seen)

LEMMA StepImportInv == TypeInv /\ ImportInv /\ [Next]_vars => ImportInv'
<1> SUFFICES ASSUME TypeInv, ImportInv, [Next]_vars PROVE ImportInv'
  OBVIOUS
<1> USE DEF TypeInv, TypeOK, ImportInv, AtMostOnce
<1>1. ASSUME UNCHANGED readerVars PROVE ImportInv'
  BY <1>1 DEF readerVars
<1>2. ASSUME NEW w \in Writers, Inject(w) PROVE ImportInv'
  BY <1>1, <1>2
  DEF Inject, ReadCounter, BumpAndCheck, Retry, OpenTmp, FillTmp, Replace, Fail
<1>3. ASSUME OpenScan PROVE ImportInv'
  BY <1>3 DEF OpenScan
<1>4. ASSUME NEW e \in scan.due \cup dir, ReadEntry(e) PROVE ImportInv'
  <2> DEFINE next == IF BelowMin(e) THEN scan.next ELSE NextMinAccept(e)
             r == [entry |-> e, whole |-> e \notin torn, before |-> TimesRun(e)]
  <2>1. e \in Entry /\ e.id \in Nat
    BY DEF Entry
  <2>2. \A d \in scan.seen : d.id \in Nat
    BY DEF Entry
  <2>3. scan' = [scan EXCEPT !.seen = @ \cup {e}, !.due = @ \ {e}, !.next = next]
    BY <1>4 DEF ReadEntry
  <2>4. next \in Nat /\ next >= scan.next /\ e.id < next
    BY <1>4, <2>1 DEF NextMinAccept, BelowMin, ReadEntry
  <2>5. /\ scan'.on /\ alive'
        /\ scan'.min = cursor'
        /\ scan'.next >= cursor'
        /\ \A d \in scan'.seen : d.id < scan'.next
    BY <1>4, <2>2, <2>3, <2>4 DEF ReadEntry
  <2>6. CASE UNCHANGED imports
    BY <1>4, <2>3, <2>5, <2>6 DEF ReadEntry
  <2>7. CASE ~BelowMin(e) /\ imports' = imports \cup {r}
    <3>1. \A q \in imports : q.entry # e
      BY <1>4, <2>1, <2>7 DEF BelowMin, ReadEntry
    <3>2. AtMostOnce'
      BY <2>7, <3>1
    <3> QED BY <1>4, <2>3, <2>5, <2>7, <3>2 DEF ReadEntry
  <2> QED BY <1>4, <2>6, <2>7 DEF ReadEntry, Opened
<1>5. ASSUME EndScan PROVE ImportInv'
  <2>1. \A r \in imports : r.entry.id \in Nat
    BY DEF Entry
  <2> QED BY <1>5, <2>1 DEF EndScan, NoScan
<1>7. ASSUME Stop PROVE ImportInv'
  BY <1>7 DEF Stop, NoScan
<1>6. CASE UNCHANGED vars
  BY <1>1, <1>6 DEF vars, readerVars
<1> QED BY <1>2, <1>3, <1>4, <1>5, <1>6, <1>7 DEF Next, SyncFuzzers, ReadSome

LEMMA ImportInvHolds == Spec => [](TypeInv /\ ImportInv)
<1>1. Init => ImportInv
  BY DEF Init, ImportInv, AtMostOnce, NoScan
<1> QED BY <1>1, InitTypeInv, StepTypeInv, StepImportInv, PTL DEF Spec

\* afl-fuzz runs no entry of the directory twice, in one scan or in several.
THEOREM NoEntryRunTwice == Spec => []AtMostOnce
<1>1. ImportInv => AtMostOnce
  BY DEF ImportInv
<1> QED BY <1>1, ImportInvHolds, PTL

-----------------------------------------------------------------------------
(* What afl-fuzz reads under a final name                                    *)

\* Only temporary files are ever incomplete.
WholeInv ==
    /\ \A e \in torn : e.tmp
    /\ FinalIsWhole

LEMMA StepWholeInv == TypeInv /\ WholeInv /\ [Next]_vars => WholeInv'
<1> SUFFICES ASSUME TypeInv, WholeInv, [Next]_vars PROVE WholeInv'
  OBVIOUS
<1> USE DEF WholeInv, FinalIsWhole
<1>1. ASSUME NEW w \in Writers, OpenTmp(w) PROVE WholeInv'
  <2>1. TmpOf(name[w]).tmp
    BY <1>1, TmpOfType DEF OpenTmp, TypeInv
  <2> QED BY <1>1, <2>1 DEF OpenTmp, readerVars
<1>2. ASSUME NEW w \in Writers, FillTmp(w) PROVE WholeInv'
  BY <1>2 DEF FillTmp, readerVars
<1>3. ASSUME NEW e \in scan.due \cup dir, ReadEntry(e) PROVE WholeInv'
  <2>1. torn' = torn
    BY <1>3 DEF ReadEntry
  <2>2. CASE UNCHANGED imports
    BY <2>1, <2>2
  <2>3. CASE imports' = imports \cup
               {[entry |-> e, whole |-> e \notin torn, before |-> TimesRun(e)]}
    <3>1. ~e.tmp => e \notin torn
      OBVIOUS
    <3>2. ASSUME NEW r \in imports', ~r.entry.tmp PROVE r.whole
      <4>1. CASE r \in imports
        BY <3>2, <4>1
      <4>2. CASE r = [entry |-> e, whole |-> e \notin torn, before |-> TimesRun(e)]
        <5>1. r.entry = e /\ r.whole = (e \notin torn)
          BY <4>2
        <5> QED BY <3>1, <3>2, <5>1, Zenon
      <4> QED BY <2>3, <3>2, <4>1, <4>2
    <3> QED BY <2>1, <3>2
  <2> QED BY <1>3, <2>2, <2>3 DEF ReadEntry, Opened
<1>4. CASE UNCHANGED <<torn, imports>>
  BY <1>4
<1> QED BY <1>1, <1>2, <1>3, <1>4
      DEF Next, Inject, SyncFuzzers, ReadSome, ReadCounter, BumpAndCheck, Retry,
          Replace, Fail, OpenScan, EndScan, Stop, readerVars, writerVars, vars

\* A seed that afl-fuzz takes under its final name is complete.
THEOREM FinalSeedsAreWhole == Spec => []FinalIsWhole
<1>1. Init => WholeInv
  BY DEF Init, WholeInv, FinalIsWhole
<1>2. WholeInv => FinalIsWhole
  BY DEF WholeInv
<1> QED BY <1>1, <1>2, InitTypeInv, StepTypeInv, StepWholeInv, PTL DEF Spec

-----------------------------------------------------------------------------
(* The directory implements a mailbox.  Final names are never taken away, so *)
(* what a scan still has to return under a final name is in the directory    *)
(* and complete; reading it is taking it.                                    *)

DueInv ==
    /\ ~scan.on => scan.due = {}
    /\ Final(scan.due) \subseteq dir

\* A step of a writer keeps every final name.
LEMMA FinalNamesStay ==
    ASSUME TypeInv, NEW w \in Writers, Inject(w)
    PROVE  /\ Final(dir) \subseteq dir'
           /\ UNCHANGED readerVars
<1>1. CASE OpenTmp(w)
  BY <1>1 DEF OpenTmp, Final
<1>2. CASE Replace(w)
  <2>1. TmpOf(name[w]).tmp
    BY <1>2, TmpOfType DEF Replace, TypeInv
  <2> QED BY <1>2, <2>1 DEF Replace, Final
<1> QED
  BY <1>1, <1>2
  DEF Inject, ReadCounter, BumpAndCheck, Retry, FillTmp, Fail, Final

LEMMA StepDueInv == TypeInv /\ DueInv /\ [Next]_vars => DueInv'
<1> SUFFICES ASSUME TypeInv, DueInv, [Next]_vars PROVE DueInv'
  OBVIOUS
<1> USE DEF TypeInv, TypeOK, DueInv, Final
<1>1. ASSUME NEW w \in Writers, Inject(w) PROVE DueInv'
  <2>1. {e \in dir : ~e.tmp} \subseteq dir' /\ scan' = scan
    BY <1>1, FinalNamesStay DEF readerVars
  <2> QED BY <2>1
<1>2. ASSUME OpenScan PROVE DueInv'
  BY <1>2 DEF OpenScan
<1>3. ASSUME NEW e \in scan.due \cup dir, ReadEntry(e) PROVE DueInv'
  <2>1. scan'.due = scan.due \ {e} /\ scan'.on /\ dir' = dir
    BY <1>3 DEF ReadEntry
  <2> QED BY <2>1
<1>4. ASSUME EndScan \/ Stop PROVE DueInv'
  BY <1>4 DEF EndScan, Stop, NoScan
<1>5. CASE UNCHANGED vars
  BY <1>5 DEF vars
<1> QED BY <1>1, <1>2, <1>3, <1>4, <1>5 DEF Next, SyncFuzzers, ReadSome

HandoffInv == TypeInv /\ NoOverwrite /\ ImportInv /\ WholeInv /\ DueInv

LEMMA HandoffInvHolds == Spec => []HandoffInv
<1>1. Init => NoOverwrite /\ ImportInv /\ WholeInv /\ DueInv
  BY DEF Init, NoOverwrite, Placing, ImportInv, AtMostOnce, WholeInv, FinalIsWhole,
         DueInv, NoScan, Final
<1> QED
  BY <1>1, InitTypeInv, StepTypeInv, StepNoOverwrite, StepImportInv, StepWholeInv,
     StepDueInv, PTL DEF Spec, HandoffInv

\* The refinement mapping, spelled out.
Passed == {e \in Final(dir) \ Imported : e.id < cursor \/ e \in Odd}
Owed == {e \in Final(scan.due) \ Odd : e.id >= scan.min}

LEMMA InitMailbox == Init => Mailbox!Init
<1> SUFFICES ASSUME Init PROVE Mailbox!Init
  OBVIOUS
<1>1. scan.on = FALSE /\ scan.due = {} /\ cursor = 0 /\ imports = {}
  BY DEF Init, NoScan
<1>2. Final(Imported) = {} /\ Final(scan.due) = {}
  BY <1>1 DEF Imported, Final
<1>3. alive = TRUE
  BY DEF Init
<1> QED BY <1>1, <1>2, <1>3 DEF Mailbox!Init

\* A writer's step is a stutter, but for the rename, which places the seed.
LEMMA InjectMailbox ==
    ASSUME HandoffInv, NEW w \in Writers, Inject(w)
    PROVE  Mailbox!Place \/ UNCHANGED Mailbox!vars
<1> USE DEF HandoffInv, TypeInv, TypeOK
<1>1. UNCHANGED <<Imported, alive, cursor, scan>>
  BY FinalNamesStay DEF readerVars, Imported
<1>2. CASE Final(dir)' = Final(dir)
  BY <1>1, <1>2 DEF Mailbox!vars, Final
<1>3. CASE OpenTmp(w)
  <2>1. TmpOf(name[w]).tmp
    BY <1>3, TmpOfType DEF OpenTmp
  <2> QED BY <1>2, <1>3, <2>1 DEF OpenTmp, Final
<1>4. CASE Replace(w)
  <2> DEFINE s == name[w]
  <2>1. TmpOf(s).tmp /\ ~s.tmp /\ s \notin dir
    BY <1>4, TmpOfType DEF Replace, NoOverwrite, Placing
  <2>2. Final(dir)' = Final(dir) \cup {s} /\ s \notin Final(dir)
    BY <1>4, <2>1 DEF Replace, Final
  <2> HIDE DEF s
  <2>3. Passed' \in {Passed, Passed \cup {s}}
    <3>1. Passed' = {e \in (Final(dir) \cup {s}) \ Imported : e.id < cursor \/ e \in Odd}
      BY <1>1, <2>2 DEF Passed
    <3> QED BY <3>1 DEF Passed
  <2>4. UNCHANGED <<Final(Imported), alive, scan.on, Owed>>
    BY <1>1 DEF Final, Owed
  <2> QED BY <2>2, <2>3, <2>4 DEF Mailbox!Place, Passed, Owed
<1> QED
  BY <1>2, <1>3, <1>4
  DEF Inject, ReadCounter, BumpAndCheck, Retry, FillTmp, Fail, Final

LEMMA WaitingIs ==
    ASSUME HandoffInv
    PROVE  Mailbox!Waiting = {e \in Final(dir) \ (Imported \cup Odd) : e.id >= cursor}
<1>1. \A e \in Final(dir) : e.id \in Nat /\ cursor \in Nat /\ ~e.tmp
  BY DEF HandoffInv, TypeInv, TypeOK, Final, Entry
<1>2. \A e \in Final(dir) : e \in Final(Imported) <=> e \in Imported
  BY DEF Final
<1> QED BY <1>1, <1>2 DEF Mailbox!Waiting

LEMMA OpenScanMailbox ==
    ASSUME HandoffInv, OpenScan
    PROVE  Mailbox!BeginScan
<1> USE DEF HandoffInv, TypeInv, TypeOK
<1>1. \A e \in Imported : e.id < cursor
  BY DEF OpenScan, ImportInv, Imported
<1>2. scan'.on = TRUE /\ scan'.due = dir /\ scan'.min = cursor
  BY DEF OpenScan
<1>3. Owed' = {e \in Final(dir) \ Odd : e.id >= cursor}
  BY <1>2 DEF Owed, Final
<1>4. \A e \in Final(dir) : e.id \in Nat /\ cursor \in Nat
  BY DEF Final, Entry
<1>5. Owed' = Mailbox!Waiting
  BY <1>1, <1>3, <1>4, WaitingIs
<1>6. UNCHANGED <<Final(dir), Final(Imported), Passed>>
  BY DEF OpenScan, Final, Imported, Passed
<1> QED BY <1>2, <1>5, <1>6 DEF OpenScan, Mailbox!BeginScan, Owed, Passed

\* Reading a name is taking the seed, when it is a final name that the scan
\* accepts, and nothing otherwise.
LEMMA ReadEntryMailbox ==
    ASSUME HandoffInv, NEW e \in scan.due \cup dir, ReadEntry(e)
    PROVE  Mailbox!Take \/ UNCHANGED Mailbox!vars
<1> USE DEF HandoffInv, TypeInv, TypeOK
<1>1. /\ scan'.due = scan.due \ {e} /\ scan'.min = scan.min /\ scan.min = cursor
      /\ alive' = alive /\ scan.on /\ scan'.on = scan.on
      /\ dir' = dir /\ cursor' = cursor
  BY DEF ReadEntry, ImportInv
<1>2. e \in Entry /\ e.id \in Nat /\ e.tmp \in BOOLEAN
  BY DEF Entry
<1>3. CASE BelowMin(e)
  <2>1. UNCHANGED imports /\ e \notin Owed
    BY <1>1, <1>2, <1>3 DEF ReadEntry, BelowMin, Owed
  <2>2. Owed' = Owed
    BY <1>1, <2>1 DEF Owed, Final
  <2>3. UNCHANGED <<Final(dir), Final(Imported), Passed>>
    BY <1>1, <2>1 DEF Final, Imported, Passed
  <2> QED BY <1>1, <2>2, <2>3 DEF Mailbox!vars, Owed, Passed
<1>4. CASE e.tmp
  <2>1. Imported' = Imported \/ Imported' = Imported \cup {e}
    BY DEF ReadEntry, Opened, Imported
  <2>2. Final(Imported)' = Final(Imported)
    BY <1>4, <2>1 DEF Final
  <2>3. Final(dir)' = Final(dir) /\ Owed' = Owed
    BY <1>1, <1>4 DEF Final, Owed
  <2>4. Passed' = Passed
    BY <1>1, <1>4, <2>1 DEF Final, Passed
  <2> QED BY <1>1, <2>2, <2>3, <2>4 DEF Mailbox!vars, Owed, Passed
<1>5. CASE ~BelowMin(e) /\ ~e.tmp /\ e \in Odd
  <2>1. e \in Final(dir) /\ e \notin torn
    BY <1>5 DEF DueInv, Final, WholeInv
  <2>2. Ignored(e)
    BY <1>2, <1>5, FinalIsItself DEF Ignored
  <2>3. UNCHANGED imports
    BY <1>5, <2>1, <2>2 DEF ReadEntry, Opened, Final
  <2>4. Owed' = Owed
    BY <1>1, <1>5 DEF Owed, Final
  <2>5. UNCHANGED <<Final(dir), Final(Imported), Passed>>
    BY <1>1, <2>3 DEF Final, Imported, Passed
  <2> QED BY <1>1, <2>4, <2>5 DEF Mailbox!vars, Owed, Passed
<1>6. CASE ~BelowMin(e) /\ ~e.tmp /\ e \notin Odd
  <2>1. e \in Final(dir) /\ e \notin torn /\ e.id >= cursor
    BY <1>1, <1>2, <1>6 DEF DueInv, Final, WholeInv, BelowMin
  <2>2. ~Ignored(e)
    BY <1>2, <1>6, FinalIsItself DEF Ignored
  <2>3. e \notin Imported
    BY <1>1, <2>1, <1>2 DEF ImportInv, Imported, ReadEntry
  <2>4. e \in Mailbox!Waiting
    BY <1>6, <2>1, <2>3, WaitingIs
  <2>5. Imported' = Imported \cup {e}
    <3> DEFINE r == [entry |-> e, whole |-> e \notin torn, before |-> TimesRun(e)]
    <3>1. imports' = imports \cup {r}
      BY <1>6, <2>1, <2>2 DEF ReadEntry, Opened, Final
    <3>2. r.entry = e
      OBVIOUS
    <3> HIDE DEF r
    <3> QED BY <3>1, <3>2 DEF Imported
  <2>6. Final(Imported)' = Final(Imported) \cup {e}
    BY <1>6, <2>5 DEF Final
  <2>7. Owed' = Owed \ {e}
    BY <1>1 DEF Final, Owed
  <2>8. Final(dir)' = Final(dir) /\ Passed' = Passed
    BY <1>1, <1>2, <1>6, <2>1, <2>5 DEF Final, Passed
  <2> QED BY <1>1, <2>4, <2>6, <2>7, <2>8 DEF Mailbox!Take, Owed, Passed
<1> QED BY <1>3, <1>4, <1>5, <1>6

LEMMA EndScanMailbox ==
    ASSUME HandoffInv, EndScan
    PROVE  Mailbox!EndScan
<1> USE DEF HandoffInv, TypeInv, TypeOK
<1>1. Final(scan.due) = {}
  BY DEF DueInv, EndScan, Final
<1>2. /\ scan.on /\ ~scan'.on /\ scan'.due = {}
      /\ cursor' = scan.next /\ scan.next >= cursor
      /\ dir' = dir /\ imports' = imports /\ alive' = alive
  BY DEF EndScan, NoScan, ImportInv
<1>3. scan'.on = FALSE
  BY DEF EndScan, NoScan
<1>4. \A e \in Final(dir) : e.id \in Nat
  BY DEF Final, Entry
<1>5. UNCHANGED <<Final(dir), Imported, Final(Imported)>>
  BY <1>2 DEF Final, Imported
<1>6. Passed \subseteq Passed' /\ Passed' \subseteq Passed \cup Mailbox!Waiting
  BY <1>2, <1>4, <1>5, WaitingIs DEF Passed
<1>7. Owed = {} /\ Owed' = {}
  BY <1>1, <1>2 DEF Owed, Final
<1> QED BY <1>2, <1>3, <1>5, <1>6, <1>7 DEF Mailbox!EndScan, Owed, Passed

LEMMA StopMailbox ==
    ASSUME HandoffInv, Stop
    PROVE  Mailbox!Stop
<1>1. /\ alive = TRUE /\ alive' = FALSE /\ scan'.on = FALSE /\ scan'.due = {}
      /\ dir' = dir /\ imports' = imports /\ cursor' = cursor
  BY DEF Stop, NoScan, HandoffInv, TypeInv, TypeOK
<1>2. UNCHANGED <<Final(dir), Final(Imported), Passed>>
  BY <1>1 DEF Final, Imported, Passed
<1>3. Owed' = {}
  BY <1>1 DEF Owed, Final
<1> QED BY <1>1, <1>2, <1>3 DEF Mailbox!Stop, Owed, Passed

\* The directory implements a mailbox: a seed is placed in one step, taken at
\* most once, by the scan that finds it waiting unless afl-fuzz stops, and passed
\* over only when it comes too late or is empty or too large, and then for good.
THEOREM HandoffIsMailbox == Spec => ImplementsSeedMailbox
<1>1. HandoffInv /\ [Next]_vars => [Mailbox!Next]_Mailbox!vars
  <2> SUFFICES ASSUME HandoffInv, [Next]_vars
               PROVE  Mailbox!Next \/ UNCHANGED Mailbox!vars
    OBVIOUS
  <2>1. CASE UNCHANGED vars
    BY <2>1 DEF vars, Mailbox!vars, Final, Imported
  <2> QED
    BY <2>1, InjectMailbox, OpenScanMailbox, ReadEntryMailbox, EndScanMailbox,
       StopMailbox
    DEF Next, SyncFuzzers, ReadSome, Mailbox!Next
<1> QED
  BY <1>1, InitMailbox, HandoffInvHolds, PTL DEF Spec, ImplementsSeedMailbox, Mailbox!Spec
=============================================================================
