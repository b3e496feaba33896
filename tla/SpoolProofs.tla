---------------------------- MODULE SpoolProofs -----------------------------
(***************************************************************************)
(* Theorems about the spool and its drainer, for every number of names,    *)
(* clients, workers, rows, failures and restarts.                          *)
(***************************************************************************)
EXTENDS SpoolTypes, SpoolCapacity, SpoolKept, FiniteSetTheorems, FunctionTheorems
-----------------------------------------------------------------------------
(* Types, rows and workers.                                                *)

LEMMA FiniteIds == IsFiniteSet(Ids)
BY FS_Interval, SpoolAssumption DEF Ids

LEMMA FiniteFiles == FinitelyMany
BY FiniteIds, FS_Subset, FS_CardinalityType DEF FinitelyMany

\* Every variable of the spool keeps its type, in every run of any size.
THEOREM TypeCorrect == Spec => []TypeOK
<1>1. TypeOK /\ [Next]_vars => TypeOK'
  BY TypeStep, FiniteFiles, Zenon
<1> QED
  BY <1>1, TypeInit, PTL DEF Spec

\* The inductive invariant holds in every run of any size.
LEMMA Inductive == Spec => []IInv
<1>1. IInv /\ TypeOK' /\ [Next]_vars => IInv'
  BY OwnNext, Zenon
<1> QED
  BY <1>1, OwnInit, TypeCorrect, PTL DEF Spec

\* A row that is being written, queued or drained is the youngest of its
\* name, whatever renames, removals, retries and boot scans have done to the
\* table: no older save can drain after a newer one.
THEOREM LatestOnly == Spec => []ActiveIsLatest
BY Inductive, PTL DEF IInv

\* Two workers never drain the same row, with any number of workers.
THEOREM Exclusive == Spec => []ExclusiveDrain
<1>1. IInv => ExclusiveDrain
  BY DEF IInv, WorkersOwn, ExclusiveDrain
<1> QED
  BY <1>1, Inductive, PTL

-----------------------------------------------------------------------------
(* The capacity.                                                           *)

\* UsedExact in these terms.
LEMMA Exact == UsedExact <=> (mode = "up" => used = Cardinality(Occupied) + Retried)
BY Zenon DEF UsedExact, Occupied, InUse, Retried

\* Finitely many files can be in use.
LEMMA OccupiedFinite == IsFiniteSet(Occupied) /\ Cardinality(Occupied) \in Nat
<1>1. Occupied \subseteq Ids
  BY Zenon DEF Occupied
<1>2. IsFiniteSet(Occupied)
  BY <1>1, FiniteIds, FS_Subset, Zenon
<1> QED
  BY <1>2, FS_CardinalityType, Zenon

\* A step that is accounted for keeps the count exact.
LEMMA Counted ==
  ASSUME UsedExact, used \in Int, Accounted PROVE UsedExact'
<1> SUFFICES ASSUME mode' = "up"
             PROVE  used' = Cardinality(Occupied') + Retried'
  BY Zenon DEF UsedExact, Occupied, InUse, Retried
<1>a. /\ mode' = mode
      /\ \/ SameFiles /\ used' = used /\ Retried' = Retried
         \/ SameFiles /\ used' = used + (Retried' - Retried)
         \/ \E g \in Ids : Taken(g) \/ GivenUp(g)
         \/ \E G \in SUBSET Ids : AllGivenUp(G)
  BY Zenon DEF Accounted
<1>b. used = Cardinality(Occupied) + Retried
  BY <1>a, Exact, Zenon
<1>1. CASE SameFiles
  <2>1. Occupied' = Occupied
    BY <1>1 DEF Occupied, SameFiles
  <2>2. CASE used' = used /\ Retried' = Retried
    BY <1>b, <2>1, <2>2, Zenon
  <2>3. CASE used' = used + (Retried' - Retried)
    BY <1>b, <2>1, <2>3, RetriedUnit, OccupiedFinite
  <2>4. ASSUME NEW g \in Ids, Taken(g) \/ GivenUp(g) PROVE FALSE
    BY <1>1, <2>4, Zenon DEF SameFiles, Taken, GivenUp
  <2>5. ASSUME NEW G \in SUBSET Ids, AllGivenUp(G)
        PROVE  used' = Cardinality(Occupied') + Retried'
    <3>1. G = {}
      BY <1>1, <2>5 DEF SameFiles, AllGivenUp, Occupied
    <3> QED
      BY <1>b, <2>1, <2>5, <3>1, FS_EmptySet DEF AllGivenUp
  <2> QED
    BY <1>a, <2>2, <2>3, <2>4, <2>5, Zenon
<1>2. ASSUME NEW g \in Ids, Taken(g)
      PROVE  used' = Cardinality(Occupied') + Retried'
  <2>1. Occupied' = Occupied \cup {g} /\ g \notin Occupied
    BY <1>2 DEF Occupied, Taken
  <2>2. Cardinality(Occupied') = Cardinality(Occupied) + 1
    BY <2>1, OccupiedFinite, FS_AddElement
  <2>3. used' = used + 1 + (Retried' - Retried)
    BY <1>2, Zenon DEF Taken
  <2> QED
    BY <1>b, <2>2, <2>3, RetriedUnit, OccupiedFinite
<1>3. ASSUME NEW g \in Ids, GivenUp(g)
      PROVE  used' = Cardinality(Occupied') + Retried'
  <2>1. Occupied' = Occupied \ {g} /\ g \in Occupied
    BY <1>3 DEF Occupied, GivenUp
  <2>2. Cardinality(Occupied') = Cardinality(Occupied) - 1
    BY <2>1, OccupiedFinite, FS_RemoveElement
  <2>3. used' = used - 1 /\ Retried' = Retried
    BY <1>3, Zenon DEF GivenUp
  <2> QED
    BY <1>b, <2>2, <2>3, RetriedUnit, OccupiedFinite
<1>4. ASSUME NEW G \in SUBSET Ids, AllGivenUp(G)
      PROVE  used' = Cardinality(Occupied') + Retried'
  <2>1. Occupied' = Occupied \ G /\ Occupied \cap G = G
    BY <1>4 DEF Occupied, AllGivenUp
  <2>2. Cardinality(Occupied') = Cardinality(Occupied) - Cardinality(G)
    <3>1. IsFiniteSet(Occupied)
      BY OccupiedFinite, Zenon
    <3>2. Cardinality(Occupied \ G)
            = Cardinality(Occupied) - Cardinality(Occupied \cap G)
      BY <3>1, FS_Difference, Zenon
    <3> QED
      BY <2>1, <3>2, Zenon
  <2>3. Cardinality(G) \in Int
    BY FiniteFiles, Zenon DEF FinitelyMany
  <2>4. used' = used - Cardinality(G) /\ Retried' = Retried
    BY <1>4, Zenon DEF AllGivenUp
  <2> QED
    BY <1>b, <2>2, <2>3, <2>4, RetriedUnit, OccupiedFinite
<1> QED
  BY <1>a, <1>1, <1>2, <1>3, <1>4, Zenon

\* The saves that a boot queues are those whose files it counts.
LEMMA BootCount ==
  ASSUME CapInv, RecoverOnBoot, CheckDrainCompletionRecovery, NEW ready,
         ready = {r \in Ids : Latest(r) /\ Recovered(r) = "ready"},
         st' = [r \in Ids |-> Recovered(r)], used' = bootUsed(ready)
  PROVE  UsedExact'
<1> SUFFICES ASSUME NEW R, R = {r \in ready : disk[file[r]] > 0} PROVE UsedExact'
  BY Zenon
<1>0. InUseAfterBoot(R)
  BY BootFiles, Zenon
<1>1. \A r \in R : r \in Ids /\ file[r] \in Ids
  BY <1>0, Zenon DEF InUseAfterBoot
<1>2. \A r, q \in R : file[r] = file[q] => r = q
  BY <1>0, Zenon DEF InUseAfterBoot
<1>3. \A f : f \in Occupied' <=> f \in Ids /\ \E r \in R : file[r] = f
  BY <1>0, Zenon DEF InUseAfterBoot
<1>4. Occupied' = {f \in Ids : \E r \in R : file[r] = f}
  BY <1>3, Zenon
<1>f. IsFiniteSet(R) /\ Cardinality(R) \in Nat
  <2>1. R \subseteq Ids
    BY <1>1, Zenon
  <2>2. IsFiniteSet(R)
    BY <2>1, FiniteIds, FS_Subset, Zenon
  <2> QED
    BY <2>2, FS_CardinalityType, Zenon
<1>5. Cardinality(Occupied') = Cardinality(R)
  <2> SUFFICES ASSUME NEW T, T = {f \in Ids : \E r \in R : file[r] = f}
               PROVE  Cardinality(T) = Cardinality(R)
    BY <1>4, Zenon
  <2> SUFFICES ASSUME NEW F, F = [r \in R |-> file[r]]
               PROVE  Cardinality(T) = Cardinality(R)
    BY Zenon
  <2>2. F \in [R -> T]
    <3>1. \A r \in R : file[r] \in T
      BY <1>1, Zenon
    <3> QED
      BY <3>1
  <2>3. \A r, q \in R : F[r] = F[q] => r = q
    BY <1>2, Zenon
  <2>4. \A t \in T : \E r \in R : F[r] = t
    BY Zenon
  <2>5. F \in Bijection(R, T)
    <3>1. F \in Injection(R, T)
      BY <2>2, <2>3, Fun_IsInj, Zenon
    <3>2. F \in Surjection(R, T)
      BY <2>2, <2>4, Fun_IsSurj, Zenon
    <3> QED
      BY <3>1, <3>2, Zenon DEF Bijection
  <2>6. ExistsBijection(R, T)
    BY <2>5, Zenon DEF ExistsBijection
  <2> QED
    BY <1>f, <2>6, FS_Bijection, Zenon
<1>6. Retried' = 0
  BY <1>0, Zenon DEF InUseAfterBoot
<1>7. used' = Cardinality(R)
  BY Zenon DEF bootUsed
<1>8. mode' = "up" => used' = Cardinality(Occupied') + Retried'
  BY <1>5, <1>6, <1>7, <1>f
<1> QED
  BY <1>8, Zenon DEF UsedExact, Occupied, InUse, Retried

\* A boot counts the files of the saves that it queues, or does not serve.
LEMMA CapRestart ==
  ASSUME CapInv, UsedExact, IInv', Crash \/ RecoverOnBoot
  PROVE  CapInv' /\ UsedExact'
<1>1. CASE Crash
  <2>1. CapStep /\ mode' = "down"
    BY <1>1, CapCrash, Zenon DEF Crash
  <2>2. mode' # "up"
    BY <2>1
  <2> QED
    BY <2>1, <2>2, Zenon DEF CapStep, UsedExact
<1>2. CASE RecoverOnBoot /\ CheckDrainCompletionRecovery
  <2> SUFFICES ASSUME NEW ready,
                      ready = {r \in Ids : Latest(r) /\ Recovered(r) = "ready"}
               PROVE  CapInv' /\ UsedExact'
    BY Zenon
  <2>1. st' = [r \in Ids |-> Recovered(r)] /\ used' = bootUsed(ready)
    BY <1>2, Zenon DEF RecoverOnBoot
  <2>2. UsedExact'
    BY <1>2, <2>1, BootCount, Zenon
  <2> QED
    BY <1>2, <2>2, CapBoot, Zenon DEF CapInv
<1>3. CASE RecoverOnBoot /\ ~CheckDrainCompletionRecovery
  <2>1. Structure' /\ mode' # "up"
    BY <1>3, CapRefused, Zenon
  <2> QED
    BY <2>1, Zenon DEF CapInv, UsedExact
<1> QED
  BY <1>1, <1>2, <1>3, Zenon

LEMMA CapInit == Init => CapInv /\ UsedExact
<1> SUFFICES ASSUME Init PROVE CapInv /\ UsedExact
  BY Zenon
<1>1. Structure /\ used = 0 /\ Retried = 0 /\ \A f \in Ids : ~InUse(f)
  BY StructureInit, Zenon
<1>2. Occupied = {}
  BY <1>1, Zenon DEF Occupied
<1>3. Cardinality(Occupied) = 0
  BY <1>2, FS_EmptySet, Zenon
<1>4. used = Cardinality(Occupied) + Retried
  BY <1>1, <1>3
<1> QED
  BY <1>1, <1>4, OwnInit, Exact, Zenon DEF CapInv

LEMMA Accounting == Spec => [](CapInv /\ UsedExact)
<1>1. CapInv /\ UsedExact /\ IInv' /\ [Next]_vars => CapInv' /\ UsedExact'
  <2> SUFFICES ASSUME CapInv, UsedExact, IInv', [Next]_vars
               PROVE  CapInv' /\ UsedExact'
    OBVIOUS
  <2>2. CapStep \/ Crash \/ RecoverOnBoot
    BY CapSteps, Zenon
  <2>3. CASE CapStep
    <3>1. used \in Int
      BY Zenon DEF CapInv, IInv, TypeOK
    <3> QED
      BY <2>3, <3>1, Counted, Zenon DEF CapStep
  <2> QED
    BY <2>2, <2>3, CapRestart, Zenon
<1> QED
  BY <1>1, CapInit, Inductive, PTL DEF Spec

\* The capacity of the spool is accounted for exactly, in every run of any
\* size: whatever writes, failures, retries, cancellations, renames,
\* completions and boots do, SpoolStore.used is what the private files of
\* pending saves occupy.  No release is done twice, so the spool never takes
\* more than its capacity, and none is forgotten, so it does not fill up with
\* files that are gone.
THEOREM CapacityExact == Spec => []UsedExact
BY Accounting, PTL

-----------------------------------------------------------------------------
(* Removed names.                                                          *)

\* A name that a client removed stays out of the backend, in every run of any
\* size: no drain that was claimed, staged or rewriting in place when the
\* removal began, no retry, no rename over the name and no boot publishes a
\* save that was cancelled with it.  The one exception is the sweeper's
\* collection of a done row that superseded a failed one, after which the
\* failed save can be retried.
THEOREM RemovedStaysRemoved ==
  Spec /\ [][~StaleCollection]_vars => []NoResurrection
<1>1. RemovalInv => NoResurrection
  BY Zenon DEF RemovalInv, BackendPresent, Present, NoResurrection, Settled
<1>2. CapInv /\ RemovalInv /\ [Next]_vars /\ [~StaleCollection]_vars
        => RemovalInv'
  BY RemStep
<1> QED
  BY <1>1, <1>2, Accounting, RemInit, PTL DEF Spec

-----------------------------------------------------------------------------
(* Stored bytes.                                                           *)

LEMMA Storing == Spec /\ [][~Exceptional]_vars => [](CapInv /\ StoredInv)
<1>1. [~Exceptional]_vars => [~StaleCollection]_vars
  BY Zenon DEF Exceptional
<1>2. CapInv /\ RemovalInv /\ [Next]_vars /\ [~StaleCollection]_vars
        => RemovalInv'
  BY RemStep
<1>3. CapInv /\ CapInv' /\ RemovalInv /\ RemovalInv' /\ StoredInv
        /\ [Next]_vars /\ [~Exceptional]_vars => StoredInv'
  BY KeptStep
<1> QED
  BY <1>1, <1>2, <1>3, Accounting, RemInit, KeptInit, PTL DEF Spec

\* What a client last stored under a name is not lost, in every run of any
\* size: a drain gives its private file up only when the backend has the bytes,
\* whatever failures, retries, refusals, renames, removals and restarts come in
\* between.  Four steps are excepted, each of which the code does not guard: a
\* worker that lost its row and rewrites the renamed file, the collection of a
\* done row over an older failed one, a rename of a retried row that no index
\* entry shadows, and a write that finds the save that it was to join failed.
THEOREM SavedBytesKept ==
  Spec /\ [][~Exceptional]_vars => []SavedBytesRetained
BY Storing, StoredRetained, PTL

\* Outside the same four steps a read of a name that no operation holds returns
\* what was last stored under it, or EIO: the shadow entry and the read fault
\* cover a save until the backend has its bytes, and the entry of a row that
\* drained, failed or was cancelled does not outlive the lease.
THEOREM ReadsAreFresh ==
  Spec /\ [][~Exceptional]_vars => []FreshReads
BY Storing, StoredFresh, PTL
=============================================================================
