----------------------------- MODULE SpoolTypes -----------------------------
(***************************************************************************)
(* Every action of the spool and its drainer keeps the types, the order of *)
(* the rows of a name and the workers' claims.                             *)
(***************************************************************************)
EXTENDS SpoolInv, TLAPS
-----------------------------------------------------------------------------
(* Types. *)

\* The idle records have their types and the index sets are not empty.
LEMMA ConstantTypes ==
  /\ SomePath \in Paths /\ 1 \in Ids /\ 0 \in Versions
  /\ IdleRequest \in Requests /\ IdleName \in NameOps /\ SomeJob \in Jobs
<1>1. SomePath \in Paths
  BY SpoolAssumption, Zenon DEF SomePath
<1>2. 1 \in Ids /\ 0 \in Versions
  BY SpoolAssumption DEF Ids, Versions
<1>3. IdleRequest \in Requests
  BY <1>1, Zenon DEF IdleRequest, Requests, None
<1>4. IdleName \in NameOps
  BY <1>1, Zenon DEF IdleName, NameOps, Entries
<1>5. SomeJob \in Jobs
  BY <1>1, <1>2, Zenon DEF SomeJob, Jobs, Contents
<1> QED
  BY <1>1, <1>2, <1>3, <1>4, <1>5, Zenon

\* A file occupies one unit of capacity or none.
LEMMA ChargeUnit == \A f : Charge(f) \in {0, 1}
BY Zenon DEF Charge

\* The initial state has the type.
LEMMA TypeInit == Init => TypeOK
<1> SUFFICES ASSUME Init PROVE TypeOK
  BY Zenon
<1> QED
  BY ConstantTypes, SpoolAssumption
  DEF Init, TypeOK, States, Contents, Entries, Bases, Targets, WorkerPcs,
      Events, Ids, Versions, None, NoFile, Torn, Free, Removed, Moved


\* The end of an open keeps the type of requests and leases.
LEMMA TypeOpened ==
  ASSUME TypeOK, NEW w \in Writers, NEW f \in Ids \cup {None}, Opened(w, f)
  PROVE  /\ wr' \in [Writers -> Requests]
         /\ lease' \in [Paths -> {Free, Poisoned, Handler} \cup Writers
                                 \cup Workers]
<1>1. wr[w] \in Requests
  BY Zenon DEF TypeOK
<1>2. [wr[w] EXCEPT !.pc = "open", !.file = f] \in Requests
  BY <1>1, Zenon DEF Requests
<1>3. wr' \in [Writers -> Requests]
  BY <1>2, ConstantTypes, Zenon DEF TypeOK, Opened
<1> QED
  BY Zenon, <1>3 DEF TypeOK, Opened


\* Counting an event keeps the type of the counters.
LEMMA TypeTick ==
  ASSUME TypeOK, NEW e \in {"version", "fail", "name", "crash", "purge"}, Tick(e)
  PROVE  count' \in [Events -> Nat]
<1>1. count \in [Events -> Nat]
  BY Zenon DEF TypeOK
<1> QED
  BY <1>1 DEF Tick, Events

\* The requests of clients keep the type.
LEMMA TypeClient == TypeOK /\ Client => TypeOK'
<1> SUFFICES ASSUME TypeOK, Client PROVE TypeOK'
  BY Zenon
<1> USE ConstantTypes
<1> PICK w \in Writers :
      \/ \E p \in Paths, kind \in Opens : openFile(w, p, kind)
      \/ OpenShared(w) \/ ReopenReady(w) \/ OpenWait(w) \/ OpenRefused(w)
      \/ OpenFresh(w) \/ WriteAt(w) \/ ReleaseHandle(w)
      \/ \E p \in Paths : writeBound(w, p)
  BY Zenon DEF Client
<1>1. wr[w] \in Requests /\ wr[w].path \in Paths
      /\ wr[w].file \in Ids \cup {None} /\ index[wr[w].path] \in Ids \cup {None}
  <2>1. wr \in [Writers -> Requests] /\ index \in [Paths -> Ids \cup {None}]
    BY Zenon DEF TypeOK
  <2>2. wr[w] \in Requests
    BY <2>1, Zenon
  <2>3. wr[w].path \in Paths /\ wr[w].file \in Ids \cup {None}
    BY <2>2, Zenon DEF Requests
  <2> QED
    BY <2>1, <2>2, <2>3, Zenon
<1>2. CASE \E p \in Paths, kind \in Opens : openFile(w, p, kind)
  <2> PICK p \in Paths, kind \in Opens : openFile(w, p, kind)
    BY <1>2, Zenon
  <2> DEFINE q == [pc |-> "opening", kind |-> kind, path |-> p, file |-> None,
                   sawClosed |-> FALSE]
  <2>1. /\ wr' = [wr EXCEPT ![w] = q] /\ lease' = [lease EXCEPT ![p] = w]
        /\ UNCHANGED <<table, disk, data, mirror, mode, ram, fin, wpc, work,
                       ns, retrying, history>>
    BY Zenon DEF openFile
  <2>2. q \in Requests
    BY SpoolAssumption, Zenon DEF Requests
  <2> HIDE DEF q
  <2>3. /\ wr \in [Writers -> Requests]
        /\ lease \in [Paths -> {Free, Poisoned, Handler} \cup Writers
                               \cup Workers]
    BY Zenon DEF TypeOK
  <2>4. /\ wr' \in [Writers -> Requests]
        /\ lease' \in [Paths -> {Free, Poisoned, Handler} \cup Writers
                                \cup Workers]
    BY <2>1, <2>2, <2>3, Zenon
  <2> QED
    BY <2>1, <2>4, Zenon DEF TypeOK, table, columns, origin, ram, work, history
<1>3. CASE OpenShared(w)
  <2>1. Opened(w, index[wr[w].path])
    BY <1>3, Zenon DEF OpenShared
  <2> QED
    BY <1>1, <1>3, <2>1, TypeOpened, Zenon
    DEF OpenShared, TypeOK, table, columns, origin, ram, work, procs, history
<1>4. CASE ReopenReady(w)
  <2>1. Opened(w, index[wr[w].path])
    BY <1>4, Zenon DEF ReopenReady
  <2> QED
    BY Zenon, <1>1, <1>4, <2>1, TypeOpened
    DEF ReopenReady, TypeOK, States, table, columns, origin, ram, work, procs,
        history
<1>5. CASE OpenWait(w)
  <2>1. [wr[w] EXCEPT !.sawClosed = TRUE] \in Requests
    BY <1>1, Zenon DEF Requests
  <2>2. wr' \in [Writers -> Requests]
    BY <1>5, <2>1, Zenon DEF OpenWait, TypeOK
  <2> QED
    BY <1>5, <2>2, Zenon
    DEF OpenWait, TypeOK, table, columns, origin, ram, work, procs, history
<1>6. CASE OpenRefused(w)
  <2>1. Opened(w, None)
    BY <1>6, Zenon DEF OpenRefused
  <2> QED
    BY <1>6, <2>1, TypeOpened, Zenon
    DEF OpenRefused, TypeOK, table, columns, origin, ram, work, procs, history
<1>7. CASE OpenFresh(w)
  <2>1. nextId \in Ids /\ Opened(w, nextId)
    BY Zenon, <1>7 DEF OpenFresh
  <2>2. wr' \in [Writers -> Requests]
        /\ lease' \in [Paths -> {Free, Poisoned, Handler} \cup Writers
                                \cup Workers]
    BY <2>1, TypeOpened, Zenon
  <2>3. nextId' \in 1..(MaxRows + 1)
    <3>1. nextId' = nextId + 1
      BY Zenon, <1>7 DEF OpenFresh
    <3> QED
      BY <2>1, <3>1, SpoolAssumption DEF Ids
  <2>4. probeBase(wr[w].path) \in Bases
    BY Zenon DEF probeBase, Bases
  <2>5. base' \in [Ids -> Bases] /\ same' \in [Ids -> BOOLEAN]
    BY <1>7, <2>1, <2>4, Zenon DEF OpenFresh, TypeOK
  <2>6. /\ st' \in [Ids -> States] /\ path' \in [Ids -> Paths]
        /\ file' \in [Ids -> Ids] /\ disk' \in [Ids -> Contents]
        /\ entId' \in [Ids -> Ids \cup {None}]
        /\ entClosed' \in [Ids -> BOOLEAN]
        /\ index' \in [Paths -> Ids \cup {None}]
    BY Zenon, <1>1, <1>7, <2>1 DEF OpenFresh, TypeOK, States, Contents
  <2>7. /\ mirror' \in [Paths -> Entries] /\ limbo' \subseteq Paths
        /\ saved' \in [Paths -> Versions \cup {Removed, Moved}]
    <3>1. /\ mirror \in [Paths -> Entries] /\ limbo \subseteq Paths
          /\ saved \in [Paths -> Versions \cup {Removed, Moved}]
      BY Zenon DEF TypeOK
    <3>2. \/ /\ mirror' = [mirror EXCEPT ![wr[w].path] = "local"]
             /\ saved' = [saved EXCEPT ![wr[w].path] = 0]
             /\ limbo' = limbo \ {wr[w].path}
          \/ UNCHANGED <<mirror, saved, limbo>>
      BY Zenon, <1>7 DEF OpenFresh
    <3>3. "local" \in Entries /\ 0 \in Versions
      BY Zenon DEF Entries
    <3>4. mirror' \in [Paths -> Entries]
      BY <1>1, <3>1, <3>2, <3>3, Zenon
    <3>6. limbo' \subseteq Paths
      BY <3>1, <3>2, Zenon
    <3>5. saved' \in [Paths -> Versions \cup {Removed, Moved}]
      BY <1>1, <3>1, <3>2, <3>3
    <3> QED
      BY <3>4, <3>5, <3>6, Zenon
  <2>8. UNCHANGED <<ver, held, retired, tries, holds, data, mode, used, fault,
                    fin, wpc, work, ns, retrying, count>>
    BY Zenon, <1>7 DEF OpenFresh
  <2> QED
    BY <2>2, <2>3, <2>5, <2>6, <2>7, <2>8, Zenon DEF TypeOK, work
<1>8. CASE WriteAt(w)
  <2> DEFINE v == count["version"] + 1
  <2>1. v \in Versions
    BY Zenon, <1>8 DEF WriteAt
  <2>2. disk' \in [Ids -> Contents]
    BY Zenon, <1>8, <2>1 DEF WriteAt, TypeOK, Contents
  <2>3. saved' \in [Paths -> Versions \cup {Removed, Moved}]
    BY <1>8, <2>1, Zenon DEF WriteAt, TypeOK
  <2>4. used' \in Int
    <3>1. used \in Int /\ used' = used + (1 - Charge(wr[w].file))
      BY <1>8, Zenon DEF WriteAt, TypeOK
    <3> QED
      BY <3>1, ChargeUnit
  <2>5. count' \in [Events -> Nat]
    <3>1. Tick("version")
      BY <1>8, Zenon DEF WriteAt
    <3> QED
      BY <3>1, TypeTick, Zenon
  <2> QED
    BY <1>8, <2>2, <2>3, <2>4, <2>5, Zenon
    DEF WriteAt, TypeOK, table, columns, origin, procs, work
<1>9. CASE ReleaseHandle(w)
  BY <1>9, Zenon
  DEF ReleaseHandle, TypeOK, table, columns, origin, ram, work, procs, history
<1>10. CASE \E p \in Paths : writeBound(w, p)
  <2> PICK p \in Paths : writeBound(w, p)
    BY <1>10, Zenon
  <2> DEFINE v == count["version"] + 1
  <2>1. /\ v \in Versions /\ data' = [data EXCEPT ![p] = v]
        /\ same' = Rewritten(p, None) /\ saved' = [saved EXCEPT ![p] = v]
        /\ limbo' = limbo \ {p} /\ Tick("version")
        /\ UNCHANGED <<st, path, file, ver, held, retired, tries, nextId, base,
                       holds, disk, mirror, mode, ram, lease, procs>>
    BY Zenon DEF writeBound
  <2> HIDE DEF v
  <2>2. /\ data \in [Paths -> Versions \cup {NoFile, Torn}]
        /\ saved \in [Paths -> Versions \cup {Removed, Moved}]
        /\ limbo \subseteq Paths /\ same \in [Ids -> BOOLEAN]
    BY Zenon DEF TypeOK
  <2>3. /\ data' \in [Paths -> Versions \cup {NoFile, Torn}]
        /\ saved' \in [Paths -> Versions \cup {Removed, Moved}]
        /\ limbo' \subseteq Paths
    BY <2>1, <2>2, Zenon
  <2>4. same' \in [Ids -> BOOLEAN]
    BY <2>1, <2>2, Zenon DEF Rewritten
  <2>5. count' \in [Events -> Nat]
    BY <2>1, TypeTick, Zenon
  <2> QED
    BY <2>1, <2>3, <2>4, <2>5, Zenon DEF TypeOK, ram, procs, work
<1> QED
  BY <1>2, <1>3, <1>4, <1>5, <1>6, <1>7, <1>8, <1>9, <1>10, Zenon

\* Finalization keeps the type.
LEMMA TypeSweeper == TypeOK /\ Sweeper => TypeOK'
<1> SUFFICES ASSUME TypeOK, Sweeper PROVE TypeOK'
  BY Zenon
<1>1. CASE \E f \in Ids : finalizeLocked(f)
  <2> PICK f \in Ids : finalizeLocked(f)
    BY <1>1, Zenon
  <2>1. /\ entClosed' = [entClosed EXCEPT ![f] = TRUE]
        /\ fin' = fin \cup {[id |-> entId[f], ver |-> disk[f]]}
        /\ UNCHANGED <<table, disk, data, mirror, mode, index, entId, used,
                       fault, lease, wr, wpc, work, ns, retrying, history>>
    BY Zenon DEF finalizeLocked
  <2>2. /\ entClosed \in [Ids -> BOOLEAN] /\ disk \in [Ids -> Contents]
        /\ entId \in [Ids -> Ids \cup {None}]
        /\ fin \subseteq [id : Ids \cup {None}, ver : Contents]
    BY Zenon DEF TypeOK
  <2>3. entClosed' \in [Ids -> BOOLEAN]
    BY <2>1, <2>2, Zenon
  <2>4. fin' \subseteq [id : Ids \cup {None}, ver : Contents]
    BY <2>1, <2>2
  <2> QED
    BY <2>1, <2>3, <2>4, Zenon
    DEF TypeOK, table, columns, origin, work, history
<1>2. CASE \E x \in fin : MarkReady(x)
  <2> PICK x \in fin : MarkReady(x)
    BY <1>2, Zenon
  <2>1. /\ fin' = fin \ {x}
        /\ UNCHANGED <<path, file, held, retired, tries, nextId, origin, holds,
                       disk, data, mirror, mode, ram, lease, wr, wpc, work, ns,
                       retrying, history>>
    BY Zenon DEF MarkReady
  <2>2. \/ /\ st' = [st EXCEPT ![x.id] = "ready"]
           /\ ver' = [ver EXCEPT ![x.id] = x.ver]
        \/ UNCHANGED <<st, ver>>
    BY Zenon DEF MarkReady
  <2>3. /\ st \in [Ids -> States] /\ ver \in [Ids -> Contents]
        /\ fin \subseteq [id : Ids \cup {None}, ver : Contents]
    BY Zenon DEF TypeOK
  <2>4. x.ver \in Contents /\ "ready" \in States
    BY <2>3, Zenon DEF States
  <2>5. st' \in [Ids -> States] /\ ver' \in [Ids -> Contents]
    BY <2>2, <2>3, <2>4, Zenon
  <2>6. fin' \subseteq [id : Ids \cup {None}, ver : Contents]
    BY <2>1, <2>3, Zenon
  <2> QED
    BY <2>1, <2>5, <2>6, Zenon DEF TypeOK, origin, ram, work, history
<1> QED
  BY <1>1, <1>2, Zenon DEF Sweeper

\* A worker that leaves its row keeps the type of the workers' variables.
LEMMA TypeLeave ==
  ASSUME TypeOK, NEW d \in Workers, Leave(d)
  PROVE  /\ wpc' \in [Workers -> WorkerPcs] /\ job' \in [Workers -> Jobs]
         /\ target' \in [Workers -> Targets]
         /\ at' \in [Workers -> SUBSET Paths] /\ buf' \in [Workers -> Versions]
BY ConstantTypes, Zenon DEF TypeOK, Leave, At, WorkerPcs, Targets

\* A failed drain keeps the type of what it changes.
LEMMA TypeFailClaimedDrain ==
  ASSUME TypeOK, NEW d \in Workers, NEW i \in BOOLEAN, FailClaimedDrain(d, i)
  PROVE  /\ st' \in [Ids -> States] /\ held' \in [Ids -> BOOLEAN]
         /\ used' \in Int /\ fault' \in [Paths -> Ids \cup {None}]
         /\ index' \in [Paths -> Ids \cup {None}]
<1>1. job[d] \in Jobs /\ job[d].id \in Ids /\ job[d].path \in Paths
  BY Zenon DEF TypeOK, Jobs
<1>2. blockRead(job[d].path, job[d].id) \in [Paths -> Ids \cup {None}]
  BY <1>1, Zenon DEF TypeOK, blockRead
<1>3. CASE drainStillClaimed(d) /\ job[d].id \notin holds
  <2>1. st' \in [Ids -> States] /\ held' \in [Ids -> BOOLEAN]
    <3>1. /\ st' = [st EXCEPT ![job[d].id] = "failed"]
          /\ held' = [held EXCEPT ![job[d].id] = i]
      BY <1>3, Zenon DEF FailClaimedDrain
    <3>2. st \in [Ids -> States] /\ held \in [Ids -> BOOLEAN]
      BY Zenon DEF TypeOK
    <3> QED
      BY <1>1, <3>1, <3>2, Zenon DEF States
  <2>2. used' \in Int
    <3>1. used' = used - Charge(job[d].file)
      BY <1>3, Zenon DEF FailClaimedDrain
    <3>2. used \in Int
      BY Zenon DEF TypeOK
    <3> QED
      BY <3>1, <3>2, ChargeUnit
  <2>3. fault' \in [Paths -> Ids \cup {None}]
    BY <1>2, <1>3, Zenon DEF FailClaimedDrain
  <2>4. index' \in [Paths -> Ids \cup {None}]
    BY <1>3, Zenon DEF FailClaimedDrain, TypeOK
  <2> QED
    BY <2>1, <2>2, <2>3, <2>4, Zenon
<1>4. CASE ~(drainStillClaimed(d) /\ job[d].id \notin holds)
  BY <1>4, Zenon DEF FailClaimedDrain, TypeOK
<1> QED
  BY <1>3, <1>4, Zenon

\* The steps of a drain worker keep the type.
LEMMA TypeWorker ==
  ASSUME TypeOK, NEW d \in Workers, Worker(d) PROVE TypeOK'
<1> USE ConstantTypes
<1>a. job[d] \in Jobs /\ job[d].id \in Ids /\ job[d].path \in Paths
      /\ job[d].file \in Ids
  BY Zenon DEF TypeOK, Jobs
<1>1. CASE \E r \in Ids : markDraining(d, r)
  <2> PICK r \in Ids : markDraining(d, r)
    BY <1>1, Zenon
  <2>1. job' \in [Workers -> Jobs]
    BY Zenon DEF markDraining, TypeOK, Jobs, Contents
  <2> QED
    BY <2>1, Zenon
    DEF markDraining, At, TypeOK, States, WorkerPcs, table, columns, origin,
        ram, work, procs, history
<1>2. CASE Reread(d)
  <2>1. CASE Exists(job[d].id)
    <3>1. job' \in [Workers -> Jobs]
      <4> DEFINE r == job[d].id
      <4>1. path[r] \in Paths /\ file[r] \in Ids /\ ver[r] \in Contents
        BY <1>a, Zenon DEF TypeOK
      <4>2. [id |-> r, path |-> path[r], file |-> file[r], ver |-> ver[r]]
              \in Jobs
        BY <1>a, <4>1, Zenon DEF Jobs
      <4> QED
        BY <1>2, <2>1, <4>2, Zenon DEF Reread, TypeOK
    <3> QED
      BY <1>2, <2>1, <3>1, Zenon
      DEF Reread, At, TypeOK, WorkerPcs, table, columns, origin, ram, work,
          procs, history
  <2>2. CASE ~Exists(job[d].id)
    <3>1. Leave(d)
      BY <1>2, <2>2, Zenon DEF Reread
    <3> QED
      BY <1>2, <3>1, TypeLeave, Zenon
      DEF Reread, TypeOK, table, columns, origin, ram, work, procs, history
  <2> QED
    BY <2>1, <2>2, Zenon
<1>3. CASE ResetToReady(d)
  <2>1. Leave(d) /\ st' \in [Ids -> States]
    BY <1>3, <1>a, Zenon DEF ResetToReady, TypeOK, States
  <2> QED
    BY <1>3, <2>1, TypeLeave, Zenon
    DEF ResetToReady, TypeOK, table, columns, origin, ram, work, procs,
        history
<1>4. CASE failTransient(d)
  <2>1. Leave(d) /\ st' \in [Ids -> States] /\ tries' \in [Ids -> Nat]
        /\ count' \in [Events -> Nat]
    <3>1. /\ Leave(d) /\ Tick("fail")
          /\ \/ /\ st' = [st EXCEPT ![job[d].id] = "ready"]
                /\ tries' = [tries EXCEPT ![job[d].id] = @ + 1]
             \/ UNCHANGED <<st, tries>>
      BY <1>4, Zenon DEF failTransient
    <3>2. st \in [Ids -> States] /\ tries \in [Ids -> Nat]
      BY Zenon DEF TypeOK
    <3>3. st' \in [Ids -> States]
      BY <3>1, <3>2, Zenon DEF States
    <3>4. tries' \in [Ids -> Nat]
      BY <3>1, <3>2
    <3> QED
      BY <3>1, <3>3, <3>4, TypeTick, Zenon
  <2> QED
    BY <1>4, <2>1, TypeLeave, Zenon
    DEF failTransient, TypeOK, table, columns, origin, ram, work, procs,
        history
<1>5. CASE failPermanent(d)
  <2>1. Leave(d) /\ FailClaimedDrain(d, FALSE)
    BY Zenon, <1>5 DEF failPermanent
  <2> QED
    BY Zenon, <1>5, <2>1, TypeLeave, TypeFailClaimedDrain
    DEF failPermanent, TypeOK, table, columns, origin, ram, work, procs,
        history
<1>6. CASE openDrainTarget(d)
  <2>1. drainTarget(job[d].id, job[d].path) \in Targets
    BY Zenon DEF drainTarget, Targets
  <2>2. CASE drainStillClaimed(d)
    <3> DEFINE r == job[d].id
               p == job[d].path
               t == drainTarget(r, p)
    <3>a. /\ wpc' = [wpc EXCEPT ![d] = "opened"]
          /\ target' = [target EXCEPT ![d] = t]
          /\ at' = [at EXCEPT ![d] = IF t = "inplace" THEN {p} ELSE {}]
          /\ \/ /\ data' = [data EXCEPT ![p] = Torn]
                /\ base' = [base EXCEPT ![r] = "claimed"]
                /\ same' = Rewritten(p, r)
             \/ UNCHANGED <<data, base, same>>
      BY Zenon, <1>6, <2>2 DEF openDrainTarget, At, origin
    <3>1. wpc' \in [Workers -> WorkerPcs] /\ target' \in [Workers -> Targets]
          /\ at' \in [Workers -> SUBSET Paths]
      BY Zenon, <1>a, <2>1, <3>a DEF TypeOK, WorkerPcs
    <3>b. Rewritten(p, r) \in [Ids -> BOOLEAN]
      BY Zenon DEF Rewritten
    <3>2. data' \in [Paths -> Versions \cup {NoFile, Torn}]
          /\ base' \in [Ids -> Bases] /\ same' \in [Ids -> BOOLEAN]
      BY Zenon, <1>a, <3>a, <3>b DEF TypeOK, Bases
    <3> QED
      BY Zenon, <1>6, <2>2, <3>1, <3>2 DEF openDrainTarget, TypeOK, ram, history
  <2>3. CASE ~drainStillClaimed(d)
    <3>1. Leave(d)
      BY Zenon, <1>6, <2>3 DEF openDrainTarget
    <3> QED
      BY Zenon, <1>6, <2>3, <3>1, TypeLeave
      DEF openDrainTarget, TypeOK, ram, history, origin
  <2> QED
    BY <2>2, <2>3, Zenon
<1>7. CASE Copy(d)
  <2>1. Source(d) \in Versions
    BY <1>a, Zenon DEF Source, TypeOK, Contents
  <2>2. data' \in [Paths -> Versions \cup {NoFile, Torn}]
        /\ same' \in [Ids -> BOOLEAN]
    BY <1>7, <2>1, Zenon DEF Copy, TypeOK
  <2>3. CASE Source(d) = job[d].ver
    <3>1. afterCopy(d) \in WorkerPcs
      BY Zenon DEF afterCopy, WorkerPcs
    <3>2. buf' \in [Workers -> Versions] /\ wpc' \in [Workers -> WorkerPcs]
      BY Zenon, <1>7, <2>1, <2>3, <3>1 DEF Copy, At, TypeOK
    <3> QED
      BY <1>7, <2>2, <2>3, <3>2, Zenon DEF Copy, TypeOK, history
  <2>4. CASE Source(d) # job[d].ver
    <3>1. Leave(d) /\ FailClaimedDrain(d, TRUE)
      BY Zenon, <1>7, <2>4 DEF Copy
    <3> QED
      BY Zenon, <1>7, <2>2, <3>1, TypeLeave, TypeFailClaimedDrain
      DEF Copy, TypeOK, history
  <2> QED
    BY <2>3, <2>4, Zenon
<1>8. CASE installNewName(d)
  <2>1. CASE drainStillClaimed(d)
    <3>a. /\ data' = [data EXCEPT ![job[d].path] = buf[d]]
          /\ base' = [base EXCEPT ![job[d].id] = "claimed"]
          /\ same' = Replaced(job[d].path, job[d].id)
          /\ at' = Unlinked(job[d].path)
          /\ wpc' = [wpc EXCEPT ![d] = "installed"]
      BY <1>8, <2>1, Zenon DEF installNewName, At
    <3>1. data' \in [Paths -> Versions \cup {NoFile, Torn}]
          /\ base' \in [Ids -> Bases] /\ same' \in [Ids -> BOOLEAN]
      BY Zenon, <3>a DEF Replaced, TypeOK, Bases
    <3>2. wpc' \in [Workers -> WorkerPcs]
          /\ at' \in [Workers -> SUBSET Paths]
      BY <3>a, Zenon DEF Unlinked, TypeOK, WorkerPcs
    <3> QED
      BY <1>8, <2>1, <3>1, <3>2, Zenon DEF installNewName, TypeOK, ram, history
  <2>2. CASE ~drainStillClaimed(d)
    <3>1. Leave(d)
      BY Zenon, <1>8, <2>2 DEF installNewName
    <3> QED
      BY <1>8, <2>2, <3>1, TypeLeave, Zenon
      DEF installNewName, TypeOK, ram, history, origin
  <2> QED
    BY <2>1, <2>2, Zenon
<1>9. CASE publishConflictCopy(d)
  <2>1. Leave(d) /\ FailClaimedDrain(d, TRUE)
    BY Zenon, <1>9 DEF publishConflictCopy
  <2> QED
    BY Zenon, <1>9, <2>1, TypeLeave, TypeFailClaimedDrain
    DEF publishConflictCopy, TypeOK, table, columns, origin, ram, work, procs,
        history
<1>10. CASE RequeueUnadmittedDrain(d)
  <2>1. Leave(d) /\ st' \in [Ids -> States]
    BY <1>10, <1>a, Zenon DEF RequeueUnadmittedDrain, TypeOK, States
  <2> QED
    BY Zenon, <1>10, <2>1, TypeLeave
    DEF RequeueUnadmittedDrain, TypeOK, table, columns, origin, ram, work,
        procs, history
<1>11. CASE prepareDrainCompletions(d)
  <2>1. CASE drainStillClaimed(d) /\ job[d].id \notin holds
    <3>1. /\ holds' = holds \cup {job[d].id}
          /\ lease' = [lease EXCEPT ![job[d].path] = d]
          /\ wpc' = [wpc EXCEPT ![d] = "held"]
          /\ UNCHANGED <<st, columns, disk, data, mirror, mode, ram, fin, wr,
                         ns, retrying, history, work>>
      BY <1>11, <2>1, Zenon DEF prepareDrainCompletions, Goto, At
    <3>2. /\ holds \subseteq Ids /\ wpc \in [Workers -> WorkerPcs]
          /\ lease \in [Paths -> {Free, Poisoned, Handler} \cup Writers
                                 \cup Workers]
      BY Zenon DEF TypeOK
    <3>3. holds' \subseteq Ids /\ wpc' \in [Workers -> WorkerPcs]
      BY <1>a, <3>1, <3>2, Zenon DEF WorkerPcs
    <3>4. lease' \in [Paths -> {Free, Poisoned, Handler} \cup Writers
                              \cup Workers]
      BY <1>a, <3>1, <3>2, Zenon
    <3> QED
      BY <3>1, <3>3, <3>4, Zenon
      DEF TypeOK, columns, origin, ram, work, history
  <2>2. CASE ~(drainStillClaimed(d) /\ job[d].id \notin holds)
    <3>1. Leave(d)
      BY Zenon, <1>11, <2>2 DEF prepareDrainCompletions
    <3> QED
      BY <1>11, <2>2, <3>1, TypeLeave, Zenon
      DEF prepareDrainCompletions, TypeOK, table, columns, origin, ram, work,
          procs, history
  <2> QED
    BY <2>1, <2>2, Zenon
<1>12. CASE batchMarkDone(d)
  BY <1>12, <1>a, Zenon
  DEF batchMarkDone, Goto, At, TypeOK, States, WorkerPcs, table, columns,
      origin, ram, work, procs, history
<1>13. CASE holdCompletion(d)
  <2>1. Leave(d) /\ count' \in [Events -> Nat]
    <3>1. Leave(d) /\ Tick("fail")
      BY <1>13, Zenon DEF holdCompletion
    <3> QED
      BY <3>1, TypeTick, Zenon
  <2> QED
    BY Zenon, <1>13, <2>1, TypeLeave
    DEF holdCompletion, TypeOK, Free, table, columns, origin, ram, work, procs,
        history
<1>14. CASE CompleteAcknowledgedDrain(d)
  <2>1. buf' \in [Workers -> Versions]
    <3>1. KeepOpen({job[d].file}) \in [Workers -> Versions]
      BY Zenon DEF KeepOpen, TypeOK, Jobs, Contents
    <3> QED
      BY Zenon, <1>14, <3>1 DEF CompleteAcknowledgedDrain
  <2>2. /\ wpc' \in [Workers -> WorkerPcs] /\ job' \in [Workers -> Jobs]
        /\ target' \in [Workers -> Targets]
        /\ at' \in [Workers -> SUBSET Paths]
    BY Zenon, <1>14
    DEF CompleteAcknowledgedDrain, At, TypeOK, WorkerPcs, Targets
  <2>3. /\ index' \in [Paths -> Ids \cup {None}] /\ disk' \in [Ids -> Contents]
        /\ used' \in Int /\ holds' \subseteq Ids
        /\ lease' \in [Paths -> {Free, Poisoned, Handler} \cup Writers
                                \cup Workers]
    <3>1. index' \in [Paths -> Ids \cup {None}]
      BY Zenon, <1>14 DEF CompleteAcknowledgedDrain, TypeOK
    <3>2. disk' \in [Ids -> Contents] /\ holds' \subseteq Ids
      BY Zenon, <1>14 DEF CompleteAcknowledgedDrain, TypeOK, Contents
    <3>3. used' \in Int
      <4>1. used' = used - Charge(job[d].file)
        BY Zenon, <1>14 DEF CompleteAcknowledgedDrain
      <4>2. used \in Int /\ Charge(job[d].file) \in Int
        BY DEF TypeOK, Charge
      <4> QED
        BY <4>1, <4>2
    <3>4. lease' \in [Paths -> {Free, Poisoned, Handler} \cup Writers
                               \cup Workers]
      BY Zenon, <1>14 DEF CompleteAcknowledgedDrain, TypeOK
    <3> QED
      BY <3>1, <3>2, <3>3, <3>4, Zenon
  <2> QED
    BY Zenon, <1>14, <2>1, <2>2, <2>3
    DEF CompleteAcknowledgedDrain, TypeOK, columns, origin, history
<1>15. CASE PoisonCompletion(d)
  <2>1. Leave(d) /\ count' \in [Events -> Nat]
    <3>1. Leave(d) /\ Tick("fail")
      BY <1>15, Zenon DEF PoisonCompletion
    <3> QED
      BY <3>1, TypeTick, Zenon
  <2> QED
    BY Zenon, <1>15, <2>1, TypeLeave
    DEF PoisonCompletion, TypeOK, table, columns, origin, ram, work, procs,
        history
<1> QED
  BY <1>1, <1>2, <1>3, <1>4, <1>5, <1>6, <1>7, <1>8, <1>9, <1>10, <1>11,
     <1>12, <1>13, <1>14, <1>15, Zenon DEF Worker

\* Retries, garbage collection and reconciliation keep the type.
LEMMA TypeMaintenance == TypeOK /\ Maintenance => TypeOK'
<1> SUFFICES ASSUME TypeOK, Maintenance PROVE TypeOK'
  BY Zenon
<1>1. ASSUME NEW r \in Ids, retryFailed(r) PROVE TypeOK'
  <2>1. /\ used' = used + Charge(file[r]) /\ retrying' = r
        /\ UNCHANGED <<table, disk, data, mirror, mode, index, entId, entClosed,
                       fault, lease, fin, wr, wpc, work, ns, history>>
    BY <1>1, Zenon DEF retryFailed
  <2>2. used \in Int
    BY Zenon DEF TypeOK
  <2>3. used' \in Int /\ retrying' \in Ids \cup {None}
    BY <2>1, <2>2, ChargeUnit
  <2> QED
    BY <2>1, <2>3, Zenon DEF TypeOK, table, columns, origin, work, history
<1>2. ASSUME NEW r \in Ids, ResetForRetry(r) PROVE TypeOK'
  <2>1. st' \in [Ids -> States] /\ tries' \in [Ids -> Nat] /\ used' \in Int
    <3>1. Charge(file[r]) \in Int
      BY ChargeUnit
    <3>2. \/ /\ st' = [st EXCEPT ![r] = "ready"] /\ used' = used
             /\ tries' = [tries EXCEPT ![r] = 0]
          \/ used' = used - Charge(file[r]) /\ UNCHANGED <<st, tries>>
      BY <1>2, Zenon DEF ResetForRetry
    <3> QED
      <4>1. /\ st \in [Ids -> States] /\ tries \in [Ids -> Nat]
            /\ used \in Int
        BY Zenon DEF TypeOK
      <4> QED
        BY <3>1, <3>2, <4>1 DEF States
  <2> QED
    BY <1>2, <2>1, Zenon
    DEF ResetForRetry, TypeOK, table, columns, origin, ram, work, procs,
        history
<1>3. ASSUME NEW r \in Ids, DeleteDone(r) PROVE TypeOK'
  <2>1. /\ st' = [st EXCEPT ![r] = "none"] /\ Tick("purge")
        /\ UNCHANGED <<columns, holds, disk, data, mirror, mode, ram, lease,
                       procs, saved, limbo>>
    BY <1>3, Zenon DEF DeleteDone
  <2>2. st \in [Ids -> States]
    BY Zenon DEF TypeOK
  <2>3. st' \in [Ids -> States]
    BY <2>1, <2>2, Zenon DEF States
  <2>4. count' \in [Events -> Nat]
    BY <2>1, TypeTick, Zenon
  <2> QED
    BY <2>1, <2>3, <2>4, Zenon DEF TypeOK, columns, origin, ram, procs, work
<1>4. ASSUME NEW p \in Paths, Reconcile(p) PROVE TypeOK'
  BY <1>4, Zenon
  DEF Reconcile, TypeOK, Entries, table, columns, origin, ram, work, procs,
      history
<1> QED
  BY <1>1, <1>2, <1>3, <1>4, Zenon DEF Maintenance

\* The end of a rename or a removal keeps the type of leases and ns.
LEMMA TypeEndName ==
  ASSUME TypeOK, NEW to \in {Free, Poisoned}, EndName(to)
  PROVE  /\ ns' \in NameOps
         /\ lease' \in [Paths -> {Free, Poisoned, Handler} \cup Writers
                                 \cup Workers]
BY Zenon, ConstantTypes DEF EndName, TypeOK

\* Moving what a name holds keeps the type of the history.
LEMMA TypeMoveSaved ==
  ASSUME TypeOK, NEW a \in Paths, NEW b \in Paths, MoveSaved(a, b)
  PROVE  /\ saved' \in [Paths -> Versions \cup {Removed, Moved}]
         /\ limbo' \subseteq Paths
BY Zenon DEF MoveSaved, TypeOK

\* Rows keep matching or not matching their base.
LEMMA TypeSameUnmoved == TypeOK => SameUnmoved \in [Ids -> BOOLEAN]
BY Zenon DEF TypeOK, SameUnmoved, Replaced

\* Migrating a row keeps the type of what it changes.
LEMMA TypeMigrateRow ==
  ASSUME TypeOK, NEW r \in ActiveAt(ns.old), MigrateRow(r)
  PROVE  /\ st' \in [Ids -> States] /\ path' \in [Ids -> Paths]
         /\ file' \in [Ids -> Ids] /\ ver' \in [Ids -> Contents]
         /\ held' \in [Ids -> BOOLEAN] /\ retired' \in [Ids -> BOOLEAN]
         /\ tries' \in [Ids -> Nat] /\ nextId' \in 1..(MaxRows + 1)
         /\ base' \in [Ids -> Bases] /\ same' \in [Ids -> BOOLEAN]
         /\ holds' \subseteq Ids
         /\ index' \in [Paths -> Ids \cup {None}]
         /\ entId' \in [Ids -> Ids \cup {None}]
         /\ fault' \in [Paths -> Ids \cup {None}]
         /\ ns' \in NameOps /\ limbo' \subseteq Paths
         /\ saved' \in [Paths -> Versions \cup {Removed, Moved}]
<1> DEFINE n == IF st[r] = "draining" THEN nextId ELSE r
<1>a. r \in Ids /\ n \in Ids
  BY Zenon DEF ActiveAt, MigrateRow
<1>b. ns \in NameOps /\ ns.old \in Paths /\ ns.new \in Paths
  BY Zenon DEF TypeOK, NameOps
<1>1. st' \in [Ids -> States]
  BY <1>a, Zenon DEF MigrateRow, TypeOK, States
<1>2. nextId' \in 1..(MaxRows + 1)
  <2>1. nextId' = nextId \/ (n = nextId /\ nextId' = nextId + 1)
    BY Zenon DEF MigrateRow
  <2>2. nextId \in 1..(MaxRows + 1)
    BY Zenon DEF TypeOK
  <2> HIDE DEF n
  <2> QED
    BY <1>a, <2>1, <2>2, SpoolAssumption DEF Ids
<1>3. path' \in [Ids -> Paths] /\ file' \in [Ids -> Ids]
      /\ ver' \in [Ids -> Contents] /\ tries' \in [Ids -> Nat]
      /\ held' \in [Ids -> BOOLEAN]
  BY <1>a, <1>b, Zenon DEF MigrateRow, TypeOK
<1>4. base' \in [Ids -> Bases]
  <2>1. renamedSpoolBase(r, ns.new) \in Bases
    BY <1>a, Zenon DEF renamedSpoolBase, TypeOK, Bases
  <2> QED
    BY <2>1, Zenon DEF MigrateRow, TypeOK
<1>5. same' \in [Ids -> BOOLEAN]
  <2>1. (IF base[r] = "absent" THEN data[ns.old] = NoFile
         ELSE ~skipFUSERename /\ same[r]) \in BOOLEAN
    BY Zenon, <1>a DEF TypeOK
  <2> QED
    BY <2>1, Zenon DEF MigrateRow, TypeOK
<1>6. retired' \in [Ids -> BOOLEAN]
  BY Zenon DEF MigrateRow
<1>7. index' \in [Paths -> Ids \cup {None}]
  <2>1. \/ index' = index
        \/ index' = [index EXCEPT ![ns.old] = None, ![ns.new] = index[ns.old]]
    BY Zenon DEF MigrateRow
  <2>2. index[ns.old] \in Ids \cup {None}
    BY <1>b, Zenon DEF TypeOK
  <2> QED
    BY <1>b, <2>1, <2>2, Zenon DEF TypeOK
<1>8. entId' \in [Ids -> Ids \cup {None}]
  BY Zenon, <1>a DEF MigrateRow, TypeOK
<1>9. fault' \in [Paths -> Ids \cup {None}]
  BY <1>b DEF MigrateRow, TypeOK
<1>10. ns' \in NameOps
  <2>1. (IF skipFUSERename THEN "skip" ELSE "spooled")
          \in {"backend", "spooled", "skip"}
    BY Zenon
  <2>2. [ns EXCEPT !.pc = "migrated",
           !.how = IF skipFUSERename THEN "skip" ELSE "spooled"] \in NameOps
    BY <1>b, <2>1, Zenon DEF NameOps
  <2> QED
    BY <2>2, Zenon DEF MigrateRow
<1>11. /\ holds' \subseteq Ids /\ limbo' \subseteq Paths
       /\ saved' \in [Paths -> Versions \cup {Removed, Moved}]
  BY <1>b, TypeMoveSaved, Zenon DEF MigrateRow, TypeOK
<1> QED
  BY <1>1, <1>2, <1>3, <1>4, <1>5, <1>6, <1>7, <1>8, <1>9, <1>10, <1>11, Zenon

\* Renames and removals keep the type.
LEMMA TypeNameOp == FinitelyMany /\ TypeOK /\ NameOp => TypeOK'
<1> SUFFICES ASSUME FinitelyMany, TypeOK, NameOp PROVE TypeOK'
  BY Zenon
<1>a. /\ ns \in NameOps /\ ns.old \in Paths /\ ns.new \in Paths
      /\ ns.files \in SUBSET Ids /\ ns.pc \in {"idle", "cancelled", "spooled", "migrated"}
      /\ ns.kind \in {"remove", "rename"} /\ ns.how \in {"backend", "spooled", "skip"}
      /\ ns.seen \in [Paths -> Entries]
  BY Zenon DEF TypeOK, NameOps
<1>1. ASSUME NEW old \in Paths, NEW new \in Paths,
             NEW kind \in {"remove", "rename"}, beginName(kind, old, new)
      PROVE  TypeOK'
  <2>1. st' \in [Ids -> States] /\ ver' \in [Ids -> Contents]
    BY <1>1, ConstantTypes, Zenon DEF beginName, TypeOK, States, Contents
  <2>2. retired' \in [Ids -> BOOLEAN]
    BY <1>1, Zenon DEF beginName
  <2>3. {file[r] : r \in PendingAt(new)} \in SUBSET Ids
    <3>1. file \in [Ids -> Ids]
      BY Zenon DEF TypeOK
    <3> QED
      BY <3>1, Zenon DEF PendingAt
  <2>4. ns' \in NameOps
    <3>1. ns' = [pc |-> "cancelled", kind |-> kind, old |-> old, new |-> new,
                 files |-> {file[r] : r \in PendingAt(new)}, how |-> "backend",
                 seen |-> mirror]
      BY <1>1, Zenon DEF beginName
    <3>2. mirror \in [Paths -> Entries]
      BY Zenon DEF TypeOK
    <3> QED
      BY <2>3, <3>1, <3>2, Zenon DEF NameOps
  <2>5. count' \in [Events -> Nat]
    <3>1. Tick("name")
      BY <1>1, Zenon DEF beginName
    <3> QED
      BY <3>1, TypeTick, Zenon
  <2>6. lease' \in [Paths -> {Free, Poisoned, Handler} \cup Writers
                             \cup Workers]
    BY <1>1, Zenon DEF beginName, TypeOK
  <2> QED
    BY <1>1, <2>1, <2>2, <2>4, <2>5, <2>6, Zenon
    DEF beginName, TypeOK, ram, origin, work
<1>2. CASE cancelForDelete
  <2>1. index' \in [Paths -> Ids \cup {None}]
        /\ entClosed' \in [Ids -> BOOLEAN]
    BY <1>2, <1>a, Zenon DEF cancelForDelete, TypeOK
  <2>2. used' \in Int
    <3>1. Cardinality({g \in ns.files : disk[g] > 0}) \in Int
      BY <1>a, Zenon DEF FinitelyMany
    <3> QED
      BY <1>2, <3>1 DEF cancelForDelete, TypeOK
  <2>3. disk' \in [Ids -> Contents] /\ fault' \in [Paths -> Ids \cup {None}]
    BY <1>2, <1>a, Zenon DEF cancelForDelete, TypeOK, Contents
  <2>4. buf' \in [Workers -> Versions]
    BY <1>2, Zenon DEF cancelForDelete, KeepOpen, TypeOK, Jobs, Contents
  <2>5. ns' \in NameOps
    <3>1. [ns EXCEPT !.pc = "spooled"] \in NameOps
      BY <1>a, Zenon DEF NameOps
    <3> QED
      BY <1>2, <3>1, Zenon DEF cancelForDelete
  <2> QED
    BY <1>2, <2>1, <2>2, <2>3, <2>4, <2>5, Zenon
    DEF cancelForDelete, TypeOK, table, columns, origin, ram, work, procs,
        history
<1>4. CASE MigrateRefused
  <2>1. EndName(Poisoned)
    BY <1>4, Zenon DEF MigrateRefused
  <2>2. saved' \in [Paths -> Versions \cup {Removed, Moved}]
        /\ limbo' \subseteq Paths
    BY <1>4, <1>a, Zenon DEF MigrateRefused, TypeOK
  <2> QED
    BY <1>4, <2>1, <2>2, TypeEndName, Zenon
    DEF MigrateRefused, TypeOK, table, columns, origin, ram, work, procs,
        history
<1>5. CASE rename
  <2>1. /\ ns' \in NameOps
        /\ lease' \in [Paths -> {Free, Poisoned, Handler} \cup Writers
                                \cup Workers]
    BY <1>5, TypeEndName, Zenon DEF rename
  <2>2. /\ saved' \in [Paths -> Versions \cup {Removed, Moved}]
        /\ limbo' \subseteq Paths
    <3>1. MoveSaved(ns.old, ns.new) \/ UNCHANGED <<saved, limbo>>
      BY <1>5, Zenon DEF rename
    <3> QED
      BY Zenon, <1>a, <3>1, TypeMoveSaved DEF TypeOK
  <2>3. same' \in [Ids -> BOOLEAN]
    BY Zenon, <1>5 DEF rename, Replaced, TypeOK
  <2>4. mirror' \in [Paths -> Entries]
    BY <1>5, <1>a, Zenon DEF rename, TypeOK, Entries
  <2>5. data' \in [Paths -> Versions \cup {NoFile, Torn}]
    BY Zenon, <1>5, <1>a DEF rename, TypeOK
  <2>6. at' \in [Workers -> SUBSET Paths]
    BY <1>5, <1>a, Zenon DEF rename, TypeOK
  <2> QED
    BY Zenon, <1>5, <2>1, <2>2, <2>3, <2>4, <2>5, <2>6 DEF rename, TypeOK, ram
<1>6. CASE remove
  <2>1. EndName(Free)
    BY <1>6, Zenon DEF remove
  <2>2. data' \in [Paths -> Versions \cup {NoFile, Torn}]
        /\ mirror' \in [Paths -> Entries] /\ same' \in [Ids -> BOOLEAN]
        /\ at' \in [Workers -> SUBSET Paths]
    BY <1>6, <1>a, Zenon DEF remove, Unlinked, Replaced, TypeOK, Entries
  <2>3. saved' \in [Paths -> Versions \cup {Removed, Moved}]
        /\ limbo' \subseteq Paths
    BY <1>6, <1>a, Zenon DEF remove, TypeOK
  <2> QED
    BY <1>6, <2>1, <2>2, <2>3, TypeEndName, Zenon DEF remove, TypeOK, ram
<1>7. CASE BackendRefused
  <2>1. /\ ns' \in NameOps
        /\ lease' \in [Paths -> {Free, Poisoned, Handler} \cup Writers
                                \cup Workers]
    <3>1. EndName(Free) \/ EndName(Poisoned)
      BY <1>7, Zenon DEF BackendRefused
    <3> QED
      BY <3>1, TypeEndName, Zenon
  <2>2. saved' \in [Paths -> Versions \cup {Removed, Moved}]
        /\ limbo' \subseteq Paths
    <3>1. \/ /\ saved' = [saved EXCEPT ![ns.new] = Removed]
             /\ limbo' = limbo \cup {ns.new}
          \/ UNCHANGED <<saved, limbo>>
      BY <1>7, Zenon DEF BackendRefused
    <3> QED
      BY <1>a, <3>1, Zenon DEF TypeOK
  <2>3. count' \in [Events -> Nat]
    <3>1. Tick("fail") \/ UNCHANGED count
      BY <1>7, Zenon DEF BackendRefused
    <3> QED
      <4>1. count \in [Events -> Nat]
        BY Zenon DEF TypeOK
      <4> QED
        BY <3>1, <4>1, TypeTick, Zenon
  <2>4. same' \in [Ids -> BOOLEAN]
    BY <1>7, TypeSameUnmoved, Zenon DEF BackendRefused
  <2> QED
    BY <1>7, <2>1, <2>2, <2>3, <2>4, Zenon DEF BackendRefused, TypeOK, ram, work
<1>3. CASE MigrateForRename
  <2>1. UNCHANGED <<disk, data, mirror, mode, entClosed, used, lease, fin, wr,
                    wpc, work, retrying, count>>
    BY <1>3, Zenon DEF MigrateForRename
  <2>2. CASE /\ ns' = [ns EXCEPT !.pc = "migrated"]
             /\ UNCHANGED <<table, index, entId, fault, saved, limbo>>
    <3>1. [ns EXCEPT !.pc = "migrated"] \in NameOps
      BY <1>a, Zenon DEF NameOps
    <3> QED
      BY <2>1, <2>2, <3>1, Zenon DEF TypeOK, table, columns, origin, work
  <2>3. CASE \E r \in ActiveAt(ns.old) : MigrateRow(r)
    BY <2>1, <2>3, TypeMigrateRow, Zenon DEF TypeOK, work
  <2> QED
    BY <1>3, <2>2, <2>3, Zenon DEF MigrateForRename
<1> QED
  BY <1>1, <1>2, <1>3, <1>4, <1>5, <1>6, <1>7, Zenon DEF NameOp

\* A crash keeps the type.
LEMMA TypeCrash == TypeOK /\ Crash => TypeOK'
<1> SUFFICES ASSUME TypeOK, Crash PROVE TypeOK'
  BY Zenon
<1>1. ns.old \in Paths /\ ns.new \in Paths
  BY Zenon DEF TypeOK, NameOps
<1>2. limbo' \subseteq Paths
  BY <1>1, Zenon DEF Crash, TypeOK
<1>3. saved' \in [Paths -> Versions \cup {Removed, Moved}]
  BY <1>1, Zenon DEF Crash, TypeOK
<1>4. same' \in [Ids -> BOOLEAN]
  BY TypeSameUnmoved, Zenon DEF Crash
<1>5. count' \in [Events -> Nat]
  <2>1. Tick("crash")
    BY Zenon DEF Crash
  <2> QED
    BY <2>1, TypeTick, Zenon
<1>6. /\ index' \in [Paths -> Ids \cup {None}]
      /\ entId' \in [Ids -> Ids \cup {None}] /\ entClosed' \in [Ids -> BOOLEAN]
      /\ used' \in Int /\ fault' \in [Paths -> Ids \cup {None}]
      /\ mode' \in {"up", "down", "refused"}
      /\ lease' \in [Paths -> {Free, Poisoned, Handler} \cup Writers
                              \cup Workers]
  <2>1. /\ index' = [p \in Paths |-> None] /\ entId' = [f \in Ids |-> None]
        /\ entClosed' = [f \in Ids |-> TRUE] /\ fault' = [p \in Paths |-> None]
        /\ lease' = [p \in Paths |-> Free] /\ mode' = "down" /\ used' = 0
    BY Zenon DEF Crash
  <2>2. used' \in Int
    BY SMT, <2>1
  <2> QED
    BY Zenon, <2>1, <2>2
<1>7. /\ fin' \subseteq [id : Ids \cup {None}, ver : Contents]
      /\ wr' \in [Writers -> Requests] /\ ns' \in NameOps
      /\ wpc' \in [Workers -> WorkerPcs] /\ job' \in [Workers -> Jobs]
      /\ target' \in [Workers -> Targets]
      /\ at' \in [Workers -> SUBSET Paths] /\ buf' \in [Workers -> Versions]
      /\ retrying' \in Ids \cup {None}
  BY ConstantTypes, Zenon DEF Crash, WorkerPcs, Targets
<1> QED
  BY <1>2, <1>3, <1>4, <1>5, <1>6, <1>7, Zenon DEF Crash, TypeOK

\* The boot scan keeps the type.
LEMMA TypeRecover == FinitelyMany /\ TypeOK /\ RecoverOnBoot => TypeOK'
<1> SUFFICES ASSUME FinitelyMany, TypeOK, RecoverOnBoot PROVE TypeOK'
  BY Zenon
<1>1. UNCHANGED <<path, file, ver, retired, nextId, origin, holds, disk, data,
                  mirror, entClosed, lease, procs, history>>
  BY Zenon DEF RecoverOnBoot
<1>2. CASE ~CheckDrainCompletionRecovery
  BY <1>1, <1>2, Zenon DEF RecoverOnBoot, TypeOK, origin, procs, work, history
<1>3. CASE CheckDrainCompletionRecovery
  <2> DEFINE owner(p) == {r \in Ids : path[r] = p /\ Latest(r)}
             ready == {r \in Ids : Latest(r) /\ Recovered(r) = "ready"}
             failed == {r \in Ids : Latest(r) /\ Recovered(r) = "failed"}
  <2>1. st' \in [Ids -> States]
    <3>1. \A r \in Ids : Recovered(r) \in States
      BY Zenon DEF Recovered, TypeOK, States
    <3>2. st' = [r \in Ids |-> Recovered(r)]
      BY Zenon, <1>3 DEF RecoverOnBoot
    <3> QED
      BY Zenon, <3>1, <3>2
  <2>2. held' \in [Ids -> BOOLEAN]
    <3>1. held' = [r \in Ids |-> held[r] \/ r \in failed]
      BY <1>3, Zenon DEF RecoverOnBoot
    <3> QED
      BY <3>1, Zenon
  <2>3. tries' \in [Ids -> Nat]
    <3>1. tries' = [r \in Ids |-> IF st[r] = "failed" /\ r \in ready
                                  THEN 0 ELSE tries[r]]
      BY <1>3, Zenon DEF RecoverOnBoot
    <3> HIDE DEF ready
    <3> QED
      BY <3>1, Zenon DEF TypeOK
  <2>4. used' \in Int
    <3>1. used' = bootUsed(ready)
      BY <1>3, Zenon DEF RecoverOnBoot
    <3>2. {r \in ready : disk[file[r]] > 0} \in SUBSET Ids
      BY Zenon
    <3> HIDE DEF ready
    <3> QED
      BY <3>1, <3>2, Zenon DEF bootUsed, FinitelyMany
  <2>5. index' \in [Paths -> Ids \cup {None}]
    <3>1. index' = [p \in Paths |->
            IF owner(p) \cap ready = {} THEN None
            ELSE CHOOSE f \in Ids : \E r \in owner(p) \cap ready : f = file[r]]
      BY <1>3, Zenon DEF RecoverOnBoot
    <3>2. ASSUME NEW p \in Paths, owner(p) \cap ready # {}
          PROVE  (CHOOSE f \in Ids : \E r \in owner(p) \cap ready : f = file[r])
                   \in Ids
      <4>1. \E f \in Ids : \E r \in owner(p) \cap ready : f = file[r]
        BY <3>2, Zenon DEF TypeOK
      <4> QED
        BY <4>1, Zenon
    <3> HIDE DEF owner, ready
    <3> QED
      BY <3>1, <3>2, Zenon
  <2>6. entId' \in [Ids -> Ids \cup {None}]
    <3>1. entId' = [f \in Ids |->
            IF \E r \in ready : file[r] = f
            THEN CHOOSE r \in ready : file[r] = f ELSE None]
      BY <1>3, Zenon DEF RecoverOnBoot
    <3>2. ready \subseteq Ids
      BY Zenon
    <3> HIDE DEF ready
    <3> QED
      BY <3>1, <3>2, Zenon
  <2>7. fault' \in [Paths -> Ids \cup {None}]
    <3>1. fault' = [p \in Paths |-> restoreFault(p, failed)]
      BY <1>3, Zenon DEF RecoverOnBoot
    <3>2. failed \subseteq Ids
      BY Zenon
    <3> HIDE DEF failed
    <3>3. \A p \in Paths : restoreFault(p, failed) \in Ids \cup {None}
      BY <3>2, Zenon DEF restoreFault
    <3> QED
      BY <3>1, <3>3, Zenon
  <2>8. mode' \in {"up", "down", "refused"}
    BY <1>3, Zenon DEF RecoverOnBoot
  <2> QED
    BY <1>1, <2>1, <2>2, <2>3, <2>4, <2>5, <2>6, <2>7, <2>8, Zenon
    DEF TypeOK, origin, procs, work, history
<1> QED
  BY <1>2, <1>3, Zenon

-----------------------------------------------------------------------------
(* Rows and their workers.                                                 *)

\* No row becomes active, appears or changes its name: the order stays.
LEMMA LatestKept ==
  ASSUME TypeOK, RowsIssued, ActiveIsLatest, UNCHANGED <<path, nextId>>,
         \A r \in Ids : /\ Exists(r)' => Exists(r)
                        /\ st'[r] \in {"writing", "ready", "draining"} =>
                             st[r] \in {"writing", "ready", "draining"}
                        /\ retired[r] => retired'[r]
  PROVE  RowsIssued' /\ ActiveIsLatest'
<1>1. RowsIssued'
  BY Zenon DEF RowsIssued
<1>2. ASSUME NEW r \in Ids, Active(r)' PROVE ~HasNewerRowForPath(r)'
  <2>1. retired[r] \in BOOLEAN
    BY Zenon DEF TypeOK
  <2>2. Active(r) /\ ~HasNewerRowForPath(r)
    BY <1>2, <2>1, Zenon DEF Active, ActiveIsLatest
  <2> SUFFICES ASSUME NEW q \in Ids, q > r, Exists(q)', ~retired'[q],
                      path'[q] = path'[r]
               PROVE  FALSE
    BY Zenon DEF HasNewerRowForPath
  <2>3. Exists(q) /\ ~retired[q] /\ path[q] = path[r]
    BY Zenon
  <2> QED
    BY <2>2, <2>3, Zenon DEF HasNewerRowForPath
<1> QED
  BY <1>1, <1>2, Zenon DEF ActiveIsLatest

\* A worker moves on with its row, or leaves it; the others are not touched.
LEMMA OwnStep ==
  ASSUME TypeOK, WorkersOwn, NEW d \in Workers, wpc[d] # "idle",
         UNCHANGED <<mode, nextId>>,
         \A e \in Workers \ {d} : wpc'[e] = wpc[e] /\ job'[e] = job[e],
         \A r \in Ids \ {job[d].id} : st'[r] = st[r],
         holds \ {job[d].id} \subseteq holds',
         wpc'[d] # "idle" => job'[d].id = job[d].id, Owned(d)'
  PROVE  WorkersOwn'
<1>1. \A e \in Workers : job[e].id \in Ids
  BY Zenon DEF TypeOK, Jobs
<1>2. ASSUME NEW e \in Workers PROVE Owned(e)'
  <2>1. CASE e = d
    BY <2>1, Zenon
  <2>2. CASE e # d /\ wpc[e] # "idle"
    <3>1. job[e].id # job[d].id
      BY <2>2, Zenon DEF WorkersOwn
    <3> QED
      BY <1>1, <2>2, <3>1 DEF WorkersOwn, Owned
  <2>3. CASE e # d /\ wpc[e] = "idle"
    BY <2>3, Zenon DEF Owned
  <2> QED
    BY <2>1, <2>2, <2>3, Zenon
<1>3. ASSUME NEW e \in Workers, NEW f \in Workers, wpc'[e] # "idle",
             wpc'[f] # "idle", job'[e].id = job'[f].id
      PROVE  e = f
  BY <1>3 DEF WorkersOwn
<1>4. mode' = "up"
  BY Zenon DEF WorkersOwn
<1> QED
  BY <1>2, <1>3, <1>4, Zenon DEF WorkersOwn

\* Steps that leave the rows' state and the workers alone.
LEMMA QuietStep ==
  ASSUME IInv, TypeOK', UNCHANGED <<st, path, retired, nextId, holds, wpc, job, mode>>
  PROVE  IInv'
<1>1. RowsIssued' /\ ActiveIsLatest'
  BY LatestKept, Zenon DEF IInv, Exists
<1>2. WorkersOwn'
  BY Zenon DEF IInv, WorkersOwn, Owned
<1> QED
  BY <1>1, <1>2, Zenon DEF IInv

\* What TypeOK says of the rows and of the workers' jobs.
LEMMA RowTypes ==
  ASSUME TypeOK
  PROVE  /\ st \in [Ids -> States] /\ path \in [Ids -> Paths]
         /\ retired \in [Ids -> BOOLEAN] /\ nextId \in Int
         /\ \A d \in Workers : job[d].id \in Ids /\ job[d].id \in Int
         /\ \A q \in Ids : q \in Int
<1>1. /\ st \in [Ids -> States] /\ path \in [Ids -> Paths]
      /\ retired \in [Ids -> BOOLEAN] /\ job \in [Workers -> Jobs]
  BY Zenon DEF TypeOK
<1>2. nextId \in 1..(MaxRows + 1)
  BY Zenon DEF TypeOK
<1>3. nextId \in Int /\ \A q \in Ids : q \in Int
  BY <1>2 DEF Ids
<1>4. \A d \in Workers : job[d].id \in Ids
  BY <1>1, Zenon DEF Jobs
<1> QED
  BY <1>1, <1>3, <1>4, Zenon

\* Other steps on the rows spare what the workers own.
LEMMA SpareWorkers ==
  ASSUME IInv, TypeOK', UNCHANGED <<holds, wpc, job, mode>>, nextId' >= nextId,
         \A d \in Workers : wpc[d] # "idle" =>
           \/ st'[job[d].id] = st[job[d].id]
           \/ st'[job[d].id] = "none" /\ job[d].id \notin holds
  PROVE  WorkersOwn'
<1>1. \A d \in Workers : job[d].id \in Ids /\ job[d].id \in Int
  BY RowTypes, Zenon DEF IInv
<1>2. nextId \in Int /\ nextId' \in Int
  <2>1. nextId' \in 1..(MaxRows + 1)
    BY Zenon DEF TypeOK
  <2> QED
    BY <2>1, RowTypes DEF IInv
<1>3. ASSUME NEW d \in Workers PROVE Owned(d)'
  BY <1>1, <1>2 DEF IInv, WorkersOwn, Owned
<1> QED
  BY <1>3, Zenon DEF IInv, WorkersOwn

\* The claims of workers survive the requests of clients and the sweeper.
LEMMA OwnClient == IInv /\ TypeOK' /\ (Client \/ Sweeper) => IInv'
<1> SUFFICES ASSUME IInv, TypeOK', Client \/ Sweeper PROVE IInv'
  BY Zenon
<1>a. TypeOK /\ TypeOK'
  BY Zenon DEF IInv
<1>b. ASSUME \A q \in Ids : \/ st'[q] = st[q]
                            \/ /\ st[q] \in {"writing", "ready"}
                               /\ st'[q] \in {"writing", "ready"},
             UNCHANGED <<path, retired, nextId, holds, wpc, job, mode>>
      PROVE  IInv'
  <2>1. \A q \in Ids : /\ Exists(q)' => Exists(q)
                       /\ st'[q] \in {"writing", "ready", "draining"} =>
                            st[q] \in {"writing", "ready", "draining"}
    BY <1>b, Zenon DEF Exists
  <2>2. RowsIssued' /\ ActiveIsLatest'
    BY <1>a, <1>b, <2>1, LatestKept, Zenon DEF IInv
  <2>3. \A d \in Workers : job[d].id \in Ids
    BY <1>a, Zenon DEF TypeOK, Jobs
  <2>4. \A d \in Workers : wpc[d] # "idle" => st'[job[d].id] = st[job[d].id]
    BY <1>b, <2>3, Zenon DEF IInv, WorkersOwn, Owned
  <2>5. nextId' >= nextId
    <3>1. nextId \in Int /\ nextId' = nextId
      BY <1>a, <1>b, RowTypes, Zenon
    <3> QED
      BY <3>1
  <2> QED
    <3>1. WorkersOwn'
      BY <1>a, <1>b, <2>4, <2>5, SpareWorkers, Zenon
    <3> QED
      BY <1>a, <2>2, <3>1, Zenon DEF IInv
<1>1. ASSUME NEW w \in Writers, OpenFresh(w) PROVE IInv'
  <2> DEFINE n == nextId
             p == wr[w].path
  <2>1. /\ n \in Ids /\ n \in Int /\ nextId' = n + 1
        /\ st' = [st EXCEPT ![n] = "writing"] /\ path' = [path EXCEPT ![n] = p]
        /\ ActiveAt(p) = {}
        /\ UNCHANGED <<retired, holds, wpc, job, mode>>
    <3>1. /\ n \in Ids /\ nextId' = n + 1
          /\ st' = [st EXCEPT ![n] = "writing"]
          /\ path' = [path EXCEPT ![n] = p] /\ ActiveAt(p) = {}
          /\ UNCHANGED <<retired, holds, wpc, work, mode>>
      BY <1>1, Zenon DEF OpenFresh
    <3> QED
      BY <3>1 DEF work, Ids
  <2>2. \A r \in Ids : r \in Int
    BY DEF Ids
  <2>3. RowsIssued'
    <3>1. st \in [Ids -> States]
      BY <1>a, RowTypes, Zenon
    <3>2. \A q \in Ids : Exists(q)' => q = n \/ Exists(q)
      BY <2>1, <3>1, Zenon DEF Exists
    <3>3. \A q \in Ids : Exists(q) => q < n
      BY Zenon DEF IInv, RowsIssued
    <3>4. \A q \in Ids : Exists(q)' => q < n + 1
      BY <2>1, <2>2, <3>2, <3>3
    <3> QED
      BY <2>1, <3>4, Zenon DEF RowsIssued
  <2>4. ASSUME NEW r \in Ids, Active(r)', NEW q \in Ids, q > r, Exists(q)',
               ~retired'[q], path'[q] = path'[r]
        PROVE  FALSE
    <3>1. r # n
      <4>1. q # n => Exists(q)
        BY <1>a, <2>1, <2>4, Zenon DEF Exists, TypeOK
      <4>2. q <= n
        BY <2>1, <2>2, <4>1 DEF IInv, RowsIssued
      <4> QED
        BY <2>2, <2>4, <4>2
    <3>2. Active(r) /\ path[r] = path'[r]
      BY <1>a, <2>1, <2>4, <3>1, Zenon DEF Active, TypeOK
    <3>3. q # n
      BY <1>a, <2>1, <2>4, <3>2, Zenon DEF ActiveAt, TypeOK
    <3>4. HasNewerRowForPath(r)
      BY <1>a, <2>1, <2>4, <3>2, <3>3, Zenon DEF HasNewerRowForPath, Exists, TypeOK
    <3> QED
      BY <3>2, <3>4, Zenon DEF IInv, ActiveIsLatest
  <2>5. ActiveIsLatest'
    BY <2>4, Zenon DEF ActiveIsLatest, HasNewerRowForPath
  <2>6. \A d \in Workers : wpc[d] # "idle" => st'[job[d].id] = st[job[d].id]
    <3>1. \A d \in Workers : job[d].id \in Ids
      BY <1>a, Zenon DEF TypeOK, Jobs
    <3>2. \A d \in Workers : wpc[d] # "idle" => job[d].id # n
      <4>1. \A d \in Workers : wpc[d] # "idle" => job[d].id < n
        BY Zenon DEF IInv, WorkersOwn, Owned
      <4> QED
        BY <2>1, <2>2, <3>1, <4>1
    <3>3. st \in [Ids -> States]
      BY <1>a, RowTypes, Zenon
    <3> QED
      BY <2>1, <3>1, <3>2, <3>3, Zenon
  <2>7. nextId' >= nextId /\ UNCHANGED <<holds, wpc, job, mode>>
    BY <2>1
  <2>8. WorkersOwn'
    BY <1>a, <2>6, <2>7, SpareWorkers, Zenon
  <2> QED
    BY <1>a, <2>3, <2>5, <2>8, Zenon DEF IInv
<1>2. ASSUME NEW w \in Writers, ReopenReady(w) PROVE IInv'
  <2>1. PICK r : st' = [st EXCEPT ![r] = "writing"] /\ st[r] = "ready"
    BY <1>2, Zenon DEF ReopenReady, Reopenable
  <2>2. st \in [Ids -> States]
    BY <1>a, Zenon DEF TypeOK
  <2>3. UNCHANGED <<columns, holds, wpc, work, mode>>
    BY <1>2, Zenon DEF ReopenReady
  <2> QED
    BY <1>b, <2>1, <2>2, <2>3, Zenon DEF columns, work
<1>3. ASSUME NEW x \in fin, MarkReady(x) PROVE IInv'
  <2>1. UNCHANGED <<path, retired, nextId, holds, wpc, job, mode>>
    BY <1>3, Zenon DEF MarkReady, work
  <2>2. \/ st[x.id] = "writing" /\ st' = [st EXCEPT ![x.id] = "ready"]
        \/ st' = st
    BY <1>3, Zenon DEF MarkReady
  <2>3. st \in [Ids -> States]
    BY <1>a, Zenon DEF TypeOK
  <2> QED
    BY <1>b, <2>1, <2>2, <2>3, Zenon
<1>4. ASSUME NEW w \in Writers,
             \/ \E p \in Paths, kind \in Opens : openFile(w, p, kind)
             \/ OpenShared(w) \/ OpenWait(w) \/ OpenRefused(w)
             \/ WriteAt(w) \/ ReleaseHandle(w)
             \/ \E p \in Paths : writeBound(w, p)
      PROVE  IInv'
  <2>1. CASE \/ \E p \in Paths, kind \in Opens : openFile(w, p, kind)
             \/ OpenShared(w) \/ OpenWait(w) \/ OpenRefused(w)
             \/ ReleaseHandle(w)
    <3>1. UNCHANGED <<table, wpc, work, mode>>
      BY <2>1, Zenon
      DEF openFile, OpenShared, OpenWait, OpenRefused, ReleaseHandle
    <3> QED
      BY <1>a, <3>1, QuietStep, Zenon DEF table, columns, work
  <2>2. CASE WriteAt(w)
    <3>1. UNCHANGED <<table, procs, mode>>
      BY <2>2, Zenon DEF WriteAt
    <3> QED
      BY <1>a, <3>1, QuietStep, Zenon DEF table, columns, procs, work
  <2>3. CASE \E p \in Paths : writeBound(w, p)
    <3>1. UNCHANGED <<st, path, retired, nextId, holds, procs, mode>>
      BY <2>3, Zenon DEF writeBound
    <3> QED
      BY <1>a, <3>1, QuietStep, Zenon DEF procs, work
  <2> QED
    BY <1>4, <2>1, <2>2, <2>3, Zenon
<1>5. ASSUME NEW f \in Ids, finalizeLocked(f) PROVE IInv'
  <2>1. UNCHANGED <<st, path, retired, nextId, holds, wpc, job, mode>>
    BY <1>5, Zenon DEF finalizeLocked, table, columns, work
  <2> QED
    BY <1>a, <2>1, QuietStep, Zenon
<1> QED
  BY <1>1, <1>2, <1>3, <1>4, <1>5, Zenon DEF Client, Sweeper

\* A step of a worker on its own row.
LEMMA WorkerStep ==
  ASSUME IInv, TypeOK', NEW d \in Workers, wpc[d] # "idle",
         UNCHANGED <<path, retired, nextId, mode>>,
         \A e \in Workers \ {d} : wpc'[e] = wpc[e] /\ job'[e] = job[e],
         \A q \in Ids \ {job[d].id} : st'[q] = st[q],
         st[job[d].id] = "none" => st'[job[d].id] = "none",
         st'[job[d].id] \in {"writing", "ready", "draining"} =>
           st[job[d].id] \in {"writing", "ready", "draining"},
         holds \ {job[d].id} \subseteq holds',
         wpc'[d] # "idle" => job'[d].id = job[d].id, Owned(d)'
  PROVE  IInv'
<1>1. WorkersOwn'
  BY OwnStep, Zenon DEF IInv
<1>2. \A q \in Ids : /\ Exists(q)' => Exists(q)
                     /\ st'[q] \in {"writing", "ready", "draining"} =>
                          st[q] \in {"writing", "ready", "draining"}
  BY Zenon DEF Exists
<1>3. RowsIssued' /\ ActiveIsLatest'
  BY <1>2, LatestKept, Zenon DEF IInv
<1> QED
  BY <1>1, <1>3, Zenon DEF IInv

\* A worker leaves its row, which it may requeue or fail if it is claimed.
LEMMA LeaveStep ==
  ASSUME IInv, TypeOK', NEW d \in Workers, wpc[d] # "idle", Leave(d),
         UNCHANGED <<path, retired, nextId, mode>>,
         holds \ {job[d].id} \subseteq holds',
         \A q \in Ids : \/ st'[q] = st[q]
                        \/ /\ q = job[d].id /\ st[q] = "draining"
                           /\ st'[q] \in {"ready", "failed"}
  PROVE  IInv'
<1>1. job[d].id \in Ids
  BY RowTypes, Zenon DEF IInv
<1>2. wpc'[d] = "idle"
      /\ \A e \in Workers \ {d} : wpc'[e] = wpc[e] /\ job'[e] = job[e]
  <2>1. wpc \in [Workers -> WorkerPcs] /\ job \in [Workers -> Jobs]
    BY Zenon DEF IInv, TypeOK
  <2>2. /\ wpc' = [wpc EXCEPT ![d] = "idle"]
        /\ job' = [job EXCEPT ![d] = SomeJob]
    BY Zenon DEF Leave, At
  <2> QED
    BY <2>1, <2>2, Zenon
<1>3. Owned(d)'
  BY <1>2, Zenon DEF Owned
<1> QED
  BY <1>1, <1>2, <1>3, WorkerStep, Zenon

\* A worker fails its row only if it is claimed.
LEMMA FailStep ==
  ASSUME TypeOK, NEW d \in Workers, NEW i, FailClaimedDrain(d, i)
  PROVE  \A q \in Ids : \/ st'[q] = st[q]
                        \/ /\ q = job[d].id /\ st[q] = "draining"
                           /\ st'[q] \in {"ready", "failed"}
<1>1. \/ st[job[d].id] = "draining" /\ st' = [st EXCEPT ![job[d].id] = "failed"]
      \/ st' = st
  BY Zenon DEF FailClaimedDrain, drainStillClaimed
<1> QED
  BY <1>1, Zenon DEF TypeOK

\* The claims of workers survive the steps of workers.
LEMMA OwnWorker ==
  ASSUME IInv, TypeOK', NEW d \in Workers, Worker(d) PROVE IInv'
<1> DEFINE r == job[d].id
<1>a. TypeOK /\ TypeOK'
  BY Zenon DEF IInv
<1>b. /\ st \in [Ids -> States] /\ wpc \in [Workers -> WorkerPcs]
      /\ job \in [Workers -> Jobs] /\ r \in Ids
  BY <1>a, Zenon DEF TypeOK, Jobs
<1>c. wpc[d] # "idle" /\ wpc[d] \notin {"held", "done"} =>
        st[r] \in {"none", "draining"}
  BY Zenon DEF IInv, WorkersOwn, Owned
<1>1. CASE \E q \in Ids : markDraining(d, q)
  <2> PICK q \in Ids : markDraining(d, q)
    BY <1>1, Zenon
  <2>1. /\ mode = "up" /\ wpc[d] = "idle" /\ st[q] = "ready"
        /\ st' = [st EXCEPT ![q] = "draining"]
        /\ job' = [job EXCEPT ![d] =
             [id |-> q, path |-> SomePath, file |-> 1, ver |-> 0]]
        /\ wpc' = [wpc EXCEPT ![d] = "claimed"]
        /\ UNCHANGED <<columns, holds, mode>>
    BY Zenon DEF markDraining, Claimable, At
  <2>2. \A x \in Ids : /\ Exists(x)' => Exists(x)
                       /\ st'[x] \in {"writing", "ready", "draining"} =>
                            st[x] \in {"writing", "ready", "draining"}
    BY <1>b, <2>1, Zenon DEF Exists
  <2>3. RowsIssued' /\ ActiveIsLatest'
    BY <2>1, <2>2, LatestKept, Zenon DEF IInv, columns
  <2>4. q < nextId /\ nextId' = nextId
    BY <2>1, Zenon DEF IInv, RowsIssued, Exists, columns
  <2>5. job'[d].id = q /\ wpc'[d] = "claimed" /\ st'[q] = "draining"
        /\ \A e \in Workers \ {d} : wpc'[e] = wpc[e] /\ job'[e] = job[e]
    BY <1>b, <2>1, Zenon
  <2>6. \A e \in Workers : wpc[e] # "idle" => job[e].id \in Ids \ {q}
    BY <1>b, <2>1, Zenon DEF IInv, WorkersOwn, Owned, Jobs
  <2>7. \A x \in Ids \ {q} : st'[x] = st[x]
    BY <1>b, <2>1, Zenon
  <2>8. Owned(d)'
    BY <2>4, <2>5, Zenon DEF Owned
  <2>9. ASSUME NEW e \in Workers \ {d} PROVE Owned(e)'
    <3>1. CASE wpc[e] = "idle"
      BY <2>5, <3>1, Zenon DEF Owned
    <3>2. CASE wpc[e] # "idle"
      <4>1. Owned(e)
        BY Zenon DEF IInv, WorkersOwn
      <4>2. /\ wpc'[e] = wpc[e] /\ job'[e] = job[e]
            /\ st'[job[e].id] = st[job[e].id]
        BY <2>5, <2>6, <2>7, <3>2, Zenon
      <4>3. holds' = holds
        BY <2>1, Zenon
      <4> QED
        BY <2>4, <3>2, <4>1, <4>2, <4>3, Zenon DEF Owned
    <3> QED
      BY <3>1, <3>2, Zenon
  <2>10. ASSUME NEW e \in Workers, NEW f \in Workers, wpc'[e] # "idle",
                wpc'[f] # "idle", job'[e].id = job'[f].id
         PROVE  e = f
    <3>1. CASE e # d /\ f # d
      <4>1. /\ wpc[e] # "idle" /\ wpc[f] # "idle"
            /\ job[e].id = job[f].id
        BY <2>5, <2>10, <3>1, Zenon
      <4> QED
        BY <4>1, Zenon DEF IInv, WorkersOwn
    <3>2. CASE e = d /\ f # d
      BY <2>5, <2>6, <2>10, <3>2, Zenon
    <3>3. CASE e # d /\ f = d
      BY <2>5, <2>6, <2>10, <3>3, Zenon
    <3> QED
      BY <3>1, <3>2, <3>3, Zenon
  <2>11. WorkersOwn'
    BY <2>1, <2>8, <2>9, <2>10, Zenon DEF WorkersOwn
  <2> QED
    BY <1>a, <2>3, <2>11, Zenon DEF IInv
<1>2. CASE Reread(d)
  <2>1. UNCHANGED <<table, mode>> /\ wpc[d] = "claimed"
    BY <1>2, Zenon DEF Reread
  <2>2. CASE Leave(d)
    BY <1>a, <2>1, <2>2, LeaveStep, Zenon DEF table, columns
  <2>3. CASE ~Leave(d)
    <3>1. /\ wpc' = [wpc EXCEPT ![d] = "loaded"]
          /\ job' = [job EXCEPT ![d] =
               [id |-> r, path |-> path[r], file |-> file[r], ver |-> ver[r]]]
      BY <1>2, <2>3, Zenon DEF Reread, At
    <3>2. /\ job'[d].id = r /\ wpc'[d] = "loaded"
          /\ \A e \in Workers \ {d} : wpc'[e] = wpc[e] /\ job'[e] = job[e]
      BY <1>b, <3>1, Zenon
    <3>3. Owned(d)'
      BY <1>c, <2>1, <3>2, Zenon DEF Owned, IInv, WorkersOwn, table, columns
    <3> QED
      BY <1>a, <2>1, <3>2, <3>3, WorkerStep, Zenon DEF table, columns
  <2> QED
    BY <2>2, <2>3, Zenon
<1>3. CASE ResetToReady(d)
  <2>1. /\ wpc[d] \in {"claimed", "loaded", "copied"} /\ Leave(d)
        /\ UNCHANGED <<columns, holds, mode>>
    BY <1>3, Zenon DEF ResetToReady
  <2>2. \/ st[r] = "draining" /\ st' = [st EXCEPT ![r] = "ready"]
        \/ st' = st
    BY <1>3, <1>c, <2>1, Zenon DEF ResetToReady, Exists
  <2>3. \A q \in Ids : \/ st'[q] = st[q]
                       \/ /\ q = r /\ st[q] = "draining"
                          /\ st'[q] \in {"ready", "failed"}
    BY <1>b, <2>2, Zenon
  <2> QED
    BY <1>a, <2>1, <2>3, LeaveStep, Zenon DEF columns
<1>4. CASE failTransient(d)
  <2>1. /\ wpc[d] # "idle" /\ Leave(d)
        /\ UNCHANGED <<path, retired, nextId, holds, mode>>
    BY <1>4, Zenon DEF failTransient
  <2>2. \/ st[r] = "draining" /\ st' = [st EXCEPT ![r] = "ready"]
        \/ st' = st
    BY <1>4, Zenon DEF failTransient
  <2>3. \A q \in Ids : \/ st'[q] = st[q]
                       \/ /\ q = r /\ st[q] = "draining"
                          /\ st'[q] \in {"ready", "failed"}
    BY <1>b, <2>2, Zenon
  <2> QED
    BY <1>a, <2>1, <2>3, LeaveStep, Zenon
<1>5. CASE failPermanent(d)
  <2>1. /\ wpc[d] # "idle" /\ Leave(d) /\ FailClaimedDrain(d, FALSE)
        /\ UNCHANGED <<path, retired, nextId, holds, mode>>
    BY <1>5, Zenon DEF failPermanent
  <2>2. \A q \in Ids : \/ st'[q] = st[q]
                       \/ /\ q = r /\ st[q] = "draining"
                          /\ st'[q] \in {"ready", "failed"}
    BY <1>a, <2>1, FailStep, Zenon
  <2>3. UNCHANGED <<path, retired, nextId, mode>> /\ holds \ {r} \subseteq holds'
    BY <2>1, Zenon
  <2> QED
    BY <1>a, <2>1, <2>2, <2>3, LeaveStep, Zenon
<1>6. CASE openDrainTarget(d)
  <2>1. /\ wpc[d] = "loaded"
        /\ UNCHANGED <<st, path, retired, nextId, holds, mode>>
    BY <1>6, Zenon DEF openDrainTarget
  <2>2. CASE Leave(d)
    BY <1>a, <2>1, <2>2, LeaveStep, Zenon
  <2>3. CASE ~Leave(d)
    <3>1. wpc' = [wpc EXCEPT ![d] = "opened"] /\ job' = job
      BY <1>6, <2>3, Zenon DEF openDrainTarget, At
    <3>2. Owned(d)'
      BY <1>b, <1>c, <2>1, <3>1, Zenon DEF Owned, IInv, WorkersOwn
    <3> QED
      BY <1>a, <1>b, <2>1, <3>1, <3>2, WorkerStep, Zenon
  <2> QED
    BY <2>2, <2>3, Zenon
<1>7. CASE Copy(d)
  <2>1. wpc[d] = "opened" /\ UNCHANGED <<path, retired, nextId, holds, mode>>
    BY <1>7, Zenon DEF Copy
  <2>2. CASE FailClaimedDrain(d, TRUE) /\ Leave(d)
    <3>1. \A q \in Ids : \/ st'[q] = st[q]
                         \/ /\ q = r /\ st[q] = "draining"
                            /\ st'[q] \in {"ready", "failed"}
      BY <1>a, <2>2, FailStep, Zenon
    <3>2. Leave(d)
      BY <2>2, Zenon
    <3> QED
      BY <1>a, <2>1, <3>1, <3>2, LeaveStep, Zenon
  <2>3. CASE ~(FailClaimedDrain(d, TRUE) /\ Leave(d))
    <3>1. wpc' = [wpc EXCEPT ![d] = afterCopy(d)] /\ job' = job /\ st' = st
      BY <1>7, <2>3, Zenon DEF Copy, At
    <3>2. afterCopy(d) \in {"installed", "copied"}
      BY Zenon DEF afterCopy
    <3>3. Owned(d)'
      BY <1>b, <1>c, <2>1, <3>1, <3>2, Zenon DEF Owned, IInv, WorkersOwn
    <3> QED
      BY <1>a, <1>b, <2>1, <3>1, <3>3, WorkerStep, Zenon
  <2> QED
    BY <2>2, <2>3, Zenon
<1>8. CASE installNewName(d)
  <2>1. /\ wpc[d] = "copied"
        /\ UNCHANGED <<st, path, retired, nextId, holds, mode>>
    BY <1>8, Zenon DEF installNewName
  <2>2. CASE Leave(d)
    BY <1>a, <2>1, <2>2, LeaveStep, Zenon
  <2>3. CASE ~Leave(d)
    <3>1. wpc' = [wpc EXCEPT ![d] = "installed"] /\ job' = job
      BY <1>8, <2>3, Zenon DEF installNewName, At
    <3>2. Owned(d)'
      BY <1>b, <1>c, <2>1, <3>1, Zenon DEF Owned, IInv, WorkersOwn
    <3> QED
      BY <1>a, <1>b, <2>1, <3>1, <3>2, WorkerStep, Zenon
  <2> QED
    BY <2>2, <2>3, Zenon
<1>9. CASE publishConflictCopy(d)
  <2>1. /\ wpc[d] # "idle" /\ Leave(d) /\ FailClaimedDrain(d, TRUE)
        /\ UNCHANGED <<path, retired, nextId, holds, mode>>
    BY <1>9, Zenon DEF publishConflictCopy
  <2>2. \A q \in Ids : \/ st'[q] = st[q]
                       \/ /\ q = r /\ st[q] = "draining"
                          /\ st'[q] \in {"ready", "failed"}
    BY <1>a, <2>1, FailStep, Zenon
  <2>3. UNCHANGED <<path, retired, nextId, mode>> /\ holds \ {r} \subseteq holds'
    BY <2>1, Zenon
  <2> QED
    BY <1>a, <2>1, <2>2, <2>3, LeaveStep, Zenon
<1>10. CASE RequeueUnadmittedDrain(d)
  <2>1. /\ wpc[d] # "idle" /\ Leave(d) /\ UNCHANGED <<columns, holds, mode>>
    BY <1>10, Zenon DEF RequeueUnadmittedDrain
  <2>2. \/ st[r] = "draining" /\ st' = [st EXCEPT ![r] = "ready"]
        \/ st' = st
    BY <1>10, Zenon DEF RequeueUnadmittedDrain, drainStillClaimed
  <2>3. \A q \in Ids : \/ st'[q] = st[q]
                       \/ /\ q = r /\ st[q] = "draining"
                          /\ st'[q] \in {"ready", "failed"}
    BY <1>b, <2>2, Zenon
  <2> QED
    BY <1>a, <2>1, <2>3, LeaveStep, Zenon DEF columns
<1>11. CASE prepareDrainCompletions(d)
  <2>1. wpc[d] = "installed" /\ UNCHANGED <<st, columns, mode>>
    BY <1>11, Zenon DEF prepareDrainCompletions
  <2>2. CASE Leave(d) /\ holds' = holds
    BY <1>a, <2>1, <2>2, LeaveStep, Zenon DEF columns
  <2>3. CASE ~(Leave(d) /\ holds' = holds)
    <3>1. /\ drainStillClaimed(d) /\ holds' = holds \cup {r}
          /\ wpc' = [wpc EXCEPT ![d] = "held"] /\ UNCHANGED work
      BY <1>11, <2>3, Zenon DEF prepareDrainCompletions, Goto, At
    <3>2. job' = job /\ st[r] = "draining"
      BY <3>1, Zenon DEF work, drainStillClaimed
    <3>3. Owned(d)'
      BY <1>b, <2>1, <3>1, <3>2, Zenon DEF Owned, IInv, WorkersOwn, columns
    <3> QED
      BY <1>a, <1>b, <2>1, <3>1, <3>2, <3>3, WorkerStep, Zenon DEF columns
  <2> QED
    BY <2>2, <2>3, Zenon
<1>12. CASE batchMarkDone(d)
  <2>1. /\ wpc[d] = "held" /\ st' = [st EXCEPT ![r] = "done"]
        /\ wpc' = [wpc EXCEPT ![d] = "done"] /\ UNCHANGED work
        /\ UNCHANGED <<columns, holds, mode>>
    BY <1>12, Zenon DEF batchMarkDone, Goto, At
  <2>2. job' = job /\ UNCHANGED <<path, retired, nextId>>
    BY <2>1, Zenon DEF work, columns
  <2>3. st[r] = "draining" /\ r \in holds /\ r < nextId
    BY <2>1, Zenon DEF IInv, WorkersOwn, Owned
  <2>4. Owned(d)'
    BY <1>b, <2>1, <2>2, <2>3, Zenon DEF Owned
  <2> QED
    BY <1>a, <1>b, <2>1, <2>2, <2>3, <2>4, WorkerStep, Zenon
<1>13. CASE holdCompletion(d) \/ PoisonCompletion(d)
  <2>1. wpc[d] # "idle" /\ Leave(d) /\ UNCHANGED <<table, mode>>
    BY <1>13, Zenon DEF holdCompletion, PoisonCompletion
  <2> QED
    BY <1>a, <2>1, LeaveStep, Zenon DEF table, columns
<1>14. CASE CompleteAcknowledgedDrain(d)
  <2>1. /\ wpc[d] = "done" /\ holds' = holds \ {r}
        /\ wpc' = [wpc EXCEPT ![d] = "idle"]
        /\ job' = [job EXCEPT ![d] = SomeJob] /\ UNCHANGED <<st, columns, mode>>
    BY <1>14, Zenon DEF CompleteAcknowledgedDrain, At
  <2>2. Owned(d)'
    BY <1>b, <2>1, Zenon DEF Owned
  <2> QED
    BY <1>a, <1>b, <2>1, <2>2, WorkerStep, Zenon DEF columns
<1> QED
  BY <1>1, <1>2, <1>3, <1>4, <1>5, <1>6, <1>7, <1>8, <1>9, <1>10, <1>11,
     <1>12, <1>13, <1>14, Zenon DEF Worker

\* The claims of workers survive retries, collection and reconciliation.
LEMMA OwnMaintenance == IInv /\ TypeOK' /\ Maintenance => IInv'
<1> SUFFICES ASSUME IInv, TypeOK', Maintenance PROVE IInv'
  BY Zenon
<1>a. TypeOK /\ TypeOK'
  BY Zenon DEF IInv
<1>b. /\ st \in [Ids -> States] /\ nextId \in Int
      /\ \A d \in Workers : job[d].id \in Ids
  BY <1>a, RowTypes, Zenon
<1>1. ASSUME NEW r \in Ids, ResetForRetry(r) PROVE IInv'
  <2>1. UNCHANGED <<path, retired, nextId, holds, wpc, job, mode>>
    BY <1>1, Zenon DEF ResetForRetry, work
  <2>2. CASE st' = st
    BY <1>a, <2>1, <2>2, QuietStep, Zenon
  <2>3. CASE st' # st
    <3>1. st[r] = "failed" /\ ~HasNewerRowForPath(r)
          /\ st' = [st EXCEPT ![r] = "ready"]
      BY <1>1, <2>3, Zenon DEF ResetForRetry, Retryable
    <3>2. \A q \in Ids : Exists(q)' => Exists(q)
      BY <1>b, <3>1, Zenon DEF Exists
    <3>3. RowsIssued'
      BY <2>1, <3>2, Zenon DEF IInv, RowsIssued
    <3>4. \A q \in Ids : HasNewerRowForPath(q)' => HasNewerRowForPath(q)
      BY <2>1, <3>2, Zenon DEF HasNewerRowForPath
    <3>5. \A q \in Ids : Active(q)' => Active(q) \/ q = r
      BY <1>b, <2>1, <3>1, Zenon DEF Active
    <3>6. ActiveIsLatest'
      BY <3>1, <3>4, <3>5, Zenon DEF IInv, ActiveIsLatest
    <3>7. \A d \in Workers : wpc[d] # "idle" => job[d].id # r
      BY <3>1, Zenon DEF IInv, WorkersOwn, Owned
    <3>8. \A d \in Workers : wpc[d] # "idle" => st'[job[d].id] = st[job[d].id]
      BY <1>b, <3>1, <3>7, Zenon
    <3> QED
      <4>1. nextId' >= nextId
        BY <1>b, <2>1
      <4>2. WorkersOwn'
        BY <1>a, <2>1, <3>8, <4>1, SpareWorkers, Zenon
      <4> QED
        BY <1>a, <3>3, <3>6, <4>2, Zenon DEF IInv
  <2> QED
    BY <2>2, <2>3, Zenon
<1>2. ASSUME NEW r \in Ids, DeleteDone(r) PROVE IInv'
  <2>1. /\ st[r] = "done" /\ r \notin holds /\ st' = [st EXCEPT ![r] = "none"]
        /\ UNCHANGED <<columns, holds, procs, mode>>
    BY <1>2, Zenon DEF DeleteDone
  <2>2. UNCHANGED <<path, retired, nextId, holds, wpc, job, mode>>
    BY <2>1, Zenon DEF columns, procs, work
  <2>3. \A q \in Ids : /\ Exists(q)' => Exists(q)
                       /\ st'[q] \in {"writing", "ready", "draining"} =>
                            st[q] \in {"writing", "ready", "draining"}
    BY <1>b, <2>1, Zenon DEF Exists
  <2>4. RowsIssued' /\ ActiveIsLatest'
    BY <2>2, <2>3, LatestKept, Zenon DEF IInv
  <2>5. \A d \in Workers : wpc[d] # "idle" => st'[job[d].id] = st[job[d].id]
    BY <1>b, <2>1, Zenon DEF IInv, WorkersOwn, Owned
  <2> QED
    <3>1. nextId' >= nextId
      BY <1>b, <2>2
    <3>2. WorkersOwn'
      BY <1>a, <2>2, <2>5, <3>1, SpareWorkers, Zenon
    <3> QED
      BY <1>a, <2>4, <3>2, Zenon DEF IInv
<1>3. ASSUME \/ \E r \in Ids : retryFailed(r)
             \/ \E p \in Paths : Reconcile(p)
      PROVE  IInv'
  <2>1. UNCHANGED <<table, wpc, work, mode>>
    BY <1>3, Zenon DEF retryFailed, Reconcile, procs
  <2> QED
    BY <1>a, <2>1, QuietStep, Zenon DEF table, columns, work
<1> QED
  BY <1>1, <1>2, <1>3, Zenon DEF Maintenance

\* A migrated row is the latest of its new name.
LEMMA OwnMigrateRow ==
  ASSUME IInv, TypeOK', NEW r \in ActiveAt(ns.old), MigrateRow(r),
         ~rejectCompletionPath(ns.old), UNCHANGED <<wpc, job, mode>>
  PROVE  IInv'
<1> DEFINE b == ns.new
           n == IF st[r] = "draining" THEN nextId ELSE r
<1>a. /\ r \in Ids /\ Active(r) /\ path[r] = ns.old /\ r \notin holds
      /\ n \in Ids /\ n \in Int /\ r \in Int
  BY DEF ActiveAt, MigrateRow, rejectCompletionPath, Ids
<1>b. /\ st' = IF n = r THEN st
               ELSE [st EXCEPT ![r] = "none", ![n] = "ready"]
      /\ nextId' = IF n = r THEN nextId ELSE nextId + 1
      /\ path' = [path EXCEPT ![n] = b]
      /\ retired' = [q \in Ids |-> retired[q] \/
           (Exists(q) /\ (path[q] = b \/ (path[q] = ns.old /\ q < r)))]
      /\ UNCHANGED holds
  BY Zenon DEF MigrateRow
<1>c. /\ st \in [Ids -> States] /\ path \in [Ids -> Paths]
      /\ retired \in [Ids -> BOOLEAN] /\ nextId \in Int
      /\ \A d \in Workers : job[d].id \in Ids
      /\ \A q \in Ids : q \in Int
  BY RowTypes, Zenon DEF IInv
<1>d. r < nextId /\ (n = r \/ n = nextId)
  BY <1>a, Zenon DEF IInv, RowsIssued, Active, Exists
<1> HIDE DEF n
<1>1. \A q \in Ids \ {n} : /\ Exists(q)' => Exists(q)
                           /\ st'[q] = st[q] \/ (q = r /\ st'[q] = "none")
                           /\ path'[q] = path[q]
  BY <1>a, <1>b, <1>c, Zenon DEF Exists
<1>2. n < nextId' /\ nextId' >= nextId /\ nextId' \in Int
  <2>1. nextId' = IF n = r THEN nextId ELSE nextId + 1
    BY <1>b, Zenon
  <2>2. n \in Int /\ r \in Int /\ nextId \in Int
    BY <1>a, <1>c, Zenon
  <2> QED
    BY <1>d, <2>1, <2>2
<1>e. ASSUME NEW q \in Ids, retired[q] \/ (Exists(q) /\ path[q] = b)
      PROVE  retired'[q]
  BY <1>b, <1>e, Zenon
<1>f. ASSUME NEW q \in Ids, ~retired'[q] PROVE ~retired[q]
  BY <1>e, <1>f, Zenon
<1>3. RowsIssued'
  <2> SUFFICES ASSUME NEW q \in Ids, Exists(q)' PROVE q < nextId'
    BY Zenon DEF RowsIssued
  <2>1. CASE q = n
    BY <1>2, <2>1, Zenon
  <2>2. CASE q # n
    <3>1. q < nextId
      BY <1>1, <2>2, Zenon DEF IInv, RowsIssued
    <3> QED
      BY <1>2, <1>c, <3>1
  <2> QED
    BY <2>1, <2>2, Zenon
<1>4. ASSUME NEW x \in Ids, Active(x)', NEW q \in Ids, q > x, Exists(q)',
             ~retired'[q], path'[q] = path'[x]
      PROVE  FALSE
  <2>1. CASE q = n
    <3>1. x # n /\ path[x] = b /\ Exists(x)
      <4>1. x # n
        <5>1. x \in Int /\ q \in Int
          BY <1>c, Zenon
        <5> QED
          BY <1>4, <2>1, <5>1
      <4>2. path'[x] = path[x] /\ path'[n] = b
        BY <1>1, <1>a, <1>b, <1>c, <4>1, Zenon
      <4>3. Exists(x)'
        BY <1>4, Zenon DEF Active, Exists
      <4> QED
        BY <1>1, <1>4, <2>1, <4>1, <4>2, <4>3, Zenon
    <3>2. retired'[x]
      BY <1>e, <3>1, Zenon
    <3> QED
      BY <1>4, <3>2, Zenon DEF Active
  <2>2. CASE q # n /\ x = n
    <3>1. Exists(q) /\ path[q] = b
      BY <1>1, <1>4, <1>a, <1>b, <1>c, <2>2, Zenon
    <3> QED
      BY <1>4, <1>e, <3>1, Zenon
  <2>3. CASE q # n /\ x # n
    <3>1. Exists(q) /\ ~retired[q] /\ path[q] = path[x]
      BY <1>1, <1>4, <1>f, <2>3, Zenon
    <3>2. Active(x)
      BY <1>1, <1>4, <1>f, <2>3, Zenon DEF Active
    <3> QED
      BY <1>4, <3>1, <3>2, Zenon DEF IInv, ActiveIsLatest, HasNewerRowForPath
  <2> QED
    BY <2>1, <2>2, <2>3, Zenon
<1>5. ActiveIsLatest'
  BY <1>4, Zenon DEF ActiveIsLatest, HasNewerRowForPath
<1>6. ASSUME NEW d \in Workers, wpc[d] # "idle"
      PROVE  \/ st'[job[d].id] = st[job[d].id]
             \/ st'[job[d].id] = "none" /\ job[d].id \notin holds
  <2>1. CASE job[d].id # n
    <3>1. job[d].id \in Ids \ {n}
      BY <1>c, <2>1, Zenon
    <3>2. st'[job[d].id] = st[job[d].id]
            \/ (job[d].id = r /\ st'[job[d].id] = "none")
      BY <1>1, <3>1, Zenon
    <3> QED
      BY <1>a, <3>2, Zenon
  <2>2. CASE job[d].id = n
    <3>1. job[d].id < nextId
      BY <1>6, Zenon DEF IInv, WorkersOwn, Owned
    <3>2. n = r
      <4>1. n < nextId /\ nextId \in Int
        BY <1>c, <2>2, <3>1, Zenon
      <4> QED
        BY <1>d, <4>1
    <3> QED
      BY <1>b, <3>2, Zenon
  <2> QED
    BY <2>1, <2>2, Zenon
<1>7. WorkersOwn'
  <2>1. \A d \in Workers : wpc[d] # "idle" =>
          \/ st'[job[d].id] = st[job[d].id]
          \/ st'[job[d].id] = "none" /\ job[d].id \notin holds
    BY <1>6, Zenon
  <2>2. holds' = holds
    BY <1>b, Zenon
  <2> QED
    BY <1>2, <2>1, <2>2, SpareWorkers, Zenon
<1> QED
  BY <1>3, <1>5, <1>7, Zenon DEF IInv

\* The claims of workers survive renames and removals.
LEMMA OwnNameOp == IInv /\ TypeOK' /\ NameOp => IInv'
<1> SUFFICES ASSUME IInv, TypeOK', NameOp PROVE IInv'
  BY Zenon
<1>a. TypeOK /\ TypeOK'
  BY Zenon DEF IInv
<1>b. /\ st \in [Ids -> States] /\ nextId \in Int
      /\ \A d \in Workers : job[d].id \in Ids
  BY <1>a, RowTypes, Zenon
<1>1. ASSUME NEW old \in Paths, NEW new \in Paths,
             NEW kind \in {"remove", "rename"}, beginName(kind, old, new)
      PROVE  IInv'
  <2>1. /\ ~rejectCompletionPath(new)
        /\ st' = [r \in Ids |-> IF r \in PendingAt(new) THEN "none" ELSE st[r]]
        /\ retired' = [r \in Ids |-> retired[r] \/
             (Exists(r) /\ path[r] = new /\ \E q \in PendingAt(new) : r < q)]
        /\ UNCHANGED <<path, nextId, holds, wpc, work, mode>>
    BY <1>1, Zenon DEF beginName
  <2>2. \A q \in Ids : /\ Exists(q)' => Exists(q)
                       /\ st'[q] \in {"writing", "ready", "draining"} =>
                            st[q] \in {"writing", "ready", "draining"}
                       /\ retired[q] => retired'[q]
    <3>1. \A q \in Ids : retired[q] => retired'[q]
      BY <2>1, Zenon
    <3> QED
      BY <2>1, <3>1, Zenon DEF Exists
  <2>3. RowsIssued' /\ ActiveIsLatest'
    BY <2>1, <2>2, LatestKept, Zenon DEF IInv
  <2>4. \A d \in Workers : \/ st'[job[d].id] = st[job[d].id]
                           \/ st'[job[d].id] = "none" /\ job[d].id \notin holds
    BY <1>b, <2>1, Zenon DEF PendingAt, rejectCompletionPath
  <2>5. UNCHANGED <<holds, wpc, job, mode, nextId>>
    BY <2>1, Zenon DEF work
  <2>6. nextId' >= nextId
    BY <1>b, <2>5
  <2>7. WorkersOwn'
    BY <1>a, <2>4, <2>5, <2>6, SpareWorkers, Zenon
  <2> QED
    BY <1>a, <2>3, <2>7, Zenon DEF IInv
<1>2. CASE MigrateForRename
  <2>1. ~rejectCompletionPath(ns.old) /\ UNCHANGED <<mode, wpc, work>>
    BY <1>2, Zenon DEF MigrateForRename, refuseMigration
  <2>2. CASE UNCHANGED table
    BY <1>a, <2>1, <2>2, QuietStep, Zenon DEF table, columns, work
  <2>3. CASE \E r \in ActiveAt(ns.old) : MigrateRow(r)
    BY <1>a, <2>1, <2>3, OwnMigrateRow, Zenon DEF work
  <2> QED
    BY <1>2, <2>2, <2>3, Zenon DEF MigrateForRename
<1>3. CASE cancelForDelete \/ MigrateRefused
  <2>1. UNCHANGED <<table, mode, wpc, job>>
    BY <1>3, Zenon DEF cancelForDelete, MigrateRefused, work
  <2> QED
    BY <1>a, <2>1, QuietStep, Zenon DEF table, columns
<1>4. CASE rename \/ remove \/ BackendRefused
  <2>1. UNCHANGED <<st, path, retired, nextId, holds, wpc, job, mode>>
    BY <1>4, Zenon DEF rename, remove, BackendRefused, work
  <2> QED
    BY <1>a, <2>1, QuietStep, Zenon
<1> QED
  BY <1>1, <1>2, <1>3, <1>4, Zenon DEF NameOp

\* A restart has no workers and queues only the latest row of a name.
LEMMA OwnRestart == IInv /\ TypeOK' /\ (Crash \/ RecoverOnBoot) => IInv'
<1> SUFFICES ASSUME IInv, TypeOK', Crash \/ RecoverOnBoot PROVE IInv'
  BY Zenon
<1>a. TypeOK /\ TypeOK'
  BY Zenon DEF IInv
<1>1. CASE Crash
  <2>1. UNCHANGED <<st, path, retired, nextId>>
        /\ wpc' = [d \in Workers |-> "idle"]
    BY <1>1, Zenon DEF Crash
  <2>2. RowsIssued' /\ ActiveIsLatest'
    BY <2>1, LatestKept, Zenon DEF IInv, Exists
  <2>3. WorkersOwn'
    BY <2>1, Zenon DEF WorkersOwn, Owned
  <2> QED
    BY <1>a, <2>2, <2>3, Zenon DEF IInv
<1>2. CASE RecoverOnBoot
  <2>1. mode = "down" /\ UNCHANGED <<path, retired, nextId, procs>>
    BY <1>2, Zenon DEF RecoverOnBoot
  <2>2. \A d \in Workers : wpc'[d] = "idle"
    BY <2>1, Zenon DEF IInv, WorkersOwn, procs
  <2>3. WorkersOwn'
    BY <2>2, Zenon DEF WorkersOwn, Owned
  <2>4. CASE st' = st
    BY <1>a, <2>1, <2>3, <2>4, LatestKept, Zenon DEF IInv, Exists
  <2>5. CASE st' # st
    <3>1. st' = [r \in Ids |-> Recovered(r)]
      BY <1>2, <2>5, Zenon DEF RecoverOnBoot
    <3>2. \A q \in Ids : Exists(q)' => Exists(q)
      BY <3>1, Zenon DEF Exists, Recovered
    <3>3. RowsIssued'
      BY <2>1, <3>2, Zenon DEF IInv, RowsIssued
    <3>4. \A q \in Ids : HasNewerRowForPath(q)' => HasNewerRowForPath(q)
      BY <2>1, <3>2, Zenon DEF HasNewerRowForPath
    <3>5. \A q \in Ids : Active(q)' => ~HasNewerRowForPath(q)
      BY <2>1, <3>1, Zenon DEF Active, Recovered, Latest
    <3>6. ActiveIsLatest'
      BY <3>4, <3>5, Zenon DEF ActiveIsLatest
    <3> QED
      BY <1>a, <2>3, <3>3, <3>6, Zenon DEF IInv
  <2> QED
    BY <2>4, <2>5, Zenon
<1> QED
  BY <1>1, <1>2, Zenon

-----------------------------------------------------------------------------
(* Initial states, and all steps together.                                 *)

\* Initially there are no rows and no claims.
LEMMA OwnInit == Init => IInv
<1> SUFFICES ASSUME Init PROVE IInv
  OBVIOUS
<1>1. \A r \in Ids : st[r] = "none"
  BY DEF Init
<1>2. RowsIssued /\ ActiveIsLatest
  BY <1>1 DEF RowsIssued, ActiveIsLatest, Active, Exists
<1>3. WorkersOwn
  BY DEF Init, WorkersOwn, Owned
<1> QED
  BY <1>2, <1>3, TypeInit DEF IInv

LEMMA TypeStep == FinitelyMany /\ TypeOK /\ [Next]_vars => TypeOK'
<1> SUFFICES ASSUME FinitelyMany, TypeOK, [Next]_vars PROVE TypeOK'
  BY Zenon
<1>1. CASE UNCHANGED vars
  BY <1>1, Zenon
  DEF TypeOK, vars, table, columns, origin, ram, work, procs, history
<1>2. ASSUME NEW d \in Workers, Worker(d) PROVE TypeOK'
  BY <1>2, TypeWorker, Zenon
<1> QED
  BY <1>1, <1>2, TypeClient, TypeSweeper, TypeMaintenance, TypeNameOp,
     TypeCrash, TypeRecover, Zenon DEF Next

LEMMA OwnNext == IInv /\ TypeOK' /\ [Next]_vars => IInv'
<1> SUFFICES ASSUME IInv, TypeOK', [Next]_vars PROVE IInv'
  BY Zenon
<1>1. CASE UNCHANGED vars
  BY <1>1, QuietStep, Zenon DEF vars, table, columns, procs, work
<1>2. ASSUME NEW d \in Workers, Worker(d) PROVE IInv'
  BY <1>2, OwnWorker, Zenon
<1> QED
  BY <1>1, <1>2, OwnClient, OwnMaintenance, OwnNameOp, OwnRestart, Zenon
  DEF Next
=============================================================================
