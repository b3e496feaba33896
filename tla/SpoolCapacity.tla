--------------------------- MODULE SpoolCapacity ----------------------------
(***************************************************************************)
(* Every step of the spool accounts for its capacity: what saves, drains,  *)
(* retries, collection, renames, removals, crashes and boots do to         *)
(* SpoolStore.used and to the files in use.                                *)
(***************************************************************************)
EXTENDS SpoolInv, TLAPS

-----------------------------------------------------------------------------
(* Steps that are accounted for.                                           *)

\* The ids of rows are numbers.
LEMMA RowIds == \A q \in Ids : q \in Int
BY DEF Ids

\* A retry reserves one unit of capacity or none.
LEMMA RetriedUnit == Retried \in Int /\ Retried' \in Int
BY DEF Retried

LEMMA SameUse ==
  ASSUME UNCHANGED <<mode, used>>, Retried' = Retried,
         \A f \in Ids : InUse(f)' <=> InUse(f)
  PROVE  Accounted
BY Zenon DEF Accounted, SameFiles

LEMMA RetryUse ==
  ASSUME mode' = mode, used' = used + (Retried' - Retried),
         \A f \in Ids : InUse(f)' <=> InUse(f)
  PROVE  Accounted
BY Zenon DEF Accounted, SameFiles

LEMMA OneMore ==
  ASSUME mode' = mode, NEW g \in Ids, ~InUse(g), InUse(g)',
         \A f \in Ids \ {g} : InUse(f)' <=> InUse(f),
         used' = used + 1 + (Retried' - Retried)
  PROVE  Accounted
BY Zenon DEF Accounted, Taken

LEMMA OneLess ==
  ASSUME mode' = mode, NEW g \in Ids, InUse(g), ~InUse(g)',
         \A f \in Ids \ {g} : InUse(f)' <=> InUse(f),
         used' = used - 1, Retried' = Retried
  PROVE  Accounted
BY Zenon DEF Accounted, GivenUp

LEMMA SomeLess ==
  ASSUME mode' = mode, NEW G \in SUBSET Ids, G \subseteq Occupied,
         \A f \in Ids : InUse(f)' <=> InUse(f) /\ f \notin G,
         used' = used - Cardinality(G), Retried' = Retried
  PROVE  Accounted
BY Zenon DEF Accounted, AllGivenUp

\* A step that keeps every row charged or uncharged.
LEMMA SameRows ==
  ASSUME TypeOK, UNCHANGED <<file, disk, ns, mode, used, retrying>>,
         \A q \in Ids : \/ st'[q] = st[q]
                        \/ st[q] \in Charging /\ st'[q] \in Charging
  PROVE  Accounted
<1>1. \A f \in Ids : Charged(f)' <=> Charged(f)
  BY Zenon DEF Charged, Charging
<1>2. \A f \in Ids : InUse(f)' <=> InUse(f)
  BY <1>1, Zenon DEF InUse
<1>3. retrying \in Ids \cup {None}
  BY Zenon DEF TypeOK
<1>4. retrying # None => (st'[retrying] = "failed" <=> st[retrying] = "failed")
  BY <1>3, Zenon DEF Charging
<1>5. Retried' = Retried
  BY <1>4, Zenon DEF Retried
<1> QED
  BY <1>2, <1>5, SameUse, Zenon

-----------------------------------------------------------------------------
(* Steps that leave most of the state alone.                               *)

\* What TypeOK says of the parts that meet here.
LEMMA CapTypes ==
  ASSUME TypeOK
  PROVE  /\ st \in [Ids -> States] /\ path \in [Ids -> Paths]
         /\ file \in [Ids -> Ids] /\ disk \in [Ids -> Contents]
         /\ index \in [Paths -> Ids \cup {None}]
         /\ entId \in [Ids -> Ids \cup {None}]
         /\ ns.old \in Paths /\ ns.new \in Paths /\ ns.files \subseteq Ids
         /\ nextId \in Int /\ retrying \in Ids \cup {None} /\ used \in Int
<1>1. nextId \in 1..(MaxRows + 1) /\ ns \in NameOps
  BY Zenon DEF TypeOK
<1>2. nextId \in Int
  BY <1>1
<1>3. ns.old \in Paths /\ ns.new \in Paths /\ ns.files \subseteq Ids
  BY <1>1, Zenon DEF NameOps
<1> QED
  BY <1>2, <1>3, Zenon DEF TypeOK

\* What TypeOK says of the rows and of the workers' jobs.
LEMMA CapRows ==
  ASSUME TypeOK
  PROVE  /\ st \in [Ids -> States] /\ path \in [Ids -> Paths]
         /\ retired \in [Ids -> BOOLEAN] /\ nextId \in Int
         /\ \A d \in Workers : job[d].id \in Ids /\ job[d].id \in Int
         /\ \A q \in Ids : q \in Int
<1>1. /\ st \in [Ids -> States] /\ path \in [Ids -> Paths]
      /\ retired \in [Ids -> BOOLEAN] /\ job \in [Workers -> Jobs]
  BY Zenon DEF TypeOK
<1>2. nextId \in 1..(MaxRows + 1)
  BY Zenon DEF TypeOK
<1>3. nextId \in Int /\ \A q \in Ids : q \in Int
  BY <1>2 DEF Ids
<1>4. \A d \in Workers : job[d].id \in Ids
  BY <1>1, Zenon DEF Jobs
<1> QED
  BY <1>1, <1>3, <1>4, Zenon

\* The rows, the entries and the operations in progress stay as they are.
LEMMA QuietTable ==
  ASSUME Structure, LeasesHeld', holds \subseteq holds',
         UNCHANGED <<st, path, file, retired, nextId, disk, mode, index, entId,
                     entClosed, fin, ns, retrying>>,
         mode = "up" \/ wr' = wr
  PROVE  Structure'
<1>1. FilesOwned' /\ Shadows' /\ NameTaken'
  BY Zenon DEF Structure, FilesOwned, Exists, Shadows, Shadow, NameTaken
<1>2. OpenLive' /\ FinClosed' /\ Superseded'
  BY Zenon DEF Structure, OpenLive, Live, FinClosed, Superseded
<1>3. Settling' /\ Quiescent'
  BY Zenon DEF Structure, Settling, Quiescent
<1> QED
  BY <1>1, <1>2, <1>3, Zenon DEF Structure

\* A drain takes a row from one state to the next, and its entry away at most.
LEMMA DrainTable ==
  ASSUME TypeOK, Structure, LeasesHeld', NEW r \in Ids, holds \subseteq holds',
         UNCHANGED <<path, file, retired, nextId, disk, mode, entId, entClosed,
                     fin, wr, ns, retrying>>,
         \A q \in Ids \ {r} : st'[q] = st[q],
         st[r] \in {"ready", "draining"},
         st'[r] \in {"ready", "draining", "done", "failed"},
         st'[r] = "done" => r \in holds,
         \A p \in Paths : \/ index'[p] = index[p] /\ (st'[r] = "failed" =>
                               index[p] = None \/ entId[index[p]] # r)
                          \/ index'[p] = None /\ entId[index[p]] = r
  PROVE  Structure'
<1>a. /\ st \in [Ids -> States] /\ path \in [Ids -> Paths]
      /\ index \in [Paths -> Ids \cup {None}]
      /\ entId \in [Ids -> Ids \cup {None}]
      /\ ns.new \in Paths /\ retrying \in Ids \cup {None}
  BY CapTypes, Zenon
<1>1. FilesOwned'
  BY Zenon DEF Structure, FilesOwned, Exists
<1>2. Shadows'
  <2>1. \A f \in Ids : entId'[f] < nextId'
    BY Zenon DEF Structure, Shadows
  <2>2. ASSUME NEW p \in Paths PROVE Shadow(p)'
    <3>1. Shadow(p)
      BY Zenon DEF Structure, Shadows
    <3> QED
      BY <1>a, <3>1 DEF Shadow, Pending
  <2> QED
    BY <2>1, <2>2, Zenon DEF Shadows
<1>3. OpenLive'
  <2> SUFFICES ASSUME NEW f \in Ids, ~entClosed'[f] PROVE Live(f)'
    BY Zenon DEF OpenLive
  <2>1. Live(f)
    BY Zenon DEF Structure, OpenLive
  <2>2. entId[f] \in Ids /\ entId[f] # r
    BY <1>a, <2>1, Zenon DEF Live
  <2>3. path[entId[f]] \in Paths
    BY <1>a, <2>2, Zenon
  <2>4. \A p \in Paths : index[p] = f => index'[p] = f
    BY <2>2, Zenon
  <2> QED
    BY <1>a, <2>1, <2>2, <2>3, <2>4, Zenon DEF Live
<1>4. FinClosed'
  <2>1. \A x \in fin : st'[x.id] = st[x.id] \/ x.id = r
    <3>1. \A x \in fin : x.id \in Ids
      BY Zenon DEF Structure, FinClosed, TypeOK
    <3> QED
      BY <3>1, Zenon
  <2>2. \A x \in fin : st'[x.id] \in {"none", "writing"}
    BY <2>1, Zenon DEF Structure, FinClosed
  <2> QED
    BY <2>2, Zenon DEF Structure, FinClosed
<1>5. NameTaken'
  <2>1. \A q \in Ids : st'[q] = "writing" => st[q] = "writing"
    BY <1>a, Zenon
  <2>2. \A q \in Ids : Exists(q)' => Exists(q)
    BY Zenon DEF Exists
  <2>3. index[ns.new] = None => index'[ns.new] = None
    BY <1>a, Zenon
  <2> QED
    BY <2>1, <2>2, <2>3, Zenon DEF Structure, NameTaken
<1>6. Settling'
  BY <1>a, Zenon DEF Structure, Settling
<1>7. Superseded'
  <2>1. \A q \in Ids : st'[q] \in Pending => st[q] \in Pending
    BY Zenon DEF Pending
  <2> QED
    BY <2>1, Zenon DEF Structure, Superseded
<1>8. Quiescent'
  BY Zenon DEF Structure, Quiescent
<1> QED
  BY <1>1, <1>2, <1>3, <1>4, <1>5, <1>6, <1>7, <1>8, Zenon DEF Structure

\* ... and the count with them.
LEMMA QuietCap ==
  ASSUME CapInv, IInv', LeasesHeld', holds \subseteq holds',
         UNCHANGED <<st, path, file, retired, nextId, disk, mode, index, entId,
                     entClosed, fin, ns, retrying, used>>,
         mode = "up" \/ wr' = wr
  PROVE  CapStep
<1>1. Structure'
  BY QuietTable, Zenon DEF CapInv
<1>2. Accounted
  BY SameRows, Zenon DEF CapInv, IInv
<1> QED
  BY <1>1, <1>2, Zenon DEF CapStep, CapInv

-----------------------------------------------------------------------------
(* Who has a lease keeps it.                                               *)

\* Requests, workers and the handler are told apart.
LEMMA Actors ==
  /\ \A a \in Writers \cup Workers : a # Free /\ a # Handler /\ a # Poisoned
  /\ \A w \in Writers : w \notin Workers
  /\ Free # Handler /\ Poisoned # Handler
BY SpoolAssumption, Zenon DEF Free, Handler, Poisoned

\* A request takes or gives back the lease of one name.
LEMMA WriterLeases ==
  ASSUME TypeOK, LeasesHeld, NEW w \in Writers, NEW p \in Paths,
         UNCHANGED <<ns, wpc, job>>, lease[p] \in {Free, w},
         \A q \in Paths \ {p} : lease'[q] = lease[q],
         \A v \in Writers \ {w} : wr'[v] = wr[v], WriterHolds(w)',
         \A d \in Workers : wpc[d] \in {"held", "done"} =>
           /\ path'[job[d].id] = path[job[d].id]
           /\ file'[job[d].id] = file[job[d].id]
  PROVE  LeasesHeld'
<1>a. wr \in [Writers -> Requests] /\ job \in [Workers -> Jobs]
  BY Zenon DEF TypeOK
<1>b. /\ \A v \in Writers : wr[v].path \in Paths
      /\ \A d \in Workers : job[d].path \in Paths
  BY <1>a, Zenon DEF Requests, Jobs
<1>c. ns.old \in Paths /\ ns.new \in Paths
  BY CapTypes, Zenon
<1>1. ASSUME NEW v \in Writers PROVE WriterHolds(v)'
  <2>1. CASE v = w
    BY <2>1, Zenon
  <2>2. CASE v # w
    <3>1. WriterHolds(v) /\ wr'[v] = wr[v] /\ v # Free
      BY <2>2, Actors, Zenon DEF LeasesHeld
    <3> QED
      BY <1>b, <2>2, <3>1, Zenon DEF WriterHolds
  <2> QED
    BY <2>1, <2>2, Zenon
<1>2. NameHolds'
  <2>1. NameHolds /\ w # Handler /\ Free # Handler
    BY Actors, Zenon DEF LeasesHeld
  <2> QED
    BY <1>c, <2>1, Zenon DEF NameHolds
<1>3. ASSUME NEW d \in Workers PROVE WorkerHolds(d)'
  <2>1. WorkerHolds(d) /\ d # w /\ d # Free
    BY Actors, Zenon DEF LeasesHeld
  <2> QED
    BY <1>b, <2>1, Zenon DEF WorkerHolds
<1> QED
  BY <1>1, <1>2, <1>3, Zenon DEF LeasesHeld

\* A worker takes or gives back the lease of one name.
LEMMA WorkerLeases ==
  ASSUME TypeOK, LeasesHeld, NEW d \in Workers, NEW p \in Paths,
         UNCHANGED <<ns, wr, path, file>>, lease[p] \in {Free, d},
         \A q \in Paths \ {p} : lease'[q] = lease[q],
         \A e \in Workers \ {d} : wpc'[e] = wpc[e] /\ job'[e] = job[e],
         WorkerHolds(d)'
  PROVE  LeasesHeld'
<1>a. wr \in [Writers -> Requests] /\ job \in [Workers -> Jobs]
  BY Zenon DEF TypeOK
<1>b. /\ \A v \in Writers : wr[v].path \in Paths
      /\ \A e \in Workers : job[e].path \in Paths
  BY <1>a, Zenon DEF Requests, Jobs
<1>c. ns.old \in Paths /\ ns.new \in Paths
  BY CapTypes, Zenon
<1>1. ASSUME NEW v \in Writers PROVE WriterHolds(v)'
  <2>1. WriterHolds(v) /\ v # d /\ v # Free
    BY Actors, Zenon DEF LeasesHeld
  <2> QED
    BY <1>b, <2>1, Zenon DEF WriterHolds
<1>2. NameHolds'
  <2>1. NameHolds /\ d # Handler /\ Free # Handler
    BY Actors, Zenon DEF LeasesHeld
  <2> QED
    BY <1>c, <2>1, Zenon DEF NameHolds
<1>3. ASSUME NEW e \in Workers PROVE WorkerHolds(e)'
  <2>1. CASE e = d
    BY <2>1, Zenon
  <2>2. CASE e # d
    <3>1. WorkerHolds(e) /\ wpc'[e] = wpc[e] /\ job'[e] = job[e] /\ e # Free
      BY <2>2, Actors, Zenon DEF LeasesHeld
    <3> QED
      BY <1>b, <2>2, <3>1, Zenon DEF WorkerHolds
  <2> QED
    BY <2>1, <2>2, Zenon
<1> QED
  BY <1>1, <1>2, <1>3, Zenon DEF LeasesHeld

\* The handler takes or gives back the leases of its names.
LEMMA NameLeases ==
  ASSUME TypeOK, LeasesHeld, UNCHANGED <<wr, wpc, job>>, NameHolds',
         \A q \in Paths : lease'[q] = lease[q] \/ lease[q] \in {Free, Handler},
         \A d \in Workers : wpc[d] \in {"held", "done"} =>
           /\ path'[job[d].id] = path[job[d].id]
           /\ file'[job[d].id] = file[job[d].id]
  PROVE  LeasesHeld'
<1>a. wr \in [Writers -> Requests] /\ job \in [Workers -> Jobs]
  BY Zenon DEF TypeOK
<1>b. /\ \A v \in Writers : wr[v].path \in Paths
      /\ \A e \in Workers : job[e].path \in Paths
  BY <1>a, Zenon DEF Requests, Jobs
<1>1. ASSUME NEW v \in Writers PROVE WriterHolds(v)'
  <2>1. WriterHolds(v) /\ v # Handler /\ v # Free
    BY Actors, Zenon DEF LeasesHeld
  <2> QED
    BY <1>b, <2>1, Zenon DEF WriterHolds
<1>2. ASSUME NEW d \in Workers PROVE WorkerHolds(d)'
  <2>1. WorkerHolds(d) /\ d # Handler /\ d # Free
    BY Actors, Zenon DEF LeasesHeld
  <2> QED
    BY <1>b, <2>1, Zenon DEF WorkerHolds
<1> QED
  BY <1>1, <1>2, Zenon DEF LeasesHeld

-----------------------------------------------------------------------------
(* Clients and the sweeper.                                                *)

\* The request that ends an open gives its lease back.
LEMMA OpenedLeases ==
  ASSUME TypeOK, LeasesHeld, NEW w \in Writers, NEW f \in Ids \cup {None},
         wr[w].pc = "opening", Opened(w, f), UNCHANGED <<ns, wpc, job>>,
         \A d \in Workers : wpc[d] \in {"held", "done"} =>
           /\ path'[job[d].id] = path[job[d].id]
           /\ file'[job[d].id] = file[job[d].id]
  PROVE  LeasesHeld'
<1>a. wr \in [Writers -> Requests] /\ wr[w] \in Requests
      /\ lease \in [Paths -> {Free, Poisoned, Handler} \cup Writers \cup Workers]
  BY Zenon DEF TypeOK
<1>b. wr[w].path \in Paths
  BY <1>a, Zenon DEF Requests
<1>1. /\ wr' = [wr EXCEPT ![w] = IF f = None THEN IdleRequest
                                 ELSE [@ EXCEPT !.pc = "open", !.file = f]]
      /\ lease' = [lease EXCEPT ![wr[w].path] = Free]
  BY Zenon DEF Opened
<1>2. lease[wr[w].path] = w
  BY Zenon DEF LeasesHeld, WriterHolds
<1>3. \A q \in Paths \ {wr[w].path} : lease'[q] = lease[q]
  BY <1>a, <1>1, Zenon
<1>4. \A v \in Writers \ {w} : wr'[v] = wr[v]
  BY <1>a, <1>1, Zenon
<1>5. WriterHolds(w)'
  <2>1. CASE f = None
    <3>1. wr'[w] = IdleRequest
      BY <1>a, <1>1, <2>1, Zenon
    <3> QED
      BY <3>1 DEF WriterHolds, IdleRequest
  <2>2. CASE f # None
    <3>1. wr'[w] = [wr[w] EXCEPT !.pc = "open", !.file = f]
      BY <1>a, <1>1, <2>2, Zenon
    <3>2. wr'[w].pc = "open" /\ wr'[w].file = f
      BY <1>a, <3>1, Zenon DEF Requests
    <3> QED
      BY <2>2, <3>2, Zenon DEF WriterHolds
  <2> QED
    BY <2>1, <2>2, Zenon
<1> QED
  BY <1>b, <1>2, <1>3, <1>4, <1>5, WriterLeases, Zenon

\* A request that is not idle is one of a process that serves.
LEMMA Serving ==
  ASSUME CapInv, NEW w \in Writers, wr[w].pc # "idle" PROVE mode = "up"
BY Zenon DEF CapInv, Structure, Quiescent

LEMMA CapClient == CapInv /\ IInv' /\ (Client \/ Sweeper) => CapStep
\* Requests that change no row and no entry.
<1>CapOpen.
  ASSUME CapInv, IInv', NEW w \in Writers,
         \/ \E p \in Paths, kind \in Opens : openFile(w, p, kind)
         \/ OpenShared(w) \/ OpenWait(w) \/ OpenRefused(w) \/ ReleaseHandle(w)
         \/ \E p \in Paths : writeBound(w, p)
  PROVE  CapStep
  <2> USE <1>CapOpen
  <2>a. /\ TypeOK /\ LeasesHeld
        /\ wr \in [Writers -> Requests] /\ wr[w] \in Requests
        /\ lease \in [Paths -> {Free, Poisoned, Handler} \cup Writers \cup Workers]
    BY Zenon DEF CapInv, Structure, IInv, TypeOK
  <2>b. wr[w].path \in Paths
    BY <2>a, Zenon DEF Requests
  <2>c. mode = "up"
    BY Serving, Zenon
    DEF openFile, OpenShared, OpenWait, OpenRefused, ReleaseHandle, writeBound
  <2>d. UNCHANGED <<st, path, file, retired, nextId, disk, mode, index, entId,
                    entClosed, fin, ns, retrying, used, holds, wpc, job>>
    BY Zenon DEF openFile, OpenShared, OpenWait, OpenRefused, ReleaseHandle,
       writeBound, table, columns, ram, procs, work
  <2>e. holds \subseteq holds'
    BY <2>d, Zenon
  <2>1. CASE \E p \in Paths, kind \in Opens : openFile(w, p, kind)
    <3> PICK p \in Paths, kind \in Opens : openFile(w, p, kind)
      BY <2>1, Zenon
    <3>1. /\ lease[p] = Free /\ lease' = [lease EXCEPT ![p] = w]
          /\ wr' = [wr EXCEPT ![w] = [pc |-> "opening", kind |-> kind, path |-> p,
                                      file |-> None, sawClosed |-> FALSE]]
      BY Zenon DEF openFile
    <3>2. /\ \A q \in Paths \ {p} : lease'[q] = lease[q]
          /\ \A v \in Writers \ {w} : wr'[v] = wr[v]
          /\ lease'[p] = w
      BY <2>a, <3>1, Zenon
    <3>3. wr'[w] = [pc |-> "opening", kind |-> kind, path |-> p,
                    file |-> None, sawClosed |-> FALSE]
      BY <2>a, <3>1, Zenon
    <3>4. WriterHolds(w)'
      BY <3>2, <3>3 DEF WriterHolds
    <3>5. LeasesHeld'
      BY <2>a, <2>d, <3>1, <3>2, <3>4, WriterLeases, Zenon
    <3> QED
      BY <2>c, <2>d, <2>e, <3>5, QuietCap, Zenon
  <2>2. CASE OpenShared(w) \/ OpenRefused(w)
    <3>1. /\ wr[w].pc = "opening"
          /\ Opened(w, None) \/ (index[wr[w].path] # None /\ Opened(w, index[wr[w].path]))
      BY <2>2, Zenon DEF OpenShared, OpenRefused
    <3>2. index[wr[w].path] \in Ids \cup {None} /\ None \in Ids \cup {None}
      BY <2>a, <2>b, CapTypes, Zenon
    <3>3. LeasesHeld'
      BY <2>a, <2>d, <3>1, <3>2, OpenedLeases, Zenon
    <3> QED
      BY <2>c, <2>d, <2>e, <3>3, QuietCap, Zenon
  <2>3. CASE OpenWait(w) \/ ReleaseHandle(w)
    <3>1. /\ lease' = lease
          /\ \/ wr' = [wr EXCEPT ![w] = IdleRequest]
             \/ wr[w].pc = "opening" /\ wr' = [wr EXCEPT ![w].sawClosed = TRUE]
      BY <2>3, Zenon DEF OpenWait, ReleaseHandle
    <3>2. \A v \in Writers \ {w} : wr'[v] = wr[v]
      BY <2>a, <3>1, Zenon
    <3>3. wr'[w].pc = "idle" \/ (wr'[w].pc = "opening" /\ wr'[w].path = wr[w].path
                                 /\ wr[w].pc = "opening")
      BY <2>a, <3>1 DEF IdleRequest, Requests
    <3>4. WriterHolds(w)'
      BY <2>a, <3>1, <3>3, Zenon DEF WriterHolds, LeasesHeld
    <3>5. \A v \in Writers : WriterHolds(v)'
      BY <2>a, <3>1, <3>2, <3>4, Zenon DEF LeasesHeld, WriterHolds
    <3>6. LeasesHeld'
      BY <2>a, <2>d, <3>1, <3>5, Zenon DEF LeasesHeld, NameHolds, WorkerHolds
    <3> QED
      BY <2>c, <2>d, <2>e, <3>6, QuietCap, Zenon
  <2>4. CASE \E p \in Paths : writeBound(w, p)
    <3>1. UNCHANGED <<wr, lease>>
      BY <2>4, Zenon DEF writeBound, procs
    <3>2. LeasesHeld'
      BY <2>a, <2>d, <3>1, Zenon DEF LeasesHeld, NameHolds, WorkerHolds,
         WriterHolds
    <3> QED
      BY <2>c, <2>d, <2>e, <3>2, QuietCap, Zenon
  <2> QED
    BY <2>1, <2>2, <2>3, <2>4, Zenon

\* A new save: its row, its file and its entry are new to every other part.
<1>CapOpenFresh.
  ASSUME CapInv, IInv', NEW w \in Writers, OpenFresh(w) PROVE CapStep
  <2> USE <1>CapOpenFresh
  <2> SUFFICES ASSUME NEW p, NEW n, p = wr[w].path, n = nextId PROVE CapStep
    BY Zenon
  <2>a. /\ TypeOK /\ RowsIssued /\ WorkersOwn
        /\ FilesOwned /\ LeasesHeld /\ Shadows /\ OpenLive /\ FinClosed
        /\ NameTaken /\ Settling /\ Superseded
    BY Zenon DEF CapInv, Structure, IInv
  <2>b. /\ st \in [Ids -> States] /\ path \in [Ids -> Paths] /\ file \in [Ids -> Ids]
        /\ index \in [Paths -> Ids \cup {None}] /\ disk \in [Ids -> Contents]
        /\ entId \in [Ids -> Ids \cup {None}] /\ n \in Int
        /\ ns.new \in Paths /\ ns.files \subseteq Ids /\ retrying \in Ids \cup {None}
    BY <2>a, CapTypes, Zenon
  <2>c. /\ n \in Ids /\ index[p] = None /\ wr[w].pc = "opening" /\ Opened(w, n)
        /\ nextId' = n + 1
        /\ UNCHANGED <<retired, holds, mode, used, fin, wpc, job, ns, retrying>>
    BY Zenon DEF OpenFresh, work
  <2>x. /\ st' = [st EXCEPT ![n] = "writing"]
        /\ path' = [path EXCEPT ![n] = p] /\ file' = [file EXCEPT ![n] = n]
        /\ disk' = [disk EXCEPT ![n] = 0]
        /\ entId' = [entId EXCEPT ![n] = n] /\ index' = [index EXCEPT ![p] = n]
        /\ entClosed' = [entClosed EXCEPT ![n] = FALSE]
    BY Zenon DEF OpenFresh
  <2>d. p \in Paths
    <3>1. wr[w] \in Requests
      BY <2>a, Zenon DEF TypeOK
    <3> QED
      BY <3>1, Zenon DEF Requests
  <2>e. /\ \A q \in Ids \ {n} : st'[q] = st[q] /\ path'[q] = path[q]
                                /\ file'[q] = file[q] /\ disk'[q] = disk[q]
                                /\ entId'[q] = entId[q]
        /\ st'[n] = "writing" /\ path'[n] = p /\ file'[n] = n /\ disk'[n] = 0
        /\ entId'[n] = n /\ index'[p] = n
        /\ \A q \in Paths \ {p} : index'[q] = index[q]
    BY <2>b, <2>c, <2>d, <2>x, Zenon
  <2>f. entClosed'[n] = FALSE /\ \A f \in Ids \ {n} : entClosed'[f] = entClosed[f]
    <3>1. entClosed \in [Ids -> BOOLEAN]
      BY <2>a, Zenon DEF TypeOK
    <3> QED
      BY <2>c, <2>x, <3>1, Zenon
  <2>g. /\ ~Exists(n) /\ ~retired[n]
        /\ \A q \in Ids : Exists(q) => file[q] # n
        /\ \A q \in Ids : entId[q] # n
        /\ \A q \in Paths : index[q] # n
        /\ ns.pc = "cancelled" => n \notin ns.files
    <3>0. ~(n < n)
      BY <2>b
    <3>1. /\ ~Exists(n) /\ \A q \in Ids : Exists(q) => file[q] # n
      BY <2>a, <2>c, <3>0, Zenon DEF RowsIssued, FilesOwned
    <3>2. ~retired[n]
      BY <2>a, <2>c, <3>0, Zenon DEF Superseded
    <3>3. \A q \in Ids : entId[q] # n
      BY <2>a, <2>b DEF Shadows
    <3>4. \A q \in Paths : index[q] # n
      BY <2>a, <2>b, <2>c DEF Shadows, Shadow, Ids, None
    <3>5. ns.pc = "cancelled" => n \notin ns.files
      BY <2>a, <2>b DEF NameTaken
    <3> QED
      BY <3>1, <3>2, <3>3, <3>4, <3>5, Zenon
  <2>h. \A q \in Ids \ {n} : Exists(q)' <=> Exists(q)
    BY <2>e, Zenon DEF Exists
  <2>i. n # None
    BY <2>c, SpoolAssumption DEF Ids, None
  <2>1. FilesOwned'
    <3>1. \A r \in Ids : Exists(r)' => file'[r] < n + 1
      BY <2>a, <2>b, <2>e, <2>h DEF FilesOwned, Ids
    <3>2. \A r, q \in Ids : Exists(r)' /\ Exists(q)' /\ file'[r] = file'[q] => r = q
      BY <2>a, <2>e, <2>g, <2>h DEF FilesOwned
    <3> QED
      BY <2>c, <3>1, <3>2, Zenon DEF FilesOwned
  <2>2. LeasesHeld'
    <3>1. \A d \in Workers : wpc[d] # "idle" => job[d].id # n /\ job[d].id \in Ids
      BY <2>a, <2>b, CapRows DEF WorkersOwn, Owned
    <3>2. \A d \in Workers : wpc[d] \in {"held", "done"} =>
             /\ path'[job[d].id] = path[job[d].id]
             /\ file'[job[d].id] = file[job[d].id]
      BY <2>e, <3>1, Zenon
    <3>3. n \in Ids \cup {None}
      BY <2>c, Zenon
    <3>4. UNCHANGED <<ns, wpc, job>>
      BY <2>c, Zenon
    <3> QED
      BY <2>a, <2>c, <3>2, <3>3, <3>4, OpenedLeases, Zenon
  <2>3. Shadows'
    <3>1. \A f \in Ids : entId'[f] < nextId'
      BY <2>a, <2>b, <2>c, <2>e DEF Shadows, Ids, None
    <3>2. ASSUME NEW q \in Paths, q # p, index[q] # None PROVE Shadow(q)'
      <4>1. Shadow(q) /\ index[q] \in Ids /\ index[q] # n /\ entId[index[q]] # n
        BY <2>a, <2>b, <2>g, <3>2, Zenon DEF Shadows
      <4>2. entId[index[q]] # None /\ entId[index[q]] \in Ids
        BY <2>b, <3>2, <4>1, Zenon DEF Shadow
      <4>3. /\ index'[q] = index[q] /\ entId'[index[q]] = entId[index[q]]
            /\ st'[entId[index[q]]] = st[entId[index[q]]]
            /\ path'[entId[index[q]]] = path[entId[index[q]]]
            /\ file'[entId[index[q]]] = file[entId[index[q]]]
        BY <2>e, <3>2, <4>1, <4>2, Zenon
      <4>4. index[q] < nextId'
        BY <2>b, <2>c, <3>2, <4>1 DEF Shadow, Ids
      <4> QED
        BY <3>2, <4>1, <4>3, <4>4, Zenon DEF Shadow
    <3>3. Shadow(p)'
      <4>1. n < nextId'
        BY <2>b, <2>c
      <4> QED
        BY <2>e, <2>i, <4>1, Zenon DEF Shadow
    <3>4. ASSUME NEW q \in Paths, q # p, index[q] = None PROVE Shadow(q)'
      BY <2>e, <3>4, Zenon DEF Shadow
    <3> QED
      BY <3>1, <3>2, <3>3, <3>4, Zenon DEF Shadows
  <2>4. OpenLive'
    <3> SUFFICES ASSUME NEW f \in Ids, ~entClosed'[f] PROVE Live(f)'
      BY Zenon DEF OpenLive
    <3>1. CASE f = n
      BY <2>e, <2>i, <3>1, Zenon DEF Live
    <3>2. CASE f # n
      <4>1. Live(f)
        BY <2>a, <2>f, <3>2, Zenon DEF OpenLive
      <4>2. entId[f] \in Ids /\ entId[f] # n /\ path[entId[f]] \in Paths /\ f # None
        BY <2>b, <2>g, <4>1, SpoolAssumption DEF Live, Ids, None
      <4>3. \A q \in Paths : index[q] = f => index'[q] = f
        BY <2>c, <2>e, <4>2, Zenon
      <4>4. /\ entId'[f] = entId[f] /\ st'[entId[f]] = st[entId[f]]
            /\ file'[entId[f]] = file[entId[f]] /\ path'[entId[f]] = path[entId[f]]
        BY <2>e, <3>2, <4>2, Zenon
      <4>5. ns' = ns /\ ns.new \in Paths
        BY <2>b, <2>c, Zenon
      <4> QED
        BY <4>1, <4>2, <4>3, <4>4, <4>5, Zenon DEF Live
    <3> QED
      BY <3>1, <3>2, Zenon
  <2>5. FinClosed'
    <3>1. \A x \in fin : x.id \in Ids /\ x.id # n /\ x.id < nextId'
      <4>1. \A x \in fin : x.id \in Ids
        BY <2>a, Zenon DEF FinClosed, TypeOK
      <4>2. \A x \in fin : x.id < n /\ x.id \in Int
        BY <2>a, <4>1 DEF FinClosed, Ids
      <4> QED
        BY <2>b, <2>c, <4>1, <4>2
    <3>2. \A x \in fin : st'[x.id] \in {"none", "writing"}
      BY <2>a, <2>e, <3>1, Zenon DEF FinClosed
    <3>3. \A x \in fin, f \in Ids : entId'[f] = x.id => entClosed'[f]
      <4> SUFFICES ASSUME NEW x \in fin, NEW f \in Ids, entId'[f] = x.id
                   PROVE  entClosed'[f]
        BY Zenon
      <4>1. f # n /\ entId[f] = x.id
        BY <2>e, <3>1, Zenon
      <4> QED
        BY <2>a, <2>f, <4>1, Zenon DEF FinClosed
    <3>4. fin' = fin
      BY <2>c, Zenon
    <3> QED
      BY <2>a, <3>1, <3>2, <3>3, <3>4, Zenon DEF FinClosed
  <2>6. NameTaken'
    <3>1. ns.pc # "idle" => p # ns.new
      <4>1. lease[p] = w /\ w # Handler
        BY <2>a, <2>c, Actors, Zenon DEF LeasesHeld, WriterHolds
      <4> QED
        BY <2>a, <4>1, Zenon DEF LeasesHeld, NameHolds
    <3>2. ns.pc \in {"cancelled", "spooled"} =>
            \A r \in Ids : path'[r] = ns.new => st'[r] # "writing"
      BY <2>a, <2>e, <3>1, Zenon DEF NameTaken
    <3>3. ns.pc = "spooled" => index'[ns.new] = None
      BY <2>a, <2>b, <2>e, <3>1, Zenon DEF NameTaken
    <3>4. ns.pc = "cancelled" => \A f \in ns.files :
             f < nextId' /\ \A r \in Ids : Exists(r)' => file'[r] # f
      <4> SUFFICES ASSUME ns.pc = "cancelled", NEW f \in ns.files
                   PROVE  f < nextId' /\ \A r \in Ids : Exists(r)' => file'[r] # f
        BY Zenon
      <4>1. f < n /\ f # n /\ f \in Int /\ \A r \in Ids : Exists(r) => file[r] # f
        BY <2>a, <2>b, <2>g DEF NameTaken, Ids
      <4> QED
        BY <2>b, <2>c, <2>e, <2>h, <4>1
    <3>5. ns' = ns
      BY <2>c, Zenon
    <3> QED
      BY <3>2, <3>3, <3>4, <3>5, Zenon DEF NameTaken
  <2>7. Settling'
    <3>1. \A q \in Ids : st'[q] = "done" => q # n /\ st[q] = "done" /\ file'[q] # n
                                            /\ file'[q] = file[q]
      BY <2>e, <2>g, Zenon DEF Exists
    <3>2. \A q \in Ids : st'[q] = "done" => disk'[file'[q]] = disk[file[q]]
      BY <2>b, <2>e, <3>1
    <3>3. retrying # None => st'[retrying] = st[retrying]
      BY <2>a, <2>b, <2>e, <2>g, Zenon DEF Settling, Exists
    <3> QED
      BY <2>a, <2>c, <3>1, <3>2, <3>3, Zenon DEF Settling
  <2>8. Superseded'
    <3>1. \A q \in Ids : retired'[q] => q # n /\ st'[q] = st[q] /\ retired[q]
      BY <2>c, <2>e, <2>g, Zenon
    <3>2. \A q \in Ids : q < n => q < nextId'
      BY <2>b, <2>c DEF Ids
    <3> QED
      BY <2>a, <3>1, <3>2, Zenon DEF Superseded
  <2>9. Quiescent'
    <3>1. mode' = "up"
      BY <2>c, Serving, Zenon
    <3> QED
      BY <3>1, Zenon DEF Quiescent
  <2>10. Accounted
    <3>1. ~InUse(n) /\ ~InUse(n)'
      <4>1. ~(disk'[n] > 0)
        BY <2>e
      <4> QED
        BY <2>g, <4>1, Zenon DEF InUse, Charged, Exists
    <3>2. ASSUME NEW f \in Ids, f # n PROVE Charged(f)' <=> Charged(f)
      BY <2>e, <2>g, <3>2, Zenon DEF Charged, Exists
    <3>3. ASSUME NEW f \in Ids, f # n PROVE InUse(f)' <=> InUse(f)
      <4>1. disk'[f] = disk[f] /\ ns' = ns
        BY <2>c, <2>e, <3>3, Zenon
      <4> QED
        BY <3>2, <3>3, <4>1, Zenon DEF InUse
    <3>4. retrying # None => retrying # n /\ retrying \in Ids /\ file[retrying] # n
      BY <2>a, <2>b, <2>g, Zenon DEF Settling, Exists
    <3>5. retrying # None => st'[retrying] = st[retrying]
                             /\ disk'[file'[retrying]] = disk[file[retrying]]
      BY <2>b, <2>e, <3>4, Zenon
    <3>6. Retried' = Retried
      BY <2>c, <3>5, Zenon DEF Retried
    <3>7. UNCHANGED <<mode, used>>
      BY <2>c, Zenon
    <3> QED
      BY <2>a, <3>1, <3>3, <3>6, <3>7, SameUse, Zenon
  <2> QED
    BY <2>1, <2>2, <2>3, <2>4, <2>5, <2>6, <2>7, <2>8, <2>9, <2>10, Zenon
    DEF CapStep, CapInv, Structure

\* A save that is reopened takes writes under the row and name it had.
<1>CapReopen.
  ASSUME CapInv, IInv', NEW w \in Writers, ReopenReady(w) PROVE CapStep
  <2> USE <1>CapReopen
  <2> SUFFICES ASSUME NEW p, NEW f, NEW r,
                      p = wr[w].path, f = index[p], r = entId[f]
               PROVE  CapStep
    BY Zenon
  <2>a. /\ TypeOK /\ FilesOwned /\ LeasesHeld /\ Shadows /\ OpenLive /\ FinClosed
        /\ NameTaken /\ Settling /\ Superseded
    BY Zenon DEF CapInv, Structure, IInv
  <2>b. /\ st \in [Ids -> States] /\ path \in [Ids -> Paths] /\ file \in [Ids -> Ids]
        /\ index \in [Paths -> Ids \cup {None}]
        /\ entId \in [Ids -> Ids \cup {None}] /\ ns.new \in Paths
        /\ retrying \in Ids \cup {None}
    BY <2>a, CapTypes, Zenon
  <2>c. /\ wr[w].pc = "opening" /\ f # None /\ st[r] = "ready" /\ Opened(w, f)
        /\ UNCHANGED <<path, file, retired, nextId, holds, disk, mode, index, entId,
                       used, fin, wpc, job, ns, retrying>>
    BY Zenon DEF ReopenReady, Reopenable, columns, work
  <2>d. st' = [st EXCEPT ![r] = "writing"]
    BY Zenon DEF ReopenReady
  <2>x. ~retired[r] /\ entClosed' = [entClosed EXCEPT ![f] = FALSE]
    BY Zenon DEF ReopenReady, Reopenable
  <2>e. p \in Paths
    <3>1. wr[w] \in Requests
      BY <2>a, Zenon DEF TypeOK
    <3> QED
      BY <3>1, Zenon DEF Requests
  <2>f. f \in Ids /\ r \in Ids /\ path[r] = p /\ file[r] = f
    <3>1. Shadow(p) /\ f \in Ids
      BY <2>a, <2>b, <2>c, <2>e, Zenon DEF Shadows
    <3>2. r \in Ids \cup {None}
      BY <2>b, <3>1, Zenon
    <3>3. st[r] \in Pending
      BY <2>c, Zenon DEF Pending
    <3>4. r # None /\ path[r] = p /\ file[r] = f
      BY <2>c, <3>1, <3>3, Zenon DEF Shadow
    <3> QED
      BY <3>1, <3>2, <3>4, Zenon
  <2>g. st'[r] = "writing" /\ \A q \in Ids \ {r} : st'[q] = st[q]
    BY <2>b, <2>d, <2>f, Zenon
  <2>h. entClosed'[f] = FALSE /\ \A g \in Ids \ {f} : entClosed'[g] = entClosed[g]
    <3>1. entClosed \in [Ids -> BOOLEAN]
      BY <2>a, Zenon DEF TypeOK
    <3> QED
      BY <2>f, <2>x, <3>1, Zenon
  <2>i. \A q \in Ids : Exists(q)' <=> Exists(q)
    <3>1. st[r] # "none" /\ st'[r] # "none"
      BY <2>c, <2>g, Zenon
    <3> QED
      BY <2>g, <3>1, Zenon DEF Exists
  <2>1. FilesOwned'
    BY <2>a, <2>c, <2>i, Zenon DEF FilesOwned
  <2>2. LeasesHeld'
    <3>1. f \in Ids \cup {None}
      BY <2>f, Zenon
    <3> QED
      BY <2>a, <2>c, <3>1, OpenedLeases, Zenon
  <2>3. Shadows'
    <3>1. ASSUME NEW q \in Paths PROVE Shadow(q)'
      <4>1. Shadow(q)
        BY <2>a, Zenon DEF Shadows
      <4>2. index[q] # None => entId[index[q]] \in Ids
        BY <2>b, <4>1, Zenon DEF Shadow
      <4>3. \A s \in Ids : /\ st'[s] # "failed" <=> st[s] # "failed"
                           /\ st'[s] \in Pending <=> st[s] \in Pending
        BY <2>c, <2>g, Zenon DEF Pending
      <4> QED
        BY <2>c, <4>1, <4>2, <4>3, Zenon DEF Shadow
    <3> QED
      BY <2>a, <2>c, <3>1, Zenon DEF Shadows
  <2>4. OpenLive'
    <3> SUFFICES ASSUME NEW g \in Ids, ~entClosed'[g] PROVE Live(g)'
      BY Zenon DEF OpenLive
    <3>1. CASE g = f
      <4>1. r # None
        BY <2>f, SpoolAssumption DEF Ids, None
      <4> QED
        BY <2>c, <2>f, <2>g, <3>1, <4>1, Zenon DEF Live
    <3>2. CASE g # f
      <4>1. Live(g)
        BY <2>a, <2>h, <3>2, Zenon DEF OpenLive
      <4>2. entId[g] \in Ids /\ entId[g] # r
        BY <2>b, <2>c, <4>1, Zenon DEF Live
      <4>3. st'[entId[g]] = st[entId[g]]
        BY <2>g, <4>2, Zenon
      <4> QED
        BY <2>c, <4>1, <4>3, Zenon DEF Live
    <3> QED
      BY <3>1, <3>2, Zenon
  <2>5. FinClosed'
    <3>1. \A x \in fin : x.id \in Ids
      BY <2>a, Zenon DEF FinClosed, TypeOK
    <3>2. \A x \in fin : x.id # r
      BY <2>a, <2>c, Zenon DEF FinClosed
    <3>3. \A x \in fin : st'[x.id] = st[x.id]
      BY <2>g, <3>1, <3>2, Zenon
    <3>4. \A x \in fin, g \in Ids : entId[g] = x.id => entClosed'[g]
      BY <2>a, <2>h, <3>2, Zenon DEF FinClosed
    <3> QED
      BY <2>a, <2>c, <3>3, <3>4, Zenon DEF FinClosed
  <2>6. NameTaken'
    <3>1. ns.pc # "idle" => p # ns.new
      <4>1. lease[p] = w /\ w # Handler
        BY <2>a, <2>c, Actors, Zenon DEF LeasesHeld, WriterHolds
      <4> QED
        BY <2>a, <4>1, Zenon DEF LeasesHeld, NameHolds
    <3>2. ns.pc \in {"cancelled", "spooled"} =>
            \A q \in Ids : path[q] = ns.new => st'[q] # "writing"
      BY <2>a, <2>f, <2>g, <3>1, Zenon DEF NameTaken
    <3> QED
      BY <2>a, <2>c, <2>i, <3>2, Zenon DEF NameTaken
  <2>7. Settling'
    <3>1. \A q \in Ids : st'[q] = "done" => st[q] = "done"
      BY <2>g, Zenon
    <3>2. retrying # None => st'[retrying] = "failed"
      <4>1. retrying # None => retrying \in Ids /\ st[retrying] = "failed"
        BY <2>a, <2>b, Zenon DEF Settling
      <4>2. "failed" # "ready"
        BY Zenon
      <4> QED
        BY <2>c, <2>g, <4>1, <4>2, Zenon
    <3> QED
      BY <2>a, <2>c, <3>1, <3>2, Zenon DEF Settling
  <2>8. Superseded'
    <3>1. \A q \in Ids : retired[q] => st'[q] = st[q]
      BY <2>g, <2>x, Zenon
    <3> QED
      BY <2>a, <2>c, <3>1, Zenon DEF Superseded
  <2>9. Quiescent'
    <3>1. mode' = "up"
      BY <2>c, Serving, Zenon
    <3> QED
      BY <3>1, Zenon DEF Quiescent
  <2>10. Accounted
    <3>1. \A q \in Ids : \/ st'[q] = st[q]
                         \/ st[q] \in Charging /\ st'[q] \in Charging
      BY <2>c, <2>g, Zenon DEF Charging
    <3> QED
      BY <2>a, <2>c, <3>1, SameRows, Zenon
  <2> QED
    BY <2>1, <2>2, <2>3, <2>4, <2>5, <2>6, <2>7, <2>8, <2>9, <2>10, Zenon
    DEF CapStep, CapInv, Structure

\* No row that is not live shares the file of a live entry.
<1>LiveFile.
  ASSUME CapInv, NEW f \in Ids, Live(f), NEW q \in Ids, Exists(q), file[q] = f
  PROVE  st[q] = "writing"
  <2> USE <1>LiveFile
  <2>a. entId \in [Ids -> Ids \cup {None}] /\ FilesOwned /\ NameTaken
    BY CapTypes, Zenon DEF CapInv, Structure, IInv
  <2>b. entId[f] \in Ids
    BY <2>a, Zenon DEF Live
  <2>1. CASE st[entId[f]] = "writing" /\ file[entId[f]] = f
    <3>1. Exists(entId[f])
      BY <2>1, Zenon DEF Exists
    <3> QED
      BY <2>1, <2>a, <2>b, <3>1, Zenon DEF FilesOwned
  <2>2. CASE ns.pc = "cancelled" /\ f \in ns.files
    BY <2>2, <2>a, Zenon DEF NameTaken
  <2> QED
    BY <2>1, <2>2, Zenon DEF Live

\* A write charges the file that it makes non-empty, once.
<1>CapWrite.
  ASSUME CapInv, IInv', NEW w \in Writers, WriteAt(w) PROVE CapStep
  <2> USE <1>CapWrite
  <2> SUFFICES ASSUME NEW f, f = wr[w].file PROVE CapStep
    BY Zenon
  <2> DEFINE v == count["version"] + 1
  <2>a. /\ TypeOK /\ FilesOwned /\ LeasesHeld /\ Shadows /\ OpenLive /\ FinClosed
        /\ NameTaken /\ Settling /\ Superseded /\ Quiescent
    BY Zenon DEF CapInv, Structure, IInv
  <2>b. /\ file \in [Ids -> Ids] /\ disk \in [Ids -> Contents]
        /\ retrying \in Ids \cup {None} /\ used \in Int
    BY <2>a, CapTypes, Zenon
  <2>c. /\ wr[w].pc = "open" /\ disk' = [disk EXCEPT ![f] = v]
        /\ used' = used + (1 - Charge(f)) /\ v \in Versions
        /\ UNCHANGED <<st, path, file, retired, nextId, holds, mode, index, entId,
                       entClosed, lease, fin, wr, wpc, job, ns, retrying>>
    BY Zenon DEF WriteAt, table, columns, procs, work
  <2>d. v \in Int /\ v > 0
    <3>1. count \in [Events -> Nat]
      BY <2>a, Zenon DEF TypeOK
    <3> QED
      BY <3>1 DEF Events
  <2>e. f \in Ids
    <3>1. wr[w] \in Requests /\ f # None
      BY <2>a, <2>c, Zenon DEF TypeOK, LeasesHeld, WriterHolds
    <3> QED
      BY <3>1, Zenon DEF Requests
  <2> HIDE DEF v
  <2>f. Live(f)
    BY <2>a, <2>e, Zenon DEF OpenLive, WriteAt
  <2>g. disk'[f] = v /\ \A g \in Ids \ {f} : disk'[g] = disk[g]
    BY <2>b, <2>c, <2>e, Zenon
  <2>1. FilesOwned' /\ Shadows' /\ NameTaken'
    BY <2>a, <2>c, Zenon DEF FilesOwned, Exists, Shadows, Shadow, NameTaken
  <2>9. LeasesHeld'
    BY <2>a, <2>c, Zenon DEF LeasesHeld, WriterHolds, NameHolds, WorkerHolds
  <2>2. OpenLive' /\ FinClosed'
    BY <2>a, <2>c, Zenon DEF OpenLive, Live, FinClosed
  <2>10. Superseded' /\ Quiescent'
    BY <2>a, <2>c, Zenon DEF Superseded, Quiescent
  <2>3. \A q \in Ids : st[q] \in {"done", "failed"} => file[q] # f
    <3>1. \A q \in Ids : Exists(q) /\ file[q] = f => st[q] = "writing"
      BY <2>e, <2>f, <1>LiveFile, Zenon
    <3> QED
      BY <3>1, Zenon DEF Exists
  <2>4. Settling'
    <3>1. \A q \in Ids : st[q] = "done" => disk'[file[q]] = disk[file[q]]
      BY <2>b, <2>3, <2>g, Zenon
    <3> QED
      BY <2>a, <2>c, <3>1, Zenon DEF Settling
  <2>5. Retried' = Retried
    <3>1. retrying # None => disk'[file[retrying]] = disk[file[retrying]]
      <4>1. retrying # None => retrying \in Ids /\ st[retrying] = "failed"
        BY <2>a, <2>b, Zenon DEF Settling
      <4> QED
        BY <2>b, <2>3, <2>g, <4>1, Zenon
    <3> QED
      BY <2>c, <3>1, Zenon DEF Retried
  <2>6. \A g \in Ids \ {f} : InUse(g)' <=> InUse(g)
    BY <2>c, <2>g, Zenon DEF InUse, Charged
  <2>7. InUse(f)' /\ (InUse(f) <=> disk[f] > 0)
    <3>1. (disk[f] > 0 => InUse(f)) /\ (disk'[f] > 0 => InUse(f)')
      <4>1. entId[f] \in Ids
        <5>1. entId \in [Ids -> Ids \cup {None}]
          BY <2>a, CapTypes, Zenon
        <5> QED
          BY <2>e, <2>f, <5>1, Zenon DEF Live
      <4> QED
        BY <2>c, <2>f, <4>1, Zenon DEF Live, InUse, Charged
    <3>2. InUse(f) => disk[f] > 0
      BY Zenon DEF InUse, Charged
    <3> QED
      BY <2>d, <2>g, <3>1, <3>2, Zenon
  <2>8. Accounted
    <3>1. CASE disk[f] > 0
      <4>1. Charge(f) = 1
        BY <3>1, Zenon DEF Charge
      <4>2. UNCHANGED <<mode, used>>
        BY <2>b, <2>c, <4>1
      <4>3. \A g \in Ids : InUse(g)' <=> InUse(g)
        BY <2>6, <2>7, <3>1, Zenon
      <4> QED
        BY <2>a, <2>5, <4>2, <4>3, SameUse, Zenon
    <3>2. CASE ~(disk[f] > 0)
      <4>1. Charge(f) = 0
        BY <3>2, Zenon DEF Charge
      <4>2. Retried \in Int
        BY RetriedUnit, Zenon
      <4>3. used' = used + 1 + (Retried' - Retried)
        BY <2>b, <2>c, <2>5, <4>1, <4>2
      <4>4. mode' = mode
        BY <2>c, Zenon
      <4> QED
        BY <2>a, <2>e, <2>6, <2>7, <3>2, <4>3, <4>4, OneMore, Zenon
    <3> QED
      BY <3>1, <3>2, Zenon
  <2> QED
    BY <2>1, <2>2, <2>4, <2>8, <2>9, <2>10, Zenon DEF CapStep, CapInv, Structure

\* The sweeper closes a live entry, whose row has no other one.
<1>CapFinalize.
  ASSUME CapInv, IInv', NEW f \in Ids, finalizeLocked(f) PROVE CapStep
  <2> USE <1>CapFinalize
  <2> SUFFICES ASSUME NEW x, x = [id |-> entId[f], ver |-> disk[f]] PROVE CapStep
    BY Zenon
  <2>a. /\ TypeOK /\ FilesOwned /\ LeasesHeld /\ Shadows /\ OpenLive /\ FinClosed
        /\ NameTaken /\ Settling /\ Superseded
    BY Zenon DEF CapInv, Structure, IInv
  <2>c. /\ fin' = fin \cup {x} /\ mode = "up"
        /\ UNCHANGED <<st, path, file, retired, nextId, holds, disk, mode, index,
                       entId, used, lease, wr, wpc, job, ns, retrying>>
    BY Zenon DEF finalizeLocked, table, columns, work
  <2>d. entClosed'[f] = TRUE /\ \A g \in Ids \ {f} : entClosed'[g] = entClosed[g]
    <3>1. entClosed \in [Ids -> BOOLEAN] /\ entClosed' = [entClosed EXCEPT ![f] = TRUE]
      BY <2>a, Zenon DEF finalizeLocked, TypeOK
    <3> QED
      BY <3>1, Zenon
  <2>e. Live(f) /\ x.id = entId[f]
    BY <2>a, Zenon DEF OpenLive, finalizeLocked
  <2>f. \A g \in Ids : Live(g) /\ entId[g] = entId[f] => g = f
    BY <2>e, Zenon DEF Live
  <2>1. FilesOwned' /\ Shadows' /\ NameTaken'
    BY <2>a, <2>c, Zenon DEF FilesOwned, Exists, Shadows, Shadow, NameTaken
  <2>2. LeasesHeld'
    BY <2>a, <2>c, Zenon DEF LeasesHeld, WriterHolds, NameHolds, WorkerHolds
  <2>3. OpenLive'
    <3>1. \A g \in Ids : ~entClosed'[g] => ~entClosed[g]
      BY <2>d, Zenon
    <3> QED
      BY <2>a, <2>c, <3>1, Zenon DEF OpenLive, Live
  <2>4. FinClosed'
    <3>1. /\ x.id # None /\ x.id < nextId' /\ st'[x.id] \in {"none", "writing"}
      BY <2>a, <2>c, <2>e, Zenon DEF Live, Shadows
    <3>2. \A g \in Ids : entId'[g] = x.id => entClosed'[g]
      <4>1. \A g \in Ids : entId[g] = x.id /\ ~entClosed[g] => g = f
        BY <2>a, <2>e, <2>f, Zenon DEF OpenLive
      <4> QED
        BY <2>c, <2>d, <4>1, Zenon
    <3>3. \A y \in fin : y.id # x.id
      BY <2>a, <2>e, Zenon DEF FinClosed, finalizeLocked
    <3>4. \A y \in fin, g \in Ids : entId'[g] = y.id => entClosed'[g]
      BY <2>a, <2>c, <2>d, Zenon DEF FinClosed
    <3>5. \A y \in fin' : y \in fin \/ y = x
      BY <2>c, Zenon
    <3>6. \A y \in fin : /\ y.id # None /\ y.id < nextId'
                         /\ st'[y.id] \in {"none", "writing"}
      BY <2>a, <2>c, Zenon DEF FinClosed
    <3>7. \A y, z \in fin' : y.id = z.id => y = z
      BY <2>a, <3>3, <3>5, Zenon DEF FinClosed
    <3> QED
      BY <3>1, <3>2, <3>4, <3>5, <3>6, <3>7, Zenon DEF FinClosed
  <2>5. Settling' /\ Superseded'
    BY <2>a, <2>c, Zenon DEF Settling, Superseded
  <2>6. Quiescent'
    BY <2>c, Zenon DEF Quiescent
  <2>7. Accounted
    BY <2>a, <2>c, SameRows, Zenon
  <2> QED
    BY <2>1, <2>2, <2>3, <2>4, <2>5, <2>6, <2>7, Zenon DEF CapStep, CapInv,
       Structure

\* MarkReady finds the row of a closed entry, which nobody else finalizes.
<1>CapMarkReady.
  ASSUME CapInv, IInv', NEW x \in fin, MarkReady(x) PROVE CapStep
  <2> USE <1>CapMarkReady
  <2> SUFFICES ASSUME NEW r, r = x.id PROVE CapStep
    BY Zenon
  <2>a. /\ TypeOK /\ FilesOwned /\ LeasesHeld /\ Shadows /\ OpenLive /\ FinClosed
        /\ NameTaken /\ Settling /\ Quiescent /\ Superseded
    BY Zenon DEF CapInv, Structure, IInv
  <2>b. /\ st \in [Ids -> States] /\ retrying \in Ids \cup {None}
        /\ entId \in [Ids -> Ids \cup {None}]
        /\ index \in [Paths -> Ids \cup {None}]
    BY <2>a, CapTypes, Zenon
  <2>c. /\ fin' = fin \ {x}
        /\ \/ st' = st
           \/ st[r] = "writing" /\ st' = [st EXCEPT ![r] = "ready"]
        /\ UNCHANGED <<path, file, retired, nextId, holds, disk, mode, index, entId,
                       entClosed, used, lease, wr, wpc, job, ns, retrying>>
    BY Zenon DEF MarkReady, ram, work
  <2>d. \A y \in fin : y.id \in Ids
    BY <2>a, Zenon DEF FinClosed, TypeOK
  <2>e. /\ r \in Ids
        /\ \A q \in Ids : \/ st'[q] = st[q]
                          \/ q = r /\ st[q] = "writing" /\ st'[q] = "ready"
    BY <2>b, <2>c, <2>d, Zenon
  <2>f. \A q \in Ids : Exists(q)' <=> Exists(q)
    BY <2>e, Zenon DEF Exists
  <2>1. FilesOwned'
    BY <2>a, <2>c, <2>f, Zenon DEF FilesOwned
  <2>2. LeasesHeld'
    BY <2>a, <2>c, Zenon DEF LeasesHeld, WriterHolds, NameHolds, WorkerHolds
  <2>3. Shadows'
    <3>1. \A q \in Ids : /\ st'[q] = "failed" => st[q] = "failed"
                         /\ st'[q] \in Pending => st[q] \in Pending
      BY <2>e, Zenon DEF Pending
    <3>2. ASSUME NEW p \in Paths PROVE Shadow(p)'
      <4>1. Shadow(p)
        BY <2>a, Zenon DEF Shadows
      <4>2. index[p] # None => entId[index[p]] \in Ids
        BY <2>b, <4>1, Zenon DEF Shadow
      <4> QED
        BY <2>c, <3>1, <4>1, <4>2, Zenon DEF Shadow
    <3> QED
      BY <2>a, <2>c, <3>2, Zenon DEF Shadows
  <2>4. OpenLive'
    <3> SUFFICES ASSUME NEW f \in Ids, ~entClosed'[f] PROVE Live(f)'
      BY Zenon DEF OpenLive
    <3>1. Live(f) /\ entId[f] # r
      BY <2>a, <2>c, Zenon DEF OpenLive, FinClosed
    <3>2. entId[f] \in Ids
      BY <2>b, <3>1, Zenon DEF Live
    <3>3. st'[entId[f]] = st[entId[f]]
      BY <2>e, <3>1, <3>2, Zenon
    <3> QED
      BY <2>c, <3>1, <3>3, Zenon DEF Live
  <2>5. FinClosed'
    <3>1. \A y \in fin' : y \in fin /\ y.id # r
      BY <2>a, <2>c, Zenon DEF FinClosed
    <3>2. \A y \in fin' : st'[y.id] = st[y.id]
      BY <2>d, <2>e, <3>1, Zenon
    <3> QED
      BY <2>a, <2>c, <3>1, <3>2, Zenon DEF FinClosed
  <2>6. NameTaken'
    <3>1. \A q \in Ids : st'[q] = "writing" => st[q] = "writing"
      BY <2>e, Zenon
    <3> QED
      BY <2>a, <2>c, <2>f, <3>1, Zenon DEF NameTaken
  <2>7. Settling'
    <3>1. \A q \in Ids : /\ st'[q] = "done" => st[q] = "done"
                         /\ st[q] = "failed" => st'[q] = "failed"
      BY <2>e, Zenon
    <3> QED
      BY <2>a, <2>b, <2>c, <3>1, Zenon DEF Settling
  <2>8. Superseded'
    <3>1. \A q \in Ids : st'[q] \in Pending => st[q] \in Pending
      BY <2>e, Zenon DEF Pending
    <3> QED
      BY <2>a, <2>c, <3>1, Zenon DEF Superseded
  <2>9. Quiescent'
    <3>1. fin = {} => fin' = {}
      BY <2>c, Zenon
    <3> QED
      BY <2>a, <2>c, <3>1, Zenon DEF Quiescent
  <2>10. Accounted
    <3>1. \A q \in Ids : \/ st'[q] = st[q]
                         \/ st[q] \in Charging /\ st'[q] \in Charging
      BY <2>e, Zenon DEF Charging
    <3> QED
      BY <2>a, <2>c, <3>1, SameRows, Zenon
  <2> QED
    BY <2>1, <2>2, <2>3, <2>4, <2>5, <2>6, <2>7, <2>8, <2>9, <2>10, Zenon
    DEF CapStep, CapInv, Structure

<1> SUFFICES ASSUME CapInv, IInv', Client \/ Sweeper PROVE CapStep
  BY Zenon
<1> QED
  BY <1>CapOpen, <1>CapReopen, <1>CapOpenFresh, <1>CapWrite, <1>CapFinalize,
     <1>CapMarkReady,
     Zenon DEF Client, Sweeper

-----------------------------------------------------------------------------
(* Drain workers.                                                          *)

LEMMA CapWorker ==
  CapInv /\ IInv' /\ (\E d \in Workers : Worker(d)) => CapStep
\* A worker goes on, or leaves, without touching a lease.
<1>WorkerMoves.
  ASSUME LeasesHeld, NEW d \in Workers, UNCHANGED <<ns, wr, path, file, lease>>,
         \A e \in Workers \ {d} : wpc'[e] = wpc[e] /\ job'[e] = job[e],
         WorkerHolds(d)'
  PROVE  LeasesHeld'
  <2> USE <1>WorkerMoves
  <2>1. \A w \in Writers : WriterHolds(w)'
    BY Zenon DEF LeasesHeld, WriterHolds
  <2>2. ASSUME NEW e \in Workers, e # d PROVE WorkerHolds(e)'
    <3>1. WorkerHolds(e) /\ wpc'[e] = wpc[e] /\ job'[e] = job[e]
      BY <2>2, Zenon DEF LeasesHeld
    <3> QED
      BY <3>1, Zenon DEF WorkerHolds
  <2>3. NameHolds'
    BY Zenon DEF LeasesHeld, NameHolds
  <2> QED
    BY <2>1, <2>2, <2>3, Zenon DEF LeasesHeld

\* What the step of a worker does to its program counter.
<1>WorkerAt.
  ASSUME TypeOK, NEW d \in Workers, NEW pc, At(d, pc)
  PROVE  wpc'[d] = pc /\ \A e \in Workers \ {d} : wpc'[e] = wpc[e]
  <2> USE <1>WorkerAt
  <2>1. wpc \in [Workers -> WorkerPcs]
    BY Zenon DEF TypeOK
  <2> QED
    BY <2>1, Zenon DEF At

<1>WorkerLeft.
  ASSUME TypeOK, NEW d \in Workers, Leave(d)
  PROVE  /\ wpc'[d] = "idle" /\ WorkerHolds(d)'
         /\ \A e \in Workers \ {d} : wpc'[e] = wpc[e] /\ job'[e] = job[e]
  <2> USE <1>WorkerLeft
  <2>1. job \in [Workers -> Jobs] /\ job' = [job EXCEPT ![d] = SomeJob] /\ At(d, "idle")
    BY Zenon DEF TypeOK, Leave
  <2>2. wpc'[d] = "idle" /\ \A e \in Workers \ {d} : wpc'[e] = wpc[e]
    BY <2>1, <1>WorkerAt, Zenon
  <2>3. \A e \in Workers \ {d} : job'[e] = job[e]
    BY <2>1, Zenon
  <2>4. WorkerHolds(d)'
    BY <2>2, Zenon DEF WorkerHolds
  <2> QED
    BY <2>2, <2>3, <2>4, Zenon

\* A row goes on in the drain, or back to the queue: its bytes stay charged.
<1>CapRow.
  ASSUME CapInv, IInv', LeasesHeld', NEW r \in Ids, holds \subseteq holds',
         UNCHANGED <<path, file, retired, nextId, disk, mode, index, entId,
                     entClosed, fin, wr, ns, retrying, used>>,
         \A q \in Ids : \/ st'[q] = st[q]
                        \/ /\ q = r /\ st[q] \in {"ready", "draining"}
                           /\ st'[q] \in {"ready", "draining", "done"}
                           /\ st'[q] = "done" => r \in holds
  PROVE  CapStep
  <2> USE <1>CapRow
  <2>a. /\ TypeOK /\ Structure
        /\ st \in [Ids -> States] /\ st' \in [Ids -> States]
    BY Zenon DEF CapInv, IInv, TypeOK
  <2>1. Structure'
    <3>1. CASE st'[r] = st[r]
      <4>1. \A q \in Ids : st'[q] = st[q]
        BY <3>1, Zenon
      <4>2. st' = st
        BY <2>a, <4>1
      <4> QED
        BY <2>a, <4>2, QuietTable, Zenon
    <3>2. CASE st'[r] # st[r]
      <4>1. /\ \A q \in Ids \ {r} : st'[q] = st[q]
            /\ st[r] \in {"ready", "draining"} /\ st'[r] # "failed"
            /\ st'[r] \in {"ready", "draining", "done", "failed"}
            /\ st'[r] = "done" => r \in holds
        BY <3>2, Zenon
      <4>2. \A p \in Paths : \/ index'[p] = index[p] /\ (st'[r] = "failed" =>
                                  index[p] = None \/ entId[index[p]] # r)
                             \/ index'[p] = None /\ entId[index[p]] = r
        BY <4>1, Zenon
      <4> QED
        BY <2>a, <4>1, <4>2, DrainTable, Zenon
    <3> QED
      BY <3>1, <3>2, Zenon
  <2>2. \A q \in Ids : \/ st'[q] = st[q]
                       \/ st[q] \in Charging /\ st'[q] \in Charging
    BY Zenon DEF Charging
  <2>3. Accounted
    BY <2>2, <2>a, SameRows, Zenon
  <2> QED
    BY <2>1, <2>3, Zenon DEF CapStep, CapInv

\* A drain that fails returns the bytes of its own row and nothing else.
<1>CapFail.
  ASSUME CapInv, IInv', LeasesHeld', NEW d \in Workers, NEW i,
         FailClaimedDrain(d, i),
         UNCHANGED <<path, file, retired, nextId, holds, disk, mode, entId,
                     entClosed, fin, wr, ns, retrying>>
  PROVE  CapStep
  <2> USE <1>CapFail
  <2> SUFFICES ASSUME NEW r, NEW p, NEW f,
                      r = job[d].id, p = job[d].path, f = job[d].file
               PROVE  CapStep
    BY Zenon
  <2>a. /\ TypeOK /\ Structure /\ FilesOwned /\ Shadows /\ NameTaken
        /\ Settling
    BY Zenon DEF CapInv, Structure, IInv
  <2>b. /\ st \in [Ids -> States] /\ path \in [Ids -> Paths] /\ file \in [Ids -> Ids]
        /\ index \in [Paths -> Ids \cup {None}]
        /\ entId \in [Ids -> Ids \cup {None}]
        /\ retrying \in Ids \cup {None} /\ used \in Int /\ ns.files \subseteq Ids
    BY <2>a, CapTypes, Zenon
  <2>c. r \in Ids /\ p \in Paths /\ f \in Ids
    <3>1. job[d] \in Jobs
      BY <2>a, Zenon DEF TypeOK
    <3> QED
      BY <3>1, Zenon DEF Jobs
  <2>1. CASE st' = st /\ used' = used /\ index' = index
    <3>1. holds \subseteq holds'
      BY Zenon
    <3> QED
      BY <2>1, <3>1, <1>CapRow, <2>c, Zenon
  <2>2. CASE /\ st[r] = "draining" /\ path[r] = p /\ file[r] = f
             /\ st' = [st EXCEPT ![r] = "failed"] /\ used' = used - Charge(f)
             /\ index' = IF index[p] # None /\ entId[index[p]] = r
                         THEN [index EXCEPT ![p] = None] ELSE index
    <3>1. st'[r] = "failed" /\ \A q \in Ids \ {r} : st'[q] = st[q]
      BY <2>2, <2>b, <2>c, Zenon
    <3>2. \A q \in Paths : index[q] # None /\ entId[index[q]] = r => q = p
      <4>1. st[r] \in Pending
        BY <2>2, Zenon DEF Pending
      <4> QED
        BY <2>2, <2>a, <4>1, Zenon DEF Shadows, Shadow
    <3>3. \A q \in Paths : \/ index'[q] = index[q] /\ (st'[r] = "failed" =>
                                index[q] = None \/ entId[index[q]] # r)
                           \/ index'[q] = None /\ entId[index[q]] = r
      <4>1. CASE index[p] # None /\ entId[index[p]] = r
        <5>1. index' = [index EXCEPT ![p] = None]
          BY <2>2, <4>1, Zenon
        <5>2. index'[p] = None /\ \A q \in Paths \ {p} : index'[q] = index[q]
          BY <2>b, <2>c, <5>1, Zenon
        <5> QED
          BY <3>2, <4>1, <5>2, Zenon
      <4>2. CASE ~(index[p] # None /\ entId[index[p]] = r)
        <5>1. index' = index
          BY <2>2, <4>2, Zenon
        <5> QED
          BY <3>2, <4>2, <5>1, Zenon
      <4> QED
        BY <4>1, <4>2, Zenon
    <3>4. Structure'
      <4>1. /\ st[r] \in {"ready", "draining"} /\ holds \subseteq holds'
            /\ st'[r] \in {"ready", "draining", "done", "failed"}
            /\ st'[r] = "done" => r \in holds
        BY <2>2, <3>1, Zenon
      <4> QED
        BY <2>a, <2>c, <3>1, <3>3, <4>1, DrainTable, Zenon
    <3>5. Retried' = Retried
      <4>1. retrying # None => retrying \in Ids /\ st[retrying] = "failed"
        BY <2>a, <2>b, Zenon DEF Settling
      <4>2. retrying # None => st'[retrying] = st[retrying]
        BY <2>2, <3>1, <4>1, Zenon
      <4> QED
        BY <4>2, Zenon DEF Retried
    <3>6. \A q \in Ids : Exists(q) /\ file[q] = f => q = r
      <4>1. Exists(r)
        BY <2>2, Zenon DEF Exists
      <4> QED
        BY <2>2, <2>a, <2>c, <4>1, Zenon DEF FilesOwned
    <3>7. \A g \in Ids \ {f} : Charged(g)' <=> Charged(g)
      BY <2>2, <3>1, Zenon DEF Charged
    <3>8. \A g \in Ids \ {f} : InUse(g)' <=> InUse(g)
      BY <3>7, Zenon DEF InUse
    <3>9. ~InUse(f)'
      <4>1. ~Charged(f)'
        BY <3>1, <3>6, Zenon DEF Charged, Exists
      <4>2. ~(ns.pc = "cancelled" /\ f \in ns.files)
        <5>1. Exists(r)
          BY <2>2, Zenon DEF Exists
        <5> QED
          BY <2>2, <2>a, <2>c, <5>1, Zenon DEF NameTaken
      <4> QED
        BY <4>1, <4>2, Zenon DEF InUse
    <3>10. Accounted
      <4>1. CASE disk[f] > 0
        <5>1. InUse(f)
          BY <2>2, <2>c, <4>1, Zenon DEF InUse, Charged
        <5>2. Charge(f) = 1
          BY <4>1, Zenon DEF Charge
        <5>3. used' = used - 1 /\ mode' = mode
          BY <2>2, <5>2, Zenon
        <5> QED
          BY <2>a, <2>c, <3>5, <3>8, <3>9, <5>1, <5>3, OneLess, Zenon
      <4>2. CASE ~(disk[f] > 0)
        <5>1. ~InUse(f)
          BY <4>2, Zenon DEF InUse, Charged
        <5>2. Charge(f) = 0
          BY <4>2, Zenon DEF Charge
        <5>3. UNCHANGED <<mode, used>>
          BY <2>2, <2>b, <5>2
        <5>4. \A g \in Ids : InUse(g)' <=> InUse(g)
          BY <3>8, <3>9, <5>1, Zenon
        <5> QED
          BY <2>a, <3>5, <5>3, <5>4, SameUse, Zenon
      <4> QED
        BY <4>1, <4>2, Zenon
    <3> QED
      BY <3>4, <3>10, Zenon DEF CapStep, CapInv
  <2> QED
    BY <2>1, <2>2, Zenon DEF FailClaimedDrain, drainStillClaimed

\* A completed drain removes the file of its row and returns its bytes.
<1>CapComplete.
  ASSUME CapInv, IInv', NEW d \in Workers, CompleteAcknowledgedDrain(d)
  PROVE  CapStep
  <2> USE <1>CapComplete
  <2> SUFFICES ASSUME NEW r, NEW p, NEW f,
                      r = job[d].id, p = job[d].path, f = job[d].file
               PROVE  CapStep
    BY Zenon
  <2>a. /\ TypeOK /\ FilesOwned /\ LeasesHeld /\ Shadows /\ OpenLive /\ FinClosed
        /\ NameTaken /\ Settling /\ Superseded /\ WorkersOwn
    BY Zenon DEF CapInv, Structure, IInv
  <2>b. /\ st \in [Ids -> States] /\ path \in [Ids -> Paths] /\ file \in [Ids -> Ids]
        /\ index \in [Paths -> Ids \cup {None}] /\ disk \in [Ids -> Contents]
        /\ entId \in [Ids -> Ids \cup {None}] /\ ns.new \in Paths
        /\ retrying \in Ids \cup {None} /\ used \in Int
    BY <2>a, CapTypes, Zenon
  <2>c. r \in Ids /\ p \in Paths /\ f \in Ids
    <3>1. job[d] \in Jobs
      BY <2>a, Zenon DEF TypeOK
    <3> QED
      BY <3>1, Zenon DEF Jobs
  <2>d. /\ wpc[d] = "done" /\ disk' = [disk EXCEPT ![f] = NoFile]
        /\ used' = used - Charge(f) /\ holds' = holds \ {r}
        /\ lease' = [lease EXCEPT ![p] = Free]
        /\ At(d, "idle") /\ job' = [job EXCEPT ![d] = SomeJob]
        /\ index' = IF index[p] # None /\ entId[index[p]] = r
                    THEN [index EXCEPT ![p] = None] ELSE index
        /\ UNCHANGED <<st, path, file, retired, nextId, mode, entId, entClosed, fin,
                       wr, ns, retrying>>
    BY Zenon DEF CompleteAcknowledgedDrain, columns
  <2>e. st[r] = "done" /\ r \in holds /\ file[r] = f /\ lease[p] = d
    <3>1. Owned(d) /\ WorkerHolds(d)
      BY <2>a, Zenon DEF WorkersOwn, LeasesHeld
    <3> QED
      BY <2>d, <3>1, Zenon DEF Owned, WorkerHolds
  <2>f. \A q \in Paths : \/ index'[q] = index[q]
                         \/ index'[q] = None /\ index[q] # None /\ entId[index[q]] = r
    BY <2>b, <2>c, <2>d, Zenon
  <2>g. disk'[f] = NoFile /\ \A g \in Ids \ {f} : disk'[g] = disk[g]
    BY <2>b, <2>c, <2>d, Zenon
  <2>h. \A q \in Ids : Exists(q) /\ file[q] = f => q = r
    <3>1. Exists(r)
      BY <2>e, Zenon DEF Exists
    <3> QED
      BY <2>a, <2>c, <2>e, <3>1, Zenon DEF FilesOwned
  <2>1. FilesOwned' /\ FinClosed' /\ Superseded'
    BY <2>a, <2>d, Zenon DEF FilesOwned, Exists, FinClosed, Superseded
  <2>2. LeasesHeld'
    <3>1. \A q \in Paths \ {p} : lease'[q] = lease[q]
      <4>1. lease \in [Paths -> {Free, Poisoned, Handler} \cup Writers \cup Workers]
        BY <2>a, Zenon DEF TypeOK
      <4> QED
        BY <2>d, <4>1, Zenon
    <3>2. wpc'[d] = "idle" /\ \A e \in Workers \ {d} : wpc'[e] = wpc[e]
      BY <2>a, <2>d, <1>WorkerAt, Zenon
    <3>3. \A e \in Workers \ {d} : job'[e] = job[e]
      <4>1. job \in [Workers -> Jobs]
        BY <2>a, Zenon DEF TypeOK
      <4> QED
        BY <2>d, <4>1, Zenon
    <3>4. WorkerHolds(d)'
      BY <3>2, Zenon DEF WorkerHolds
    <3>5. lease[p] \in {Free, d}
      BY <2>e, Zenon
    <3>6. UNCHANGED <<ns, wr, path, file>>
      BY <2>d, Zenon
    <3> QED
      BY <2>a, <2>c, <3>1, <3>2, <3>3, <3>4, <3>5, <3>6, WorkerLeases, Zenon
  <2>3. Shadows'
    <3>1. ASSUME NEW q \in Paths PROVE Shadow(q)'
      <4>1. Shadow(q)
        BY <2>a, Zenon DEF Shadows
      <4> QED
        BY <2>d, <2>f, <4>1, Zenon DEF Shadow
    <3> QED
      BY <2>a, <2>d, <3>1, Zenon DEF Shadows
  <2>4. OpenLive'
    <3> SUFFICES ASSUME NEW g \in Ids, ~entClosed'[g] PROVE Live(g)'
      BY Zenon DEF OpenLive
    <3>1. Live(g)
      BY <2>a, <2>d, Zenon DEF OpenLive
    <3>2. entId[g] # r /\ entId[g] \in Ids
      BY <2>b, <2>e, <3>1, Zenon DEF Live
    <3>3. \A q \in Paths : index[q] = g => index'[q] = g
      BY <2>f, <3>2, Zenon
    <3>4. path[entId[g]] \in Paths
      BY <2>b, <3>2, Zenon
    <3> QED
      BY <2>b, <2>d, <3>1, <3>3, <3>4, Zenon DEF Live
  <2>5. NameTaken'
    <3>1. index[ns.new] = None => index'[ns.new] = None
      BY <2>b, <2>f, Zenon
    <3> QED
      BY <2>a, <2>d, <3>1, Zenon DEF NameTaken, Exists
  <2>6. Settling'
    <3>1. \A q \in Ids : disk'[file[q]] = disk[file[q]] \/ disk'[file[q]] = NoFile
      BY <2>b, <2>g, Zenon
    <3>2. \A q \in Ids : q \in holds => q \in holds' \/ q = r
      BY <2>d, Zenon
    <3>3. \A q \in Ids : st[q] = "done" => q \in holds' \/ disk'[file[q]] = NoFile
      BY <2>a, <2>e, <2>g, <3>1, <3>2, Zenon DEF Settling
    <3> QED
      BY <2>a, <2>d, <3>3, Zenon DEF Settling
  <2>7. Quiescent'
    <3>1. wpc[d] # "idle"
      BY <2>d, Zenon
    <3>2. mode' = "up"
      BY <2>a, <2>d, <3>1, Zenon DEF WorkersOwn
    <3> QED
      BY <3>2, Zenon DEF Quiescent
  <2>8. Retried' = Retried
    <3>1. retrying # None => retrying \in Ids /\ st[retrying] = "failed"
      BY <2>a, <2>b, Zenon DEF Settling
    <3>2. retrying # None => retrying # r /\ Exists(retrying)
      BY <2>e, <3>1, Zenon DEF Exists
    <3>3. retrying # None => file[retrying] # f /\ file[retrying] \in Ids
      BY <2>b, <2>h, <3>1, <3>2, Zenon
    <3>4. retrying # None => disk'[file[retrying]] = disk[file[retrying]]
      BY <2>g, <3>3, Zenon
    <3> QED
      BY <2>d, <3>4, Zenon DEF Retried
  <2>9. \A g \in Ids \ {f} : InUse(g)' <=> InUse(g)
    <3>1. ASSUME NEW g \in Ids, g # f PROVE InUse(g)' <=> InUse(g)
      <4>1. disk'[g] = disk[g]
        BY <2>g, <3>1, Zenon
      <4> QED
        BY <2>d, <4>1, Zenon DEF InUse, Charged
    <3> QED
      BY <3>1, Zenon
  <2>10. ~InUse(f)'
    <3>1. ~(disk'[f] > 0)
      BY <2>g DEF NoFile
    <3> QED
      BY <3>1, Zenon DEF InUse, Charged
  <2>11. Accounted
    <3>1. CASE disk[f] > 0
      <4>1. InUse(f)
        BY <2>c, <2>e, <3>1, Zenon DEF InUse, Charged
      <4>2. Charge(f) = 1
        BY <3>1, Zenon DEF Charge
      <4>3. used' = used - 1 /\ mode' = mode
        BY <2>d, <4>2, Zenon
      <4> QED
        BY <2>a, <2>c, <2>8, <2>9, <2>10, <4>1, <4>3, OneLess, Zenon
    <3>2. CASE ~(disk[f] > 0)
      <4>1. ~InUse(f)
        BY <3>2, Zenon DEF InUse, Charged
      <4>2. Charge(f) = 0
        BY <3>2, Zenon DEF Charge
      <4>3. used' = used - 0
        BY <2>d, <4>2, Zenon
      <4>4. used' = used /\ mode' = mode
        <5>1. mode' = mode
          BY <2>d, Zenon
        <5> QED
          BY <2>b, <4>3, <5>1
      <4>5. \A g \in Ids : InUse(g)' <=> InUse(g)
        BY <2>9, <2>10, <4>1, Zenon
      <4> QED
        BY <2>a, <2>8, <4>4, <4>5, SameUse, Zenon
    <3> QED
      BY <3>1, <3>2, Zenon
  <2> QED
    BY <2>1, <2>2, <2>3, <2>4, <2>5, <2>6, <2>7, <2>11, Zenon
    DEF CapStep, CapInv, Structure

\* A worker that leaves with its row requeued or as it was.
<1>CapRequeue.
  ASSUME CapInv, IInv', NEW d \in Workers, Leave(d),
         UNCHANGED <<path, file, retired, nextId, disk, mode, index, entId,
                     entClosed, fin, wr, ns, retrying, used, holds, lease>>,
         \/ st' = st
         \/ st[job[d].id] = "draining" /\ st' = [st EXCEPT ![job[d].id] = "ready"]
  PROVE  CapStep
  <2> USE <1>CapRequeue
  <2>a. TypeOK /\ LeasesHeld /\ st \in [Ids -> States] /\ job[d].id \in Ids
    BY CapRows, Zenon DEF CapInv, Structure, IInv
  <2>1. LeasesHeld'
    BY <2>a, <1>WorkerLeft, <1>WorkerMoves, Zenon
  <2>2. \A q \in Ids : \/ st'[q] = st[q]
                       \/ /\ q = job[d].id /\ st[q] \in {"ready", "draining"}
                          /\ st'[q] \in {"ready", "draining", "done"}
                          /\ st'[q] = "done" => job[d].id \in holds
    BY <2>a, Zenon
  <2>3. holds \subseteq holds'
    BY Zenon
  <2> QED
    BY <2>1, <2>2, <2>3, <2>a, <1>CapRow, Zenon

\* A worker goes on without touching rows, entries or leases.
<1>CapGoOn.
  ASSUME CapInv, IInv', NEW d \in Workers, WorkerHolds(d)',
         \A e \in Workers \ {d} : wpc'[e] = wpc[e] /\ job'[e] = job[e],
         UNCHANGED <<st, path, file, retired, nextId, disk, mode, index, entId,
                     entClosed, fin, wr, ns, retrying, used, holds, lease>>
  PROVE  CapStep
  <2> USE <1>CapGoOn
  <2>1. LeasesHeld'
    BY <1>WorkerMoves, Zenon DEF CapInv, Structure
  <2>2. holds \subseteq holds'
    BY Zenon
  <2> QED
    BY <2>1, <2>2, QuietCap, Zenon

<1> SUFFICES ASSUME CapInv, IInv', NEW d \in Workers, Worker(d) PROVE CapStep
  BY Zenon
<1>a. TypeOK /\ LeasesHeld /\ WorkersOwn /\ Owned(d) /\ IInv'
  BY Zenon DEF CapInv, Structure, IInv, WorkersOwn
<1>b. /\ st \in [Ids -> States] /\ job \in [Workers -> Jobs] /\ job[d].id \in Ids
      /\ lease \in [Paths -> {Free, Poisoned, Handler} \cup Writers \cup Workers]
  BY <1>a, CapRows, Zenon DEF TypeOK
<1>c. job[d].path \in Paths
  BY <1>b, Zenon DEF Jobs
<1>1. ASSUME NEW r \in Ids, markDraining(d, r) PROVE CapStep
  <2>1. /\ st[r] = "ready" /\ st' = [st EXCEPT ![r] = "draining"]
        /\ At(d, "claimed") /\ job' = [job EXCEPT ![d] =
             [id |-> r, path |-> SomePath, file |-> 1, ver |-> 0]]
        /\ UNCHANGED <<path, file, retired, nextId, holds, disk, mode, index, entId,
                       entClosed, used, lease, fin, wr, ns, retrying>>
    BY <1>1, Zenon DEF markDraining, Claimable, columns, ram
  <2>2. wpc'[d] = "claimed" /\ \A e \in Workers \ {d} : wpc'[e] = wpc[e]
    BY <1>a, <2>1, <1>WorkerAt, Zenon
  <2>3. \A e \in Workers \ {d} : job'[e] = job[e]
    BY <1>b, <2>1, Zenon
  <2>4. WorkerHolds(d)'
    BY <2>2, Zenon DEF WorkerHolds
  <2>5. LeasesHeld'
    BY <1>a, <2>1, <2>2, <2>3, <2>4, <1>WorkerMoves, Zenon
  <2>6. \A q \in Ids : \/ st'[q] = st[q]
                       \/ /\ q = r /\ st[q] \in {"ready", "draining"}
                          /\ st'[q] \in {"ready", "draining", "done"}
                          /\ st'[q] = "done" => r \in holds
    BY <1>b, <2>1, Zenon
  <2>7. holds \subseteq holds'
    BY <2>1, Zenon
  <2> QED
    BY <1>a, <2>1, <2>5, <2>6, <2>7, <1>CapRow, Zenon
<1>2. CASE Reread(d)
  <2>1. UNCHANGED <<st, path, file, retired, nextId, holds, disk, mode, index,
                    entId, entClosed, used, lease, fin, wr, ns, retrying>>
    BY <1>2, Zenon DEF Reread, table, columns, ram
  <2>2. CASE Leave(d)
    BY <1>a, <2>1, <2>2, <1>CapRequeue, Zenon DEF CapInv
  <2>3. ASSUME NEW j, At(d, "loaded"), job' = [job EXCEPT ![d] = j] PROVE CapStep
    <3>1. wpc'[d] = "loaded" /\ \A e \in Workers \ {d} : wpc'[e] = wpc[e]
      BY <1>a, <2>3, <1>WorkerAt, Zenon
    <3>2. \A e \in Workers \ {d} : job'[e] = job[e]
      BY <1>b, <2>3, Zenon
    <3>3. WorkerHolds(d)'
      BY <3>1, Zenon DEF WorkerHolds
    <3> QED
      BY <1>a, <2>1, <3>1, <3>2, <3>3, <1>CapGoOn, Zenon
  <2> QED
    BY <1>2, <2>2, <2>3, Zenon DEF Reread
<1>3. CASE ResetToReady(d) \/ failTransient(d) \/ RequeueUnadmittedDrain(d)
  <2>1. /\ Leave(d)
        /\ UNCHANGED <<path, file, retired, nextId, holds, disk, mode, index,
                       entId, entClosed, used, lease, fin, wr, ns, retrying>>
    BY <1>3, Zenon DEF ResetToReady, failTransient, RequeueUnadmittedDrain,
       columns, ram
  <2>2. st' = st \/ (st[job[d].id] = "draining"
                     /\ st' = [st EXCEPT ![job[d].id] = "ready"])
    <3>1. CASE ResetToReady(d)
      <4>1. st' = st \/ (Exists(job[d].id) /\ st' = [st EXCEPT ![job[d].id] = "ready"])
        BY <3>1, Zenon DEF ResetToReady
      <4>2. wpc[d] \in {"claimed", "loaded", "copied"}
        BY <3>1, Zenon DEF ResetToReady
      <4>3. Exists(job[d].id) => st[job[d].id] = "draining"
        BY <1>a, <4>2, Zenon DEF Owned, Exists
      <4> QED
        BY <4>1, <4>3, Zenon
    <3>2. CASE failTransient(d)
      BY <3>2, Zenon DEF failTransient
    <3>3. CASE RequeueUnadmittedDrain(d)
      BY <3>3, Zenon DEF RequeueUnadmittedDrain, drainStillClaimed
    <3> QED
      BY <1>3, <3>1, <3>2, <3>3, Zenon
  <2> QED
    BY <1>a, <2>1, <2>2, <1>CapRequeue, Zenon
<1>4. ASSUME NEW i, FailClaimedDrain(d, i), Leave(d),
             UNCHANGED <<path, file, retired, nextId, holds, disk, mode, entId,
                         entClosed, lease, fin, wr, ns, retrying>>
      PROVE  CapStep
  <2>1. LeasesHeld'
    BY <1>a, <1>4, <1>WorkerLeft, <1>WorkerMoves, Zenon
  <2> QED
    BY <1>a, <1>4, <2>1, <1>CapFail, Zenon
<1>5. CASE failPermanent(d) \/ publishConflictCopy(d)
  BY <1>4, <1>5, Zenon DEF failPermanent, publishConflictCopy
<1>6. CASE openDrainTarget(d) \/ installNewName(d)
  <2>1. UNCHANGED <<st, path, file, retired, nextId, holds, disk, mode, index,
                    entId, entClosed, used, lease, fin, wr, ns, retrying>>
    BY <1>6, Zenon DEF openDrainTarget, installNewName, ram
  <2>2. CASE Leave(d)
    BY <1>a, <2>1, <2>2, <1>CapRequeue, Zenon DEF CapInv
  <2>3. ASSUME NEW pc \in {"opened", "installed"}, At(d, pc), UNCHANGED job
        PROVE  CapStep
    <3>1. wpc'[d] = pc /\ \A e \in Workers \ {d} : wpc'[e] = wpc[e]
      BY <1>a, <2>3, <1>WorkerAt, Zenon
    <3>2. WorkerHolds(d)'
      BY <3>1, Zenon DEF WorkerHolds
    <3> QED
      BY <1>a, <2>1, <2>3, <3>1, <3>2, <1>CapGoOn, Zenon
  <2> QED
    BY <1>6, <2>2, <2>3, Zenon DEF openDrainTarget, installNewName
<1>7. CASE Copy(d)
  <2>1. UNCHANGED <<path, file, retired, nextId, holds, disk, mode, entId,
                    entClosed, lease, fin, wr, ns, retrying>>
    BY <1>7, Zenon DEF Copy
  <2>2. CASE FailClaimedDrain(d, TRUE) /\ Leave(d)
    BY <1>4, <2>1, <2>2, Zenon
  <2>3. CASE At(d, afterCopy(d)) /\ UNCHANGED <<job, st, used, index>>
    <3>1. wpc'[d] = afterCopy(d) /\ \A e \in Workers \ {d} : wpc'[e] = wpc[e]
      BY <1>a, <2>3, <1>WorkerAt, Zenon
    <3>2. WorkerHolds(d)'
      BY <3>1, Zenon DEF WorkerHolds, afterCopy
    <3> QED
      BY <1>a, <2>1, <2>3, <3>1, <3>2, <1>CapGoOn, Zenon
  <2> QED
    BY <1>7, <2>2, <2>3, Zenon DEF Copy
<1>8. CASE prepareDrainCompletions(d)
  <2>1. /\ lease[job[d].path] = Free
        /\ UNCHANGED <<st, path, file, retired, nextId, disk, mode, index, entId,
                       entClosed, used, fin, wr, ns, retrying>>
    BY <1>8, Zenon DEF prepareDrainCompletions, columns, ram
  <2>2. CASE Leave(d) /\ UNCHANGED <<holds, lease>>
    BY <1>a, <2>1, <2>2, <1>CapRequeue, Zenon
  <2>3. CASE /\ drainStillClaimed(d) /\ holds' = holds \cup {job[d].id}
             /\ lease' = [lease EXCEPT ![job[d].path] = d] /\ Goto(d, "held")
    <3>1. wpc'[d] = "held" /\ \A e \in Workers \ {d} : wpc'[e] = wpc[e]
      BY <1>a, <2>3, <1>WorkerAt, Zenon DEF Goto
    <3>2. job' = job
      BY <2>3, Zenon DEF Goto, work
    <3>3. lease'[job[d].path] = d
          /\ \A q \in Paths \ {job[d].path} : lease'[q] = lease[q]
      BY <1>b, <1>c, <2>3, Zenon
    <3>4. WorkerHolds(d)'
      BY <2>1, <2>3, <3>2, <3>3, Zenon DEF WorkerHolds, drainStillClaimed
    <3>5. lease[job[d].path] \in {Free, d} /\ holds \subseteq holds'
      BY <2>1, <2>3, Zenon
    <3>6. LeasesHeld'
      BY <1>a, <1>c, <2>1, <3>1, <3>2, <3>3, <3>4, <3>5, WorkerLeases, Zenon
    <3> QED
      BY <1>a, <2>1, <3>5, <3>6, QuietCap, Zenon
  <2> QED
    BY <1>8, <2>2, <2>3, Zenon DEF prepareDrainCompletions
<1>9. CASE batchMarkDone(d)
  <2>1. /\ wpc[d] = "held" /\ st' = [st EXCEPT ![job[d].id] = "done"]
        /\ At(d, "done") /\ job' = job
        /\ UNCHANGED <<path, file, retired, nextId, holds, disk, mode, index,
                       entId, entClosed, used, lease, fin, wr, ns, retrying>>
    BY <1>9, Zenon DEF batchMarkDone, Goto, columns, ram, work
  <2>2. wpc'[d] = "done" /\ \A e \in Workers \ {d} : wpc'[e] = wpc[e]
    BY <1>a, <2>1, <1>WorkerAt, Zenon
  <2>3. WorkerHolds(d)'
    <3>1. WorkerHolds(d) /\ wpc[d] \in {"held", "done"}
      BY <1>a, <2>1, Zenon DEF LeasesHeld
    <3> QED
      BY <2>1, <3>1, Zenon DEF WorkerHolds
  <2>4. LeasesHeld'
    BY <1>a, <2>1, <2>2, <2>3, <1>WorkerMoves, Zenon
  <2>5. st[job[d].id] = "draining" /\ job[d].id \in holds
    BY <1>a, <2>1, Zenon DEF Owned
  <2>6. \A q \in Ids : \/ st'[q] = st[q]
                       \/ /\ q = job[d].id /\ st[q] \in {"ready", "draining"}
                          /\ st'[q] \in {"ready", "draining", "done"}
                          /\ st'[q] = "done" => job[d].id \in holds
    BY <1>b, <2>1, <2>5, Zenon
  <2>7. holds \subseteq holds'
    BY <2>1, Zenon
  <2> QED
    BY <1>a, <1>b, <2>1, <2>4, <2>6, <2>7, <1>CapRow, Zenon
<1>10. CASE holdCompletion(d) \/ PoisonCompletion(d)
  <2>1. /\ wpc[d] \in {"held", "done"} /\ Leave(d)
        /\ \E to \in {Free, Poisoned} : lease' = [lease EXCEPT ![job[d].path] = to]
        /\ UNCHANGED <<st, path, file, retired, nextId, disk, mode, index, entId,
                       entClosed, used, fin, wr, ns, retrying, holds>>
    BY <1>10, Zenon DEF holdCompletion, PoisonCompletion, table, columns, ram
  <2>2. \A q \in Paths \ {job[d].path} : lease'[q] = lease[q]
    BY <1>b, <2>1, Zenon
  <2>3. lease[job[d].path] \in {Free, d}
    <3>1. lease[job[d].path] = d
      BY <1>a, <2>1, Zenon DEF LeasesHeld, WorkerHolds
    <3> QED
      BY <3>1, Zenon
  <2>4. LeasesHeld'
    BY <1>a, <1>c, <2>1, <2>2, <2>3, <1>WorkerLeft, WorkerLeases, Zenon
  <2>5. holds \subseteq holds'
    BY <2>1, Zenon
  <2> QED
    BY <1>a, <2>1, <2>4, <2>5, QuietCap, Zenon
<1>11. CASE CompleteAcknowledgedDrain(d)
  BY <1>a, <1>11, <1>CapComplete, Zenon
<1> QED
  BY <1>1, <1>2, <1>3, <1>5, <1>6, <1>7, <1>8, <1>9, <1>10, <1>11, Zenon
  DEF Worker

-----------------------------------------------------------------------------
(* Recovery of failed saves and garbage collection.                        *)

LEMMA CapMaintenance == CapInv /\ IInv' /\ Maintenance => CapStep
<1>CapRetry.
  ASSUME CapInv, IInv', NEW r \in Ids, retryFailed(r) PROVE CapStep
  <2> USE <1>CapRetry
  <2>a. /\ TypeOK /\ FilesOwned /\ LeasesHeld /\ Shadows /\ OpenLive /\ FinClosed
        /\ NameTaken /\ Settling /\ Superseded /\ used \in Int
    BY Zenon DEF CapInv, Structure, IInv, TypeOK
  <2>b. /\ mode = "up" /\ retrying = None /\ st[r] = "failed"
        /\ used' = used + Charge(file[r]) /\ retrying' = r
        /\ UNCHANGED <<st, path, file, retired, nextId, holds, disk, mode, index,
                       entId, entClosed, lease, fin, wr, wpc, job, ns>>
    BY Zenon DEF retryFailed, Retryable, table, columns, work
  <2>1. FilesOwned' /\ Shadows' /\ NameTaken'
    BY <2>a, <2>b, Zenon DEF FilesOwned, Exists, Shadows, Shadow, NameTaken
  <2>2. LeasesHeld'
    BY <2>a, <2>b, Zenon DEF LeasesHeld, WriterHolds, NameHolds, WorkerHolds
  <2>3. OpenLive' /\ FinClosed' /\ Superseded'
    <3>1. OpenLive'
      BY <2>a, <2>b, Zenon DEF OpenLive, Live
    <3>2. FinClosed'
      BY <2>a, <2>b, Zenon DEF FinClosed
    <3>3. Superseded'
      BY <2>a, <2>b, Zenon DEF Superseded
    <3> QED
      BY <3>1, <3>2, <3>3, Zenon
  <2>4. Settling' /\ Quiescent'
    BY <2>a, <2>b, Zenon DEF Settling, Quiescent
  <2>5. Retried = 0 /\ Retried' = Charge(file[r])
    <3>1. r # None
      BY SpoolAssumption DEF Ids, None
    <3>2. Retried = 0
      BY <2>b, Zenon DEF Retried
    <3> QED
      BY <2>b, <3>1, <3>2, Zenon DEF Retried, Charge
  <2>6. used' = used + (Retried' - Retried)
    <3>1. Charge(file[r]) \in {0, 1}
      BY Zenon DEF Charge
    <3> QED
      BY <2>a, <2>b, <2>5, <3>1
  <2>7. \A f \in Ids : InUse(f)' <=> InUse(f)
    BY <2>b, Zenon DEF InUse, Charged
  <2>8. Accounted
    BY <2>a, <2>b, <2>6, <2>7, RetryUse, Zenon
  <2> QED
    BY <2>1, <2>2, <2>3, <2>4, <2>8, Zenon DEF CapStep, CapInv, Structure

\* The charge of a retry becomes the charge of its row, or is taken back.
<1>CapReset.
  ASSUME CapInv, IInv', NEW r \in Ids, ResetForRetry(r) PROVE CapStep
  <2> USE <1>CapReset
  <2>a. /\ TypeOK /\ FilesOwned /\ LeasesHeld /\ Shadows /\ OpenLive /\ FinClosed
        /\ NameTaken /\ Settling /\ Quiescent /\ Superseded
    BY Zenon DEF CapInv, Structure, IInv
  <2>b. /\ st \in [Ids -> States] /\ file \in [Ids -> Ids] /\ used \in Int
        /\ index \in [Paths -> Ids \cup {None}]
        /\ entId \in [Ids -> Ids \cup {None}] /\ ns.files \subseteq Ids
    BY <2>a, CapTypes, Zenon
  <2>c. /\ retrying = r /\ retrying' = None
        /\ UNCHANGED <<path, file, retired, nextId, holds, disk, mode, index, entId,
                       entClosed, lease, fin, wr, wpc, job, ns>>
        /\ \/ st' = [st EXCEPT ![r] = "ready"] /\ used' = used
           \/ st' = st /\ used' = used - Charge(file[r])
    BY Zenon DEF ResetForRetry, work
  <2>r. st' = [st EXCEPT ![r] = "ready"] => ~retired[r] \/ st' = st
    BY Zenon DEF ResetForRetry, Retryable
  <2>d. r # None /\ st[r] = "failed" /\ Exists(r)
    <3>1. r # None
      BY SpoolAssumption DEF Ids, None
    <3>2. st[r] = "failed"
      BY <2>a, <2>c, <3>1, Zenon DEF Settling
    <3> QED
      BY <3>1, <3>2, Zenon DEF Exists
  <2>e. \A q \in Ids : st'[q] = st[q] \/ (q = r /\ st'[q] = "ready")
    BY <2>b, <2>c, Zenon
  <2>f. \A q \in Ids : Exists(q)' <=> Exists(q)
    BY <2>d, <2>e, Zenon DEF Exists
  <2>1. FilesOwned'
    BY <2>a, <2>c, <2>f, Zenon DEF FilesOwned
  <2>2. LeasesHeld'
    BY <2>a, <2>c, Zenon DEF LeasesHeld, WriterHolds, NameHolds, WorkerHolds
  <2>3. Shadows'
    <3>1. ASSUME NEW p \in Paths PROVE Shadow(p)'
      <4>1. Shadow(p)
        BY <2>a, Zenon DEF Shadows
      <4>2. index[p] # None => entId[index[p]] \in Ids /\ entId[index[p]] # r
        BY <2>b, <2>d, <4>1, Zenon DEF Shadow
      <4>3. index[p] # None => st'[entId[index[p]]] = st[entId[index[p]]]
        BY <2>e, <4>2, Zenon
      <4> QED
        BY <2>c, <4>1, <4>3, Zenon DEF Shadow
    <3> QED
      BY <2>a, <2>c, <3>1, Zenon DEF Shadows
  <2>4. OpenLive'
    <3> SUFFICES ASSUME NEW f \in Ids, ~entClosed'[f] PROVE Live(f)'
      BY Zenon DEF OpenLive
    <3>1. Live(f)
      BY <2>a, <2>c, Zenon DEF OpenLive
    <3>2. entId[f] \in Ids /\ entId[f] # r
      BY <2>b, <2>d, <3>1, Zenon DEF Live
    <3>3. st'[entId[f]] = st[entId[f]]
      BY <2>e, <3>2, Zenon
    <3> QED
      BY <2>c, <3>1, <3>3, Zenon DEF Live
  <2>5. FinClosed'
    <3>1. \A y \in fin : y.id \in Ids
      BY <2>a, Zenon DEF FinClosed, TypeOK
    <3>2. \A y \in fin : y.id # r
      BY <2>a, <2>d, Zenon DEF FinClosed
    <3>3. \A y \in fin : st'[y.id] = st[y.id]
      BY <2>e, <3>1, <3>2, Zenon
    <3> QED
      BY <2>a, <2>c, <3>3, Zenon DEF FinClosed
  <2>6. NameTaken'
    <3>1. \A q \in Ids : st'[q] = "writing" => st[q] = "writing"
      BY <2>e, Zenon
    <3> QED
      BY <2>a, <2>c, <2>f, <3>1, Zenon DEF NameTaken
  <2>7. Settling'
    <3>1. \A q \in Ids : st'[q] = "done" => st[q] = "done"
      BY <2>e, Zenon
    <3> QED
      BY <2>a, <2>c, <3>1, Zenon DEF Settling
  <2>8. Superseded'
    <3>1. \A q \in Ids : retired[q] => st'[q] = st[q]
      BY <2>c, <2>e, <2>r, Zenon
    <3> QED
      BY <2>a, <2>c, <3>1, Zenon DEF Superseded
  <2>9. Quiescent'
    BY <2>a, <2>c, <2>d, Zenon DEF Quiescent
  <2>10. Retried = Charge(file[r]) /\ Retried' = 0
    <3>1. Retried' = 0
      BY <2>c, Zenon DEF Retried
    <3> QED
      BY <2>c, <2>d, <3>1, Zenon DEF Retried, Charge
  <2>11. Charge(file[r]) \in {0, 1}
    BY Zenon DEF Charge
  <2>12. \A g \in Ids \ {file[r]} : InUse(g)' <=> InUse(g)
    <3>1. \A g \in Ids \ {file[r]} : Charged(g)' <=> Charged(g)
      BY <2>c, <2>e, Zenon DEF Charged
    <3> QED
      BY <2>c, <3>1, Zenon DEF InUse
  <2>13. ~InUse(file[r])
    <3>1. ~Charged(file[r])
      <4>1. \A q \in Ids : Exists(q) /\ file[q] = file[r] => q = r
        BY <2>a, <2>d, Zenon DEF FilesOwned
      <4> QED
        BY <2>d, <4>1, Zenon DEF Charged, Exists
    <3>2. ~(ns.pc = "cancelled" /\ file[r] \in ns.files)
      BY <2>a, <2>d, Zenon DEF NameTaken
    <3> QED
      BY <3>1, <3>2, Zenon DEF InUse
  <2>14. Accounted
    <3>1. CASE st' = st /\ used' = used - Charge(file[r])
      <4>1. \A g \in Ids : InUse(g)' <=> InUse(g)
        BY <2>c, <3>1, Zenon DEF InUse, Charged
      <4>2. used' = used + (Retried' - Retried)
        BY <2>b, <2>10, <2>11, <3>1
      <4> QED
        BY <2>a, <2>b, <2>c, <4>1, <4>2, RetryUse, Zenon
    <3>2. CASE st' = [st EXCEPT ![r] = "ready"] /\ used' = used
      <4>0. st'[r] = "ready"
        BY <2>b, <3>2, Zenon
      <4>1. CASE disk[file[r]] > 0
        <5>1. Charged(file[r])'
          BY <2>c, <4>0, <4>1, Zenon DEF Charged
        <5>2. InUse(file[r])'
          BY <5>1, Zenon DEF InUse
        <5>3. Charge(file[r]) = 1
          BY <4>1, Zenon DEF Charge
        <5>4. used' = used + 1 + (Retried' - Retried)
          BY <2>b, <2>10, <3>2, <5>3
        <5>5. PICK g \in Ids : g = file[r] /\ g = file'[r]
          BY <2>b, <2>c, Zenon
        <5>6. InUse(g)' /\ ~InUse(g)
          <6>1. Charged(g)'
            BY <2>c, <4>0, <4>1, <5>5, Zenon DEF Charged
          <6> QED
            BY <2>13, <5>5, <6>1, Zenon DEF InUse
        <5> QED
          BY <2>12, <2>a, <2>c, <5>4, <5>5, <5>6, OneMore, Zenon
      <4>2. CASE ~(disk[file[r]] > 0)
        <5>1. Charge(file[r]) = 0
          BY <4>2, Zenon DEF Charge
        <5>2. \A g \in Ids : InUse(g)' => disk[g] > 0
          BY <2>c, Zenon DEF InUse, Charged
        <5>3. \A g \in Ids : InUse(g)' <=> InUse(g)
          BY <2>12, <2>13, <4>2, <5>2, Zenon
        <5>4. UNCHANGED <<mode, used>> /\ Retried' = Retried
          BY <2>10, <2>c, <3>2, <5>1, Zenon
        <5> QED
          BY <2>a, <5>3, <5>4, SameUse, Zenon
      <4> QED
        BY <4>1, <4>2, Zenon
    <3> QED
      BY <2>c, <3>1, <3>2, Zenon
  <2> QED
    BY <2>1, <2>2, <2>3, <2>4, <2>5, <2>6, <2>7, <2>8, <2>9, <2>14, Zenon
    DEF CapStep, CapInv, Structure

\* A done row that is collected has given its file up before.
<1>CapDeleteDone.
  ASSUME CapInv, IInv', NEW r \in Ids, DeleteDone(r) PROVE CapStep
  <2> USE <1>CapDeleteDone
  <2>a. /\ TypeOK /\ FilesOwned /\ LeasesHeld /\ Shadows /\ OpenLive /\ FinClosed
        /\ NameTaken /\ Settling /\ Superseded
    BY Zenon DEF CapInv, Structure, IInv
  <2>b. /\ st \in [Ids -> States] /\ retrying \in Ids \cup {None}
        /\ index \in [Paths -> Ids \cup {None}]
        /\ entId \in [Ids -> Ids \cup {None}]
    BY <2>a, CapTypes, Zenon
  <2>c. /\ mode = "up" /\ st[r] = "done" /\ r \notin holds
        /\ st' = [st EXCEPT ![r] = "none"]
        /\ UNCHANGED <<path, file, retired, nextId, holds, disk, mode, index, entId,
                       entClosed, used, lease, fin, wr, wpc, job, ns, retrying>>
    BY Zenon DEF DeleteDone, columns, ram, procs, work
  <2>e. st'[r] = "none" /\ \A q \in Ids \ {r} : st'[q] = st[q]
    BY <2>b, <2>c, Zenon
  <2>f. \A q \in Ids : /\ Exists(q)' => Exists(q)
                       /\ st'[q] = "writing" => st[q] = "writing"
                       /\ st'[q] = "failed" <=> st[q] = "failed"
                       /\ st'[q] = "done" => st[q] = "done"
                       /\ st'[q] \in Pending => st[q] \in Pending
    BY <2>c, <2>e, Zenon DEF Exists, Pending
  <2>1. FilesOwned' /\ NameTaken' /\ Superseded'
    BY <2>a, <2>c, <2>f, Zenon DEF FilesOwned, NameTaken, Superseded
  <2>2. LeasesHeld'
    BY <2>a, <2>c, Zenon DEF LeasesHeld, WriterHolds, NameHolds, WorkerHolds
  <2>3. Shadows'
    <3>1. ASSUME NEW p \in Paths PROVE Shadow(p)'
      <4>1. Shadow(p)
        BY <2>a, Zenon DEF Shadows
      <4>2. index[p] # None => entId[index[p]] \in Ids
        BY <2>b, <4>1, Zenon DEF Shadow
      <4> QED
        BY <2>c, <2>f, <4>1, <4>2, Zenon DEF Shadow
    <3> QED
      BY <2>a, <2>c, <3>1, Zenon DEF Shadows
  <2>4. OpenLive'
    <3> SUFFICES ASSUME NEW f \in Ids, ~entClosed'[f] PROVE Live(f)'
      BY Zenon DEF OpenLive
    <3>1. Live(f)
      BY <2>a, <2>c, Zenon DEF OpenLive
    <3>2. entId[f] \in Ids /\ entId[f] # r
      BY <2>b, <2>c, <3>1, Zenon DEF Live
    <3>3. st'[entId[f]] = st[entId[f]]
      BY <2>e, <3>2, Zenon
    <3> QED
      BY <2>c, <3>1, <3>3, Zenon DEF Live
  <2>5. FinClosed'
    <3>1. \A y \in fin : y.id \in Ids
      BY <2>a, Zenon DEF FinClosed, TypeOK
    <3>2. \A y \in fin : y.id # r
      BY <2>a, <2>c, Zenon DEF FinClosed
    <3>3. \A y \in fin : st'[y.id] = st[y.id]
      BY <2>e, <3>1, <3>2, Zenon
    <3> QED
      BY <2>a, <2>c, <3>3, Zenon DEF FinClosed
  <2>6. Settling' /\ Quiescent'
    <3>1. retrying # None => st'[retrying] = "failed"
      BY <2>a, <2>b, <2>f, Zenon DEF Settling
    <3> QED
      BY <2>a, <2>c, <2>f, <3>1, Zenon DEF Settling, Quiescent
  <2>7. Accounted
    <3>1. ~(disk[file[r]] > 0)
      <4>1. disk[file[r]] = NoFile
        BY <2>a, <2>c, Zenon DEF Settling
      <4> QED
        BY <4>1 DEF NoFile
    <3>2. \A f \in Ids : Charged(f)' <=> Charged(f)
      BY <2>c, <2>e, <3>1, Zenon DEF Charged
    <3>3. \A f \in Ids : InUse(f)' <=> InUse(f)
      BY <2>c, <3>2, Zenon DEF InUse
    <3>4. retrying # None => (st'[retrying] = "failed" <=> st[retrying] = "failed")
      BY <2>b, <2>f, Zenon
    <3>5. Retried' = Retried
      BY <2>c, <3>4, Zenon DEF Retried
    <3>6. UNCHANGED <<mode, used>>
      BY <2>c, Zenon
    <3> QED
      BY <2>a, <3>3, <3>5, <3>6, SameUse, Zenon
  <2> QED
    BY <2>1, <2>2, <2>3, <2>4, <2>5, <2>6, <2>7, Zenon DEF CapStep, CapInv,
       Structure

<1> SUFFICES ASSUME CapInv, IInv', Maintenance PROVE CapStep
  BY Zenon
<1>2. ASSUME NEW p \in Paths, Reconcile(p) PROVE CapStep
  <2>1. UNCHANGED <<st, path, file, retired, nextId, holds, disk, mode, index,
                    entId, entClosed, used, lease, fin, wr, wpc, job, ns, retrying>>
    BY <1>2, Zenon DEF Reconcile, table, columns, ram, procs, work
  <2>2. LeasesHeld'
    BY <2>1, Zenon DEF CapInv, Structure, LeasesHeld, WriterHolds, NameHolds,
       WorkerHolds
  <2>3. holds \subseteq holds' /\ wr' = wr
    BY <2>1, Zenon
  <2> QED
    BY <2>1, <2>2, <2>3, QuietCap, Zenon
<1> QED
  BY <1>2, <1>CapRetry, <1>CapReset, <1>CapDeleteDone, Zenon DEF Maintenance

-----------------------------------------------------------------------------
(* Renames and removals.                                                   *)

\* What MigrateRow does to the table: row n takes the place of row r.
RowMoves(r, n, a, b) ==
  /\ r \in Ids /\ Active(r) /\ path[r] = a /\ r < nextId /\ n \in Ids
  /\ path'[n] = b /\ file'[n] = file[r] /\ st'[n] \in Pending
  /\ \A q \in Ids \ {n} : path'[q] = path[q] /\ file'[q] = file[q]
  /\ \A q \in Ids \ {r, n} : st'[q] = st[q]
  /\ \/ n = r /\ st' = st /\ nextId' = nextId
     \/ /\ n = nextId /\ nextId' = nextId + 1 /\ st[r] = "draining"
        /\ st'[r] = "none" /\ st[n] = "none" /\ n # r

LEMMA CapNameOp == CapInv /\ IInv' /\ NameOp => CapStep
\* The rows of the name that disappears leave the table, and their files stay
\* in use until cancelForDelete unlinks them.
<1>CapBeginName.
  ASSUME CapInv, IInv', NEW old \in Paths, NEW new \in Paths,
         NEW kind \in {"remove", "rename"}, beginName(kind, old, new)
  PROVE  CapStep
  <2> USE <1>CapBeginName
  <2>a. /\ TypeOK /\ RowsIssued /\ FilesOwned /\ LeasesHeld /\ Shadows /\ OpenLive
        /\ FinClosed /\ Settling /\ Superseded
    BY Zenon DEF CapInv, Structure, IInv
  <2>b. /\ st \in [Ids -> States] /\ retrying \in Ids \cup {None}
        /\ file \in [Ids -> Ids] /\ path \in [Ids -> Paths]
        /\ index \in [Paths -> Ids \cup {None}]
        /\ entId \in [Ids -> Ids \cup {None}]
        /\ lease \in [Paths -> {Free, Poisoned, Handler} \cup Writers \cup Workers]
    BY <2>a, CapTypes, Zenon DEF TypeOK
  <2>c. /\ mode = "up" /\ ns.pc = "idle" /\ lease[old] = Free /\ lease[new] = Free
        /\ lease' = [lease EXCEPT ![old] = Handler, ![new] = Handler]
        /\ st' = [r \in Ids |-> IF r \in PendingAt(new) THEN "none" ELSE st[r]]
        /\ UNCHANGED <<path, file, nextId, holds, disk, mode, index, entId,
                       entClosed, used, fin, wr, wpc, job, retrying>>
    BY Zenon DEF beginName, ram, work
  <2>d. /\ ns'.pc = "cancelled" /\ ns'.kind = kind /\ ns'.old = old /\ ns'.new = new
        /\ ns'.files = {file[r] : r \in PendingAt(new)}
    <3>1. ns' = [pc |-> "cancelled", kind |-> kind, old |-> old, new |-> new,
                 files |-> {file[r] : r \in PendingAt(new)}, how |-> "backend",
                 seen |-> mirror]
      BY Zenon DEF beginName
    <3> QED
      BY <3>1, Zenon
  <2>e. retired' = [r \in Ids |-> retired[r] \/
          (Exists(r) /\ path[r] = new /\ \E q \in PendingAt(new) : r < q)]
    BY Zenon DEF beginName
  <2>f. \A r \in Ids : \/ st'[r] = st[r] /\ r \notin PendingAt(new)
                       \/ st'[r] = "none" /\ r \in PendingAt(new)
    BY <2>c, Zenon
  <2>g. \A r \in Ids : r \in PendingAt(new) <=> path[r] = new /\ st[r] \in Pending
    BY Zenon DEF PendingAt, Pending
  <2>h. \A r \in Ids : /\ Exists(r)' => Exists(r) /\ st'[r] = st[r]
                       /\ st'[r] = "failed" <=> st[r] = "failed"
                       /\ st'[r] = "done" => st[r] = "done"
                       /\ st'[r] \in Pending => st[r] \in Pending
    BY <2>f, <2>g, Zenon DEF Exists, Pending
  <2>1. FilesOwned'
    BY <2>a, <2>c, <2>h, Zenon DEF FilesOwned
  <2>2. LeasesHeld'
    <3>1. lease'[old] = Handler /\ lease'[new] = Handler
      BY <2>b, <2>c, Zenon
    <3>2. kind = "rename" => old # new
      BY Zenon DEF beginName
    <3>3. NameHolds'
      BY <2>d, <3>1, <3>2, Zenon DEF NameHolds
    <3>4. \A q \in Paths : lease'[q] = lease[q] \/ lease[q] \in {Free, Handler}
      BY <2>b, <2>c, Zenon
    <3> QED
      BY <2>a, <2>c, <3>3, <3>4, NameLeases, Zenon
  <2>3. Shadows'
    <3>1. ASSUME NEW p \in Paths PROVE Shadow(p)'
      <4>1. Shadow(p)
        BY <2>a, Zenon DEF Shadows
      <4>2. index[p] # None => entId[index[p]] \in Ids
        BY <2>b, <4>1, Zenon DEF Shadow
      <4> QED
        BY <2>c, <2>h, <4>1, <4>2, Zenon DEF Shadow
    <3> QED
      BY <2>a, <2>c, <3>1, Zenon DEF Shadows
  <2>4. OpenLive'
    <3> SUFFICES ASSUME NEW f \in Ids, ~entClosed'[f] PROVE Live(f)'
      BY Zenon DEF OpenLive
    <3>1. Live(f)
      BY <2>a, <2>c, Zenon DEF OpenLive
    <3>2. /\ entId[f] \in Ids /\ st[entId[f]] = "writing" /\ file[entId[f]] = f
          /\ index[path[entId[f]]] = f
      BY <2>b, <2>c, <3>1, Zenon DEF Live
    <3>3. CASE entId[f] \in PendingAt(new)
      <4>1. st'[entId[f]] = "none" /\ path[entId[f]] = new
        BY <2>f, <2>g, <3>2, <3>3, Zenon
      <4>2. f \in ns'.files
        BY <2>d, <3>2, <3>3, Zenon
      <4> QED
        BY <2>c, <2>d, <3>1, <3>2, <4>1, <4>2, Zenon DEF Live
    <3>4. CASE entId[f] \notin PendingAt(new)
      <4>1. st'[entId[f]] = "writing"
        BY <2>f, <3>2, <3>4, Zenon
      <4> QED
        BY <2>c, <3>1, <3>2, <4>1, Zenon DEF Live
    <3> QED
      BY <3>3, <3>4, Zenon
  <2>5. FinClosed'
    <3>1. \A x \in fin : x.id \in Ids
      BY <2>a, Zenon DEF FinClosed, TypeOK
    <3>2. \A x \in fin : st'[x.id] = st[x.id] \/ st'[x.id] = "none"
      BY <2>f, <3>1, Zenon
    <3> QED
      BY <2>a, <2>c, <3>2, Zenon DEF FinClosed
  <2>6. NameTaken'
    <3>1. ASSUME NEW f \in ns'.files
          PROVE  f < nextId /\ \A r \in Ids : Exists(r)' => file[r] # f
      <4>1. PICK q \in Ids : q \in PendingAt(new) /\ f = file[q]
        BY <2>d, <3>1, Zenon DEF PendingAt
      <4>2. Exists(q) /\ ~Exists(q)'
        BY <2>f, <2>g, <4>1, Zenon DEF Exists, Pending
      <4> QED
        BY <2>a, <2>h, <4>1, <4>2, Zenon DEF FilesOwned
    <3>2. \A r \in Ids : path[r] = new => st'[r] # "writing"
      BY <2>f, <2>g, Zenon DEF Pending
    <3> QED
      BY <2>c, <2>d, <3>1, <3>2, Zenon DEF NameTaken
  <2>7. Settling' /\ Quiescent'
    <3>1. retrying # None => st'[retrying] = "failed"
      BY <2>a, <2>b, <2>h, Zenon DEF Settling
    <3> QED
      BY <2>a, <2>c, <2>h, <3>1, Zenon DEF Settling, Quiescent
  <2>8. Superseded'
    <3> SUFFICES ASSUME NEW r \in Ids, retired'[r]
                 PROVE  r < nextId /\ st'[r] \notin Pending
      BY <2>c, Zenon DEF Superseded
    <3>1. retired[r] \/ (Exists(r) /\ path[r] = new)
      BY <2>e, Zenon
    <3>2. r < nextId
      BY <2>a, <3>1, Zenon DEF Superseded, RowsIssued
    <3>3. CASE retired[r]
      BY <2>a, <2>h, <3>2, <3>3, Zenon DEF Superseded
    <3>4. CASE path[r] = new
      BY <2>f, <2>g, <3>2, <3>4, Zenon DEF Pending
    <3> QED
      BY <3>1, <3>3, <3>4, Zenon
  <2>9. Accounted
    <3>1. ASSUME NEW f \in Ids PROVE InUse(f)' <=> InUse(f)
      <4>1. f \in ns'.files <=> \E q \in Ids : q \in PendingAt(new) /\ f = file[q]
        BY <2>d, Zenon DEF PendingAt
      <4>2. InUse(f) <=> Charged(f)
        BY <2>c, Zenon DEF InUse
      <4>3. InUse(f)' <=> Charged(f)' \/ (f \in ns'.files /\ disk[f] > 0)
        BY <2>c, <2>d, Zenon DEF InUse
      <4>4. Charged(f)' => Charged(f)
        BY <2>c, <2>f, Zenon DEF Charged
      <4>5. f \in ns'.files /\ disk[f] > 0 => Charged(f)
        BY <2>g, <4>1, Zenon DEF Charged, Pending
      <4>6. Charged(f) => Charged(f)' \/ (f \in ns'.files /\ disk[f] > 0)
        BY <2>c, <2>f, <4>1, Zenon DEF Charged
      <4> QED
        BY <4>2, <4>3, <4>4, <4>5, <4>6, Zenon
    <3>2. retrying # None => (st'[retrying] = "failed" <=> st[retrying] = "failed")
      BY <2>b, <2>h, Zenon
    <3>3. Retried' = Retried
      BY <2>c, <3>2, Zenon DEF Retried
    <3>4. UNCHANGED <<mode, used>>
      BY <2>c, Zenon
    <3> QED
      BY <2>a, <3>1, <3>3, <3>4, SameUse, Zenon
  <2> QED
    BY <2>1, <2>2, <2>3, <2>4, <2>5, <2>6, <2>7, <2>8, <2>9, Zenon
    DEF CapStep, CapInv, Structure

\* cancelForDelete returns the bytes of the files that it unlinks.
<1>CapCancel.
  ASSUME CapInv, IInv', cancelForDelete PROVE CapStep
  <2> USE <1>CapCancel
  <2>a. /\ TypeOK /\ FilesOwned /\ LeasesHeld /\ Shadows /\ OpenLive /\ FinClosed
        /\ NameTaken /\ Settling /\ Quiescent /\ Superseded
    BY Zenon DEF CapInv, Structure, IInv
  <2>b. /\ file \in [Ids -> Ids] /\ path \in [Ids -> Paths]
        /\ index \in [Paths -> Ids \cup {None}] /\ disk \in [Ids -> Contents]
        /\ entId \in [Ids -> Ids \cup {None}] /\ ns.new \in Paths
        /\ retrying \in Ids \cup {None} /\ ns.files \subseteq Ids
    BY <2>a, CapTypes, Zenon
  <2>c. /\ ns.pc = "cancelled"
        /\ index' = [index EXCEPT ![ns.new] = None]
        /\ used' = used - Cardinality({g \in ns.files : disk[g] > 0})
        /\ disk' = [g \in Ids |-> IF g \in ns.files THEN NoFile ELSE disk[g]]
        /\ UNCHANGED <<st, path, file, retired, nextId, holds, mode, entId, lease,
                       fin, wr, wpc, job, retrying>>
    BY Zenon DEF cancelForDelete, table, columns
  <2>d. /\ ns'.pc = "spooled" /\ ns'.kind = ns.kind /\ ns'.old = ns.old
        /\ ns'.new = ns.new /\ ns'.files = ns.files
    <3>1. ns' = [ns EXCEPT !.pc = "spooled"] /\ ns \in NameOps
      BY <2>a, Zenon DEF cancelForDelete, TypeOK
    <3> QED
      BY <3>1, Zenon DEF NameOps
  <2>e. \A g \in Ids : ~entClosed'[g] => ~entClosed[g] /\ g # index[ns.new]
    <3>1. entClosed' = IF index[ns.new] = None THEN entClosed
                       ELSE [entClosed EXCEPT ![index[ns.new]] = TRUE]
      BY Zenon DEF cancelForDelete
    <3>2. entClosed \in [Ids -> BOOLEAN] /\ index[ns.new] \in Ids \cup {None}
      BY <2>a, <2>b, Zenon DEF TypeOK
    <3>3. \A g \in Ids : g # None
      BY SpoolAssumption DEF Ids, None
    <3> QED
      BY <3>1, <3>2, <3>3, Zenon
  <2>f. index'[ns.new] = None /\ \A p \in Paths \ {ns.new} : index'[p] = index[p]
    BY <2>b, <2>c, Zenon
  <2>g. \A g \in Ids : \/ disk'[g] = NoFile /\ g \in ns.files
                       \/ disk'[g] = disk[g] /\ g \notin ns.files
    BY <2>c, Zenon
  <2>1. FilesOwned'
    BY <2>a, <2>c, Zenon DEF FilesOwned, Exists
  <2>2. LeasesHeld'
    <3>1. NameHolds'
      BY <2>a, <2>c, <2>d, Zenon DEF LeasesHeld, NameHolds
    <3> QED
      BY <2>a, <2>c, <3>1, Zenon DEF LeasesHeld, WriterHolds, WorkerHolds
  <2>3. Shadows'
    <3>1. ASSUME NEW p \in Paths PROVE Shadow(p)'
      <4>1. Shadow(p)
        BY <2>a, Zenon DEF Shadows
      <4> QED
        BY <2>c, <2>f, <4>1, Zenon DEF Shadow
    <3> QED
      BY <2>a, <2>c, <3>1, Zenon DEF Shadows
  <2>4. OpenLive'
    <3> SUFFICES ASSUME NEW f \in Ids, ~entClosed'[f] PROVE Live(f)'
      BY Zenon DEF OpenLive
    <3>1. Live(f) /\ f # index[ns.new]
      BY <2>a, <2>e, Zenon DEF OpenLive
    <3>2. /\ entId[f] \in Ids /\ st[entId[f]] = "writing" /\ file[entId[f]] = f
          /\ index[path[entId[f]]] = f
      BY <2>b, <3>1, Zenon DEF Live
    <3>3. path[entId[f]] \in Paths \ {ns.new}
      BY <2>b, <3>1, <3>2, Zenon
    <3> QED
      BY <2>c, <2>f, <3>1, <3>2, <3>3, Zenon DEF Live
  <2>5. FinClosed'
    BY <2>a, <2>c, <2>e, Zenon DEF FinClosed
  <2>6. NameTaken'
    <3>1. \A r \in Ids : path[r] = ns.new => st[r] # "writing"
      BY <2>a, <2>c, Zenon DEF NameTaken
    <3> QED
      BY <2>c, <2>d, <2>f, <3>1, Zenon DEF NameTaken
  <2>7. Settling' /\ Quiescent' /\ Superseded'
    <3>1. \A r \in Ids : st[r] = "done" => r \in holds \/ disk'[file[r]] = NoFile
      BY <2>a, <2>b, <2>g, Zenon DEF Settling
    <3>2. Settling'
      BY <2>a, <2>c, <3>1, Zenon DEF Settling
    <3>3. mode = "up"
      BY <2>a, <2>c, Zenon DEF Quiescent
    <3> QED
      BY <2>a, <2>c, <3>2, <3>3, Zenon DEF Quiescent, Superseded
  <2>8. Accounted
    <3> SUFFICES ASSUME NEW G, G = {g \in ns.files : disk[g] > 0} PROVE Accounted
      BY Zenon
    <3>0. G \in SUBSET Ids
      BY <2>b, Zenon
    <3>1. G \subseteq Occupied
      BY <2>b, <2>c, Zenon DEF Occupied, InUse
    <3>2. ASSUME NEW f \in Ids PROVE InUse(f)' <=> InUse(f) /\ f \notin G
      <4>1. InUse(f)' <=> Charged(f)'
        BY <2>d, Zenon DEF InUse
      <4>2. ~(NoFile > 0)
        BY DEF NoFile
      <4>3. Charged(f)' <=> Charged(f) /\ f \notin ns.files
        BY <2>c, <2>g, <4>2, Zenon DEF Charged
      <4>4. InUse(f) /\ f \notin G <=> Charged(f) /\ f \notin ns.files
        BY <2>c, Zenon DEF InUse, Charged
      <4> QED
        BY <4>1, <4>3, <4>4, Zenon
    <3>3. retrying # None => disk'[file[retrying]] = disk[file[retrying]]
      <4> SUFFICES ASSUME retrying # None
                   PROVE  disk'[file[retrying]] = disk[file[retrying]]
        BY Zenon
      <4>1. retrying \in Ids /\ file[retrying] \in Ids
        BY <2>b, Zenon
      <4>2. Exists(retrying)
        BY <2>a, Zenon DEF Settling, Exists
      <4>3. file[retrying] \notin ns.files
        BY <2>a, <2>c, <4>1, <4>2, Zenon DEF NameTaken
      <4> QED
        BY <2>g, <4>1, <4>3, Zenon
    <3>4. Retried' = Retried
      BY <2>c, <3>3, Zenon DEF Retried
    <3>5. used' = used - Cardinality(G)
      BY <2>c, Zenon
    <3> QED
      BY <2>c, <3>0, <3>1, <3>2, <3>4, <3>5, SomeLess, Zenon
  <2> QED
    BY <2>1, <2>2, <2>3, <2>4, <2>5, <2>6, <2>7, <2>8, Zenon DEF CapStep,
       CapInv, Structure

\* The operation ends and its leases are given back or poisoned.
<1>CapEndName.
  ASSUME CapInv, IInv', ns.pc \in {"spooled", "migrated"}, NEW to, EndName(to),
         UNCHANGED <<st, path, file, retired, nextId, holds, disk, mode, index,
                     entId, entClosed, used, fin, wr, wpc, job, retrying>>
  PROVE  CapStep
  <2> USE <1>CapEndName
  <2>a. /\ TypeOK /\ FilesOwned /\ LeasesHeld /\ Shadows /\ OpenLive /\ FinClosed
        /\ Settling /\ Quiescent /\ Superseded
    BY Zenon DEF CapInv, Structure, IInv
  <2>b. ns'.pc = "idle" /\ lease' = [lease EXCEPT ![ns.old] = to, ![ns.new] = to]
    BY Zenon DEF EndName, IdleName
  <2>c. ns.pc # "idle" /\ ns.pc # "cancelled"
    BY Zenon
  <2>1. FilesOwned' /\ Shadows' /\ FinClosed' /\ Superseded'
    <3>1. FilesOwned' /\ Superseded'
      BY <2>a, Zenon DEF FilesOwned, Exists, Superseded
    <3>2. Shadows'
      BY <2>a, Zenon DEF Shadows, Shadow
    <3>3. FinClosed'
      BY <2>a, Zenon DEF FinClosed
    <3> QED
      BY <3>1, <3>2, <3>3, Zenon
  <2>2. LeasesHeld'
    <3>1. lease[ns.old] = Handler /\ lease[ns.new] = Handler
      BY <2>a, <2>c, Zenon DEF LeasesHeld, NameHolds
    <3>2. lease \in [Paths -> {Free, Poisoned, Handler} \cup Writers \cup Workers]
      BY <2>a, Zenon DEF TypeOK
    <3>3. \A q \in Paths : lease'[q] = lease[q] \/ lease[q] \in {Free, Handler}
      BY <2>b, <3>1, <3>2, Zenon
    <3>4. NameHolds'
      BY <2>b, Zenon DEF NameHolds
    <3> QED
      BY <2>a, <3>3, <3>4, NameLeases, Zenon
  <2>3. OpenLive'
    BY <2>a, <2>c, Zenon DEF OpenLive, Live
  <2>4. NameTaken'
    BY <2>b, Zenon DEF NameTaken
  <2>5. Settling' /\ Quiescent'
    BY <2>a, <2>c, Zenon DEF Settling, Quiescent
  <2>6. Accounted
    <3>1. \A f \in Ids : InUse(f)' <=> InUse(f)
      BY <2>b, <2>c, Zenon DEF InUse, Charged
    <3>2. Retried' = Retried
      BY Zenon DEF Retried
    <3> QED
      BY <2>a, <3>1, <3>2, SameUse, Zenon
  <2> QED
    BY <2>1, <2>2, <2>3, <2>4, <2>5, <2>6, Zenon DEF CapStep, CapInv, Structure

<1>MigratedRow.
  ASSUME TypeOK, RowsIssued, NEW r \in ActiveAt(ns.old), MigrateRow(r),
         NEW a, NEW b, NEW n, a = ns.old, b = ns.new,
         n = IF st[r] = "draining" THEN nextId ELSE r
  PROVE  RowMoves(r, n, a, b)
  <2> USE <1>MigratedRow
  <2>a. /\ st \in [Ids -> States] /\ path \in [Ids -> Paths]
        /\ file \in [Ids -> Ids] /\ nextId \in Int
    BY CapTypes, Zenon
  <2>b. r \in Ids /\ Active(r) /\ path[r] = a
    BY Zenon DEF ActiveAt
  <2>c. /\ n \in Ids
        /\ st' = IF n = r THEN st ELSE [st EXCEPT ![r] = "none", ![n] = "ready"]
        /\ nextId' = IF n = r THEN nextId ELSE nextId + 1
        /\ path' = [path EXCEPT ![n] = b] /\ file' = [file EXCEPT ![n] = file[r]]
    BY Zenon DEF MigrateRow
  <2>d. Exists(r) /\ r < nextId
    BY <2>b, Zenon DEF Active, Exists, RowsIssued
  <2>e. r \in Int /\ n \in Int /\ (n # r => n = nextId /\ st[r] = "draining")
    BY <2>b, <2>c DEF Ids
  <2>1. path'[n] = b /\ file'[n] = file[r]
    BY <2>a, <2>c, Zenon
  <2>2. \A q \in Ids \ {n} : path'[q] = path[q] /\ file'[q] = file[q]
    BY <2>a, <2>c, Zenon
  <2>3. CASE n = r
    <3>1. st'[n] \in Pending
      BY <2>b, <2>c, <2>3, Zenon DEF Active, Pending
    <3> QED
      BY <2>b, <2>c, <2>d, <2>1, <2>2, <2>3, <3>1, Zenon DEF RowMoves
  <2>4. CASE n # r
    <3>1. st'[r] = "none" /\ st'[n] = "ready" /\ \A q \in Ids \ {r, n} : st'[q] = st[q]
      BY <2>a, <2>b, <2>c, <2>4, Zenon
    <3>2. st[n] = "none"
      <4>1. ~(n < nextId)
        BY <2>a, <2>4, <2>e
      <4> QED
        BY <2>c, <4>1, Zenon DEF RowsIssued, Exists
    <3>3. st'[n] \in Pending
      BY <3>1, Zenon DEF Pending
    <3>4. nextId' = nextId + 1 /\ n = nextId /\ st[r] = "draining"
      BY <2>c, <2>e, <2>4, Zenon
    <3> QED
      BY <2>b, <2>c, <2>d, <2>1, <2>2, <2>4, <3>1, <3>2, <3>3, <3>4, Zenon
      DEF RowMoves
  <2> QED
    BY <2>3, <2>4, Zenon

\* The moved row keeps its file, and its entry goes along.
<1>CapMigrateRow.
  ASSUME CapInv, IInv', MigrateForRename, NEW r \in ActiveAt(ns.old), MigrateRow(r)
  PROVE  CapStep
  <2> USE <1>CapMigrateRow
  <2> SUFFICES ASSUME NEW a, NEW b, NEW n, NEW e, a = ns.old, b = ns.new,
                      n = IF st[r] = "draining" THEN nextId ELSE r, e = index[a]
               PROVE  CapStep
    BY Zenon
  <2>a. /\ TypeOK /\ RowsIssued /\ ActiveIsLatest /\ WorkersOwn /\ FilesOwned
        /\ LeasesHeld /\ Shadows /\ OpenLive /\ FinClosed /\ NameTaken /\ Settling
        /\ Quiescent /\ Superseded
    BY Zenon DEF CapInv, Structure, IInv
  <2>b. /\ file \in [Ids -> Ids] /\ path \in [Ids -> Paths] /\ nextId \in Int
        /\ index \in [Paths -> Ids \cup {None}] /\ entId \in [Ids -> Ids \cup {None}]
        /\ retrying \in Ids \cup {None} /\ a \in Paths /\ b \in Paths
        /\ e \in Ids \cup {None}
    BY <2>a, CapTypes, Zenon
  <2>c. /\ r \in Ids /\ Active(r) /\ path[r] = a /\ r < nextId /\ n \in Ids
        /\ path'[n] = b /\ file'[n] = file[r] /\ st'[n] \in Pending
        /\ \A q \in Ids \ {n} : path'[q] = path[q] /\ file'[q] = file[q]
        /\ \A q \in Ids \ {r, n} : st'[q] = st[q]
        /\ \/ n = r /\ st' = st /\ nextId' = nextId
           \/ /\ n = nextId /\ nextId' = nextId + 1 /\ st[r] = "draining"
              /\ st'[r] = "none" /\ st[n] = "none" /\ n # r
    <3>1. RowMoves(r, n, a, b)
      BY <2>a, <1>MigratedRow, Zenon
    <3> QED
      BY <3>1, Zenon DEF RowMoves
  <2>d. /\ ns.pc = "spooled" /\ ns.kind = "rename" /\ ~refuseMigration(a, b)
        /\ UNCHANGED <<holds, disk, mode, entClosed, used, lease, fin, wr, wpc, job,
                       retrying>>
    BY Zenon DEF MigrateForRename, MigrateRow, work
  <2>e. /\ ns'.pc = "migrated" /\ ns'.kind = ns.kind /\ ns'.old = a /\ ns'.new = b
    <3>1. /\ ns' = [ns EXCEPT !.pc = "migrated",
                              !.how = IF skipFUSERename THEN "skip" ELSE "spooled"]
          /\ ns \in NameOps
      BY <2>a, Zenon DEF MigrateRow, TypeOK
    <3> QED
      BY <3>1, Zenon DEF NameOps
  <2>f. /\ r \notin holds /\ ActiveAt(b) = {} /\ a # b /\ index[b] = None
        /\ st[r] \in Pending
    <3>1. a # b
      BY <2>a, <2>d, Zenon DEF LeasesHeld, NameHolds
    <3>2. index[b] = None
      BY <2>a, <2>d, Zenon DEF NameTaken
    <3>3. r \notin holds /\ ActiveAt(b) = {}
      BY <2>c, <2>d, Zenon DEF refuseMigration, rejectCompletionPath
    <3> QED
      BY <2>c, <3>1, <3>2, <3>3, Zenon DEF Active, Pending
  <2>g. /\ e # None /\ entId[e] = r =>
             /\ index'[a] = None /\ index'[b] = e
             /\ \A p \in Paths \ {a, b} : index'[p] = index[p]
             /\ entId'[e] = n /\ \A f \in Ids \ {e} : entId'[f] = entId[f]
        /\ ~(e # None /\ entId[e] = r) => UNCHANGED <<index, entId>>
    <3>1. /\ index' = IF e # None /\ entId[e] = r
                      THEN [index EXCEPT ![a] = None, ![b] = e] ELSE index
          /\ entId' = IF e # None /\ entId[e] = r THEN [entId EXCEPT ![e] = n]
                      ELSE entId
      BY Zenon DEF MigrateRow
    <3>2. CASE e # None /\ entId[e] = r
      <4>1. index' = [index EXCEPT ![a] = None, ![b] = e]
            /\ entId' = [entId EXCEPT ![e] = n] /\ e \in Ids
        BY <2>b, <3>1, <3>2, Zenon
      <4> QED
        BY <2>b, <2>f, <3>2, <4>1, Zenon
    <3> QED
      BY <3>1, <3>2, Zenon
  <2>h. n \in Int /\ r \in Int /\ nextId' >= nextId /\ n < nextId'
        /\ (n # r => ~(n < nextId)) /\ nextId' \in Int
    <3>1. r \in Int /\ n \in Int
      BY <2>c DEF Ids
    <3> QED
      BY <2>b, <2>c, <3>1
  <2>i. \A q \in Ids : q < nextId /\ q # r => q # n
    BY <2>h, Zenon
  <2>j. \A q \in Ids : Exists(q)' => Exists(IF q = n THEN r ELSE q)
    <3>1. Exists(r)
      BY <2>c, Zenon DEF Active, Exists
    <3> QED
      BY <2>c, <3>1, Zenon DEF Exists
  <2>1. FilesOwned'
    <3>1. ASSUME NEW q \in Ids, Exists(q)' PROVE file'[q] < nextId'
      <4>1. CASE q = n
        <5>1. file[r] < nextId
          BY <2>a, <2>c, <2>j, <3>1, <4>1, Zenon DEF FilesOwned
        <5>2. file'[q] = file[r] /\ file[r] \in Int
          BY <2>b, <2>c, <4>1 DEF Ids
        <5> QED
          BY <2>b, <2>h, <5>1, <5>2
      <4>2. CASE q # n
        <5>1. file[q] < nextId
          BY <2>a, <2>j, <3>1, <4>2, Zenon DEF FilesOwned
        <5>2. file'[q] = file[q] /\ file[q] \in Int
          BY <2>b, <2>c, <4>2 DEF Ids
        <5> QED
          BY <2>b, <2>h, <5>1, <5>2
      <4> QED
        BY <4>1, <4>2, Zenon
    <3>2. ASSUME NEW q \in Ids, NEW s \in Ids, Exists(q)', Exists(s)',
                 file'[q] = file'[s]
          PROVE  q = s
      <4> SUFFICES ASSUME NEW qq \in Ids, NEW ss \in Ids,
                          qq = IF q = n THEN r ELSE q, ss = IF s = n THEN r ELSE s
                   PROVE  q = s
        BY <2>c, Zenon
      <4>1. Exists(qq) /\ Exists(ss)
        BY <2>j, <3>2, Zenon
      <4>2. file'[q] = file[qq] /\ file'[s] = file[ss]
        BY <2>c, Zenon
      <4>3. qq = ss
        BY <2>a, <3>2, <4>1, <4>2, Zenon DEF FilesOwned
      <4>4. n # r => q # r /\ s # r
        BY <2>c, <3>2, Zenon DEF Exists
      <4> QED
        BY <4>3, <4>4
    <3> QED
      BY <3>1, <3>2, Zenon DEF FilesOwned
  <2>2. LeasesHeld'
    <3>1. NameHolds'
      BY <2>a, <2>d, <2>e, <2>f, Zenon DEF LeasesHeld, NameHolds
    <3>2. ASSUME NEW d \in Workers, wpc[d] \in {"held", "done"}
          PROVE  job[d].id \in Ids \ {n}
      <4>1. job[d].id \in holds /\ job[d].id < nextId
        BY <2>a, <3>2, Zenon DEF WorkersOwn, Owned
      <4>2. job[d].id \in Ids
        BY <2>a, CapRows, Zenon
      <4> QED
        BY <2>f, <2>i, <4>1, <4>2, Zenon
    <3>3. \A d \in Workers : wpc[d] \in {"held", "done"} =>
            /\ path'[job[d].id] = path[job[d].id]
            /\ file'[job[d].id] = file[job[d].id]
      BY <2>c, <3>2, Zenon
    <3> QED
      BY <2>a, <2>d, <3>1, <3>3, NameLeases, Zenon
  <2>k. ASSUME NEW p \in Paths, index[p] # None, p # a
        PROVE  /\ index[p] \in Ids /\ entId[index[p]] \in Ids \ {r, n}
               /\ entId[e] = r => index[p] # e
    <3>1. Shadow(p)
      BY <2>a, Zenon DEF Shadows
    <3>2. index[p] \in Ids
      BY <2>b, <2>k, Zenon
    <3>3. entId[index[p]] \in Ids /\ entId[index[p]] < nextId
      <4>1. \A f \in Ids : entId[f] < nextId
        BY <2>a, Zenon DEF Shadows
      <4> QED
        BY <2>b, <2>k, <3>1, <3>2, <4>1, Zenon DEF Shadow
    <3>4. entId[index[p]] # r
      <4>1. entId[index[p]] = r => path[r] = p
        BY <2>f, <2>k, <3>1, Zenon DEF Shadow
      <4> QED
        BY <2>c, <2>k, <4>1, Zenon
    <3>5. entId[index[p]] # n
      BY <2>i, <3>3, <3>4, Zenon
    <3> QED
      BY <3>2, <3>3, <3>4, <3>5, Zenon
  <2>3. Shadows'
    <3>1. ASSUME NEW f \in Ids PROVE entId'[f] < nextId'
      <4>1. entId[f] < nextId /\ entId[f] \in Int
        <5>1. entId[f] \in Ids \cup {None}
          BY <2>b, Zenon
        <5>2. entId[f] \in Int
          BY <5>1 DEF Ids, None
        <5> QED
          BY <2>a, <5>2, Zenon DEF Shadows
      <4>2. entId'[f] = entId[f] \/ entId'[f] = n
        BY <2>g, Zenon
      <4> QED
        BY <2>b, <2>h, <4>1, <4>2
    <3>2. ASSUME NEW p \in Paths PROVE Shadow(p)'
      <4>0. nextId \in Int /\ nextId' \in Int /\ nextId' >= nextId
        BY <2>b, <2>h, Zenon
      <4>1. CASE p = b /\ e # None /\ entId[e] = r
        <5>1. Shadow(a)
          BY <2>a, <2>b, Zenon DEF Shadows
        <5>2. e < nextId /\ file[r] = e /\ e \in Ids
          BY <2>b, <2>f, <4>1, <5>1, Zenon DEF Shadow
        <5>3. e < nextId'
          BY <4>0, <5>2 DEF Ids
        <5>4. n # None /\ st'[n] # "failed"
          BY <2>c, SpoolAssumption DEF Ids, None, Pending
        <5>5. index'[p] = e /\ entId'[e] = n /\ path'[n] = p /\ file'[n] = e
          BY <2>c, <2>g, <4>1, <5>2, Zenon
        <5> QED
          BY <5>3, <5>4, <5>5, Zenon DEF Shadow
      <4>2. CASE p = a /\ e # None /\ entId[e] = r
        BY <2>g, <4>2, Zenon DEF Shadow
      <4>3. CASE /\ ~(p = b /\ e # None /\ entId[e] = r)
                 /\ ~(p = a /\ e # None /\ entId[e] = r)
        <5>1. index'[p] = index[p]
          BY <2>g, <4>3, Zenon
        <5>2. Shadow(p)
          BY <2>a, Zenon DEF Shadows
        <5> SUFFICES ASSUME index[p] # None PROVE Shadow(p)'
          BY <5>1, Zenon DEF Shadow
        <5>3. /\ index[p] \in Ids /\ entId[index[p]] \in Ids \ {r, n}
              /\ entId'[index[p]] = entId[index[p]]
          <6>1. CASE p = a
            <7>1. index[a] \in Ids /\ entId[index[a]] # r /\ entId' = entId
              BY <2>b, <2>g, <4>3, <6>1, Zenon
            <7>2. entId[index[a]] \in Ids /\ entId[index[a]] < nextId
              <8>1. \A f \in Ids : entId[f] < nextId
                BY <2>a, Zenon DEF Shadows
              <8> QED
                BY <2>b, <5>2, <6>1, <7>1, <8>1, Zenon DEF Shadow
            <7> QED
              BY <2>i, <6>1, <7>1, <7>2, Zenon
          <6>2. CASE p # a
            BY <2>g, <2>k, <6>2, Zenon
          <6> QED
            BY <6>1, <6>2, Zenon
        <5>4. /\ st'[entId[index[p]]] = st[entId[index[p]]]
              /\ path'[entId[index[p]]] = path[entId[index[p]]]
              /\ file'[entId[index[p]]] = file[entId[index[p]]]
          BY <2>c, <5>3, Zenon
        <5>5. index[p] < nextId'
          BY <4>0, <5>2, <5>3 DEF Shadow, Ids
        <5> QED
          BY <5>1, <5>2, <5>3, <5>4, <5>5, Zenon DEF Shadow
      <4> QED
        BY <4>1, <4>2, <4>3, Zenon
    <3> QED
      BY <3>1, <3>2, Zenon DEF Shadows
  <2>4. OpenLive'
    <3> SUFFICES ASSUME NEW f \in Ids, ~entClosed'[f] PROVE Live(f)'
      BY Zenon DEF OpenLive
    <3>1. Live(f)
      BY <2>a, <2>d, Zenon DEF OpenLive
    <3>2. /\ entId[f] \in Ids /\ st[entId[f]] = "writing" /\ file[entId[f]] = f
          /\ index[path[entId[f]]] = f
      BY <2>b, <2>d, <3>1, Zenon DEF Live
    <3>n. f # None /\ n # None
      BY <2>c, SpoolAssumption DEF Ids, None
    <3>3. CASE entId[f] = r
      <4>1. n = r /\ st' = st
        BY <2>c, <3>2, <3>3, Zenon
      <4>2. e = f
        BY <2>c, <3>2, <3>3, Zenon
      <4>3. index'[b] = f /\ entId'[f] = n
        BY <2>g, <3>3, <3>n, <4>2, Zenon
      <4> QED
        BY <2>c, <3>2, <3>3, <3>n, <4>1, <4>3, Zenon DEF Live
    <3>4. CASE entId[f] # r
      <4>1. entId[f] # n
        BY <2>c, <3>2, <3>4, Zenon
      <4>2. /\ st'[entId[f]] = "writing" /\ file'[entId[f]] = f
            /\ path'[entId[f]] = path[entId[f]] /\ path[entId[f]] \in Paths
        BY <2>b, <2>c, <3>2, <3>4, <4>1, Zenon
      <4>3. path[entId[f]] # b
        BY <2>f, <3>2, <3>n, Zenon
      <4>4. entId'[f] = entId[f] /\ index'[path[entId[f]]] = f
        <5>1. CASE e # None /\ entId[e] = r
          <6>1. f # e /\ path[entId[f]] # a
            BY <3>2, <3>4, <5>1, Zenon
          <6> QED
            BY <2>g, <3>2, <4>2, <4>3, <5>1, <6>1, Zenon
        <5>2. CASE ~(e # None /\ entId[e] = r)
          BY <2>g, <3>2, <5>2, Zenon
        <5> QED
          BY <5>1, <5>2, Zenon
      <4> QED
        BY <3>1, <3>2, <4>2, <4>4, Zenon DEF Live
    <3> QED
      BY <3>3, <3>4, Zenon
  <2>5. FinClosed'
    <3>1. ASSUME NEW x \in fin
          PROVE  /\ x.id # None /\ x.id < nextId' /\ st'[x.id] \in {"none", "writing"}
                 /\ \A f \in Ids : entId'[f] = x.id => entClosed'[f]
      <4>1. x.id # None /\ x.id < nextId /\ st[x.id] \in {"none", "writing"}
        BY <2>a, Zenon DEF FinClosed
      <4>2. x.id \in Ids
        BY <2>a, <4>1, Zenon DEF TypeOK
      <4>3. x.id < nextId'
        BY <2>b, <2>h, <4>1, <4>2 DEF Ids
      <4>4. st'[x.id] = st[x.id]
        <5>1. CASE x.id = r
          BY <2>c, <2>f, <4>1, <5>1, Zenon DEF Pending
        <5>2. CASE x.id # r
          BY <2>c, <2>i, <4>1, <4>2, <5>2, Zenon
        <5> QED
          BY <5>1, <5>2, Zenon
      <4>5. ASSUME NEW f \in Ids, entId'[f] = x.id PROVE entClosed'[f]
        <5>1. CASE n = r
          <6>1. entId'[f] = entId[f]
            BY <2>g, <5>1, Zenon
          <6> QED
            BY <2>a, <2>d, <4>5, <6>1, Zenon DEF FinClosed
        <5>2. CASE n # r
          <6>1. x.id # n
            BY <2>h, <4>1, <5>2, Zenon
          <6>2. entId'[f] = entId[f]
            BY <2>g, <4>5, <6>1, Zenon
          <6> QED
            BY <2>a, <2>d, <4>5, <6>2, Zenon DEF FinClosed
        <5> QED
          BY <5>1, <5>2, Zenon
      <4> QED
        BY <4>1, <4>3, <4>4, <4>5, Zenon
    <3>2. \A x, y \in fin : x.id = y.id => x = y
      BY <2>a, Zenon DEF FinClosed
    <3> QED
      BY <2>d, <3>1, <3>2, Zenon DEF FinClosed
  <2>6. NameTaken'
    BY <2>e, Zenon DEF NameTaken
  <2>7. Settling' /\ Quiescent'
    <3>1. retrying # None => st'[retrying] = "failed"
      <4> SUFFICES ASSUME retrying # None PROVE st'[retrying] = "failed"
        BY Zenon
      <4>1. retrying \in Ids /\ st[retrying] = "failed"
        BY <2>a, <2>b, Zenon DEF Settling
      <4>2. retrying # r /\ retrying # n
        BY <2>c, <2>f, <4>1, Zenon DEF Pending
      <4> QED
        BY <2>c, <4>1, <4>2, Zenon
    <3>2. ASSUME NEW q \in Ids, st'[q] = "done"
          PROVE  q \in holds \/ disk[file'[q]] = NoFile
      <4>1. q # n /\ q # r
        BY <2>c, <2>f, <3>2, Zenon DEF Pending
      <4>2. st[q] = "done" /\ file'[q] = file[q]
        BY <2>c, <3>2, <4>1, Zenon
      <4> QED
        BY <2>a, <4>2, Zenon DEF Settling
    <3>3. Settling'
      BY <2>d, <3>1, <3>2, Zenon DEF Settling
    <3>4. mode = "up"
      BY <2>a, <2>d, Zenon DEF Quiescent
    <3> QED
      BY <2>d, <3>3, <3>4, Zenon DEF Quiescent
  <2>8. Superseded'
    <3> SUFFICES ASSUME NEW q \in Ids, retired'[q]
                 PROVE  q < nextId' /\ st'[q] \notin Pending
      BY Zenon DEF Superseded
    <3>1. \/ retired[q]
          \/ ~retired[q] /\ Exists(q) /\ (path[q] = b \/ (path[q] = a /\ q < r))
      <4>1. retired' = [x \in Ids |-> retired[x] \/
              (Exists(x) /\ (path[x] = b \/ (path[x] = a /\ x < r)))]
        BY Zenon DEF MigrateRow
      <4> QED
        BY <4>1, Zenon
    <3>2. q < nextId
      BY <2>a, <3>1, Zenon DEF Superseded, RowsIssued
    <3>3. st[q] \notin Pending
      <4>1. CASE retired[q]
        BY <2>a, <4>1, Zenon DEF Superseded
      <4>2. CASE ~retired[q] /\ path[q] = b
        <5>1. ~Active(q)
          BY <2>f, <4>2, Zenon DEF ActiveAt
        <5> QED
          BY <4>2, <5>1, Zenon DEF Active, Pending
      <4>3. CASE ~retired[q] /\ path[q] = a /\ q < r
        <5>1. r > q /\ Exists(r) /\ ~retired[r] /\ path[r] = path[q]
          <6>1. q \in Int
            BY RowIds, Zenon
          <6>2. r > q
            BY <2>h, <4>3, <6>1, Zenon
          <6>3. Exists(r)
            BY <2>f, Zenon DEF Exists, Pending
          <6> QED
            BY <2>c, <4>3, <6>2, <6>3, Zenon DEF Active
        <5>2. HasNewerRowForPath(q)
          BY <2>c, <5>1, Zenon DEF HasNewerRowForPath
        <5>3. ~Active(q)
          BY <2>a, <5>2, Zenon DEF ActiveIsLatest
        <5> QED
          BY <4>3, <5>3, Zenon DEF Active, Pending
      <4> QED
        BY <3>1, <4>1, <4>2, <4>3, Zenon
    <3>4. q # r
      BY <2>f, <3>3, Zenon
    <3>5. st'[q] = st[q]
      BY <2>c, <2>i, <3>2, <3>4, Zenon
    <3>6. q < nextId'
      BY <2>b, <2>h, <3>2 DEF Ids
    <3> QED
      BY <3>3, <3>5, <3>6, Zenon
  <2>9. Accounted
    <3>1. ASSUME NEW f \in Ids PROVE Charged(f)' <=> Charged(f)
      <4>1. ASSUME Charged(f) PROVE Charged(f)'
        <5>1. PICK q \in Ids : file[q] = f /\ st[q] \in Charging
          BY <4>1, Zenon DEF Charged, Charging
        <5>2. \E x \in Ids : file'[x] = f /\ st'[x] \in Charging
          <6>1. CASE q = r
            BY <2>c, <5>1, <6>1, Zenon DEF Pending, Charging
          <6>2. CASE q # r
            <7>1. q # n
              BY <2>c, <5>1, <6>2, Zenon DEF Charging
            <7> QED
              BY <2>c, <5>1, <6>2, <7>1, Zenon
          <6> QED
            BY <6>1, <6>2, Zenon
        <5> QED
          BY <2>d, <4>1, <5>2, Zenon DEF Charged, Charging
      <4>2. ASSUME Charged(f)' PROVE Charged(f)
        <5>1. PICK q \in Ids : file'[q] = f /\ st'[q] \in Charging
          BY <4>2, Zenon DEF Charged, Charging
        <5>2. \E x \in Ids : file[x] = f /\ st[x] \in Charging
          <6>1. CASE q = n
            BY <2>c, <2>f, <5>1, <6>1, Zenon DEF Pending, Charging
          <6>2. CASE q # n
            <7>1. q # r \/ st'[q] = st[q]
              BY <2>c, <5>1, <6>2, Zenon DEF Charging
            <7> QED
              BY <2>c, <5>1, <6>2, <7>1, Zenon
          <6> QED
            BY <6>1, <6>2, Zenon
        <5> QED
          BY <2>d, <4>2, <5>2, Zenon DEF Charged, Charging
      <4> QED
        BY <4>1, <4>2, Zenon
    <3>2. \A f \in Ids : InUse(f)' <=> InUse(f)
      <4>1. ns.pc # "cancelled" /\ ns'.pc # "cancelled"
        BY <2>d, <2>e, Zenon
      <4> QED
        BY <3>1, <4>1, Zenon DEF InUse
    <3>3. Retried' = Retried
      <4>1. CASE retrying = None
        BY <2>d, <4>1, Zenon DEF Retried
      <4>2. CASE retrying # None
        <5>1. retrying \in Ids /\ st[retrying] = "failed"
          BY <2>a, <2>b, <4>2, Zenon DEF Settling
        <5>2. retrying # r /\ retrying # n
          BY <2>c, <2>f, <5>1, Zenon DEF Pending
        <5>3. st'[retrying] = st[retrying] /\ file'[retrying] = file[retrying]
          BY <2>c, <5>1, <5>2, Zenon
        <5> QED
          BY <2>d, <5>3, Zenon DEF Retried
      <4> QED
        BY <4>1, <4>2, Zenon
    <3>4. UNCHANGED <<mode, used>>
      BY <2>d, Zenon
    <3> QED
      BY <2>a, <3>2, <3>3, <3>4, SameUse, Zenon
  <2> QED
    BY <2>1, <2>2, <2>3, <2>4, <2>5, <2>6, <2>7, <2>8, <2>9, Zenon
    DEF CapStep, CapInv, Structure

\* Nothing to move: the operation goes on to the backend.
<1>CapMigrateNone.
  ASSUME CapInv, IInv', ns.pc = "spooled", ns' = [ns EXCEPT !.pc = "migrated"],
         UNCHANGED <<st, path, file, retired, nextId, holds, disk, mode, index,
                     entId, entClosed, used, lease, fin, wr, wpc, job, retrying>>
  PROVE  CapStep
  <2> USE <1>CapMigrateNone
  <2>a. /\ TypeOK /\ FilesOwned /\ LeasesHeld /\ Shadows /\ OpenLive /\ FinClosed
        /\ Settling /\ Quiescent /\ Superseded
    BY Zenon DEF CapInv, Structure, IInv
  <2>b. ns'.pc = "migrated" /\ ns'.kind = ns.kind /\ ns'.old = ns.old /\ ns'.new = ns.new
    <3>1. ns \in NameOps
      BY <2>a, Zenon DEF TypeOK
    <3> QED
      BY <3>1, Zenon DEF NameOps
  <2>1. FilesOwned' /\ Superseded'
    BY <2>a, Zenon DEF FilesOwned, Exists, Superseded
  <2>2. Shadows'
    BY <2>a, Zenon DEF Shadows, Shadow
  <2>3. FinClosed'
    BY <2>a, Zenon DEF FinClosed
  <2>4. LeasesHeld'
    <3>1. NameHolds'
      BY <2>a, <2>b, Zenon DEF LeasesHeld, NameHolds
    <3> QED
      BY <2>a, <3>1, Zenon DEF LeasesHeld, WriterHolds, WorkerHolds
  <2>5. OpenLive'
    BY <2>a, Zenon DEF OpenLive, Live
  <2>6. NameTaken'
    BY <2>b, Zenon DEF NameTaken
  <2>7. Settling' /\ Quiescent'
    BY <2>a, Zenon DEF Settling, Quiescent
  <2>8. Accounted
    <3>1. \A f \in Ids : InUse(f)' <=> InUse(f)
      BY <2>b, Zenon DEF InUse, Charged
    <3>2. Retried' = Retried
      BY Zenon DEF Retried
    <3> QED
      BY <2>a, <3>1, <3>2, SameUse, Zenon
  <2> QED
    BY <2>1, <2>2, <2>3, <2>4, <2>5, <2>6, <2>7, <2>8, Zenon DEF CapStep,
       CapInv, Structure

<1> SUFFICES ASSUME CapInv, IInv', NameOp PROVE CapStep
  BY Zenon
<1>2. CASE MigrateForRename
  <2>1. CASE \E r \in ActiveAt(ns.old) : MigrateRow(r)
    BY <1>2, <2>1, <1>CapMigrateRow, Zenon
  <2>2. CASE ~\E r \in ActiveAt(ns.old) : MigrateRow(r)
    <3>1. /\ ns.pc = "spooled" /\ ns' = [ns EXCEPT !.pc = "migrated"]
          /\ UNCHANGED <<st, path, file, retired, nextId, holds, disk, mode, index,
                         entId, entClosed, used, lease, fin, wr, wpc, job, retrying>>
      BY <1>2, <2>2, Zenon DEF MigrateForRename, table, columns, work
    <3> QED
      BY <3>1, <1>CapMigrateNone, Zenon
  <2> QED
    BY <2>1, <2>2, Zenon
<1>3. CASE MigrateRefused \/ remove
  <2>1. /\ ns.pc \in {"spooled", "migrated"} /\ \E to \in {Free, Poisoned} : EndName(to)
        /\ UNCHANGED <<st, path, file, retired, nextId, holds, disk, mode, index,
                       entId, entClosed, used, fin, wr, wpc, job, retrying>>
    BY <1>3, Zenon DEF MigrateRefused, remove, table, columns, ram, work
  <2> QED
    BY <2>1, <1>CapEndName, Zenon
<1>4. CASE rename
  <2>1. /\ ns.pc \in {"spooled", "migrated"} /\ \E to \in {Free, Poisoned} : EndName(to)
        /\ UNCHANGED <<st, path, file, retired, nextId, holds, disk, mode, index,
                       entId, entClosed, used, fin, wr, wpc, job, retrying>>
    BY <1>4, Zenon DEF rename, ram
  <2> QED
    BY <2>1, <1>CapEndName, Zenon
<1>5. CASE BackendRefused
  <2>1. /\ ns.pc \in {"spooled", "migrated"}
        /\ EndName(IF ns.files = {} /\ ns.how = "backend" THEN Free ELSE Poisoned)
        /\ UNCHANGED <<st, path, file, retired, nextId, holds, disk, mode, index,
                       entId, entClosed, used, fin, wr, wpc, job, retrying>>
    BY <1>5, Zenon DEF BackendRefused, ram, work
  <2> QED
    BY <2>1, <1>CapEndName, Zenon
<1> QED
  BY <1>2, <1>3, <1>4, <1>5, <1>CapBeginName, <1>CapCancel, Zenon DEF NameOp

-----------------------------------------------------------------------------
(* Restarts.                                                               *)

\* A process that dies leaves the table and the files.
LEMMA CapCrash ==
  ASSUME CapInv, IInv', Crash PROVE CapStep
<1>a. FilesOwned /\ Settling /\ Superseded /\ nextId \in Int /\ TypeOK
  BY CapTypes, Zenon DEF CapInv, Structure, IInv
<1>b. /\ mode' = "down" /\ index' = [p \in Paths |-> None]
      /\ entId' = [f \in Ids |-> None] /\ fin' = {}
      /\ wr' = [w \in Writers |-> IdleRequest]
      /\ wpc' = [d \in Workers |-> "idle"] /\ ns' = IdleName /\ retrying' = None
      /\ UNCHANGED <<st, path, file, retired, nextId, holds, disk>>
  BY Zenon DEF Crash
<1>c. \A f \in Ids : entClosed'[f]
  BY Zenon DEF Crash
<1>d. ns'.pc = "idle" /\ \A w \in Writers : wr'[w].pc = "idle"
  BY <1>b, Zenon DEF IdleName, IdleRequest
<1>1. FilesOwned' /\ Superseded'
  BY <1>a, <1>b, Zenon DEF FilesOwned, Exists, Superseded
<1>2. LeasesHeld'
  <2>1. \A w \in Writers : WriterHolds(w)'
    BY <1>d, Zenon DEF WriterHolds
  <2>2. NameHolds'
    BY <1>d, Zenon DEF NameHolds
  <2>3. \A d \in Workers : WorkerHolds(d)'
    BY <1>b, Zenon DEF WorkerHolds
  <2> QED
    BY <2>1, <2>2, <2>3, Zenon DEF LeasesHeld
<1>3. Shadows'
  <2>1. None < nextId'
    <3>1. nextId \in 1..(MaxRows + 1)
      BY <1>a, Zenon DEF TypeOK
    <3>2. 0 < nextId
      BY <3>1, SpoolAssumption
    <3> QED
      BY <1>b, <3>2, Zenon DEF None
  <2>2. \A f \in Ids : entId'[f] < nextId'
    BY <1>b, <2>1, Zenon
  <2>3. \A p \in Paths : Shadow(p)'
    BY <1>b, Zenon DEF Shadow
  <2> QED
    BY <2>2, <2>3, Zenon DEF Shadows
<1>4. OpenLive' /\ FinClosed' /\ NameTaken'
  BY <1>b, <1>c, <1>d, Zenon DEF OpenLive, FinClosed, NameTaken
<1>5. Settling' /\ Quiescent'
  BY <1>a, <1>b, <1>c, <1>d, Zenon DEF Settling, Quiescent
<1>6. Accounted
  BY <1>b, Zenon DEF Accounted
<1> QED
  BY <1>1, <1>2, <1>3, <1>4, <1>5, <1>6, Zenon DEF CapStep, CapInv, Structure

\* What a boot finds running: nothing.
LEMMA CapDown ==
  ASSUME CapInv, RecoverOnBoot
  PROVE  /\ TypeOK /\ RowsIssued /\ FilesOwned /\ LeasesHeld /\ Shadows /\ Settling
         /\ Superseded
         /\ ns.pc = "idle" /\ retrying = None /\ fin = {}
         /\ \A f \in Ids : entClosed[f]
         /\ \A w \in Writers : wr[w].pc = "idle"
         /\ UNCHANGED <<path, file, retired, nextId, holds, disk, entClosed, lease,
                        fin, wr, wpc, job, ns, retrying>>
<1>1. mode # "up"
  BY Zenon DEF RecoverOnBoot
<1>2. UNCHANGED <<path, file, retired, nextId, holds, disk, entClosed, lease,
                  fin, wr, wpc, job, ns, retrying>>
  BY Zenon DEF RecoverOnBoot, procs, work
<1>3. /\ TypeOK /\ RowsIssued /\ FilesOwned /\ LeasesHeld /\ Shadows /\ Settling
      /\ Superseded
  BY Zenon DEF CapInv, Structure, IInv
<1>4. /\ ns.pc = "idle" /\ retrying = None /\ fin = {}
      /\ \A f \in Ids : entClosed[f]
      /\ \A w \in Writers : wr[w].pc = "idle"
  BY <1>1, Zenon DEF CapInv, Structure, Quiescent
<1> QED
  BY <1>2, <1>3, <1>4, Zenon

\* A boot that goes through shadows every save that it queues.
LEMMA CapBoot ==
  ASSUME CapInv, RecoverOnBoot, CheckDrainCompletionRecovery PROVE Structure'
<1>a. /\ TypeOK /\ RowsIssued /\ FilesOwned /\ LeasesHeld /\ Settling /\ Superseded
      /\ ns.pc = "idle" /\ retrying = None /\ fin = {}
      /\ \A f \in Ids : entClosed[f]
      /\ \A w \in Writers : wr[w].pc = "idle"
      /\ UNCHANGED <<path, file, retired, nextId, holds, disk, entClosed, lease,
                     fin, wr, wpc, job, ns, retrying>>
  BY CapDown, Zenon
<1>b. file \in [Ids -> Ids] /\ nextId \in Int /\ 0 < nextId
  <2>1. file \in [Ids -> Ids] /\ nextId \in 1..(MaxRows + 1)
    BY <1>a, Zenon DEF TypeOK
  <2> QED
    BY <2>1, SpoolAssumption
<1> DEFINE owner(p) == {r \in Ids : path[r] = p /\ Latest(r)}
           ready == {r \in Ids : Latest(r) /\ Recovered(r) = "ready"}
<1>c. st' = [r \in Ids |-> Recovered(r)]
  BY Zenon DEF RecoverOnBoot
<1>g. index' = [p \in Paths |->
        IF owner(p) \cap ready = {} THEN None
        ELSE CHOOSE f \in Ids : \E r \in owner(p) \cap ready : f = file[r]]
  BY Zenon DEF RecoverOnBoot
<1>h. entId' = [f \in Ids |->
        IF \E r \in ready : file[r] = f
        THEN CHOOSE r \in ready : file[r] = f ELSE None]
  BY Zenon DEF RecoverOnBoot
<1>i. /\ \A r \in ready : r \in Ids /\ Latest(r) /\ Recovered(r) = "ready"
      /\ \A p \in Paths : \A r \in owner(p) \cap ready :
           r \in ready /\ r \in Ids /\ path[r] = p
  BY Zenon
<1> HIDE DEF owner, ready
<1>d. \A r \in Ids : /\ st'[r] = "none" <=> st[r] = "none"
                     /\ st'[r] = "done" => st[r] = "done"
                     /\ retired[r] => st'[r] = st[r]
  <2>1. \A r \in Ids : st'[r] = Recovered(r)
    BY <1>c, Zenon
  <2>2. \A r \in Ids : retired[r] => st'[r] = st[r]
    BY <2>1, Zenon DEF Recovered
  <2>3. \A r \in Ids : \/ st'[r] = st[r]
                       \/ /\ st[r] \notin {"none", "done"}
                          /\ st'[r] \in {"ready", "failed"}
    BY <2>1, Zenon DEF Recovered
  <2> QED
    BY <2>2, <2>3, Zenon
<1>e. \A r \in Ids : Exists(r)' <=> Exists(r)
  BY <1>d, Zenon DEF Exists
<1>f. \A r \in ready : /\ r \in Ids /\ Exists(r) /\ st'[r] = "ready"
                       /\ r < nextId /\ r # None
  <2>1. \A r \in ready : r \in Ids /\ Exists(r) /\ st'[r] = "ready"
    BY <1>c, <1>i, Zenon DEF Latest
  <2>2. \A r \in Ids : r # None
    BY SpoolAssumption DEF Ids, None
  <2> QED
    BY <1>a, <2>1, <2>2, Zenon DEF RowsIssued
<1>1. FilesOwned' /\ Superseded'
  BY <1>a, <1>d, <1>e, Zenon DEF FilesOwned, Superseded
<1>2. LeasesHeld'
  BY <1>a, Zenon DEF LeasesHeld, WriterHolds, NameHolds, WorkerHolds
<1>3. Shadows'
  <2>1. ASSUME NEW f \in Ids PROVE entId'[f] < nextId'
    <3>1. CASE \E r \in ready : file[r] = f
      <4>1. entId'[f] = CHOOSE r \in ready : file[r] = f
        BY <1>h, <3>1, Zenon
      <4>2. entId'[f] \in ready
        BY <3>1, <4>1, Zenon
      <4> QED
        BY <1>a, <1>f, <4>2, Zenon
    <3>2. CASE ~\E r \in ready : file[r] = f
      <4>1. entId'[f] = None
        BY <1>h, <3>2, Zenon
      <4> QED
        BY <1>a, <1>b, <4>1, Zenon DEF None
    <3> QED
      BY <3>1, <3>2, Zenon
  <2>2. ASSUME NEW p \in Paths, index'[p] # None PROVE Shadow(p)'
    <3> SUFFICES ASSUME NEW S, S = owner(p) \cap ready PROVE Shadow(p)'
      BY Zenon
    <3>1. index'[p] = IF owner(p) \cap ready = {} THEN None
                      ELSE CHOOSE f \in Ids :
                             \E r \in owner(p) \cap ready : f = file[r]
      BY <1>g, Zenon
    <3>2. S # {} /\ index'[p] = CHOOSE f \in Ids : \E r \in S : f = file[r]
      <4>1. index'[p] = IF S = {} THEN None
                        ELSE CHOOSE f \in Ids : \E r \in S : f = file[r]
        BY <3>1, Zenon
      <4> QED
        BY <2>2, <4>1, Zenon
    <3>3. \E f \in Ids : \E r \in S : f = file[r]
      <4>1. PICK q \in S : TRUE
        BY <3>2, Zenon
      <4>2. file[q] \in Ids
        BY <1>b, <1>i, <4>1, Zenon
      <4> QED
        BY <4>1, <4>2, Zenon
    <3>4. PICK q \in S : index'[p] = file[q]
      BY <3>2, <3>3, Zenon
    <3>5. q \in ready /\ q \in Ids /\ path[q] = p
      BY <1>i, <3>4, Zenon
    <3>6. file[q] \in Ids /\ file[q] < nextId
      BY <1>a, <1>b, <1>f, <3>5, Zenon DEF FilesOwned
    <3>7. entId'[file[q]] = CHOOSE r \in ready : file[r] = file[q]
      BY <1>h, <3>5, <3>6, Zenon
    <3>8. entId'[file[q]] \in ready /\ file[entId'[file[q]]] = file[q]
      BY <3>5, <3>7, Zenon
    <3>9. entId'[file[q]] = q
      BY <1>a, <1>f, <3>5, <3>8, Zenon DEF FilesOwned
    <3>10. st'[q] = "ready" /\ q # None
      BY <1>f, <3>5, Zenon
    <3>11. st'[q] # "failed"
      BY <3>10, Zenon
    <3> QED
      BY <1>a, <3>10, <3>11, <3>4, <3>5, <3>6, <3>9, Zenon DEF Shadow
  <2>3. ASSUME NEW p \in Paths PROVE Shadow(p)'
    BY <2>2, Zenon DEF Shadow
  <2> QED
    BY <2>1, <2>3, Zenon DEF Shadows
<1>4. OpenLive' /\ FinClosed' /\ NameTaken'
  BY <1>a, Zenon DEF OpenLive, FinClosed, NameTaken
<1>5. Settling' /\ Quiescent'
  BY <1>a, <1>d, Zenon DEF Settling, Quiescent
<1> QED
  BY <1>1, <1>2, <1>3, <1>4, <1>5, Zenon DEF Structure

\* ... and one that is refused changes nothing but the mode.
LEMMA CapRefused ==
  ASSUME CapInv, RecoverOnBoot, ~CheckDrainCompletionRecovery
  PROVE  Structure' /\ mode' # "up"
<1>a. /\ FilesOwned /\ LeasesHeld /\ Shadows /\ Settling /\ Superseded
      /\ ns.pc = "idle" /\ retrying = None /\ fin = {}
      /\ \A f \in Ids : entClosed[f]
      /\ \A w \in Writers : wr[w].pc = "idle"
      /\ UNCHANGED <<path, file, retired, nextId, holds, disk, entClosed, lease,
                     fin, wr, wpc, job, ns, retrying>>
  BY CapDown, Zenon
<1>b. mode' = "refused" /\ UNCHANGED <<st, index, entId>>
  BY Zenon DEF RecoverOnBoot
<1>1. FilesOwned' /\ Superseded'
  BY <1>a, <1>b, Zenon DEF FilesOwned, Exists, Superseded
<1>2. LeasesHeld'
  BY <1>a, Zenon DEF LeasesHeld, WriterHolds, NameHolds, WorkerHolds
<1>3. Shadows'
  BY <1>a, <1>b, Zenon DEF Shadows, Shadow
<1>4. OpenLive' /\ FinClosed' /\ NameTaken'
  BY <1>a, Zenon DEF OpenLive, FinClosed, NameTaken
<1>5. Settling' /\ Quiescent'
  BY <1>a, <1>b, Zenon DEF Settling, Quiescent
<1>6. mode' # "up"
  BY <1>b, Zenon
<1> QED
  BY <1>1, <1>2, <1>3, <1>4, <1>5, <1>6, Zenon DEF Structure

\* The files in use after a boot are those of the rows in R, one each.
InUseAfterBoot(R) ==
  /\ \A r \in R : r \in Ids /\ file[r] \in Ids
  /\ \A r, q \in R : file[r] = file[q] => r = q
  /\ \A f : f \in Occupied' <=> f \in Ids /\ \E r \in R : file[r] = f
  /\ Retried' = 0

\* These are the saves that the boot queues.
LEMMA BootFiles ==
  ASSUME CapInv, RecoverOnBoot, CheckDrainCompletionRecovery, NEW ready, NEW R,
         ready = {r \in Ids : Latest(r) /\ Recovered(r) = "ready"},
         st' = [r \in Ids |-> Recovered(r)],
         R = {r \in ready : disk[file[r]] > 0}
  PROVE  InUseAfterBoot(R)
<1>a. /\ TypeOK /\ FilesOwned /\ Settling /\ Superseded /\ ns.pc = "idle"
      /\ retrying = None
      /\ UNCHANGED <<path, file, retired, nextId, holds, disk, ns, retrying>>
  BY CapDown, Zenon
<1>b. file \in [Ids -> Ids]
  BY <1>a, CapTypes, Zenon
<1>1. \A r \in ready : r \in Ids /\ Exists(r) /\ st'[r] = "ready"
  BY Zenon DEF Latest
<1>2. ASSUME NEW r \in Ids, st'[r] \in Charging, disk[file[r]] > 0
      PROVE  r \in ready
  <2>1. st'[r] = Recovered(r)
    BY Zenon
  <2>2. ~retired[r]
    <3> SUFFICES ASSUME retired[r] PROVE FALSE
      BY Zenon
    <3>1. st'[r] = st[r] /\ st[r] \notin Pending
      BY <1>a, <2>1, Zenon DEF Recovered, Superseded
    <3>2. st[r] = "done"
      BY <1>2, <3>1 DEF Pending, Charging
    <3>3. disk[file[r]] = NoFile
      BY <3>2, Zenon DEF CheckDrainCompletionRecovery
    <3> QED
      BY <1>2, <3>3 DEF NoFile
  <2>3. st[r] \notin {"none", "done"}
    <3>1. st[r] # "done"
      <4>1. st[r] = "done" => disk[file[r]] = NoFile
        BY Zenon DEF CheckDrainCompletionRecovery
      <4> QED
        BY <1>2, <4>1 DEF NoFile
    <3>2. st[r] # "none"
      <4>1. st[r] = "none" => st'[r] = "none"
        BY <2>1 DEF Recovered
      <4> QED
        BY <1>2, <4>1 DEF Charging
    <3> QED
      BY <3>1, <3>2
  <2>4. Recovered(r) # "failed"
    BY <1>2, <2>1 DEF Charging
  <2>5. Latest(r) /\ Recovered(r) = "ready"
    BY <2>2, <2>3, <2>4, Zenon DEF Recovered
  <2> QED
    BY <2>5, Zenon
<1>3. \A f \in Ids : InUse(f)' <=> \E r \in R : file[r] = f
  <2> SUFFICES ASSUME NEW f \in Ids PROVE InUse(f)' <=> \E r \in R : file[r] = f
    BY Zenon
  <2>1. InUse(f)' <=> Charged(f)'
    BY <1>a, Zenon DEF InUse
  <2>2. Charged(f)' <=>
          disk[f] > 0 /\ \E r \in Ids : file[r] = f /\ st'[r] \in Charging
    BY <1>a, Zenon DEF Charged, Charging
  <2>3. Charged(f)' => \E r \in R : file[r] = f
    BY <1>2, <2>2, Zenon
  <2>4. (\E r \in R : file[r] = f) => Charged(f)'
    <3> SUFFICES ASSUME NEW r \in R, file[r] = f PROVE Charged(f)'
      BY Zenon
    <3>1. r \in Ids /\ disk[f] > 0 /\ st'[r] = "ready"
      BY <1>1, Zenon
    <3>2. st'[r] \in Charging
      BY <3>1 DEF Charging
    <3> QED
      BY <2>2, <3>1, <3>2, Zenon
  <2> QED
    BY <2>1, <2>3, <2>4
<1>4. \A f : f \in Occupied' <=> f \in Ids /\ \E r \in R : file[r] = f
  BY <1>3, Zenon DEF Occupied
<1>5. \A r \in R : r \in Ids /\ file[r] \in Ids
  BY <1>1, <1>b, Zenon
<1>6. \A r, q \in R : file[r] = file[q] => r = q
  BY <1>1, <1>a, Zenon DEF FilesOwned
<1>7. Retried' = 0
  BY <1>a, Zenon DEF Retried
<1> QED
  BY <1>4, <1>5, <1>6, <1>7, Zenon DEF InUseAfterBoot

-----------------------------------------------------------------------------
(* Initial states, and all steps of a process that serves.                 *)

\* Initially nothing is spooled.
LEMMA StructureInit ==
  ASSUME Init
  PROVE  Structure /\ used = 0 /\ Retried = 0 /\ \A f \in Ids : ~InUse(f)
<1>a. /\ st = [r \in Ids |-> "none"] /\ index = [p \in Paths |-> None]
      /\ entId = [f \in Ids |-> None] /\ nextId = 1 /\ fin = {} /\ mode = "up"
      /\ wr = [w \in Writers |-> IdleRequest] /\ wpc = [d \in Workers |-> "idle"]
      /\ ns = IdleName /\ retrying = None /\ used = 0
  BY Zenon DEF Init
<1>b. /\ \A f \in Ids : entClosed[f]
      /\ \A r \in Ids : ~retired[r]
  BY Zenon DEF Init
<1>c. ns.pc = "idle" /\ \A w \in Writers : wr[w].pc = "idle"
  BY <1>a, Zenon DEF IdleName, IdleRequest
<1>d. \A r \in Ids : st[r] = "none" /\ ~Exists(r)
  BY <1>a DEF Exists
<1>2. FilesOwned /\ Superseded
  BY <1>b, <1>d, Zenon DEF FilesOwned, Superseded
<1>3. LeasesHeld
  <2>1. \A w \in Writers : WriterHolds(w)
    BY <1>c DEF WriterHolds
  <2>2. NameHolds
    BY <1>c, Zenon DEF NameHolds
  <2>3. \A d \in Workers : WorkerHolds(d)
    BY <1>a DEF WorkerHolds
  <2> QED
    BY <2>1, <2>2, <2>3, Zenon DEF LeasesHeld
<1>4. Shadows
  BY <1>a DEF Shadows, Shadow, None
<1>5. OpenLive /\ FinClosed /\ NameTaken
  <2>1. OpenLive
    BY <1>b, Zenon DEF OpenLive
  <2>2. FinClosed
    BY <1>a, Zenon DEF FinClosed
  <2>3. NameTaken
    BY <1>c DEF NameTaken
  <2> QED
    BY <2>1, <2>2, <2>3
<1>6. Settling /\ Quiescent
  <2>1. Settling
    BY <1>a, <1>d DEF Settling
  <2>2. Quiescent
    BY <1>a, Zenon DEF Quiescent
  <2> QED
    BY <2>1, <2>2
<1>7. \A f \in Ids : ~InUse(f)
  BY <1>c, <1>d DEF InUse, Charged
<1>8. Retried = 0
  BY <1>a, Zenon DEF Retried
<1> QED
  BY <1>a, <1>2, <1>3, <1>4, <1>5, <1>6, <1>7, <1>8, Zenon DEF Structure

LEMMA CapStutter == CapInv /\ IInv' /\ UNCHANGED vars => CapStep
<1> SUFFICES ASSUME CapInv, IInv', UNCHANGED vars PROVE CapStep
  OBVIOUS
<1>1. UNCHANGED <<st, path, file, retired, nextId, holds, disk, mode, index,
                  entId, entClosed, used, lease, fin, wr, wpc, job, ns, retrying>>
  BY Zenon DEF vars, table, columns, ram, procs, work
<1>2. LeasesHeld'
  BY <1>1, Zenon DEF CapInv, Structure, LeasesHeld, WriterHolds, NameHolds,
     WorkerHolds
<1>3. holds \subseteq holds' /\ wr' = wr
  BY <1>1
<1> QED
  BY <1>1, <1>2, <1>3, QuietCap, Zenon

LEMMA CapSteps ==
  CapInv /\ IInv' /\ [Next]_vars => CapStep \/ Crash \/ RecoverOnBoot
<1> SUFFICES ASSUME CapInv, IInv', [Next]_vars
             PROVE  CapStep \/ Crash \/ RecoverOnBoot
  BY Zenon
<1> QED
  BY CapStutter, CapClient, CapWorker, CapMaintenance, CapNameOp, Zenon DEF Next
=============================================================================
