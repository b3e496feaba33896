--------------------------- MODULE SpoolRemovals ---------------------------
(***************************************************************************)
(* A name that a client removed stays removed: the steps of the spool keep *)
(* RemovalInv, as long as the sweeper does not collect the done row that   *)
(* supersedes a failed one.  The second half has the groundwork for stored *)
(* bytes, and the steps of clients and of the sweeper that keep StoredInv. *)
(***************************************************************************)
EXTENDS SpoolInv, TLAPS

-----------------------------------------------------------------------------
(* Steps that leave the names as they are.                                 *)

\* No row comes into being or to life, and none goes away.
SteadyRows ==
  /\ path' = path /\ retired' = retired
  /\ \A r \in Ids : Exists(r)' <=> Exists(r)
  /\ \A r \in Ids : st[r] = "done" => st'[r] = "done"

LEMMA SteadyRevivable ==
  ASSUME SteadyRows
  PROVE  \A r \in Ids : Revivable(r)' <=> Revivable(r) /\ st'[r] # "done"
<1>1. \A r \in Ids : HasNewerRowForPath(r)' <=> HasNewerRowForPath(r)
  BY Zenon DEF SteadyRows, HasNewerRowForPath
<1>2. \A r \in Ids : Latest(r)' <=> Latest(r)
  BY <1>1, Zenon DEF SteadyRows, Latest
<1> QED
  BY <1>2, Zenon DEF SteadyRows, Revivable

\* A step keeps the invariant if no row comes to life, no name disappears and
\* what it opens, indexes and publishes has a name.
LEMMA NamesKept ==
  ASSUME RemovalInv,
         \A r \in Ids : Revivable(r)' => Revivable(r) /\ path'[r] = path[r],
         \A p \in Paths : Present(p) => Present(p)',
         path \in [Ids -> Paths], ns \in NameOps, ns' = ns,
         OpensPresent', IndexPresent', BackendPresent', DrainsPresent'
  PROVE  RemovalInv'
<1>1. RowsPresent'
  BY Zenon DEF RemovalInv, RowsPresent
<1>2. NameCleared'
  BY Zenon DEF RemovalInv, NameCleared, Cancelling
<1>3. ns.new \in Paths
  BY Zenon DEF NameOps
<1>4. NamePhase'
  BY <1>3, Zenon DEF RemovalInv, NamePhase
<1> QED
  BY <1>1, <1>2, <1>4, Zenon DEF RemovalInv

\* The steps that neither store, remove nor publish anything.
Calm ==
  /\ SteadyRows /\ UNCHANGED <<saved, limbo, ns, data>>
  /\ \A d \in Workers : at'[d] \subseteq at[d]
  /\ \A p \in Paths : index'[p] # None => index[p] # None
  /\ \A w \in Writers : wr'[w].pc = "opening" /\ wr'[w].kind = "write" =>
       /\ wr[w].pc = "opening" /\ wr[w].kind = "write"
       /\ wr'[w].path = wr[w].path

LEMMA CalmStep == TypeOK /\ RemovalInv /\ Calm => RemovalInv'
<1> SUFFICES ASSUME TypeOK, RemovalInv, Calm PROVE RemovalInv'
  OBVIOUS
<1>1. \A r \in Ids : Revivable(r)' => Revivable(r) /\ path'[r] = path[r]
  BY SteadyRevivable, Zenon DEF Calm, SteadyRows
<1>2. \A p : Present(p)' <=> Present(p)
  BY Zenon DEF Calm, Present
<1>3. OpensPresent'
  BY <1>2, Zenon DEF Calm, OpensPresent, RemovalInv
<1>4. IndexPresent'
  BY <1>2, Zenon DEF Calm, IndexPresent, RemovalInv
<1>5. BackendPresent'
  BY <1>2, Zenon DEF Calm, BackendPresent, RemovalInv
<1>6. DrainsPresent'
  BY Zenon DEF Calm, DrainsPresent, RemovalInv
<1>7. path \in [Ids -> Paths] /\ ns \in NameOps /\ ns' = ns
  BY Zenon DEF TypeOK, Calm
<1> QED
  BY <1>1, <1>2, <1>3, <1>4, <1>5, <1>6, <1>7, NamesKept, Zenon
-----------------------------------------------------------------------------
(* Clients and the sweeper.                                                *)

LEMMA VersionNames ==
  \A v \in Versions : v # Removed /\ v # NoFile /\ v # Moved /\ v # Torn
BY SpoolAssumption DEF Versions, Removed, NoFile, Moved, Torn

\* A request that ends its open is no longer opening.
LEMMA OpenedCalm ==
  ASSUME TypeOK, NEW w \in Writers, NEW f, Opened(w, f)
  PROVE  /\ wr'[w].pc # "opening"
         /\ \A x \in Writers : x # w => wr'[x] = wr[x]
<1>1. wr \in [Writers -> Requests]
  BY Zenon DEF TypeOK
<1>2. \A x \in Writers : x # w => wr'[x] = wr[x]
  BY <1>1, Zenon DEF Opened
<1>3. CASE f = None
  <2>1. wr'[w] = IdleRequest
    BY <1>1, <1>3, Zenon DEF Opened
  <2> QED
    BY <1>2, <2>1 DEF IdleRequest
<1>4. CASE f # None
  <2>1. wr'[w] = [wr[w] EXCEPT !.pc = "open", !.file = f]
    BY <1>1, <1>4, Zenon DEF Opened
  <2>2. wr'[w].pc = "open"
    BY <1>1, <2>1, Zenon DEF Requests
  <2> QED
    BY <1>2, <2>2, Zenon
<1> QED
  BY <1>3, <1>4, Zenon

LEMMA RemOpenFile ==
  ASSUME TypeOK, RemovalInv, NEW w \in Writers, NEW p \in Paths,
         NEW kind \in Opens, openFile(w, p, kind)
  PROVE  RemovalInv'
<1>a. /\ UNCHANGED <<st, path, retired, saved, limbo, ns, data, at, index>>
      /\ wr' = [wr EXCEPT ![w] = [pc |-> "opening", kind |-> kind, path |-> p,
                                  file |-> None, sawClosed |-> FALSE]]
      /\ kind = "write" => index[p] # None
  BY Zenon DEF openFile, table, columns, ram, work, history
<1>b. wr \in [Writers -> Requests] /\ path \in [Ids -> Paths] /\ ns \in NameOps
  BY Zenon DEF TypeOK
<1>1. \A q : Present(q)' <=> Present(q)
  BY <1>a, Zenon DEF Present
<1>2. \A r \in Ids : Revivable(r)' => Revivable(r) /\ path'[r] = path[r]
  BY <1>a, Zenon DEF Revivable, Latest, HasNewerRowForPath, Exists
<1>3. OpensPresent'
  <2> SUFFICES ASSUME NEW x \in Writers, wr'[x].pc = "opening",
                      wr'[x].kind = "write"
               PROVE  Present(wr'[x].path)
    BY <1>1, Zenon DEF OpensPresent
  <2>1. CASE x = w
    <3>1. wr'[x] = [pc |-> "opening", kind |-> kind, path |-> p,
                    file |-> None, sawClosed |-> FALSE]
      BY <1>a, <1>b, <2>1, Zenon
    <3>2. kind = "write" /\ wr'[x].path = p
      BY <3>1
    <3> QED
      BY <1>a, <3>2, Zenon DEF RemovalInv, IndexPresent
  <2>2. CASE x # w
    <3>1. wr'[x] = wr[x]
      BY <1>a, <1>b, <2>2, Zenon
    <3> QED
      BY <3>1, Zenon DEF RemovalInv, OpensPresent
  <2> QED
    BY <2>1, <2>2, Zenon
<1>4. IndexPresent' /\ BackendPresent' /\ DrainsPresent'
  BY <1>1, <1>a, Zenon
     DEF RemovalInv, IndexPresent, BackendPresent, DrainsPresent
<1> QED
  BY <1>a, <1>b, <1>1, <1>2, <1>3, <1>4, NamesKept, Zenon

\* A fresh save makes its name present.
LEMMA RemOpenFresh ==
  ASSUME CapInv, RemovalInv, NEW w \in Writers, OpenFresh(w)
  PROVE  RemovalInv'
<1>p. wr[w].path \in Paths
  BY Zenon DEF CapInv, IInv, TypeOK, Requests
<1> SUFFICES ASSUME NEW p \in Paths, p = wr[w].path PROVE RemovalInv'
  BY <1>p, Zenon
<1>a. /\ wr[w].pc = "opening" /\ nextId \in Ids
      /\ st' = [st EXCEPT ![nextId] = "writing"]
      /\ path' = [path EXCEPT ![nextId] = p]
      /\ index' = [index EXCEPT ![p] = nextId]
      /\ Opened(w, nextId)
      /\ \/ wr[w].kind = "create" /\ saved' = [saved EXCEPT ![p] = 0]
            /\ limbo' = limbo \ {p}
         \/ wr[w].kind # "create" /\ UNCHANGED <<saved, limbo>>
      /\ UNCHANGED <<retired, data, at, ns>>
  BY Zenon DEF OpenFresh, work
<1>b. /\ TypeOK /\ wr \in [Writers -> Requests] /\ path \in [Ids -> Paths]
      /\ ns \in NameOps /\ st \in [Ids -> States]
      /\ index \in [Paths -> Ids \cup {None}]
      /\ saved \in [Paths -> Versions \cup {Removed, Moved}]
  BY Zenon DEF CapInv, IInv, TypeOK
<1>c. p \in Paths /\ wr[w].kind \in {"create", "write"} /\ ns.new \in Paths
  BY <1>b, Zenon DEF Requests, NameOps
<1>1. /\ Present(p)' /\ \A q \in Paths : Present(q) => Present(q)'
  <2>1. CASE wr[w].kind = "create"
    <3>1. saved'[p] = 0 /\ \A q \in Paths : q # p => saved'[q] = saved[q]
      BY <1>a, <1>b, <1>c, <2>1, Zenon
    <3>2. 0 # Removed
      BY DEF Removed
    <3> QED
      BY <1>a, <2>1, <3>1, <3>2, Zenon DEF Present
  <2>2. CASE wr[w].kind = "write"
    <3>1. saved' = saved /\ limbo' = limbo
      BY <1>a, <2>2, Zenon
    <3>2. Present(p)
      BY <1>a, <2>2, Zenon DEF RemovalInv, OpensPresent
    <3> QED
      BY <3>1, <3>2, Zenon DEF Present
  <2> QED
    BY <1>c, <2>1, <2>2, Zenon
<1>2. ASSUME NEW r \in Ids, r # nextId, Revivable(r)'
      PROVE  Revivable(r) /\ path'[r] = path[r]
  <2>1. path'[r] = path[r] /\ st'[r] = st[r]
    BY <1>a, <1>b, <1>2, Zenon
  <2>2. ASSUME NEW q \in Ids, q > r, Exists(q), ~retired[q], path[q] = path[r]
        PROVE  FALSE
    <3>1. q # nextId
      BY <2>2, <1>b DEF CapInv, IInv, RowsIssued, TypeOK
    <3>2. path'[q] = path[q] /\ st'[q] = st[q]
      BY <1>a, <1>b, <3>1, Zenon
    <3>3. HasNewerRowForPath(r)'
      BY <1>a, <2>1, <2>2, <3>2, Zenon DEF HasNewerRowForPath, Exists
    <3> QED
      BY <1>2, <3>3, Zenon DEF Revivable, Latest
  <2>3. ~HasNewerRowForPath(r)
    BY <2>2, Zenon DEF HasNewerRowForPath
  <2> QED
    BY <1>a, <1>2, <2>1, <2>3, Zenon DEF Revivable, Latest, Exists
<1>3. path'[nextId] = p
  BY <1>a, <1>b, Zenon
<1>4. RowsPresent'
  <2> SUFFICES ASSUME NEW r \in Ids, Revivable(r)' PROVE Present(path[r])'
    BY Zenon DEF RowsPresent
  <2>1. CASE r = nextId
    BY <1>1, <1>3, <2>1, Zenon DEF Present
  <2>2. CASE r # nextId
    <3>1. Present(path[r]) /\ path'[r] = path[r] /\ path[r] \in Paths
      BY <1>2, <1>b, <2>2, Zenon DEF RemovalInv, RowsPresent
    <3> QED
      BY <1>1, <3>1, Zenon DEF Present
  <2> QED
    BY <2>1, <2>2, Zenon
<1>5. NameCleared'
  <2> SUFFICES ASSUME NEW r \in Ids, Revivable(r)', Cancelling(ns.new)
               PROVE  path'[r] # ns.new
    BY <1>a, Zenon DEF NameCleared, Cancelling
  <2>1. CASE r = nextId
    <3>1. lease[p] = w
      BY <1>a, Zenon DEF CapInv, Structure, LeasesHeld, WriterHolds
    <3>2. lease[ns.new] = Handler
      BY Zenon DEF CapInv, Structure, LeasesHeld, NameHolds, Cancelling
    <3>3. w # Handler
      BY SpoolAssumption, Zenon DEF Handler
    <3> QED
      BY <1>3, <2>1, <3>1, <3>2, <3>3, Zenon
  <2>2. CASE r # nextId
    BY <1>2, <2>2, Zenon DEF RemovalInv, NameCleared
  <2> QED
    BY <2>1, <2>2, Zenon
<1>6. OpensPresent'
  <2> SUFFICES ASSUME NEW x \in Writers, wr'[x].pc = "opening",
                      wr'[x].kind = "write"
               PROVE  Present(wr[x].path)'
    BY Zenon DEF OpensPresent
  <2>1. x # w /\ wr'[x] = wr[x]
    BY <1>a, <1>b, OpenedCalm, Zenon
  <2>2. wr[x].path \in Paths
    BY <1>b, Zenon DEF Requests
  <2>3. Present(wr[x].path)
    BY <2>1, Zenon DEF RemovalInv, OpensPresent
  <2> QED
    BY <1>1, <2>1, <2>2, <2>3, Zenon DEF Present
<1>7. IndexPresent'
  <2>1. \A q \in Paths : q # p => index'[q] = index[q]
    BY <1>a, <1>b, Zenon
  <2> QED
    BY <1>1, <2>1, Zenon DEF RemovalInv, IndexPresent
<1>8. BackendPresent' /\ DrainsPresent'
  BY <1>a, <1>1, Zenon DEF RemovalInv, BackendPresent, DrainsPresent
<1>9. NamePhase'
  BY <1>a, <1>c, <1>1, Zenon DEF RemovalInv, NamePhase
<1> QED
  BY <1>4, <1>5, <1>6, <1>7, <1>8, <1>9, Zenon DEF RemovalInv

\* A step that only stores: WriteAt and writeBound.
LEMMA RemStore ==
  ASSUME TypeOK, RemovalInv,
         \A p \in Paths : Present(p) => Present(p)',
         \A p \in Paths : data'[p] # data[p] => data'[p] # NoFile /\ Present(p)',
         UNCHANGED <<st, path, retired, index, wr, at, ns>>
  PROVE  RemovalInv'
<1>b. /\ wr \in [Writers -> Requests] /\ path \in [Ids -> Paths]
      /\ ns \in NameOps /\ at \in [Workers -> SUBSET Paths]
  BY Zenon DEF TypeOK
<1>2. \A r \in Ids : Revivable(r)' => Revivable(r) /\ path'[r] = path[r]
  BY Zenon DEF Revivable, Latest, HasNewerRowForPath, Exists
<1>3. OpensPresent'
  <2>1. \A w \in Writers : wr[w].path \in Paths
    BY <1>b, Zenon DEF Requests
  <2> QED
    BY <2>1, Zenon DEF RemovalInv, OpensPresent
<1>4. IndexPresent' /\ BackendPresent'
  BY Zenon DEF RemovalInv, IndexPresent, BackendPresent
<1>5. DrainsPresent'
  <2>1. \A d \in Workers : \A p \in at[d] : p \in Paths
    BY <1>b, Zenon
  <2> QED
    BY <2>1, Zenon DEF RemovalInv, DrainsPresent
<1> QED
  BY <1>b, <1>2, <1>3, <1>4, <1>5, NamesKept, Zenon

LEMMA RemWriteAt ==
  ASSUME TypeOK, RemovalInv, NEW w \in Writers, WriteAt(w) PROVE RemovalInv'
<1>1. PICK v \in Versions :
        saved' = [p \in Paths |-> IF index[p] = wr[w].file THEN v ELSE saved[p]]
  BY Zenon DEF WriteAt
<1>2. UNCHANGED <<st, path, retired, index, wr, at, ns, data, limbo>>
  BY Zenon DEF WriteAt, table, columns, procs, work
<1>3. \A p \in Paths : Present(p) => Present(p)'
  BY <1>1, <1>2, VersionNames, Zenon DEF Present
<1> QED
  BY <1>2, <1>3, RemStore, Zenon

LEMMA RemWriteBound ==
  ASSUME TypeOK, RemovalInv, NEW w \in Writers, NEW p \in Paths,
         writeBound(w, p)
  PROVE  RemovalInv'
<1>1. PICK v \in Versions :
        saved' = [saved EXCEPT ![p] = v] /\ data' = [data EXCEPT ![p] = v]
  BY Zenon DEF writeBound
<1>2. /\ UNCHANGED <<st, path, retired, index, wr, at, ns>>
      /\ limbo' = limbo \ {p}
  BY Zenon DEF writeBound, ram, procs, work
<1>3. /\ saved'[p] = v /\ data'[p] = v
      /\ \A q \in Paths : q # p => saved'[q] = saved[q] /\ data'[q] = data[q]
  BY <1>1, Zenon DEF TypeOK
<1>4. \A q \in Paths : Present(q) => Present(q)'
  BY <1>2, <1>3, VersionNames, Zenon DEF Present
<1>5. Present(p)' /\ data'[p] # NoFile
  BY <1>3, VersionNames, Zenon DEF Present
<1>6. \A q \in Paths : data'[q] # data[q] => data'[q] # NoFile /\ Present(q)'
  BY <1>3, <1>5, Zenon
<1> QED
  BY <1>2, <1>4, <1>6, RemStore, Zenon

LEMMA RemClient ==
  ASSUME CapInv, RemovalInv, Client \/ Sweeper PROVE RemovalInv'
<1>t. TypeOK
  BY Zenon DEF CapInv, IInv
<1>w. wr \in [Writers -> Requests]
  BY <1>t, Zenon DEF TypeOK
<1>1. ASSUME NEW w \in Writers, NEW p \in Paths, NEW kind \in Opens,
             openFile(w, p, kind)
      PROVE  RemovalInv'
  BY <1>1, <1>t, RemOpenFile, Zenon
<1>2. ASSUME NEW w \in Writers, OpenShared(w) \/ OpenRefused(w) PROVE RemovalInv'
  <2>1. /\ UNCHANGED <<st, path, retired, saved, limbo, ns, data, at, index>>
        /\ \E f : Opened(w, f)
    BY <1>2, Zenon
       DEF OpenShared, OpenRefused, table, columns, ram, work, history
  <2>2. \A x \in Writers : wr'[x].pc = "opening" => wr'[x] = wr[x]
    BY <1>t, <2>1, OpenedCalm, Zenon
  <2>3. Calm
    BY <2>1, <2>2, Zenon DEF Calm, SteadyRows, Exists
  <2> QED
    BY <1>t, <2>3, CalmStep, Zenon
<1>3. ASSUME NEW w \in Writers, ReopenReady(w) PROVE RemovalInv'
  <2>1. /\ UNCHANGED <<path, retired, saved, limbo, ns, data, at, index>>
        /\ \E f : Opened(w, f)
        /\ \E r : st' = [st EXCEPT ![r] = "writing"] /\ st[r] = "ready"
    BY <1>3, Zenon DEF ReopenReady, Reopenable, columns, work, history
  <2>2. \A x \in Writers : wr'[x].pc = "opening" => wr'[x] = wr[x]
    BY <1>t, <2>1, OpenedCalm, Zenon
  <2>3. \A r \in Ids : st'[r] = st[r] \/ (st[r] = "ready" /\ st'[r] = "writing")
    BY <1>t, <2>1, Zenon DEF TypeOK
  <2>4. SteadyRows
    BY <2>1, <2>3, Zenon DEF SteadyRows, Exists
  <2>5. Calm
    BY <2>1, <2>2, <2>4, Zenon DEF Calm
  <2> QED
    BY <1>t, <2>5, CalmStep, Zenon
<1>4. ASSUME NEW w \in Writers, OpenWait(w) \/ ReleaseHandle(w)
      PROVE  RemovalInv'
  <2>1. /\ UNCHANGED <<st, path, retired, saved, limbo, ns, data, at, index>>
        /\ \/ wr' = [wr EXCEPT ![w].sawClosed = TRUE]
           \/ wr' = [wr EXCEPT ![w] = IdleRequest]
    BY <1>4, Zenon
       DEF OpenWait, ReleaseHandle, table, columns, ram, work, history
  <2>2. \A x \in Writers : wr'[x].pc = "opening" =>
          /\ wr[x].pc = "opening" /\ wr'[x].kind = wr[x].kind
          /\ wr'[x].path = wr[x].path
    BY <1>w, <2>1 DEF Requests, IdleRequest
  <2>3. Calm
    BY <2>1, <2>2, Zenon DEF Calm, SteadyRows, Exists
  <2> QED
    BY <1>t, <2>3, CalmStep, Zenon
<1>5. ASSUME NEW w \in Writers, OpenFresh(w) PROVE RemovalInv'
  BY <1>5, RemOpenFresh, Zenon
<1>6. ASSUME NEW w \in Writers, WriteAt(w) PROVE RemovalInv'
  BY <1>6, <1>t, RemWriteAt, Zenon
<1>7. ASSUME NEW w \in Writers, NEW p \in Paths, writeBound(w, p)
      PROVE  RemovalInv'
  BY <1>7, <1>t, RemWriteBound, Zenon
<1>8. ASSUME NEW f \in Ids, finalizeLocked(f) PROVE RemovalInv'
  <2>1. UNCHANGED <<st, path, retired, saved, limbo, ns, data, at, index, wr>>
    BY <1>8, Zenon DEF finalizeLocked, table, columns, work, history
  <2>2. Calm
    BY <2>1, Zenon DEF Calm, SteadyRows, Exists
  <2> QED
    BY <1>t, <2>2, CalmStep, Zenon
<1>9. ASSUME NEW x \in fin, MarkReady(x) PROVE RemovalInv'
  <2>1. /\ UNCHANGED <<path, retired, saved, limbo, ns, data, at, index, wr>>
        /\ \/ st' = [st EXCEPT ![x.id] = "ready"] /\ st[x.id] = "writing"
           \/ st' = st
    BY <1>9, Zenon DEF MarkReady, ram, work, history
  <2>2. \A r \in Ids : st'[r] = st[r] \/ (st[r] = "writing" /\ st'[r] = "ready")
    BY <1>t, <2>1, Zenon DEF TypeOK
  <2>3. SteadyRows
    BY <2>1, <2>2, Zenon DEF SteadyRows, Exists
  <2>4. Calm
    BY <2>1, <2>3, Zenon DEF Calm
  <2> QED
    BY <1>t, <2>4, CalmStep, Zenon
<1> QED
  BY <1>1, <1>2, <1>3, <1>4, <1>5, <1>6, <1>7, <1>8, <1>9, Zenon
     DEF Client, Sweeper

-----------------------------------------------------------------------------
(* Drain workers.                                                          *)

\* A worker moves its row on, perhaps leaves, and touches no file.
LEMMA RemWorkerCalm ==
  ASSUME TypeOK, RemovalInv, NEW d \in Workers,
         UNCHANGED <<path, retired, saved, limbo, ns, data, wr>>,
         at' = at \/ at' = [at EXCEPT ![d] = {}],
         \/ index' = index
         \/ \E p : index' = [index EXCEPT ![p] = None],
         \/ st' = st
         \/ \E s \in {"ready", "draining", "failed", "done"} :
              \E r : /\ st' = [st EXCEPT ![r] = s]
                     /\ st[r] \in {"ready", "draining"}
  PROVE  RemovalInv'
<1>1. \A r \in Ids : \/ st'[r] = st[r]
                     \/ /\ st[r] \in {"ready", "draining"}
                        /\ st'[r] \in {"ready", "draining", "failed", "done"}
  BY Zenon DEF TypeOK
<1>2. SteadyRows
  BY <1>1, Zenon DEF SteadyRows, Exists
<1>3. \A e \in Workers : at'[e] \subseteq at[e]
  BY Zenon DEF TypeOK
<1>4. \A p \in Paths : index'[p] # None => index[p] # None
  BY Zenon DEF TypeOK
<1>5. Calm
  BY <1>2, <1>3, <1>4, Zenon DEF Calm
<1> QED
  BY <1>5, CalmStep, Zenon

\* A worker that changes the backend leaves every file there, and a file of a
\* name that is present.
LEMMA RemWorkerStore ==
  ASSUME TypeOK, RemovalInv,
         UNCHANGED <<path, retired, saved, limbo, ns, wr>>, SteadyRows,
         \A p \in Paths : index'[p] # None => index[p] # None,
         \A p \in Paths : data'[p] # data[p] => data'[p] # NoFile /\ Present(p),
         \A d \in Workers : \A p \in at'[d] :
           p \in Paths /\ (p \in at[d] \/ data'[p] # NoFile)
  PROVE  RemovalInv'
<1>1. \A r \in Ids : Revivable(r)' => Revivable(r) /\ path'[r] = path[r]
  BY SteadyRevivable, Zenon
<1>2. \A p : Present(p)' <=> Present(p)
  BY Zenon DEF Present
<1>3. OpensPresent' /\ IndexPresent'
  BY <1>2, Zenon DEF OpensPresent, IndexPresent, RemovalInv
<1>4. BackendPresent'
  BY <1>2, Zenon DEF BackendPresent, RemovalInv
<1>5. DrainsPresent'
  BY Zenon DEF DrainsPresent, RemovalInv
<1>6. path \in [Ids -> Paths] /\ ns \in NameOps /\ ns' = ns
  BY Zenon DEF TypeOK
<1> QED
  BY <1>1, <1>2, <1>3, <1>4, <1>5, <1>6, NamesKept, Zenon

LEMMA FailedRow ==
  ASSUME NEW d \in Workers, NEW integrity, FailClaimedDrain(d, integrity)
  PROVE  /\ \/ index' = index
            \/ \E p : index' = [index EXCEPT ![p] = None]
         /\ \/ st' = st
            \/ \E r : st' = [st EXCEPT ![r] = "failed"] /\ st[r] = "draining"
BY Zenon DEF FailClaimedDrain, drainStillClaimed

LEMMA RemOpenTarget ==
  ASSUME CapInv, RemovalInv, NEW d \in Workers, openDrainTarget(d)
  PROVE  RemovalInv'
<1>t. TypeOK
  BY Zenon DEF CapInv, IInv
<1>p. job[d].path \in Paths /\ at \in [Workers -> SUBSET Paths]
      /\ data \in [Paths -> Versions \cup {NoFile, Torn}]
  BY <1>t, Zenon DEF TypeOK, Jobs
<1> SUFFICES ASSUME NEW p \in Paths, p = job[d].path PROVE RemovalInv'
  BY <1>p, Zenon
<1>a. /\ UNCHANGED <<st, path, retired, saved, limbo, ns, wr, index>>
      /\ \/ /\ data[p] # NoFile /\ data' = [data EXCEPT ![p] = Torn]
            /\ at' = [at EXCEPT ![d] = {p}]
         \/ data' = data /\ at' = [at EXCEPT ![d] = {}]
  BY Zenon DEF openDrainTarget, drainTarget, Leave, ram, history
<1>1. SteadyRows
  BY <1>a, Zenon DEF SteadyRows, Exists
<1>2. CASE data' = data /\ at' = [at EXCEPT ![d] = {}]
  BY <1>a, <1>2, <1>t, RemWorkerCalm, Zenon
<1>3. CASE data[p] # NoFile /\ data' = [data EXCEPT ![p] = Torn]
           /\ at' = [at EXCEPT ![d] = {p}]
  <2>1. data'[p] = Torn /\ \A q \in Paths : q # p => data'[q] = data[q]
    BY <1>p, <1>3, Zenon
  <2>2. Torn # NoFile
    BY DEF Torn, NoFile
  <2>3. Present(p)
    BY <1>3, Zenon DEF RemovalInv, BackendPresent
  <2>4. \A q \in Paths : data'[q] # data[q] => data'[q] # NoFile /\ Present(q)
    BY <2>1, <2>2, <2>3, Zenon
  <2>5. \A e \in Workers : \A q \in at'[e] :
          q \in Paths /\ (q \in at[e] \/ data'[q] # NoFile)
    BY <1>p, <1>3, <2>1, <2>2, Zenon
  <2> QED
    BY <1>a, <1>t, <1>1, <2>4, <2>5, RemWorkerStore, Zenon
<1> QED
  BY <1>a, <1>2, <1>3, Zenon

\* The copy rewrites the file that the worker has open, and nothing else.
LEMMA RemCopy ==
  ASSUME CapInv, RemovalInv, NEW d \in Workers, Copy(d) PROVE RemovalInv'
<1>t. TypeOK
  BY Zenon DEF CapInv, IInv
<1>p. /\ at \in [Workers -> SUBSET Paths] /\ job[d].file \in Ids
      /\ disk \in [Ids -> Contents] /\ buf \in [Workers -> Versions]
  BY <1>t, Zenon DEF TypeOK, Jobs
<1>a. /\ UNCHANGED <<path, retired, saved, limbo, ns, wr>>
      /\ data' = [p \in Paths |-> IF p \in at[d] THEN Source(d) ELSE data[p]]
      /\ at' = at \/ at' = [at EXCEPT ![d] = {}]
      /\ \/ index' = index
         \/ \E p : index' = [index EXCEPT ![p] = None]
      /\ \/ st' = st
         \/ \E r : st' = [st EXCEPT ![r] = "failed"] /\ st[r] = "draining"
  BY FailedRow, Zenon DEF Copy, Leave, history
<1>1. Source(d) # NoFile
  BY <1>p, VersionNames, Zenon DEF Source
<1>2. \A p \in Paths : data'[p] # data[p] => data'[p] # NoFile /\ Present(p)
  <2>1. \A p \in at[d] : data[p] # NoFile
    BY Zenon DEF RemovalInv, DrainsPresent
  <2> QED
    BY <1>a, <1>1, <2>1, Zenon DEF RemovalInv, BackendPresent
<1>3. \A r \in Ids : st'[r] = st[r] \/ (st[r] = "draining" /\ st'[r] = "failed")
  BY <1>a, <1>t, Zenon DEF TypeOK
<1>4. SteadyRows
  BY <1>a, <1>3, Zenon DEF SteadyRows, Exists
<1>5. \A p \in Paths : index'[p] # None => index[p] # None
  BY <1>a, <1>t, Zenon DEF TypeOK
<1>6. \A e \in Workers : \A p \in at'[e] : p \in Paths /\ p \in at[e]
  BY <1>a, <1>p, Zenon
<1> QED
  BY <1>a, <1>t, <1>2, <1>4, <1>5, <1>6, RemWorkerStore, Zenon

\* What is installed belongs to a row that drains, so its name is present.
LEMMA RemInstall ==
  ASSUME CapInv, RemovalInv, NEW d \in Workers, installNewName(d)
  PROVE  RemovalInv'
<1>t. TypeOK
  BY Zenon DEF CapInv, IInv
<1>p. /\ job[d].path \in Paths /\ at \in [Workers -> SUBSET Paths]
      /\ job[d].id \in Ids /\ buf[d] \in Versions
      /\ data \in [Paths -> Versions \cup {NoFile, Torn}]
  BY <1>t, Zenon DEF TypeOK, Jobs
<1> SUFFICES ASSUME NEW p \in Paths, p = job[d].path PROVE RemovalInv'
  BY <1>p, Zenon
<1>a. /\ UNCHANGED <<st, path, retired, saved, limbo, ns, wr, index>>
      /\ \/ /\ drainStillClaimed(d) /\ data' = [data EXCEPT ![p] = buf[d]]
            /\ at' = Unlinked(p)
         \/ data' = data /\ at' = [at EXCEPT ![d] = {}]
  BY Zenon DEF installNewName, Leave, ram, history
<1>1. SteadyRows
  BY <1>a, Zenon DEF SteadyRows, Exists
<1>2. CASE data' = data /\ at' = [at EXCEPT ![d] = {}]
  BY <1>a, <1>2, <1>t, RemWorkerCalm, Zenon
<1>3. CASE drainStillClaimed(d) /\ data' = [data EXCEPT ![p] = buf[d]]
           /\ at' = Unlinked(p)
  <2>1. data'[p] = buf[d] /\ \A q \in Paths : q # p => data'[q] = data[q]
    BY <1>p, <1>3, Zenon
  <2>2. PICK r \in Ids : r = job[d].id /\ st[r] = "draining" /\ ~retired[r]
                         /\ path[r] = p
    BY <1>p, <1>3, Zenon DEF drainStillClaimed
  <2>3. Active(r) /\ Exists(r) /\ st[r] # "done"
    BY <2>2, Zenon DEF Active, Exists
  <2>4. Revivable(r)
    BY <2>2, <2>3, Zenon DEF CapInv, IInv, ActiveIsLatest, Revivable, Latest
  <2>5. Present(p) /\ buf[d] # NoFile
    BY <1>p, <2>2, <2>4, VersionNames, Zenon DEF RemovalInv, RowsPresent
  <2>6. \A q \in Paths : data'[q] # data[q] => data'[q] # NoFile /\ Present(q)
    BY <2>1, <2>5, Zenon
  <2>7. \A e \in Workers : \A q \in at'[e] : q \in Paths /\ q \in at[e]
    BY <1>p, <1>3, Zenon DEF Unlinked
  <2> QED
    BY <1>a, <1>t, <1>1, <2>6, <2>7, RemWorkerStore, Zenon
<1> QED
  BY <1>a, <1>2, <1>3, Zenon

LEMMA RemWorker ==
  ASSUME CapInv, RemovalInv, NEW d \in Workers, Worker(d) PROVE RemovalInv'
<1>t. TypeOK /\ Owned(d)
  BY Zenon DEF CapInv, IInv, WorkersOwn
<1>1. ASSUME NEW r \in Ids, markDraining(d, r) PROVE RemovalInv'
  <2>1. /\ UNCHANGED <<path, retired, saved, limbo, ns, data, wr, at, index>>
        /\ st' = [st EXCEPT ![r] = "draining"] /\ st[r] = "ready"
    BY <1>1, Zenon DEF markDraining, Claimable, columns, ram, history
  <2> QED
    BY <1>t, <2>1, RemWorkerCalm, Zenon
<1>2. CASE Reread(d)
  <2>1. /\ UNCHANGED <<st, path, retired, saved, limbo, ns, data, wr, index>>
        /\ at' = at \/ at' = [at EXCEPT ![d] = {}]
    BY <1>2, Zenon DEF Reread, Leave, table, columns, ram, history
  <2> QED
    BY <1>t, <2>1, RemWorkerCalm, Zenon
<1>3. CASE ResetToReady(d)
  <2>1. /\ UNCHANGED <<path, retired, saved, limbo, ns, data, wr, index>>
        /\ at' = [at EXCEPT ![d] = {}]
        /\ wpc[d] \in {"claimed", "loaded", "copied"}
        /\ \/ st' = st
           \/ st' = [st EXCEPT ![job[d].id] = "ready"] /\ Exists(job[d].id)
    BY <1>3, Zenon DEF ResetToReady, Leave, columns, ram, history
  <2>2. st[job[d].id] \in {"none", "draining"}
    BY <1>t, <2>1, Zenon DEF Owned
  <2>3. \/ st' = st
        \/ st' = [st EXCEPT ![job[d].id] = "ready"] /\ st[job[d].id] = "draining"
    BY <2>1, <2>2, Zenon DEF Exists
  <2> QED
    BY <1>t, <2>1, <2>3, RemWorkerCalm, Zenon
<1>4. CASE failTransient(d)
  <2>1. /\ UNCHANGED <<path, retired, saved, limbo, ns, data, wr, index>>
        /\ at' = [at EXCEPT ![d] = {}]
        /\ \/ st' = st
           \/ /\ st' = [st EXCEPT ![job[d].id] = "ready"]
              /\ st[job[d].id] = "draining"
    BY <1>4, Zenon DEF failTransient, Leave, ram
  <2> QED
    BY <1>t, <2>1, RemWorkerCalm, Zenon
<1>5. CASE failPermanent(d) \/ publishConflictCopy(d)
  <2>1. /\ UNCHANGED <<path, retired, saved, limbo, ns, data, wr>>
        /\ at' = [at EXCEPT ![d] = {}]
        /\ \E i : FailClaimedDrain(d, i)
    BY <1>5, Zenon DEF failPermanent, publishConflictCopy, Leave, history
  <2>2. /\ \/ index' = index
           \/ \E p : index' = [index EXCEPT ![p] = None]
        /\ \/ st' = st
           \/ \E r : st' = [st EXCEPT ![r] = "failed"] /\ st[r] = "draining"
    BY <2>1, FailedRow, Zenon
  <2> QED
    BY <1>t, <2>1, <2>2, RemWorkerCalm, Zenon
<1>6. CASE RequeueUnadmittedDrain(d)
  <2>1. /\ UNCHANGED <<path, retired, saved, limbo, ns, data, wr, index>>
        /\ at' = [at EXCEPT ![d] = {}]
        /\ \/ st' = st
           \/ /\ st' = [st EXCEPT ![job[d].id] = "ready"]
              /\ st[job[d].id] = "draining"
    BY <1>6, Zenon
       DEF RequeueUnadmittedDrain, drainStillClaimed, Leave, columns,
       ram, history
  <2> QED
    BY <1>t, <2>1, RemWorkerCalm, Zenon
<1>7. CASE prepareDrainCompletions(d) \/ holdCompletion(d) \/ PoisonCompletion(d)
  <2>1. /\ UNCHANGED <<st, path, retired, saved, limbo, ns, data, wr, index>>
        /\ at' = at \/ at' = [at EXCEPT ![d] = {}]
    BY <1>7, Zenon
       DEF prepareDrainCompletions, holdCompletion, PoisonCompletion,
       Goto, Leave, table, columns, ram, work, history
  <2> QED
    BY <1>t, <2>1, RemWorkerCalm, Zenon
<1>8. CASE batchMarkDone(d)
  <2>1. /\ UNCHANGED <<path, retired, saved, limbo, ns, data, wr, index, at>>
        /\ st' = [st EXCEPT ![job[d].id] = "done"] /\ wpc[d] = "held"
    BY <1>8, Zenon DEF batchMarkDone, Goto, columns, ram, work, history
  <2>2. st[job[d].id] = "draining"
    BY <1>t, <2>1, Zenon DEF Owned
  <2> QED
    BY <1>t, <2>1, <2>2, RemWorkerCalm, Zenon
<1>9. CASE CompleteAcknowledgedDrain(d)
  <2>1. /\ UNCHANGED <<st, path, retired, saved, limbo, ns, data, wr>>
        /\ at' = [at EXCEPT ![d] = {}]
        /\ \/ index' = index
           \/ \E p : index' = [index EXCEPT ![p] = None]
    BY <1>9, Zenon DEF CompleteAcknowledgedDrain, columns, history
  <2> QED
    BY <1>t, <2>1, RemWorkerCalm, Zenon
<1> QED
  BY <1>1, <1>2, <1>3, <1>4, <1>5, <1>6, <1>7, <1>8, <1>9, RemOpenTarget,
     RemCopy,
     RemInstall, Zenon DEF Worker

-----------------------------------------------------------------------------
(* Retries, collection and reconciliation.                                 *)

\* A collected row superseded no failed save, so none can be retried now.
LEMMA RemDeleteDone ==
  ASSUME CapInv, RemovalInv, NEW r \in Ids, DeleteDone(r), ~StaleCollection
  PROVE  RemovalInv'
<1>t. TypeOK
  BY Zenon DEF CapInv, IInv
<1>a. /\ UNCHANGED <<path, retired, saved, limbo, ns, data, wr, index, at>>
      /\ st' = [st EXCEPT ![r] = "none"] /\ st[r] = "done"
  BY Zenon DEF DeleteDone, columns, ram, procs, work
<1>b. st'[r] = "none" /\ \A q \in Ids : q # r => st'[q] = st[q]
  BY <1>a, <1>t, Zenon DEF TypeOK
<1>1. ASSUME NEW q \in Ids, Revivable(q)' PROVE Revivable(q)
  <2>1. q # r /\ st'[q] = st[q]
    BY <1>1, <1>b, Zenon DEF Revivable, Latest, Exists
  <2>2. Exists(q) /\ ~retired[q] /\ st[q] # "done" /\ ~HasNewerRowForPath(q)'
    BY <1>1, <1>a, <2>1, Zenon DEF Revivable, Latest, Exists
  <2>3. ASSUME NEW z \in Ids, z > q, Exists(z), ~retired[z], path[z] = path[q]
        PROVE  FALSE
    <3>1. z = r
      BY <1>a, <1>b, <2>2, <2>3, Zenon DEF HasNewerRowForPath, Exists
    <3>2. q < r
      BY <2>3, <3>1, Zenon DEF Ids
    <3>3. st[q] # "failed"
      BY <2>2, <2>3, <3>1, <3>2, Zenon DEF StaleCollection
    <3>4. st[q] \in States
      BY <1>t, Zenon DEF TypeOK
    <3>5. Active(q)
      BY <2>2, <3>3, <3>4, Zenon DEF Active, States, Exists
    <3> QED
      BY <2>3, <3>5, Zenon DEF CapInv, IInv, ActiveIsLatest, HasNewerRowForPath
  <2>4. ~HasNewerRowForPath(q)
    BY <2>3, Zenon DEF HasNewerRowForPath
  <2> QED
    BY <2>2, <2>4, Zenon DEF Revivable, Latest
<1>2. \A p : Present(p)' <=> Present(p)
  BY <1>a, Zenon DEF Present
<1>3. OpensPresent' /\ IndexPresent' /\ BackendPresent' /\ DrainsPresent'
  BY <1>a, <1>2, Zenon DEF OpensPresent, IndexPresent, BackendPresent,
     DrainsPresent, RemovalInv
<1>4. path \in [Ids -> Paths] /\ ns \in NameOps /\ ns' = ns
  BY <1>a, <1>t, Zenon DEF TypeOK
<1> QED
  BY <1>a, <1>1, <1>2, <1>3, <1>4, NamesKept, Zenon

LEMMA RemMaintenance ==
  ASSUME CapInv, RemovalInv, Maintenance, ~StaleCollection PROVE RemovalInv'
<1>t. TypeOK
  BY Zenon DEF CapInv, IInv
<1>1. ASSUME NEW r \in Ids, retryFailed(r) PROVE RemovalInv'
  <2>1. UNCHANGED <<st, path, retired, saved, limbo, ns, data, wr, index, at>>
    BY <1>1, Zenon DEF retryFailed, table, columns, work, history
  <2>2. Calm
    BY <2>1, Zenon DEF Calm, SteadyRows, Exists
  <2> QED
    BY <1>t, <2>2, CalmStep, Zenon
<1>2. ASSUME NEW r \in Ids, ResetForRetry(r) PROVE RemovalInv'
  <2>1. /\ UNCHANGED <<path, retired, saved, limbo, ns, data, wr, index, at>>
        /\ \/ st' = [st EXCEPT ![r] = "ready"] /\ st[r] = "failed"
           \/ st' = st
    BY <1>2, Zenon DEF ResetForRetry, Retryable, work, history
  <2>2. \A q \in Ids : st'[q] = st[q] \/ (st[q] = "failed" /\ st'[q] = "ready")
    BY <1>t, <2>1, Zenon DEF TypeOK
  <2>3. SteadyRows
    BY <2>1, <2>2, Zenon DEF SteadyRows, Exists
  <2>4. Calm
    BY <2>1, <2>3, Zenon DEF Calm
  <2> QED
    BY <1>t, <2>4, CalmStep, Zenon
<1>3. ASSUME NEW p \in Paths, Reconcile(p) PROVE RemovalInv'
  <2>1. UNCHANGED <<st, path, retired, saved, limbo, ns, data, wr, index, at>>
    BY <1>3, Zenon DEF Reconcile, table, columns, ram, procs, work, history
  <2>2. Calm
    BY <2>1, Zenon DEF Calm, SteadyRows, Exists
  <2> QED
    BY <1>t, <2>2, CalmStep, Zenon
<1> QED
  BY <1>1, <1>2, <1>3, RemDeleteDone, Zenon DEF Maintenance

-----------------------------------------------------------------------------
(* Renames and removals.                                                   *)

\* The cancellation of the rows of a name leaves none there that could drain:
\* the failed ones are older than what was cancelled, and are retired with it.
LEMMA RemBeginName ==
  ASSUME CapInv, RemovalInv, NEW old \in Paths, NEW new \in Paths,
         NEW kind \in {"remove", "rename"}, beginName(kind, old, new)
  PROVE  RemovalInv'
<1>t. TypeOK /\ ActiveIsLatest /\ Superseded
  BY Zenon DEF CapInv, IInv, Structure
<1>s. st \in [Ids -> States] /\ path \in [Ids -> Paths]
  BY <1>t, Zenon DEF TypeOK
<1>a. /\ UNCHANGED <<path, saved, limbo, data, wr, index, at>>
      /\ ~LatestFailedAt(new) /\ (kind = "remove" <=> old = new)
      /\ st' = [r \in Ids |-> IF r \in PendingAt(new) THEN "none" ELSE st[r]]
      /\ retired' = [r \in Ids |-> retired[r] \/
           (Exists(r) /\ path[r] = new /\ \E q \in PendingAt(new) : r < q)]
  BY Zenon DEF beginName, ram, work
<1>n. /\ ns'.pc = "cancelled" /\ ns'.kind = kind /\ ns'.old = old
      /\ ns'.new = new /\ ns'.how = "backend"
  BY Zenon DEF beginName
<1>1. ASSUME NEW r \in Ids, Revivable(r)' PROVE Revivable(r) /\ path[r] # new
  <2>1. Exists(r) /\ st'[r] = st[r] /\ ~retired[r] /\ st[r] # "done"
        /\ ~retired'[r] /\ r \notin PendingAt(new)
    BY <1>1, <1>a, Zenon DEF Revivable, Latest, Exists
  <2>2. CASE path[r] = new
    <3>1. st[r] = "failed"
      BY <1>s, <2>1, <2>2, Zenon DEF States, PendingAt, Exists
    <3>2. HasNewerRowForPath(r)
      BY <1>a, <2>1, <2>2, <3>1, Zenon DEF LatestFailedAt
    <3>3. PendingAt(new) = {}
      <4> SUFFICES ASSUME NEW z \in PendingAt(new) PROVE FALSE
        OBVIOUS
      <4>1. z \in Ids /\ path[z] = new /\ st[z] \in Pending
        BY Zenon DEF PendingAt, Pending
      <4>2. ~retired[z]
        BY <1>t, <4>1, Zenon DEF Superseded
      <4>3. Active(z)
        BY <4>1, <4>2, Zenon DEF Active, Pending
      <4>4. ~HasNewerRowForPath(z)
        BY <1>t, <4>1, <4>3, Zenon DEF ActiveIsLatest
      <4>5. ~(r > z)
        BY <2>1, <2>2, <4>1, <4>4, Zenon DEF HasNewerRowForPath
      <4>6. ~(r < z)
        BY <1>a, <2>1, <2>2, Zenon
      <4>7. r = z
        BY <4>1, <4>5, <4>6 DEF Ids
      <4> QED
        BY <2>1, <4>7, Zenon
    <3>4. st' = [q \in Ids |-> st[q]] /\ \A q \in Ids : retired'[q] <=> retired[q]
      BY <1>a, <3>3, Zenon
    <3>5. HasNewerRowForPath(r)'
      BY <1>a, <3>2, <3>4, Zenon DEF HasNewerRowForPath, Exists
    <3> QED
      BY <1>1, <3>5, Zenon DEF Revivable, Latest
  <2>3. CASE path[r] # new
    <3>1. ASSUME NEW q \in Ids, q > r, Exists(q), ~retired[q], path[q] = path[r]
          PROVE  FALSE
      <4>1. q \notin PendingAt(new)
        BY <2>3, <3>1, Zenon DEF PendingAt
      <4>2. st'[q] = st[q] /\ ~retired'[q]
        BY <1>a, <2>3, <3>1, <4>1, Zenon
      <4>3. HasNewerRowForPath(r)'
        BY <1>a, <3>1, <4>2, Zenon DEF HasNewerRowForPath, Exists
      <4> QED
        BY <1>1, <4>3, Zenon DEF Revivable, Latest
    <3>2. ~HasNewerRowForPath(r)
      BY <3>1, Zenon DEF HasNewerRowForPath
    <3> QED
      BY <2>1, <2>3, <3>2, Zenon DEF Revivable, Latest
  <2> QED
    BY <2>2, <2>3, Zenon
<1>2. \A p : Present(p)' <=> Present(p)
  BY <1>a, Zenon DEF Present
<1>3. RowsPresent'
  BY <1>a, <1>1, <1>2, Zenon DEF RemovalInv, RowsPresent
<1>4. NameCleared'
  BY <1>a, <1>n, <1>1, Zenon DEF NameCleared
<1>5. OpensPresent' /\ IndexPresent' /\ BackendPresent' /\ DrainsPresent'
  BY <1>a, <1>2, Zenon DEF OpensPresent, IndexPresent, BackendPresent,
     DrainsPresent, RemovalInv
<1>6. NamePhase'
  BY <1>a, <1>n, Zenon DEF NamePhase
<1> QED
  BY <1>3, <1>4, <1>5, <1>6, Zenon DEF RemovalInv

LEMMA RemCancel ==
  ASSUME CapInv, RemovalInv, cancelForDelete PROVE RemovalInv'
<1>t. TypeOK
  BY Zenon DEF CapInv, IInv
<1>s. ns \in NameOps /\ index \in [Paths -> Ids \cup {None}]
  BY <1>t, Zenon DEF TypeOK
<1>a. /\ UNCHANGED <<st, path, retired, saved, limbo, data, wr, at>>
      /\ index' = [index EXCEPT ![ns.new] = None]
      /\ ns.pc = "cancelled" /\ ns' = [ns EXCEPT !.pc = "spooled"]
  BY Zenon DEF cancelForDelete, table, columns, history
<1>n. /\ ns'.pc = "spooled" /\ ns'.kind = ns.kind /\ ns'.old = ns.old
      /\ ns'.new = ns.new /\ ns'.how = ns.how
  BY <1>a, <1>s, Zenon DEF NameOps
<1>1. \A p : Present(p)' <=> Present(p)
  BY <1>a, Zenon DEF Present
<1>2. \A r \in Ids : Revivable(r)' <=> Revivable(r)
  BY <1>a, Zenon DEF Revivable, Latest, HasNewerRowForPath, Exists
<1>3. RowsPresent'
  BY <1>a, <1>1, <1>2, Zenon DEF RemovalInv, RowsPresent
<1>4. NameCleared'
  <2>1. Cancelling(ns.new)
    BY <1>a, Zenon DEF Cancelling
  <2> QED
    BY <1>a, <1>n, <1>2, <2>1, Zenon DEF RemovalInv, NameCleared
<1>5. OpensPresent' /\ BackendPresent' /\ DrainsPresent'
  BY <1>a, <1>1, Zenon
     DEF OpensPresent, BackendPresent, DrainsPresent, RemovalInv
<1>6. IndexPresent'
  <2>1. \A p \in Paths : index'[p] # None => index[p] # None
    BY <1>a, <1>s, Zenon
  <2> QED
    BY <1>1, <2>1, Zenon DEF IndexPresent, RemovalInv
<1>7. NamePhase'
  BY <1>a, <1>n, Zenon DEF RemovalInv, NamePhase
<1> QED
  BY <1>3, <1>4, <1>5, <1>6, <1>7, Zenon DEF RemovalInv

\* What was stored under the old name is stored under the new one.
LEMMA MovedPresent ==
  ASSUME TypeOK, NEW a \in Paths, NEW b \in Paths, a # b, Present(a),
         MoveSaved(a, b)
  PROVE  /\ \A p \in Paths : Present(p) => Present(p)'
         /\ Present(a)' /\ Present(b)'
<1>1. saved \in [Paths -> Versions \cup {Removed, Moved}]
  BY Zenon DEF TypeOK
<1>2. /\ saved'[a] = Moved /\ saved'[b] = saved[a]
      /\ \A p \in Paths : p # a /\ p # b => saved'[p] = saved[p]
  BY <1>1, Zenon DEF MoveSaved
<1>3. limbo' = IF a \in limbo THEN (limbo \ {a}) \cup {b} ELSE limbo \ {b}
  BY Zenon DEF MoveSaved
<1>4. Moved # Removed
  BY DEF Moved, Removed
<1>5. Present(a)'
  BY <1>2, <1>4, Zenon DEF Present
<1>6. Present(b)'
  BY <1>2, <1>3, Zenon DEF Present
<1>7. \A p \in Paths : p # a /\ p # b /\ Present(p) => Present(p)'
  BY <1>2, <1>3, Zenon DEF Present
<1> QED
  BY <1>5, <1>6, <1>7, Zenon

LEMMA RemMigrateRow ==
  ASSUME CapInv, RemovalInv, ns.pc = "spooled", ns.kind = "rename",
         NEW r \in ActiveAt(ns.old), MigrateRow(r),
         UNCHANGED <<data, wr, at>>
  PROVE  RemovalInv'
<1>t. /\ TypeOK /\ ActiveIsLatest /\ RowsIssued /\ ns \in NameOps
      /\ st \in [Ids -> States] /\ path \in [Ids -> Paths]
      /\ index \in [Paths -> Ids \cup {None}] /\ nextId \in Int
  BY DEF CapInv, IInv, TypeOK
<1>p. /\ ns.old \in Paths /\ ns.new \in Paths /\ ns.old # ns.new
  BY <1>t, Zenon DEF CapInv, Structure, LeasesHeld, NameHolds, NameOps
<1> SUFFICES ASSUME NEW a \in Paths, NEW b \in Paths, a = ns.old, b = ns.new,
                    a # b
             PROVE  RemovalInv'
  BY <1>p, Zenon
<1>r. r \in Ids /\ Active(r) /\ path[r] = a
  BY Zenon DEF ActiveAt
<1>1. Present(a)
  <2>1. Exists(r) /\ st[r] # "done" /\ ~retired[r]
    BY <1>r, Zenon DEF Active, Exists
  <2>2. Revivable(r)
    BY <1>t, <1>r, <2>1, Zenon DEF ActiveIsLatest, Revivable, Latest
  <2> QED
    BY <1>r, <2>2, Zenon DEF RemovalInv, RowsPresent
<1>2. /\ \A p \in Paths : Present(p) => Present(p)'
      /\ Present(a)' /\ Present(b)'
  <2>1. MoveSaved(a, b)
    BY Zenon DEF MigrateRow
  <2> QED
    BY <1>t, <1>1, <2>1, MovedPresent, Zenon
<1>3. PICK n \in Ids :
        /\ n = r \/ n = nextId
        /\ st' = IF n = r THEN st ELSE [st EXCEPT ![r] = "none", ![n] = "ready"]
        /\ path' = [path EXCEPT ![n] = b]
        /\ retired' = [q \in Ids |-> retired[q] \/
             (Exists(q) /\ (path[q] = b \/ (path[q] = a /\ q < r)))]
        /\ \/ index' = [index EXCEPT ![a] = None, ![b] = index[a]]
           \/ index' = index
  BY Zenon DEF MigrateRow
<1>n. /\ ns'.pc = "migrated" /\ ns'.kind = ns.kind /\ ns'.old = a
      /\ ns'.new = b /\ ns'.how # "backend"
  BY <1>t, Zenon DEF MigrateRow, NameOps
<1>4. path'[n] = b /\ \A q \in Ids : q # n => path'[q] = path[q]
  BY <1>t, <1>3, Zenon
<1>5. ASSUME NEW q \in Ids, Revivable(q)', q # n, path[q] # a, path[q] # b
      PROVE  Revivable(q)
  <2>1. q # r
    BY <1>r, <1>5, Zenon
  <2>2. st'[q] = st[q] /\ (retired'[q] <=> retired[q])
    BY <1>t, <1>3, <1>5, <2>1, Zenon
  <2>3. ASSUME NEW z \in Ids, z > q, Exists(z), ~retired[z], path[z] = path[q]
        PROVE  FALSE
    <3>1. z # r /\ z # nextId
      BY <1>t, <1>r, <1>5, <2>3 DEF RowsIssued
    <3>2. z # n
      BY <1>3, <3>1, Zenon
    <3>3. st'[z] = st[z] /\ path'[z] = path[z] /\ ~retired'[z]
      BY <1>t, <1>3, <1>4, <1>5, <2>3, <3>1, <3>2, Zenon
    <3>4. path'[q] = path[q]
      BY <1>4, <1>5, Zenon
    <3>5. HasNewerRowForPath(q)'
      BY <2>3, <3>3, <3>4, Zenon DEF HasNewerRowForPath, Exists
    <3> QED
      BY <1>5, <3>5, Zenon DEF Revivable, Latest
  <2>4. ~HasNewerRowForPath(q)
    BY <2>3, Zenon DEF HasNewerRowForPath
  <2> QED
    BY <1>5, <2>2, <2>4, Zenon DEF Revivable, Latest, Exists
<1>6. RowsPresent'
  <2> SUFFICES ASSUME NEW q \in Ids, Revivable(q)' PROVE Present(path[q])'
    BY Zenon DEF RowsPresent
  <2>1. CASE q = n
    BY <1>2, <1>4, <2>1, Zenon DEF Present
  <2>2. CASE q # n /\ path[q] \in {a, b}
    BY <1>2, <1>4, <2>2, Zenon DEF Present
  <2>3. CASE q # n /\ path[q] # a /\ path[q] # b
    <3>1. Revivable(q) /\ path'[q] = path[q] /\ path[q] \in Paths
      BY <1>t, <1>4, <1>5, <2>3, Zenon
    <3>2. Present(path[q])
      BY <3>1, Zenon DEF RemovalInv, RowsPresent
    <3> QED
      BY <1>2, <3>1, <3>2, Zenon DEF Present
  <2> QED
    BY <2>1, <2>2, <2>3, Zenon
<1>7. NameCleared'
  BY <1>n, Zenon DEF NameCleared, Cancelling
<1>8. OpensPresent'
  <2> SUFFICES ASSUME NEW x \in Writers, wr[x].pc = "opening",
                      wr[x].kind = "write"
               PROVE  Present(wr[x].path)'
    BY Zenon DEF OpensPresent
  <2>1. wr[x].path \in Paths
    BY <1>t, Zenon DEF TypeOK, Requests
  <2>2. Present(wr[x].path)
    BY Zenon DEF RemovalInv, OpensPresent
  <2> QED
    BY <1>2, <2>1, <2>2, Zenon DEF Present
<1>9. IndexPresent'
  <2>1. \A p \in Paths : p # a /\ p # b => index'[p] = index[p]
    BY <1>t, <1>3, Zenon
  <2> QED
    BY <1>2, <2>1, Zenon DEF RemovalInv, IndexPresent
<1>10. BackendPresent' /\ DrainsPresent'
  BY <1>2, Zenon DEF RemovalInv, BackendPresent, DrainsPresent
<1>11. NamePhase'
  BY <1>2, <1>n, Zenon DEF NamePhase, Present
<1> QED
  BY <1>6, <1>7, <1>8, <1>9, <1>10, <1>11, Zenon DEF RemovalInv

LEMMA RemMigrate ==
  ASSUME CapInv, RemovalInv, MigrateForRename PROVE RemovalInv'
<1>t. TypeOK /\ ns \in NameOps
  BY Zenon DEF CapInv, IInv, TypeOK
<1>a. /\ ns.pc = "spooled" /\ ns.kind = "rename" /\ UNCHANGED <<data, wr, at>>
      /\ \/ /\ ns' = [ns EXCEPT !.pc = "migrated"]
            /\ UNCHANGED <<st, path, retired, index, saved, limbo>>
         \/ \E r \in ActiveAt(ns.old) : MigrateRow(r)
  BY Zenon DEF MigrateForRename, table, columns, work
<1>1. CASE /\ ns' = [ns EXCEPT !.pc = "migrated"]
           /\ UNCHANGED <<st, path, retired, index, saved, limbo>>
  <2>n. /\ ns'.pc = "migrated" /\ ns'.kind = ns.kind /\ ns'.old = ns.old
        /\ ns'.new = ns.new /\ ns'.how = ns.how
    BY <1>1, <1>t, Zenon DEF NameOps
  <2>1. \A p : Present(p)' <=> Present(p)
    BY <1>1, Zenon DEF Present
  <2>2. \A r \in Ids : Revivable(r)' <=> Revivable(r)
    BY <1>1, Zenon DEF Revivable, Latest, HasNewerRowForPath, Exists
  <2>3. RowsPresent'
    BY <1>1, <2>1, <2>2, Zenon DEF RemovalInv, RowsPresent
  <2>4. NameCleared'
    <3>1. Cancelling(ns.new)
      BY <1>a, Zenon DEF Cancelling
    <3> QED
      BY <1>1, <2>n, <2>2, <3>1, Zenon DEF RemovalInv, NameCleared
  <2>5. OpensPresent' /\ IndexPresent' /\ BackendPresent' /\ DrainsPresent'
    BY <1>a, <1>1, <2>1, Zenon DEF OpensPresent, IndexPresent, BackendPresent,
       DrainsPresent, RemovalInv
  <2>6. NamePhase'
    BY <1>a, <2>n, Zenon DEF RemovalInv, NamePhase
  <2> QED
    BY <2>3, <2>4, <2>5, <2>6, Zenon DEF RemovalInv
<1>2. CASE \E r \in ActiveAt(ns.old) : MigrateRow(r)
  BY <1>a, <1>2, RemMigrateRow, Zenon
<1> QED
  BY <1>a, <1>1, <1>2, Zenon

LEMMA IdleNamePhase == IdleName.pc = "idle"
BY Zenon DEF IdleName

\* A rename or removal ends and every name that was present still is.
LEMMA RemEnd ==
  ASSUME TypeOK, RemovalInv, ns' = IdleName,
         UNCHANGED <<st, path, retired, index, wr>>,
         \A p \in Paths : Present(p) => Present(p)',
         BackendPresent', DrainsPresent'
  PROVE  RemovalInv'
<1>t. path \in [Ids -> Paths] /\ wr \in [Writers -> Requests]
  BY Zenon DEF TypeOK
<1>1. \A r \in Ids : Revivable(r)' <=> Revivable(r)
  BY Zenon DEF Revivable, Latest, HasNewerRowForPath, Exists
<1>2. RowsPresent'
  BY <1>t, <1>1, Zenon DEF RemovalInv, RowsPresent
<1>3. ns'.pc = "idle"
  BY IdleNamePhase, Zenon
<1>4. NameCleared' /\ NamePhase'
  BY <1>3, Zenon DEF NameCleared, NamePhase, Cancelling
<1>5. OpensPresent' /\ IndexPresent'
  <2>1. \A w \in Writers : wr[w].path \in Paths
    BY <1>t, Zenon DEF Requests
  <2> QED
    BY <2>1, Zenon DEF RemovalInv, OpensPresent, IndexPresent
<1> QED
  BY <1>2, <1>4, <1>5, Zenon DEF RemovalInv

\* A name that is given up with its outcome unknown goes to limbo.
LEMMA RemLimbo ==
  ASSUME TypeOK, RemovalInv, ns' = IdleName,
         UNCHANGED <<st, path, retired, index, wr, data, at>>, NEW b \in Paths,
         \/ saved' = [saved EXCEPT ![b] = Removed] /\ limbo' = limbo \cup {b}
         \/ saved' = saved /\ limbo' = limbo
  PROVE  RemovalInv'
<1>1. \A p \in Paths : p # b => saved'[p] = saved[p]
  BY Zenon DEF TypeOK
<1>2. \A p \in Paths : Present(p) => Present(p)'
  BY <1>1, Zenon DEF Present
<1>3. BackendPresent' /\ DrainsPresent'
  BY <1>2, Zenon DEF RemovalInv, BackendPresent, DrainsPresent
<1> QED
  BY <1>2, <1>3, RemEnd, Zenon

LEMMA RemRename ==
  ASSUME CapInv, RemovalInv, rename PROVE RemovalInv'
<1>t. /\ TypeOK /\ ns \in NameOps /\ at \in [Workers -> SUBSET Paths]
      /\ data \in [Paths -> Versions \cup {NoFile, Torn}]
  BY Zenon DEF CapInv, IInv, TypeOK
<1>p. /\ ns.old \in Paths /\ ns.new \in Paths /\ ns.old # ns.new
  BY <1>t, Zenon DEF CapInv, Structure, LeasesHeld, NameHolds, NameOps, rename,
     RemovalInv, NamePhase
<1> SUFFICES ASSUME NEW a \in Paths, NEW b \in Paths, a = ns.old, b = ns.new,
                    a # b
             PROVE  RemovalInv'
  BY <1>p, Zenon
<1>a. /\ ns.pc = "migrated" /\ (ns.how # "backend" \/ data[a] # NoFile)
      /\ UNCHANGED <<st, path, retired, index, wr>> /\ ns' = IdleName
      /\ \/ ns.how = "backend" /\ MoveSaved(a, b)
         \/ ns.how # "backend" /\ UNCHANGED <<saved, limbo>>
      /\ \/ /\ data[a] # NoFile
            /\ data' = [data EXCEPT ![a] = NoFile, ![b] = data[a]]
            /\ at' = [d \in Workers |->
                        IF a \in at[d] THEN {b} ELSE at[d] \ {b}]
         \/ data' = data /\ at' = at
  BY Zenon DEF rename, EndName, ram
<1>1. (\A p \in Paths : Present(p) => Present(p)') /\ Present(b)'
  <2>1. CASE ns.how = "backend"
    <3>1. Present(a)
      BY <1>a, <2>1, Zenon DEF RemovalInv, BackendPresent
    <3> QED
      BY <1>a, <1>t, <2>1, <3>1, MovedPresent, Zenon
  <2>2. CASE ns.how # "backend"
    <3>1. Present(b)
      BY <1>a, <2>2, Zenon DEF RemovalInv, NamePhase
    <3> QED
      BY <1>a, <2>2, <3>1, Zenon DEF Present
  <2> QED
    BY <2>1, <2>2, Zenon
<1>2. CASE data' = data /\ at' = at
  <2>1. BackendPresent' /\ DrainsPresent'
    BY <1>1, <1>2, Zenon DEF RemovalInv, BackendPresent, DrainsPresent
  <2> QED
    BY <1>a, <1>t, <1>1, <2>1, RemEnd, Zenon
<1>3. CASE /\ data[a] # NoFile
           /\ data' = [data EXCEPT ![a] = NoFile, ![b] = data[a]]
           /\ at' = [d \in Workers |-> IF a \in at[d] THEN {b} ELSE at[d] \ {b}]
  <2>1. /\ data'[a] = NoFile /\ data'[b] = data[a]
        /\ \A p \in Paths : p # a /\ p # b => data'[p] = data[p]
    BY <1>t, <1>3, Zenon
  <2>2. BackendPresent'
    BY <1>1, <2>1, Zenon DEF RemovalInv, BackendPresent
  <2>3. DrainsPresent'
    <3> SUFFICES ASSUME NEW d \in Workers, NEW p \in at'[d]
                 PROVE  data'[p] # NoFile
      BY Zenon DEF DrainsPresent
    <3>1. CASE a \in at[d]
      <4>1. p = b
        BY <1>3, <3>1, Zenon
      <4> QED
        BY <1>3, <2>1, <4>1, Zenon
    <3>2. CASE a \notin at[d]
      <4>1. p \in at[d] /\ p # b /\ p # a /\ p \in Paths
        BY <1>t, <1>3, <3>2, Zenon
      <4> QED
        BY <2>1, <4>1, Zenon DEF RemovalInv, DrainsPresent
    <3> QED
      BY <3>1, <3>2, Zenon
  <2> QED
    BY <1>a, <1>t, <1>1, <2>2, <2>3, RemEnd, Zenon
<1> QED
  BY <1>a, <1>2, <1>3, Zenon

\* A removal leaves no row that could drain, no request that could write, no
\* index entry and no file behind.
LEMMA RemRemove ==
  ASSUME CapInv, RemovalInv, remove PROVE RemovalInv'
<1>t. /\ TypeOK /\ ns \in NameOps /\ at \in [Workers -> SUBSET Paths]
      /\ data \in [Paths -> Versions \cup {NoFile, Torn}]
      /\ saved \in [Paths -> Versions \cup {Removed, Moved}]
  BY Zenon DEF CapInv, IInv, TypeOK
<1>p. ns.old \in Paths /\ ns.old = ns.new
  BY <1>t, Zenon DEF remove, RemovalInv, NamePhase, NameOps
<1> SUFFICES ASSUME NEW p \in Paths, p = ns.old, p = ns.new PROVE RemovalInv'
  BY <1>p, Zenon
<1>a. /\ ns.pc = "spooled" /\ ns' = IdleName
      /\ UNCHANGED <<st, path, retired, index, wr>>
      /\ data' = [data EXCEPT ![p] = NoFile] /\ at' = Unlinked(p)
      /\ saved' = [saved EXCEPT ![p] = Removed] /\ limbo' = limbo \ {p}
  BY Zenon DEF remove, EndName, ram
<1>1. \A q \in Paths : q # p => (Present(q)' <=> Present(q))
  BY <1>a, <1>t, Zenon DEF Present
<1>2. \A q \in Paths : data'[q] = IF q = p THEN NoFile ELSE data[q]
  BY <1>a, <1>t, Zenon
<1>3. \A r \in Ids : Revivable(r)' <=> Revivable(r)
  BY <1>a, Zenon DEF Revivable, Latest, HasNewerRowForPath, Exists
<1>4. RowsPresent'
  <2>1. Cancelling(ns.new)
    BY <1>a, Zenon DEF Cancelling
  <2>2. \A r \in Ids : Revivable(r) => path[r] # p
    BY <2>1, Zenon DEF RemovalInv, NameCleared
  <2>3. path \in [Ids -> Paths]
    BY <1>t, Zenon DEF TypeOK
  <2> QED
    BY <1>a, <1>1, <1>3, <2>2, <2>3, Zenon DEF RemovalInv, RowsPresent
<1>5. OpensPresent'
  <2> SUFFICES ASSUME NEW w \in Writers, wr[w].pc = "opening",
                      wr[w].kind = "write"
               PROVE  Present(wr[w].path)'
    BY <1>a, Zenon DEF OpensPresent
  <2>1. lease[wr[w].path] = w /\ lease[p] = Handler /\ w # Handler
    <3>1. lease[wr[w].path] = w
      BY Zenon DEF CapInv, Structure, LeasesHeld, WriterHolds
    <3>2. lease[p] = Handler
      BY <1>a, Zenon DEF CapInv, Structure, LeasesHeld, NameHolds
    <3>3. w # Handler
      BY SpoolAssumption, Zenon DEF Handler
    <3> QED
      BY <3>1, <3>2, <3>3, Zenon
  <2>2. wr[w].path \in Paths
    BY <1>t, Zenon DEF TypeOK, Requests
  <2>3. wr[w].path # p /\ wr'[w] = wr[w]
    BY <1>a, <2>1, Zenon
  <2>4. Present(wr[w].path)
    BY Zenon DEF RemovalInv, OpensPresent
  <2> QED
    BY <1>1, <2>2, <2>3, <2>4, Zenon DEF Present
<1>6. IndexPresent'
  <2>1. index[p] = None
    BY <1>a, Zenon DEF CapInv, Structure, NameTaken
  <2> QED
    BY <1>a, <1>1, <2>1, Zenon DEF RemovalInv, IndexPresent
<1>7. BackendPresent'
  BY <1>1, <1>2, Zenon DEF RemovalInv, BackendPresent
<1>8. DrainsPresent'
  <2>1. \A d \in Workers : \A q \in at'[d] : q \in Paths /\ q \in at[d] /\ q # p
    BY <1>a, <1>t, Zenon DEF Unlinked
  <2> QED
    BY <1>2, <2>1, Zenon DEF RemovalInv, DrainsPresent
<1>9. NameCleared' /\ NamePhase'
  <2>1. ns'.pc = "idle"
    BY <1>a, IdleNamePhase, Zenon
  <2> QED
    BY <2>1, Zenon DEF NameCleared, NamePhase, Cancelling
<1> QED
  BY <1>4, <1>5, <1>6, <1>7, <1>8, <1>9, Zenon DEF RemovalInv

LEMMA RemNameOp ==
  ASSUME CapInv, RemovalInv, NameOp PROVE RemovalInv'
<1>t. TypeOK /\ ns.new \in Paths
  BY Zenon DEF CapInv, IInv, TypeOK, NameOps
<1>1. CASE MigrateRefused
  <2>1. /\ ns' = IdleName /\ UNCHANGED <<st, path, retired, index, wr, data, at>>
        /\ saved' = [saved EXCEPT ![ns.new] = Removed]
        /\ limbo' = limbo \cup {ns.new}
    BY <1>1, Zenon DEF MigrateRefused, EndName, table, columns, ram, work
  <2> QED
    BY <1>t, <2>1, RemLimbo, Zenon
<1>2. CASE BackendRefused
  <2>1. /\ ns' = IdleName /\ UNCHANGED <<st, path, retired, index, wr, data, at>>
        /\ \/ /\ saved' = [saved EXCEPT ![ns.new] = Removed]
              /\ limbo' = limbo \cup {ns.new}
           \/ saved' = saved /\ limbo' = limbo
    BY <1>2, Zenon DEF BackendRefused, EndName, ram, work
  <2> QED
    BY <1>t, <2>1, RemLimbo, Zenon
<1> QED
  BY <1>1, <1>2, RemBeginName, RemCancel, RemMigrate, RemRename, RemRemove,
     Zenon
     DEF NameOp

-----------------------------------------------------------------------------
(* Crashes, boots and the whole.                                           *)

\* A crash leaves the names of the operation that it interrupts in limbo.
LEMMA RemCrash ==
  ASSUME CapInv, RemovalInv, Crash PROVE RemovalInv'
<1>t. TypeOK /\ ns.new \in Paths /\ path \in [Ids -> Paths]
  BY Zenon DEF CapInv, IInv, TypeOK, NameOps
<1>a. /\ UNCHANGED <<st, path, retired, data>> /\ ns' = IdleName
      /\ index' = [p \in Paths |-> None]
      /\ wr' = [w \in Writers |-> IdleRequest]
      /\ at' = [d \in Workers |-> {}]
      /\ limbo' = IF ns.pc = "idle" THEN limbo ELSE limbo \cup {ns.old, ns.new}
      /\ saved' = IF Cancelling(ns.new)
                  THEN [saved EXCEPT ![ns.new] = Removed] ELSE saved
  BY Zenon DEF Crash
<1>1. \A p \in Paths : Present(p) => Present(p)'
  <2>1. CASE Cancelling(ns.new)
    <3>1. ns.pc # "idle"
      BY <2>1, Zenon DEF Cancelling
    <3>2. \A p \in Paths : p # ns.new => saved'[p] = saved[p]
      BY <1>a, <1>t, <2>1, Zenon DEF TypeOK
    <3>3. ns.new \in limbo' /\ \A p \in limbo : p \in limbo'
      BY <1>a, <3>1, Zenon
    <3> QED
      BY <3>2, <3>3, Zenon DEF Present
  <2>2. CASE ~Cancelling(ns.new)
    <3>1. saved' = saved /\ \A p \in limbo : p \in limbo'
      BY <1>a, <2>2, Zenon
    <3> QED
      BY <3>1, Zenon DEF Present
  <2> QED
    BY <2>1, <2>2, Zenon
<1>2. \A r \in Ids : Revivable(r)' <=> Revivable(r)
  BY <1>a, Zenon DEF Revivable, Latest, HasNewerRowForPath, Exists
<1>3. RowsPresent'
  BY <1>a, <1>t, <1>1, <1>2, Zenon DEF RemovalInv, RowsPresent
<1>4. NameCleared' /\ NamePhase'
  <2>1. ns'.pc = "idle"
    BY <1>a, IdleNamePhase, Zenon
  <2> QED
    BY <2>1, Zenon DEF NameCleared, NamePhase, Cancelling
<1>5. OpensPresent'
  <2>1. \A w \in Writers : wr'[w].pc # "opening"
    BY <1>a, Zenon DEF IdleRequest
  <2> QED
    BY <2>1, Zenon DEF OpensPresent
<1>6. IndexPresent' /\ BackendPresent'
  BY <1>a, <1>1, Zenon DEF RemovalInv, IndexPresent, BackendPresent
<1>7. DrainsPresent'
  BY <1>a, Zenon DEF DrainsPresent
<1> QED
  BY <1>3, <1>4, <1>5, <1>6, <1>7, Zenon DEF RemovalInv

\* A boot queues and indexes only rows that could drain before it.
LEMMA RemBoot ==
  ASSUME CapInv, RemovalInv, RecoverOnBoot PROVE RemovalInv'
<1>t. TypeOK /\ st \in [Ids -> States]
  BY Zenon DEF CapInv, IInv, TypeOK
<1>a. UNCHANGED <<path, retired, saved, limbo, ns, data, wr, at>>
  BY Zenon DEF RecoverOnBoot, procs, work, history
<1>1. CASE ~CheckDrainCompletionRecovery
  <2>1. st' = st /\ index' = index
    BY <1>1, Zenon DEF RecoverOnBoot
  <2>2. Calm
    BY <1>a, <2>1, Zenon DEF Calm, SteadyRows, Exists
  <2> QED
    BY <1>t, <2>2, CalmStep, Zenon
<1>2. CASE CheckDrainCompletionRecovery
  <2>1. /\ st' = [r \in Ids |-> Recovered(r)]
        /\ \A p \in Paths : index'[p] # None =>
             \E r \in Ids : path[r] = p /\ Latest(r) /\ Recovered(r) = "ready"
    <3>1. index' = [p \in Paths |->
            IF {r \in Ids : path[r] = p /\ Latest(r)}
               \cap {r \in Ids : Latest(r) /\ Recovered(r) = "ready"} = {}
            THEN None
            ELSE CHOOSE f \in Ids :
              \E r \in {q \in Ids : path[q] = p /\ Latest(q)}
                       \cap {q \in Ids : Latest(q) /\ Recovered(q) = "ready"} :
                f = file[r]]
      BY <1>2, Zenon DEF RecoverOnBoot
    <3>2. \A p \in Paths : index'[p] # None =>
            {r \in Ids : path[r] = p /\ Latest(r)}
            \cap {r \in Ids : Latest(r) /\ Recovered(r) = "ready"} # {}
      BY <3>1, Zenon
    <3>3. st' = [r \in Ids |-> Recovered(r)]
      BY <1>2, Zenon DEF RecoverOnBoot
    <3> QED
      BY <3>2, <3>3, Zenon
  <2>2. \A r \in Ids : \/ st'[r] = st[r]
                       \/ /\ st[r] \notin {"none", "done"}
                          /\ st'[r] \in {"ready", "failed"}
    BY <2>1, Zenon DEF Recovered
  <2>3. SteadyRows
    BY <1>a, <2>2, Zenon DEF SteadyRows, Exists
  <2>4. \A r \in Ids : Revivable(r)' => Revivable(r) /\ path'[r] = path[r]
    BY <1>a, <2>3, SteadyRevivable, Zenon
  <2>5. \A p : Present(p)' <=> Present(p)
    BY <1>a, Zenon DEF Present
  <2>6. IndexPresent'
    <3> SUFFICES ASSUME NEW p \in Paths, index'[p] # None PROVE Present(p)
      BY <2>5, Zenon DEF IndexPresent
    <3>1. PICK r \in Ids : path[r] = p /\ Latest(r) /\ Recovered(r) = "ready"
      BY <2>1, Zenon
    <3>2. st[r] # "done"
      BY <3>1, Zenon DEF Recovered
    <3> QED
      BY <3>1, <3>2, Zenon DEF RemovalInv, RowsPresent, Revivable
  <2>7. OpensPresent' /\ BackendPresent' /\ DrainsPresent'
    BY <1>a, <2>5, Zenon
       DEF OpensPresent, BackendPresent, DrainsPresent, RemovalInv
  <2>8. path \in [Ids -> Paths] /\ ns \in NameOps
    BY <1>t, Zenon DEF TypeOK
  <2> QED
    BY <1>a, <2>4, <2>5, <2>6, <2>7, <2>8, NamesKept, Zenon
<1> QED
  BY <1>1, <1>2, Zenon

LEMMA RemInit == Init => RemovalInv
<1> SUFFICES ASSUME Init PROVE RemovalInv
  OBVIOUS
<1>a. /\ st = [r \in Ids |-> "none"] /\ index = [p \in Paths |-> None]
      /\ wr = [w \in Writers |-> IdleRequest] /\ ns = IdleName
      /\ at = [d \in Workers |-> {}]
      /\ data = [p \in Paths |-> IF p \in Existing THEN 1 ELSE NoFile]
      /\ saved = [p \in Paths |-> IF p \in Existing THEN 1 ELSE Removed]
  BY Zenon DEF Init
<1>1. RowsPresent /\ NameCleared
  BY <1>a, Zenon DEF RowsPresent, NameCleared, Revivable, Latest, Exists
<1>2. OpensPresent
  BY <1>a, Zenon DEF OpensPresent, IdleRequest
<1>3. IndexPresent /\ DrainsPresent
  BY <1>a, Zenon DEF IndexPresent, DrainsPresent
<1>4. BackendPresent
  BY <1>a DEF BackendPresent, Present, Removed
<1>5. NamePhase
  BY <1>a, IdleNamePhase, Zenon DEF NamePhase
<1> QED
  BY <1>1, <1>2, <1>3, <1>4, <1>5, Zenon DEF RemovalInv

\* Every step keeps the invariant, except the collection of a done row that
\* supersedes a failed one.
LEMMA RemStep ==
  ASSUME CapInv, RemovalInv, [Next]_vars, [~StaleCollection]_vars
  PROVE  RemovalInv'
<1>1. CASE UNCHANGED vars
  <2>1. UNCHANGED <<st, path, retired, saved, limbo, ns, data, at, index, wr>>
    BY <1>1, Zenon DEF vars, table, columns, ram, procs, work, history
  <2>2. Calm
    BY <2>1, Zenon DEF Calm, SteadyRows, Exists
  <2> QED
    BY <2>2, CalmStep, Zenon DEF CapInv, IInv
<1>2. CASE Next /\ ~StaleCollection
  BY <1>2, RemClient, RemMaintenance, RemNameOp, RemCrash, RemBoot, RemWorker,
     Zenon DEF Next
<1> QED
  BY <1>1, <1>2, Zenon

-----------------------------------------------------------------------------
(* Rows and claims.                                                        *)

LEMMA OneLatest ==
  ASSUME NEW r \in Ids, NEW q \in Ids, Latest(r), Latest(q), path[r] = path[q]
  PROVE  r = q
<1>1. ~(r < q) /\ ~(q < r)
  BY Zenon DEF Latest, HasNewerRowForPath, Ids
<1> QED
  BY <1>1 DEF Ids

\* What marks a name as removed or moved is no version.
LEMMA NotStored == ~(Moved >= 0) /\ ~(Removed >= 0)
BY DEF Moved, Removed

\* An entry of the index has a row.
LEMMA EntryRow ==
  ASSUME CapInv, NEW q \in Paths, index[q] # None
  PROVE  /\ index[q] \in Ids /\ entId[index[q]] \in Ids
         /\ st[entId[index[q]]] \in Pending =>
              path[entId[index[q]]] = q /\ file[entId[index[q]]] = index[q]
<1>1. Shadow(q)
  BY Zenon DEF CapInv, Structure, Shadows
<1>2. /\ index \in [Paths -> Ids \cup {None}]
      /\ entId \in [Ids -> Ids \cup {None}]
  BY Zenon DEF CapInv, IInv, TypeOK
<1> QED
  BY <1>1, <1>2, Zenon DEF Shadow

LEMMA PendingRevivable ==
  ASSUME CapInv, NEW r \in Ids, st[r] \in Pending
  PROVE  Revivable(r) /\ Active(r) /\ Exists(r)
<1>1. Exists(r) /\ st[r] # "done"
  BY Zenon DEF Exists, Pending
<1>2. ~retired[r]
  BY Zenon DEF CapInv, Structure, Superseded
<1>3. Active(r)
  BY <1>2, Zenon DEF Active, Pending
<1> QED
  BY <1>1, <1>2, <1>3, Zenon DEF CapInv, IInv, ActiveIsLatest, Revivable, Latest

LEMMA JobIssued ==
  ASSUME CapInv, NEW d \in Workers
  PROVE  /\ job[d].id \in Ids /\ job[d].path \in Paths /\ job[d].file \in Ids
         /\ wpc[d] # "idle" => job[d].id < nextId
<1>1. job[d] \in Jobs
  BY Zenon DEF CapInv, IInv, TypeOK
<1>2. wpc[d] # "idle" => job[d].id < nextId
  BY Zenon DEF CapInv, IInv, WorkersOwn, Owned
<1> QED
  BY <1>1, <1>2, Zenon DEF Jobs

\* The row of a worker that still owns it drains under the worker's name.
LEMMA ClaimedRow ==
  ASSUME CapInv, NEW d \in Workers, drainStillClaimed(d)
  PROVE  /\ job[d].id \in Ids /\ Revivable(job[d].id) /\ Active(job[d].id)
         /\ Exists(job[d].id) /\ st[job[d].id] = "draining"
         /\ path[job[d].id] = job[d].path /\ file[job[d].id] = job[d].file
<1>1. job[d].id \in Ids
  BY Zenon DEF CapInv, IInv, TypeOK, Jobs
<1>2. st[job[d].id] \in Pending
  BY Zenon DEF drainStillClaimed, Pending
<1> QED
  BY <1>1, <1>2, PendingRevivable, Zenon DEF drainStillClaimed

\* Two workers do not own rows of one name.
LEMMA OneClaim ==
  ASSUME CapInv, NEW d \in Workers, NEW e \in Workers, drainStillClaimed(d),
         drainStillClaimed(e), job[d].path = job[e].path, wpc[d] # "idle",
         wpc[e] # "idle"
  PROVE  d = e
<1>1. job[d].id = job[e].id
  BY ClaimedRow, OneLatest, Zenon DEF Revivable
<1> QED
  BY <1>1, Zenon DEF CapInv, IInv, WorkersOwn

\* A worker that completes still owns its row.
LEMMA HeldClaimed ==
  ASSUME CapInv, NEW d \in Workers, wpc[d] = "held"
  PROVE  drainStillClaimed(d)
<1>1. job[d].id \in Ids
  BY Zenon DEF CapInv, IInv, TypeOK, Jobs
<1>2. st[job[d].id] = "draining"
  BY Zenon DEF CapInv, IInv, WorkersOwn, Owned
<1>3. ~retired[job[d].id]
  BY <1>1, <1>2, Zenon DEF CapInv, Structure, Superseded, Pending
<1>4. WorkerHolds(d)
  BY Zenon DEF CapInv, Structure, LeasesHeld
<1> QED
  BY <1>2, <1>3, <1>4, Zenon DEF drainStillClaimed, WorkerHolds

-----------------------------------------------------------------------------
(* Steps that keep parts of the invariant for simple reasons.              *)

\* Rows change their state, but none is created, deleted or completed.
Steady == SteadyRows /\ \A r \in Ids : st'[r] = "done" => st[r] = "done"

LEMMA SteadyLife ==
  ASSUME Steady PROVE \A r \in Ids : Revivable(r)' <=> Revivable(r)
BY SteadyRevivable, Zenon DEF Steady, Revivable

LEMMA KeptData ==
  ASSUME RowsStored, BackendStored, HasFile, NameMoved, Steady,
         UNCHANGED <<file, disk, saved, data, ns>>
  PROVE  RowsStored' /\ BackendStored' /\ HasFile' /\ NameMoved'
<1>1. \A r \in Ids : Revivable(r)' <=> Revivable(r)
  BY SteadyLife, Zenon
<1>2. path' = path
  BY Zenon DEF Steady, SteadyRows
<1>3. RowsStored'
  BY <1>1, <1>2, Zenon DEF RowsStored
<1>4. \A p : Unpending(p)' <=> Unpending(p)
  BY <1>1, <1>2, Zenon DEF Unpending
<1>5. BackendStored'
  BY <1>4, Zenon DEF BackendStored, Cancelling
<1>6. HasFile'
  BY Zenon DEF HasFile, Steady, SteadyRows
<1>7. NameMoved'
  BY <1>4, Zenon DEF NameMoved
<1> QED
  BY <1>3, <1>5, <1>6, <1>7, Zenon

LEMMA KeptShadow ==
  ASSUME RowsShadowed, Steady, UNCHANGED <<mode, file, index, entId, fault>>
  PROVE  RowsShadowed'
<1>1. \A r \in Ids : Revivable(r)' <=> Revivable(r)
  BY SteadyLife, Zenon
<1>2. path' = path
  BY Zenon DEF Steady, SteadyRows
<1> QED
  BY <1>1, <1>2, Zenon DEF RowsShadowed, Shadowed, ReadFault

\* Pending rows stay pending, and poisoned names and completions remain.
LEMMA KeptIndex ==
  ASSUME CapInv, IndexOwned, UNCHANGED <<index, entId, ns, path>>,
         \A r \in Ids : st[r] \in Pending => st'[r] \in Pending,
         \A r \in Ids : st[r] = "done" => st'[r] = "done",
         holds \subseteq holds',
         \A p \in Paths : lease[p] = Poisoned => lease'[p] = Poisoned,
         \A d \in Workers : wpc[d] = "done" =>
           wpc'[d] = "done" /\ job'[d] = job[d]
  PROVE  IndexOwned'
<1> SUFFICES ASSUME NEW p \in Paths, index'[p] # None,
                    ~(ns'.pc = "cancelled" /\ p = ns'.new)
             PROVE  \/ st'[entId'[index'[p]]] \in Pending
                    \/ Retained(entId[index[p]], p)'
  BY Zenon DEF IndexOwned
<1> SUFFICES ASSUME NEW x, x = entId[index[p]]
             PROVE  st'[x] \in Pending \/ Retained(x, p)'
  BY Zenon DEF Retained, Completing
<1>1. x \in Ids
  BY EntryRow, Zenon
<1>2. CASE st[x] \in Pending
  BY <1>1, <1>2, Zenon
<1>3. CASE Retained(x, p)
  <2>1. st'[x] = "done" /\ x \in holds' /\ path'[x] = p
    BY <1>1, <1>3, Zenon DEF Retained
  <2>2. lease'[p] = Poisoned \/ Completing(x, p)'
    BY <1>3, Zenon DEF Retained, Completing
  <2> QED
    BY <2>1, <2>2, Zenon DEF Retained
<1> QED
  BY <1>2, <1>3, Zenon DEF IndexOwned

\* A worker that does not move, under a step that changes neither its row's
\* file nor the file that it published.
LEMMA KeptCopying ==
  ASSUME NEW e \in Workers, Copying(e),
         drainStillClaimed(e)' /\ wpc[e] \notin {"idle", "claimed"} =>
           drainStillClaimed(e),
         wpc'[e] = wpc[e], job'[e] = job[e], target'[e] = target[e],
         drainStillClaimed(e) /\ wpc[e] = "opened" => at'[e] = at[e],
         wpc[e] = "copied" => buf'[e] = buf[e],
         drainStillClaimed(e) /\ wpc[e] \notin {"idle", "claimed"} =>
           disk'[job[e].file] = disk[job[e].file],
         drainStillClaimed(e) /\ wpc[e] \in {"installed", "held"} =>
           data'[job[e].path] = data[job[e].path],
         drainStillClaimed(e)' /\ wpc[e] \in {"opened", "copied", "installed"}
           /\ ns'.pc # "idle" =>
           (ns.pc # "idle" /\ ns'.new = ns.new) \/ job[e].path # ns'.new
  PROVE  Copying(e)'
BY Zenon DEF Copying

\* A worker that has left, or has only just claimed or read its row.
LEMMA FreshCopying ==
  ASSUME NEW d \in Workers, wpc'[d] \in {"idle", "claimed", "loaded", "done"}
  PROVE  Copying(d)'
BY Zenon DEF Copying

\* A claim is not regained: another worker would have to give up the row.
LEMMA ClaimKept ==
  ASSUME CapInv', NEW e \in Workers, UNCHANGED <<path, file, retired>>,
         wpc'[e] = wpc[e], job'[e] = job[e], wpc[e] # "idle",
         drainStillClaimed(e)',
         \A r \in Ids : st'[r] = "draining" =>
           \/ st[r] = "draining"
           \/ \E d \in Workers : d # e /\ wpc'[d] # "idle" /\ job'[d].id = r
  PROVE  drainStillClaimed(e)
<1>1. PICK r \in Ids : r = job[e].id
  BY Zenon DEF CapInv, IInv, TypeOK, Jobs
<1>2. /\ st'[r] = "draining" /\ ~retired[r]
      /\ path[r] = job[e].path /\ file[r] = job[e].file
  BY <1>1, Zenon DEF drainStillClaimed
<1>3. ASSUME NEW d \in Workers, d # e, wpc'[d] # "idle", job'[d].id = r
      PROVE  FALSE
  BY <1>1, <1>3, Zenon DEF CapInv, IInv, WorkersOwn
<1>4. st[r] = "draining"
  BY <1>2, <1>3, Zenon
<1> QED
  BY <1>1, <1>2, <1>4, Zenon DEF drainStillClaimed

\* Rows change their state and stay pending, and nothing else moves that the
\* invariant speaks of.
LEMMA KeptState ==
  ASSUME CapInv, StoredInv, Steady,
         UNCHANGED <<file, disk, data, saved, mode, index, entId, fault, ns>>,
         \A r \in Ids : st[r] \in Pending => st'[r] \in Pending,
         holds \subseteq holds',
         \A p \in Paths : lease[p] = Poisoned => lease'[p] = Poisoned,
         \A d \in Workers : wpc[d] = "done" =>
           wpc'[d] = "done" /\ job'[d] = job[d],
         Drains'
  PROVE  StoredInv'
<1>1. RowsStored' /\ BackendStored' /\ HasFile' /\ NameMoved'
  BY KeptData, Zenon DEF StoredInv
<1>2. RowsShadowed'
  BY KeptShadow, Zenon DEF StoredInv
<1>3. \A r \in Ids : st[r] = "done" => st'[r] = "done"
  BY Zenon DEF Steady, SteadyRows
<1>4. path' = path
  BY Zenon DEF Steady, SteadyRows
<1>5. IndexOwned'
  BY <1>3, <1>4, KeptIndex, Zenon DEF StoredInv
<1> QED
  BY <1>1, <1>2, <1>5, Zenon DEF StoredInv

\* The drain workers under such a step of somebody else.
LEMMA KeptDrains ==
  ASSUME CapInv, CapInv', StoredInv,
         UNCHANGED <<path, file, retired, disk, data, ns, wpc, job, target, at,
                     buf>>,
         \A r \in Ids : st'[r] = "draining" => st[r] = "draining"
  PROVE  Drains'
<1> SUFFICES ASSUME NEW e \in Workers PROVE Copying(e)'
  BY Zenon DEF Drains
<1>1. Copying(e)
  BY Zenon DEF StoredInv, Drains
<1>2. drainStillClaimed(e)' /\ wpc[e] \notin {"idle", "claimed"} =>
        drainStillClaimed(e)
  BY ClaimKept, Zenon
<1> QED
  BY <1>1, <1>2, KeptCopying, Zenon

LEMMA KeptQuiet ==
  ASSUME CapInv, CapInv', StoredInv,
         UNCHANGED <<st, path, file, retired, holds, disk, data, saved, mode,
                     index, entId, fault, ns, wpc, job, target, at, buf>>,
         \A p \in Paths : lease[p] = Poisoned => lease'[p] = Poisoned
  PROVE  StoredInv'
<1>1. Steady
  BY Zenon DEF Steady, SteadyRows, Exists
<1>2. Drains'
  BY KeptDrains, Zenon
<1>3. \A d \in Workers : wpc[d] = "done" => wpc'[d] = "done" /\ job'[d] = job[d]
  BY Zenon
<1>4. \A r \in Ids : st[r] \in Pending => st'[r] \in Pending
  BY Zenon
<1>5. holds \subseteq holds'
  BY Zenon
<1> QED
  BY <1>1, <1>2, <1>3, <1>4, <1>5, KeptState, Zenon

-----------------------------------------------------------------------------
(* Clients and the sweeper.                                                *)

\* The lease that a request gives back is its own.
LEMMA OpenedPoison ==
  ASSUME CapInv, NEW w \in Writers, NEW f, wr[w].pc = "opening", Opened(w, f)
  PROVE  \A p \in Paths : lease[p] = Poisoned => lease'[p] = Poisoned
<1>1. lease[wr[w].path] = w /\ w # Poisoned
  BY SpoolAssumption, Zenon
     DEF CapInv, Structure, LeasesHeld, WriterHolds, Poisoned
<1>2. \A p \in Paths : p # wr[w].path => lease'[p] = lease[p]
  BY Zenon DEF Opened, CapInv, IInv, TypeOK
<1> QED
  BY <1>1, <1>2, Zenon

\* ReopenReady, MarkReady and ResetForRetry: a row that was pending still is.
LEMMA KeptRowState ==
  ASSUME CapInv, CapInv', StoredInv, NEW r, NEW s \in {"writing", "ready"},
         st' = [st EXCEPT ![r] = s] \/ st' = st,
         st[r] \in {"writing", "ready", "failed"} \/ st' = st,
         UNCHANGED <<path, file, retired, holds, disk, data, saved, mode, index,
                     entId, fault, ns, wpc, job, target, at, buf>>,
         \A p \in Paths : lease[p] = Poisoned => lease'[p] = Poisoned
  PROVE  StoredInv'
<1>1. \A q \in Ids : \/ st'[q] = st[q]
                     \/ /\ st[q] \in {"writing", "ready", "failed"}
                        /\ st'[q] \in {"writing", "ready"}
  BY Zenon DEF CapInv, IInv, TypeOK
<1>2. Steady
  BY <1>1, Zenon DEF Steady, SteadyRows, Exists
<1>3. \A q \in Ids : st'[q] = "draining" => st[q] = "draining"
  BY <1>1, Zenon
<1>4. \A q \in Ids : st[q] \in Pending => st'[q] \in Pending
  BY <1>1, Zenon DEF Pending
<1>5. Drains'
  BY <1>3, KeptDrains, Zenon
<1>6. \A d \in Workers : wpc[d] = "done" => wpc'[d] = "done" /\ job'[d] = job[d]
  BY Zenon
<1>7. holds \subseteq holds'
  BY Zenon
<1> QED
  BY <1>2, <1>4, <1>5, <1>6, <1>7, KeptState, Zenon

LEMMA NotNone == 0 \notin Ids /\ None \notin Ids /\ NoFile \notin Versions
BY SpoolAssumption DEF Ids, None, NoFile, Versions

LEMMA KeptSweeper ==
  ASSUME CapInv, CapInv', StoredInv, Sweeper
  PROVE  StoredInv'
<1>1. ASSUME NEW f \in Ids, finalizeLocked(f)
      PROVE  StoredInv'
  <2>1. UNCHANGED <<st, path, file, retired, holds, disk, data, saved, mode,
                    index, entId, fault, ns, wpc, job, target, at, buf, lease>>
    BY <1>1, Zenon DEF finalizeLocked, table, columns, work, history
  <2>2. \A p \in Paths : lease[p] = Poisoned => lease'[p] = Poisoned
    BY <2>1, Zenon
  <2> QED
    BY <2>1, <2>2, KeptQuiet, Zenon
<1>2. ASSUME NEW x \in fin, MarkReady(x)
      PROVE  StoredInv'
  <2>1. UNCHANGED <<path, file, retired, holds, disk, data, saved, mode, index,
                    entId, fault, ns, wpc, job, target, at, buf, lease>>
    BY <1>2, Zenon DEF MarkReady, ram, work, history
  <2>2. \A p \in Paths : lease[p] = Poisoned => lease'[p] = Poisoned
    BY <2>1, Zenon
  <2>3. \/ st[x.id] = "writing" /\ st' = [st EXCEPT ![x.id] = "ready"]
        \/ st' = st
    BY <1>2, Zenon DEF MarkReady
  <2>4. PICK s \in {"writing", "ready"} : s = "ready"
    OBVIOUS
  <2>5. st' = [st EXCEPT ![x.id] = s] \/ st' = st
    BY <2>3, <2>4, Zenon
  <2>6. st[x.id] \in {"writing", "ready", "failed"} \/ st' = st
    BY <2>3, Zenon
  <2>7. PICK i : i = x.id
    OBVIOUS
  <2> QED
    BY <2>1, <2>2, <2>5, <2>6, <2>7, KeptRowState, Zenon
<1> QED
  BY <1>1, <1>2, Zenon DEF Sweeper

LEMMA KeptClient ==
  CapInv /\ CapInv' /\ RemovalInv /\ StoredInv /\ ~BlindOpen /\ Client
    => StoredInv'
<1>KeptOpen.
  ASSUME CapInv, CapInv', StoredInv, NEW w \in Writers,
         \/ \E p \in Paths, kind \in Opens : openFile(w, p, kind)
         \/ OpenShared(w) \/ OpenWait(w) \/ OpenRefused(w) \/ ReleaseHandle(w)
  PROVE  StoredInv'
  <2> USE <1>KeptOpen
  <2>1. UNCHANGED <<st, path, file, retired, holds, disk, data, saved, mode,
                    index, entId, fault, ns, wpc, job, target, at, buf>>
    BY Zenon
       DEF openFile, OpenShared, OpenWait, OpenRefused, ReleaseHandle, table,
       columns, ram, work, history
  <2>2. \A p \in Paths : lease[p] = Poisoned => lease'[p] = Poisoned
    <3>1. ASSUME NEW p \in Paths, NEW kind \in Opens, openFile(w, p, kind)
          PROVE  \A q \in Paths : lease[q] = Poisoned => lease'[q] = Poisoned
      <4>1. lease[p] = Free /\ lease' = [lease EXCEPT ![p] = w]
        BY <3>1, Zenon DEF openFile
      <4>2. Free # Poisoned
        BY Zenon DEF Free, Poisoned
      <4>3. \A q \in Paths : q # p => lease'[q] = lease[q]
        BY <4>1, Zenon DEF CapInv, IInv, TypeOK
      <4> QED
        BY <4>1, <4>2, <4>3, Zenon
    <3>2. ASSUME OpenShared(w) \/ OpenRefused(w)
          PROVE  \A q \in Paths : lease[q] = Poisoned => lease'[q] = Poisoned
      <4>1. wr[w].pc = "opening" /\ \E f : Opened(w, f)
        BY <3>2, Zenon DEF OpenShared, OpenRefused
      <4> QED
        BY <4>1, OpenedPoison, Zenon
    <3>3. ASSUME OpenWait(w) \/ ReleaseHandle(w)
          PROVE  \A q \in Paths : lease[q] = Poisoned => lease'[q] = Poisoned
      BY <3>3, Zenon DEF OpenWait, ReleaseHandle
    <3> QED
      BY <3>1, <3>2, <3>3, Zenon
  <2> QED
    BY <2>1, <2>2, KeptQuiet, Zenon

\* A fresh save of a client holds what the client stored, which is nothing yet.
<1>KeptOpenFresh.
  ASSUME CapInv, CapInv', RemovalInv, StoredInv, NEW w \in Writers,
         OpenFresh(w), wr[w].kind = "create"
  PROVE  StoredInv'
  <2> USE <1>KeptOpenFresh
  <2>t. /\ TypeOK /\ wr \in [Writers -> Requests] /\ path \in [Ids -> Paths]
        /\ file \in [Ids -> Ids] /\ ns \in NameOps /\ st \in [Ids -> States]
        /\ index \in [Paths -> Ids \cup {None}] /\ disk \in [Ids -> Contents]
        /\ entId \in [Ids -> Ids \cup {None}] /\ nextId \in Int
        /\ saved \in [Paths -> Versions \cup {Removed, Moved}]
        /\ lease \in [Paths -> {Free, Poisoned, Handler} \cup Writers \cup Workers]
    BY DEF CapInv, IInv, TypeOK
  <2>p. wr[w].path \in Paths /\ nextId \in Ids
    BY <2>t, Zenon DEF OpenFresh, Requests
  <2> SUFFICES ASSUME NEW p \in Paths, NEW n \in Ids, p = wr[w].path, n = nextId
               PROVE  StoredInv'
    BY <2>p, Zenon
  <2>a. /\ wr[w].pc = "opening"
        /\ st' = [st EXCEPT ![n] = "writing"] /\ path' = [path EXCEPT ![n] = p]
        /\ file' = [file EXCEPT ![n] = n] /\ disk' = [disk EXCEPT ![n] = 0]
        /\ entId' = [entId EXCEPT ![n] = n] /\ index' = [index EXCEPT ![p] = n]
        /\ saved' = [saved EXCEPT ![p] = 0]
        /\ lease' = [lease EXCEPT ![p] = Free]
        /\ UNCHANGED <<retired, holds, data, ns, mode, fault, wpc, job, target, at,
                       buf>>
    BY Zenon DEF OpenFresh, Opened, work
  <2>b. /\ st'[n] = "writing" /\ path'[n] = p /\ file'[n] = n /\ disk'[n] = 0
        /\ entId'[n] = n /\ index'[p] = n /\ saved'[p] = 0
        /\ \A r \in Ids : r # n =>
             /\ st'[r] = st[r] /\ path'[r] = path[r] /\ file'[r] = file[r]
             /\ disk'[r] = disk[r] /\ entId'[r] = entId[r]
        /\ \A q \in Paths : q # p => /\ index'[q] = index[q] /\ saved'[q] = saved[q]
                                     /\ lease'[q] = lease[q]
    BY <2>a, <2>t, Zenon
  <2>c. /\ \A r \in Ids : Exists(r) => r < n /\ r # n /\ file[r] # n
        /\ \A q \in Paths : index[q] # n /\ (index[q] # None => entId[index[q]] # n)
        /\ st[n] = "none"
    <3>1. \A r \in Ids : Exists(r) => r < n /\ file[r] < n
      BY Zenon DEF CapInv, IInv, RowsIssued, Structure, FilesOwned
    <3>2. \A q \in Paths : index[q] # None => index[q] < n /\ index[q] \in Ids
      BY <2>t DEF CapInv, Structure, Shadows, Shadow
    <3>3. \A f \in Ids : entId[f] < n
      BY Zenon DEF CapInv, Structure, Shadows
    <3>4. \A r \in Ids : Exists(r) => r # n /\ file[r] # n
      BY <2>t, <3>1 DEF Ids
    <3>5. \A q \in Paths : index[q] # None => index[q] # n /\ entId[index[q]] # n
      BY <2>t, <3>2, <3>3 DEF Ids
    <3>6. n # None
      BY NotNone, Zenon
    <3>7. st[n] = "none"
      BY <3>4, Zenon DEF Exists
    <3> QED
      BY <3>1, <3>4, <3>5, <3>6, <3>7, Zenon
  <2>l. lease[p] = w /\ w # Handler /\ w # Poisoned
    BY <2>a, SpoolAssumption, Zenon
       DEF CapInv, Structure, LeasesHeld, WriterHolds, Handler,
       Poisoned
  <2>m. ns.pc # "idle" => ns.old # p /\ ns.new # p
    BY <2>l, Zenon DEF CapInv, Structure, LeasesHeld, NameHolds
  <2>1. Revivable(n)'
    <3>1. ~HasNewerRowForPath(n)'
      <4>1. \A q \in Ids : q > n => ~Exists(q)
        BY <2>c DEF Ids
      <4>2. \A q \in Ids : q > n => q # n
        BY DEF Ids
      <4> QED
        BY <2>b, <4>1, <4>2, Zenon DEF HasNewerRowForPath, Exists
    <3>2. ~retired'[n]
      BY <2>a, <2>t, <2>c DEF CapInv, Structure, Superseded, Ids
    <3> QED
      BY <2>b, <3>1, <3>2, Zenon DEF Revivable, Latest, Exists
  <2>2. \A r \in Ids : r # n /\ path[r] # p => (Revivable(r)' <=> Revivable(r))
    <3> SUFFICES ASSUME NEW r \in Ids, r # n, path[r] # p
                 PROVE  Revivable(r)' <=> Revivable(r)
      OBVIOUS
    <3>1. HasNewerRowForPath(r)' <=> HasNewerRowForPath(r)
      BY <2>a, <2>b, <2>c DEF HasNewerRowForPath, Exists
    <3> QED
      BY <2>a, <2>b, <3>1, Zenon DEF Revivable, Latest, Exists
  <2>3. \A r \in Ids : r # n /\ Revivable(r)' =>
          /\ path[r] # p /\ path'[r] = path[r] /\ Revivable(r)
          /\ file'[r] = file[r] /\ file[r] # n /\ disk'[file[r]] = disk[file[r]]
    <3> SUFFICES ASSUME NEW r \in Ids, r # n, Revivable(r)' PROVE path[r] # p
      BY <2>b, <2>c, <2>t, <2>2, Zenon DEF Revivable, Latest
    <3>1. Exists(r) /\ ~HasNewerRowForPath(r)'
      BY <2>b, Zenon DEF Revivable, Latest, Exists
    <3>2. n > r
      BY <2>c, <3>1, Zenon DEF Ids
    <3>3. Exists(n)' /\ ~retired'[n]
      BY <2>1, Zenon DEF Revivable, Latest
    <3> QED
      BY <2>b, <3>1, <3>2, <3>3, Zenon DEF HasNewerRowForPath
  <2>4. RowsStored'
    <3>1. \A r \in Ids : r # n /\ Revivable(r)' /\ saved'[path'[r]] >= 0 =>
            disk'[file'[r]] = saved'[path'[r]]
      <4> SUFFICES ASSUME NEW r \in Ids, r # n, Revivable(r)',
                          saved'[path'[r]] >= 0
                   PROVE  disk'[file'[r]] = saved'[path'[r]]
        BY Zenon
      <4>1. /\ Revivable(r) /\ path'[r] = path[r] /\ file'[r] = file[r]
            /\ path[r] # p /\ file[r] # n /\ file[r] \in Ids /\ path[r] \in Paths
        BY <2>b, <2>3, <2>t, Zenon
      <4>2. saved'[path[r]] = saved[path[r]] /\ disk'[file[r]] = disk[file[r]]
        BY <2>b, <4>1, Zenon
      <4> QED
        BY <4>1, <4>2, Zenon DEF StoredInv, RowsStored
    <3>2. disk'[file'[n]] = saved'[path'[n]]
      BY <2>b, Zenon
    <3> QED
      BY <3>1, <3>2, Zenon DEF RowsStored
  <2>5. BackendStored'
    <3> SUFFICES ASSUME NEW q \in Paths, saved'[q] >= 0, Unpending(q)',
                        ~(Cancelling(q) /\ ns.files # {})
                 PROVE  data'[q] = saved'[q]
      BY <2>a, Zenon DEF BackendStored, Cancelling
    <3>1. q # p
      BY <2>1, <2>b, Zenon DEF Unpending
    <3>2. Unpending(q)
      <4> SUFFICES ASSUME NEW r \in Ids, Revivable(r), path[r] = q PROVE FALSE
        BY Zenon DEF Unpending
      <4>1. r # n
        BY <2>c, Zenon DEF Revivable, Latest
      <4> QED
        BY <2>b, <2>2, <3>1, <4>1, Zenon DEF Unpending
    <3> QED
      BY <2>a, <2>b, <3>1, <3>2, Zenon DEF StoredInv, BackendStored
  <2>6. HasFile'
    <3>1. 0 # NoFile
      BY DEF NoFile
    <3>2. \A r \in Ids : r # n /\ Exists(r)' =>
            Exists(r) /\ st'[r] = st[r] /\ disk'[file'[r]] = disk[file[r]]
      <4> SUFFICES ASSUME NEW r \in Ids, r # n, Exists(r)'
                   PROVE  /\ Exists(r) /\ st'[r] = st[r]
                          /\ disk'[file'[r]] = disk[file[r]]
        BY Zenon
      <4>1. st'[r] = st[r] /\ file'[r] = file[r] /\ file[r] \in Ids
        BY <2>b, <2>t, Zenon
      <4>2. Exists(r)
        BY <4>1, Zenon DEF Exists
      <4> QED
        BY <2>b, <2>c, <4>1, <4>2, Zenon
    <3>3. disk'[file'[n]] # NoFile
      BY <2>b, <3>1, Zenon
    <3> QED
      BY <3>2, <3>3, Zenon DEF StoredInv, HasFile
  <2>7. NameMoved'
    <3> SUFFICES ASSUME ns.pc = "migrated"
                 PROVE  /\ Unpending(ns.old)'
                        /\ ns.how # "backend" =>
                             ~(saved'[ns.old] >= 0) /\ ~Unpending(ns.new)'
      BY <2>a, Zenon DEF NameMoved
    <3>1. ns.old # p /\ ns.new # p /\ ns.old \in Paths
      BY <2>m, <2>t, Zenon DEF NameOps
    <3>2. Unpending(ns.old)'
      <4> SUFFICES ASSUME NEW r \in Ids, Revivable(r)', path'[r] = ns.old
                   PROVE  FALSE
        BY <2>a, Zenon DEF Unpending
      <4>1. r # n
        BY <2>b, <3>1, Zenon
      <4>2. Revivable(r) /\ path[r] = ns.old
        BY <2>b, <2>3, <4>1, Zenon
      <4> QED
        BY <4>2, Zenon DEF StoredInv, NameMoved, Unpending
    <3>3. saved'[ns.old] = saved[ns.old]
      BY <2>b, <3>1, Zenon
    <3>4. ~Unpending(ns.new) => ~Unpending(ns.new)'
      <4> SUFFICES ASSUME NEW r \in Ids, Revivable(r), path[r] = ns.new
                   PROVE  Revivable(r)' /\ path'[r] = ns'.new
        BY Zenon DEF Unpending
      <4>1. r # n
        BY <2>c, Zenon DEF Revivable, Latest
      <4> QED
        BY <2>a, <2>b, <2>2, <3>1, <4>1, Zenon
    <3> QED
      BY <3>2, <3>3, <3>4, Zenon DEF StoredInv, NameMoved
  <2>8. RowsShadowed'
    <3> SUFFICES ASSUME mode = "up", NEW r \in Ids, Revivable(r)'
                 PROVE  Shadowed(r)' \/ ReadFault(path[r])'
      BY <2>a, Zenon DEF RowsShadowed
    <3>1. CASE r = n
      BY <2>b, <3>1, Zenon DEF Shadowed
    <3>2. CASE r # n
      <4>1. PICK q \in Paths : q = path[r]
        BY <2>t, Zenon
      <4>2. path'[r] = q /\ q # p /\ Revivable(r) /\ file'[r] = file[r]
            /\ file[r] # n /\ file[r] \in Ids
        BY <2>3, <2>t, <3>2, <4>1, Zenon
      <4>3. index'[q] = index[q] /\ entId'[file[r]] = entId[file[r]]
        BY <2>b, <4>2, Zenon
      <4>4. index[q] # None => entId'[index[q]] = entId[index[q]]
        BY <2>b, <2>c, EntryRow, Zenon
      <4>5. Shadowed(r) => Shadowed(r)'
        BY <4>1, <4>2, <4>3, Zenon DEF Shadowed
      <4>6. ReadFault(q) => ReadFault(q)'
        BY <2>a, <4>3, <4>4, Zenon DEF ReadFault
      <4>7. Shadowed(r) \/ ReadFault(q)
        BY <4>1, <4>2, Zenon DEF StoredInv, RowsShadowed
      <4>8. ReadFault(q)' => ReadFault(path[r])'
        BY <4>2, Zenon DEF ReadFault
      <4> QED
        BY <4>5, <4>6, <4>7, <4>8, Zenon
    <3> QED
      BY <3>1, <3>2, Zenon
  <2>9. IndexOwned'
    <3> SUFFICES ASSUME NEW q \in Paths, index'[q] # None
                 PROVE  \/ st'[entId'[index'[q]]] \in Pending
                        \/ Retained(entId[index[q]], q)'
                        \/ ns'.pc = "cancelled" /\ q = ns'.new
      BY Zenon DEF IndexOwned
    <3>1. CASE q = p
      BY <2>b, <3>1, Zenon DEF Pending
    <3>2. CASE q # p
      <4>1. index'[q] = index[q] /\ index[q] \in Ids /\ index[q] # n
        <5>1. index'[q] = index[q]
          BY <2>b, <3>2, Zenon
        <5> QED
          BY <2>c, <5>1, EntryRow, Zenon
      <4>2. PICK x \in Ids : x = entId[index[q]]
        BY <4>1, EntryRow, NotNone, Zenon
      <4>3. entId'[index'[q]] = x /\ x # n /\ lease'[q] = lease[q]
        BY <2>b, <2>c, <3>2, <4>1, <4>2, Zenon
      <4>4. st'[x] = st[x] /\ path'[x] = path[x]
        BY <2>b, <4>3, Zenon
      <4>5. Retained(x, q) => Retained(entId[index[q]], q)'
        BY <2>a, <4>3, <4>4, Zenon DEF Retained, Completing
      <4>6. \/ st[x] \in Pending
            \/ Retained(x, q)
            \/ ns.pc = "cancelled" /\ q = ns.new
        BY <4>1, <4>2, Zenon DEF StoredInv, IndexOwned
      <4> QED
        BY <2>a, <4>3, <4>4, <4>5, <4>6, Zenon
    <3> QED
      BY <3>1, <3>2, Zenon
  <2>10. Drains'
    <3> SUFFICES ASSUME NEW e \in Workers PROVE Copying(e)'
      BY Zenon DEF Drains
    <3>1. Copying(e)
      BY Zenon DEF StoredInv, Drains
    <3>2. wpc[e] # "idle" => job[e].id \in Ids /\ job[e].id # n
      BY <2>t, JobIssued DEF Ids
    <3>3. drainStillClaimed(e)' /\ wpc[e] \notin {"idle", "claimed"} =>
            drainStillClaimed(e)
      BY <2>a, <2>b, <3>2 DEF drainStillClaimed
    <3>4. drainStillClaimed(e) => disk'[job[e].file] = disk[job[e].file]
      <4> SUFFICES ASSUME drainStillClaimed(e)
                   PROVE  disk'[job[e].file] = disk[job[e].file]
        OBVIOUS
      <4>1. job[e].file # n /\ job[e].file \in Ids
        BY <2>c, <2>t, ClaimedRow, Zenon
      <4> QED
        BY <2>b, <4>1, Zenon
    <3> QED
      BY <2>a, <3>1, <3>3, <3>4, KeptCopying, Zenon
  <2> QED
    BY <2>4, <2>5, <2>6, <2>7, <2>8, <2>9, <2>10, Zenon DEF StoredInv

\* An entry that takes writes is the one entry of the row being written to its
\* file, or of a row that the removal in progress has cancelled.
<1>LiveEntry.
  ASSUME CapInv, IndexOwned, NEW f \in Ids, ~entClosed[f]
  PROVE  \/ \E q \in Ids :
              /\ st[q] = "writing" /\ Revivable(q) /\ file[q] = f
              /\ \A p \in Paths : index[p] = f <=> p = path[q]
              /\ \A r \in Ids : Exists(r) /\ file[r] = f => r = q
         \/ /\ ns.pc = "cancelled" /\ f \in ns.files
            /\ \A p \in Paths : index[p] = f <=> p = ns.new
            /\ \A r \in Ids : Exists(r) => file[r] # f
  <2> USE <1>LiveEntry
  <2>1. Live(f)
    BY Zenon DEF CapInv, Structure, OpenLive
  <2>2. PICK x \in Ids : x = entId[f]
    BY <2>1, Zenon DEF Live, CapInv, IInv, TypeOK
  <2>3. f # None
    BY NotNone, Zenon
  <2>4. CASE st[x] = "writing" /\ file[x] = f /\ index[path[x]] = f
    <3>1. Revivable(x) /\ Exists(x)
      BY <2>4, PendingRevivable, Zenon DEF Pending
    <3>2. \A p \in Paths : index[p] = f => p = path[x]
      BY <2>2, <2>3, <2>4, Zenon DEF CapInv, Structure, Shadows, Shadow, Pending
    <3>3. \A r \in Ids : Exists(r) /\ file[r] = f => r = x
      BY <2>4, <3>1, Zenon DEF CapInv, Structure, FilesOwned
    <3> QED
      BY <2>4, <3>1, <3>2, <3>3, Zenon
  <2>5. CASE st[x] = "none" /\ ns.pc = "cancelled" /\ f \in ns.files
             /\ index[ns.new] = f
    <3>1. \A p \in Paths : index[p] = f => p = ns.new
      BY <2>2, <2>3, <2>5, Zenon DEF IndexOwned, Retained, Pending
    <3>2. \A r \in Ids : Exists(r) => file[r] # f
      BY <2>5, Zenon DEF CapInv, Structure, NameTaken
    <3> QED
      BY <2>5, <3>1, <3>2, Zenon
  <2> QED
    BY <2>1, <2>2, <2>4, <2>5, Zenon DEF Live

\* WriteAt: the entry is the shadow of the name that the bytes are stored under.
<1>KeptWriteAt.
  ASSUME CapInv, CapInv', RemovalInv, StoredInv, NEW w \in Writers, WriteAt(w)
  PROVE  StoredInv'
  <2> USE <1>KeptWriteAt
  <2>t. /\ wr \in [Writers -> Requests] /\ disk \in [Ids -> Contents]
        /\ saved \in [Paths -> Versions \cup {Removed, Moved}]
        /\ path \in [Ids -> Paths] /\ file \in [Ids -> Ids] /\ ns \in NameOps
    BY Zenon DEF CapInv, IInv, TypeOK
  <2>f. wr[w].file \in Ids
    BY <2>t, Zenon
       DEF WriteAt, CapInv, Structure, LeasesHeld, WriterHolds, Requests
  <2>v. count["version"] + 1 \in Versions
    BY Zenon DEF WriteAt
  <2> SUFFICES ASSUME NEW f \in Ids, f = wr[w].file, NEW v \in Versions,
                      v = count["version"] + 1
               PROVE  StoredInv'
    BY <2>f, <2>v, Zenon
  <2>a. /\ ~entClosed[f] /\ disk' = [disk EXCEPT ![f] = v]
        /\ saved' = [p \in Paths |-> IF index[p] = f THEN v ELSE saved[p]]
        /\ UNCHANGED <<st, path, file, retired, holds, index, entId, fault, data,
                       ns, mode, wpc, job, target, at, buf, lease>>
    BY Zenon DEF WriteAt, table, columns, procs, work
  <2>b. disk'[f] = v /\ \A g \in Ids : g # f => disk'[g] = disk[g]
    BY <2>a, <2>t, Zenon
  <2>s. \A p \in Paths : saved'[p] = IF index[p] = f THEN v ELSE saved[p]
    BY <2>a, Zenon
  <2>l. \A r \in Ids : Revivable(r)' <=> Revivable(r)
    BY <2>a, Zenon DEF Revivable, Latest, Exists, HasNewerRowForPath
  <2>u. \A p : Unpending(p)' <=> Unpending(p)
    BY <2>a, <2>l, Zenon DEF Unpending
  <2>d. ASSUME \A r \in Ids : Revivable(r) => (file[r] = f <=> index[path[r]] = f),
               \A r \in Ids : st[r] = "draining" => file[r] # f,
               \A p \in Paths : index[p] = f =>
                 ~Unpending(p) \/ (Cancelling(p) /\ ns.files # {}),
               ns.pc = "migrated" /\ index[ns.old] = f => ~Unpending(ns.old)
        PROVE  StoredInv'
    <3>1. RowsStored'
      <4> SUFFICES ASSUME NEW r \in Ids, Revivable(r), NEW q \in Paths, q = path[r],
                          saved'[q] >= 0
                   PROVE  disk'[file[r]] = saved'[q]
        BY <2>a, <2>l, <2>t DEF RowsStored
      <4>1. CASE file[r] = f
        BY <2>b, <2>d, <2>s, <4>1, Zenon
      <4>2. CASE file[r] # f
        BY <2>b, <2>d, <2>s, <2>t, <4>2, Zenon DEF StoredInv, RowsStored
      <4> QED
        BY <4>1, <4>2, Zenon
    <3>2. BackendStored'
      BY <2>a, <2>d, <2>s, <2>u, Zenon DEF StoredInv, BackendStored, Cancelling
    <3>3. HasFile'
      BY <2>a, <2>b, <2>t, NotNone, Zenon DEF StoredInv, HasFile, Exists
    <3>4. NameMoved'
      <4> SUFFICES ASSUME ns.pc = "migrated"
                   PROVE  /\ Unpending(ns.old)
                          /\ ns.how # "backend" =>
                               ~(saved'[ns.old] >= 0) /\ ~Unpending(ns.new)
        BY <2>a, <2>u, Zenon DEF NameMoved
      <4>1. ns.old \in Paths
        BY <2>t, Zenon DEF NameOps
      <4> QED
        BY <2>d, <2>s, <4>1, Zenon DEF StoredInv, NameMoved
    <3>5. RowsShadowed'
      BY <2>a, <2>l, Zenon DEF StoredInv, RowsShadowed, Shadowed, ReadFault
    <3>6. IndexOwned'
      BY <2>a, Zenon DEF StoredInv, IndexOwned, Retained, Completing
    <3>7. Drains'
      <4> SUFFICES ASSUME NEW e \in Workers PROVE Copying(e)'
        BY Zenon DEF Drains
      <4>1. Copying(e)
        BY Zenon DEF StoredInv, Drains
      <4>2. drainStillClaimed(e)' => drainStillClaimed(e)
        BY <2>a, Zenon DEF drainStillClaimed
      <4>3. drainStillClaimed(e) => disk'[job[e].file] = disk[job[e].file]
        <5> SUFFICES ASSUME drainStillClaimed(e)
                     PROVE  disk'[job[e].file] = disk[job[e].file]
          OBVIOUS
        <5> QED
          BY <2>b, <2>d, <2>t, ClaimedRow, JobIssued
      <4> QED
        BY <2>a, <4>1, <4>2, <4>3, KeptCopying, Zenon
    <3> QED
      BY <3>1, <3>2, <3>3, <3>4, <3>5, <3>6, <3>7, Zenon DEF StoredInv
  <2>o. IndexOwned
    BY Zenon DEF StoredInv
  <2>1. ASSUME NEW q \in Ids, st[q] = "writing", Revivable(q), file[q] = f,
               \A p \in Paths : index[p] = f <=> p = path[q],
               \A r \in Ids : Exists(r) /\ file[r] = f => r = q
        PROVE  StoredInv'
    <3>1. \A r \in Ids : Revivable(r) => (file[r] = f <=> index[path[r]] = f)
      <4> SUFFICES ASSUME NEW r \in Ids, Revivable(r)
                   PROVE  file[r] = f <=> index[path[r]] = f
        OBVIOUS
      <4>1. Latest(r) /\ Latest(q) /\ Exists(r) /\ path[r] \in Paths
        BY <2>1, <2>t, Zenon DEF Revivable, Latest
      <4> QED
        BY <2>1, <4>1, OneLatest, Zenon
    <3>2. \A r \in Ids : st[r] = "draining" => file[r] # f
      BY <2>1, Zenon DEF Exists
    <3>3. \A p \in Paths : index[p] = f => ~Unpending(p)
      BY <2>1, Zenon DEF Unpending
    <3>4. ns.old \in Paths
      BY <2>t, Zenon DEF NameOps
    <3> QED
      BY <2>d, <3>1, <3>2, <3>3, <3>4, Zenon
  <2>2. ASSUME ns.pc = "cancelled", f \in ns.files,
               \A p \in Paths : index[p] = f <=> p = ns.new,
               \A r \in Ids : Exists(r) => file[r] # f
        PROVE  StoredInv'
    <3>1. Cancelling(ns.new) /\ ns.files # {} /\ ns.pc # "migrated"
      BY <2>2, Zenon DEF Cancelling
    <3>2. \A r \in Ids : Revivable(r) => path[r] # ns.new /\ Exists(r)
      BY <3>1, Zenon DEF RemovalInv, NameCleared, Revivable, Latest
    <3>3. \A r \in Ids : Revivable(r) => (file[r] = f <=> index[path[r]] = f)
      BY <2>2, <2>t, <3>2, Zenon
    <3>4. \A r \in Ids : st[r] = "draining" => file[r] # f
      BY <2>2, Zenon DEF Exists
    <3>5. \A p \in Paths : index[p] = f => Cancelling(p) /\ ns.files # {}
      BY <2>2, <3>1, Zenon
    <3> QED
      BY <2>d, <3>1, <3>3, <3>4, <3>5, Zenon
  <2> QED
    BY <2>1, <2>2, <2>a, <2>o, <1>LiveEntry, Zenon

\* writeBound: nothing is left to drain under a name that has no entry and no
\* fault.
<1>KeptWriteBound.
  ASSUME CapInv, CapInv', StoredInv, NEW w \in Writers, NEW p \in Paths,
         writeBound(w, p)
  PROVE  StoredInv'
  <2> USE <1>KeptWriteBound
  <2>t. /\ data \in [Paths -> Versions \cup {NoFile, Torn}]
        /\ saved \in [Paths -> Versions \cup {Removed, Moved}]
        /\ path \in [Ids -> Paths] /\ file \in [Ids -> Ids] /\ ns \in NameOps
    BY Zenon DEF CapInv, IInv, TypeOK
  <2> SUFFICES ASSUME NEW v, v = count["version"] + 1 PROVE StoredInv'
    OBVIOUS
  <2>a. /\ mode = "up" /\ lease[p] = Free /\ ~ReadFault(p) /\ index[p] = None
        /\ data' = [data EXCEPT ![p] = v] /\ saved' = [saved EXCEPT ![p] = v]
        /\ UNCHANGED <<st, path, file, retired, holds, index, entId, fault, disk,
                       ns, mode, wpc, job, target, at, buf, lease>>
    BY Zenon DEF writeBound, ram, procs, work
  <2>b. /\ data'[p] = v /\ saved'[p] = v
        /\ \A q \in Paths : q # p => data'[q] = data[q] /\ saved'[q] = saved[q]
    BY <2>a, <2>t, Zenon
  <2>l. \A r \in Ids : Revivable(r)' <=> Revivable(r)
    BY <2>a, Zenon DEF Revivable, Latest, Exists, HasNewerRowForPath
  <2>u. \A q : Unpending(q)' <=> Unpending(q)
    BY <2>a, <2>l, Zenon DEF Unpending
  <2>c. Unpending(p)
    BY <2>a, <2>t, NotNone, Zenon DEF StoredInv, RowsShadowed, Shadowed,
       Unpending
  <2>1. RowsStored'
    <3> SUFFICES ASSUME NEW r \in Ids, Revivable(r), NEW q \in Paths, q = path[r],
                        saved'[q] >= 0
                 PROVE  disk[file[r]] = saved'[q]
      BY <2>a, <2>l, <2>t, Zenon DEF RowsStored
    <3>1. q # p
      BY <2>c, Zenon DEF Unpending
    <3> QED
      BY <2>b, <3>1, Zenon DEF StoredInv, RowsStored
  <2>2. BackendStored'
    BY <2>a, <2>b, <2>u, Zenon DEF StoredInv, BackendStored, Cancelling
  <2>3. HasFile'
    BY <2>a, Zenon DEF StoredInv, HasFile, Exists
  <2>4. NameMoved'
    <3> SUFFICES ASSUME ns.pc = "migrated"
                 PROVE  /\ Unpending(ns.old)
                        /\ ns.how # "backend" =>
                             ~(saved'[ns.old] >= 0) /\ ~Unpending(ns.new)
      BY <2>a, <2>u, Zenon DEF NameMoved
    <3>1. ns.old \in Paths
      BY <2>t, Zenon DEF NameOps
    <3>2. ns.old # p
      BY <2>a, Zenon DEF CapInv, Structure, LeasesHeld, NameHolds, Free, Handler
    <3> QED
      BY <2>b, <3>1, <3>2, Zenon DEF StoredInv, NameMoved
  <2>5. RowsShadowed'
    BY <2>a, <2>l, Zenon DEF StoredInv, RowsShadowed, Shadowed, ReadFault
  <2>6. IndexOwned'
    BY <2>a, Zenon DEF StoredInv, IndexOwned, Retained, Completing
  <2>7. Drains'
    <3> SUFFICES ASSUME NEW e \in Workers PROVE Copying(e)'
      BY Zenon DEF Drains
    <3>1. Copying(e)
      BY Zenon DEF StoredInv, Drains
    <3>2. drainStillClaimed(e)' => drainStillClaimed(e)
      BY <2>a, Zenon DEF drainStillClaimed
    <3>3. drainStillClaimed(e) => data'[job[e].path] = data[job[e].path]
      BY <2>b, <2>c, JobIssued, ClaimedRow, Zenon DEF Unpending
    <3> QED
      BY <2>a, <3>1, <3>2, <3>3, KeptCopying, Zenon
  <2> QED
    BY <2>1, <2>2, <2>3, <2>4, <2>5, <2>6, <2>7, Zenon DEF StoredInv

<1> SUFFICES ASSUME CapInv, CapInv', RemovalInv, StoredInv, Client, ~BlindOpen
             PROVE  StoredInv'
  BY Zenon
<1> SUFFICES ASSUME NEW w \in Writers,
                    \/ \E p \in Paths, kind \in Opens : openFile(w, p, kind)
                    \/ OpenShared(w) \/ ReopenReady(w) \/ OpenWait(w)
                    \/ OpenRefused(w) \/ OpenFresh(w) \/ WriteAt(w)
                    \/ ReleaseHandle(w) \/ \E p \in Paths : writeBound(w, p)
             PROVE  StoredInv'
  BY Zenon DEF Client
<1>1. ASSUME ReopenReady(w)
      PROVE  StoredInv'
  <2>1. UNCHANGED <<path, file, retired, holds, disk, data, saved, mode, index,
                    entId, fault, ns, wpc, job, target, at, buf>>
    BY <1>1, Zenon DEF ReopenReady, columns, work, history
  <2>2. PICK r : r = entId[index[wr[w].path]]
    OBVIOUS
  <2>3. /\ st[r] = "ready" /\ st' = [st EXCEPT ![r] = "writing"]
        /\ wr[w].pc = "opening" /\ \E f : Opened(w, f)
    BY <1>1, <2>2, Zenon DEF ReopenReady, Reopenable
  <2>4. \A p \in Paths : lease[p] = Poisoned => lease'[p] = Poisoned
    BY <2>3, OpenedPoison, Zenon
  <2>5. PICK s \in {"writing", "ready"} : s = "writing"
    OBVIOUS
  <2>6. st' = [st EXCEPT ![r] = s]
    BY <2>3, <2>5, Zenon
  <2> QED
    BY <2>1, <2>3, <2>4, <2>6, KeptRowState, Zenon
<1>2. ASSUME OpenFresh(w)
      PROVE  StoredInv'
  <2>1. wr[w].kind = "create"
    BY <1>2, Zenon DEF BlindOpen, CapInv, IInv, TypeOK, Requests
  <2> QED
    BY <1>2, <2>1, <1>KeptOpenFresh, Zenon
<1>3. ASSUME WriteAt(w)
      PROVE  StoredInv'
  BY <1>3, <1>KeptWriteAt, Zenon
<1>4. ASSUME NEW p \in Paths, writeBound(w, p)
      PROVE  StoredInv'
  BY <1>4, <1>KeptWriteBound, Zenon
<1>5. ASSUME \/ \E p \in Paths, kind \in Opens : openFile(w, p, kind)
             \/ OpenShared(w) \/ OpenWait(w) \/ OpenRefused(w)
             \/ ReleaseHandle(w)
      PROVE  StoredInv'
  BY <1>5, <1>KeptOpen, Zenon
<1> QED
  BY <1>1, <1>2, <1>3, <1>4, <1>5, Zenon
=============================================================================
