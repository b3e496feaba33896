----------------------------- MODULE SpoolKept ------------------------------
(***************************************************************************)
(* What a client stored under a name is kept and is what reads return: the  *)
(* steps of the spool keep StoredInv, except for the four that Exceptional  *)
(* names.  SpoolRemovals has the steps of clients and of the sweeper.      *)
(***************************************************************************)
EXTENDS SpoolRemovals

-----------------------------------------------------------------------------
(* Drain workers.                                                          *)

\* What a step of one worker does to the others.
Others(d) ==
  \A e \in Workers : e # d =>
    /\ wpc'[e] = wpc[e] /\ job'[e] = job[e] /\ target'[e] = target[e]
    /\ at'[e] = at[e] /\ buf'[e] = buf[e]

\* A name with a free lease is not being renamed or removed.
LEMMA FreeName ==
  ASSUME CapInv, NEW p, lease[p] = Free, ns.pc # "idle"
  PROVE  p # ns.new /\ p # ns.old
BY Zenon DEF CapInv, Structure, LeasesHeld, NameHolds, Free, Handler

LEMMA KeptWorker ==
  CapInv /\ CapInv' /\ StoredInv /\ ~LateCopy /\ (\E d \in Workers : Worker(d))
    => StoredInv'
<1>WorkerOthers.
  ASSUME CapInv, NEW d \in Workers, NEW pc, At(d, pc),
         job' = job \/ \E x : job' = [job EXCEPT ![d] = x],
         target' = target \/ \E x : target' = [target EXCEPT ![d] = x],
         at' = at \/ \E x : at' = [at EXCEPT ![d] = x],
         buf' = buf \/ \E x : buf' = [buf EXCEPT ![d] = x]
  PROVE  Others(d) /\ wpc'[d] = pc
  <2> USE <1>WorkerOthers
  <2>1. /\ wpc \in [Workers -> WorkerPcs] /\ job \in [Workers -> Jobs]
        /\ target \in [Workers -> Targets] /\ at \in [Workers -> SUBSET Paths]
        /\ buf \in [Workers -> Versions]
    BY Zenon DEF CapInv, IInv, TypeOK
  <2>2. \A e \in Workers : e # d => wpc'[e] = wpc[e]
    BY <2>1, Zenon DEF At
  <2>3. \A e \in Workers : e # d => job'[e] = job[e]
    BY <2>1, Zenon
  <2>4. \A e \in Workers : e # d => target'[e] = target[e]
    BY <2>1, Zenon
  <2>5. \A e \in Workers : e # d => at'[e] = at[e]
    BY <2>1, Zenon
  <2>6. \A e \in Workers : e # d => buf'[e] = buf[e]
    BY <2>1, Zenon
  <2>7. wpc'[d] = pc
    BY <2>1, Zenon DEF At
  <2> QED
    BY <2>2, <2>3, <2>4, <2>5, <2>6, <2>7, Zenon DEF Others

<1>LeaveOthers.
  ASSUME CapInv, NEW d \in Workers, Leave(d)
  PROVE  Others(d) /\ wpc'[d] = "idle" /\ Copying(d)'
  <2> USE <1>LeaveOthers
  <2>1. Others(d) /\ wpc'[d] = "idle"
    BY <1>WorkerOthers, Zenon DEF Leave
  <2> QED
    BY <2>1, FreshCopying, Zenon

\* A worker takes its row, gives it back or leaves, and publishes nothing.
<1>KeptWorkerState.
  ASSUME CapInv, CapInv', StoredInv, NEW d \in Workers, wpc[d] # "done",
         Others(d), Copying(d)',
         \A r \in Ids :
           \/ st'[r] = st[r]
           \/ /\ st[r] \in Pending /\ st'[r] \in {"ready", "draining"}
              /\ st'[r] = "draining" => wpc'[d] # "idle" /\ job'[d].id = r,
         holds \subseteq holds',
         UNCHANGED <<path, file, retired, disk, data, saved, mode, index, entId,
                     fault, ns>>,
         \A p \in Paths : lease[p] = Poisoned => lease'[p] = Poisoned
  PROVE  StoredInv'
  <2> USE <1>KeptWorkerState
  <2>1. Steady
    <3>1. \A r \in Ids : (Exists(r)' <=> Exists(r)) /\ (st'[r] = "done" <=> st[r] = "done")
      BY Zenon DEF Exists, Pending
    <3> QED
      BY <3>1, Zenon DEF Steady, SteadyRows
  <2>2. \A r \in Ids : st[r] \in Pending => st'[r] \in Pending
    BY Zenon DEF Pending
  <2>3. Drains'
    <3> SUFFICES ASSUME NEW e \in Workers, e # d PROVE Copying(e)'
      BY Zenon DEF Drains
    <3>1. Copying(e)
      BY Zenon DEF StoredInv, Drains
    <3>2. \A r \in Ids : st'[r] = "draining" =>
            st[r] = "draining" \/ (wpc'[d] # "idle" /\ job'[d].id = r)
      BY Zenon
    <3>3. drainStillClaimed(e)' /\ wpc[e] \notin {"idle", "claimed"} =>
            drainStillClaimed(e)
      BY <3>2, ClaimKept, Zenon DEF Others
    <3> QED
      BY <3>1, <3>3, KeptCopying, Zenon DEF Others
  <2>4. \A e \in Workers : wpc[e] = "done" => wpc'[e] = "done" /\ job'[e] = job[e]
    BY Zenon DEF Others
  <2> QED
    BY <2>1, <2>2, <2>3, <2>4, KeptState, Zenon

<1>KeptClaims.
  ASSUME CapInv, CapInv', StoredInv, NEW d \in Workers,
         \/ \E r \in Ids : markDraining(d, r)
         \/ Reread(d) \/ ResetToReady(d) \/ failTransient(d)
         \/ RequeueUnadmittedDrain(d) \/ holdCompletion(d)
  PROVE  StoredInv'
  <2> USE <1>KeptClaims
  <2>t. st \in [Ids -> States] /\ lease \in [Paths -> {Free, Poisoned, Handler}
                                                \cup Writers \cup Workers]
        /\ job \in [Workers -> Jobs]
    BY Zenon DEF CapInv, IInv, TypeOK
  <2>j. job[d].id \in Ids /\ job[d].path \in Paths
    BY JobIssued, Zenon
  <2>o. Owned(d)
    BY Zenon DEF CapInv, IInv, WorkersOwn
  <2>p. \A p \in Paths : lease' = lease => (lease[p] = Poisoned => lease'[p] = Poisoned)
    BY Zenon
  <2>1. ASSUME NEW r \in Ids, markDraining(d, r)
        PROVE  StoredInv'
    <3>1. /\ wpc[d] = "idle" /\ st[r] = "ready"
          /\ st' = [st EXCEPT ![r] = "draining"] /\ At(d, "claimed")
          /\ UNCHANGED <<path, file, retired, holds, disk, data, saved, mode, index,
                         entId, fault, ns, lease, target, at, buf>>
      BY <2>1, Zenon DEF markDraining, Claimable, columns, ram, history
    <3>2. PICK x : x.id = r /\ job' = [job EXCEPT ![d] = x]
      BY <2>1, Zenon DEF markDraining
    <3>3. Others(d) /\ wpc'[d] = "claimed"
      BY <3>1, <3>2, <1>WorkerOthers, Zenon
    <3>4. Copying(d)'
      BY <3>3, FreshCopying, Zenon
    <3>5. job'[d].id = r
      BY <2>t, <3>2, Zenon
    <3>6. \A q \in Ids : q # r => st'[q] = st[q]
      BY <2>t, <3>1, Zenon
    <3>7. st'[r] = "draining" /\ st[r] \in Pending
      BY <2>t, <3>1, Zenon DEF Pending
    <3>8. \A q \in Ids :
            \/ st'[q] = st[q]
            \/ /\ st[q] \in Pending /\ st'[q] \in {"ready", "draining"}
               /\ st'[q] = "draining" => wpc'[d] # "idle" /\ job'[d].id = q
      BY <3>3, <3>5, <3>6, <3>7, Zenon
    <3>9. holds \subseteq holds' /\ wpc[d] # "done"
      BY <3>1, Zenon
    <3> QED
      BY <2>p, <3>1, <3>3, <3>4, <3>8, <3>9, <1>KeptWorkerState, Zenon
  <2>2. ASSUME Reread(d)
        PROVE  StoredInv'
    <3>1. /\ wpc[d] = "claimed"
          /\ UNCHANGED <<st, path, file, retired, holds, disk, data, saved, mode,
                         index, entId, fault, ns, lease>>
      BY <2>2, Zenon DEF Reread, table, columns, ram, history
    <3>2. \/ At(d, "loaded") /\ UNCHANGED <<target, at, buf>>
             /\ \E x : job' = [job EXCEPT ![d] = x]
          \/ Leave(d)
      BY <2>2, Zenon DEF Reread
    <3>3. Others(d) /\ Copying(d)'
      <4>1. CASE Leave(d)
        BY <4>1, <1>LeaveOthers, Zenon
      <4>2. CASE At(d, "loaded") /\ UNCHANGED <<target, at, buf>>
                 /\ \E x : job' = [job EXCEPT ![d] = x]
        <5>1. Others(d) /\ wpc'[d] = "loaded"
          BY <4>2, <1>WorkerOthers, Zenon
        <5> QED
          BY <5>1, FreshCopying, Zenon
      <4> QED
        BY <3>2, <4>1, <4>2, Zenon
    <3>4. holds \subseteq holds' /\ wpc[d] # "done" /\ \A q \in Ids : st'[q] = st[q]
      BY <3>1, Zenon
    <3> QED
      BY <2>p, <3>1, <3>3, <3>4, <1>KeptWorkerState, Zenon
  <2>3. ASSUME ResetToReady(d) \/ failTransient(d) \/ RequeueUnadmittedDrain(d)
        PROVE  StoredInv'
    <3>1. /\ wpc[d] \in {"claimed", "loaded", "opened", "copied", "installed"}
          /\ Leave(d)
          /\ UNCHANGED <<path, file, retired, holds, disk, data, saved, mode,
                         index, entId, fault, ns, lease>>
      BY <2>3, Zenon
         DEF ResetToReady, failTransient, RequeueUnadmittedDrain, columns,
         ram, history
    <3>2. st' = st \/ (Exists(job[d].id) /\ st' = [st EXCEPT ![job[d].id] = "ready"])
      BY <2>3, Zenon DEF ResetToReady, failTransient, RequeueUnadmittedDrain,
         drainStillClaimed, Exists
    <3>3. st[job[d].id] \in {"none", "draining"}
      BY <2>o, <3>1, Zenon DEF Owned
    <3>4. \A q \in Ids : \/ st'[q] = st[q]
                         \/ st[q] = "draining" /\ st'[q] = "ready"
      BY <2>t, <3>2, <3>3, Zenon DEF Exists
    <3>5. \A q \in Ids :
            \/ st'[q] = st[q]
            \/ /\ st[q] \in Pending /\ st'[q] \in {"ready", "draining"}
               /\ st'[q] = "draining" => wpc'[d] # "idle" /\ job'[d].id = q
      BY <3>4, Zenon DEF Pending
    <3>6. Others(d) /\ Copying(d)' /\ holds \subseteq holds' /\ wpc[d] # "done"
      BY <3>1, <1>LeaveOthers, Zenon
    <3> QED
      BY <2>p, <3>1, <3>5, <3>6, <1>KeptWorkerState, Zenon
  <2>4. ASSUME holdCompletion(d)
        PROVE  StoredInv'
    <3>1. /\ wpc[d] = "held" /\ Leave(d)
          /\ lease' = [lease EXCEPT ![job[d].path] = Free]
          /\ UNCHANGED <<st, path, file, retired, holds, disk, data, saved, mode,
                         index, entId, fault, ns>>
      BY <2>4, Zenon DEF holdCompletion, table, columns, ram
    <3>2. lease[job[d].path] = d /\ d # Poisoned
      BY <3>1, SpoolAssumption, Zenon
         DEF CapInv, Structure, LeasesHeld, WorkerHolds,
         Poisoned
    <3>3. \A p \in Paths : lease[p] = Poisoned => lease'[p] = Poisoned
      BY <2>j, <2>t, <3>1, <3>2, Zenon
    <3>4. holds \subseteq holds' /\ wpc[d] # "done" /\ \A q \in Ids : st'[q] = st[q]
      BY <3>1, Zenon
    <3> QED
      BY <3>1, <3>3, <3>4, <1>LeaveOthers, <1>KeptWorkerState, Zenon
  <2> QED
    BY <2>1, <2>2, <2>3, <2>4, Zenon

<1>KeptPrepare.
  ASSUME CapInv, CapInv', StoredInv, NEW d \in Workers,
         prepareDrainCompletions(d)
  PROVE  StoredInv'
  <2> USE <1>KeptPrepare
  <2>t. /\ lease \in [Paths -> {Free, Poisoned, Handler} \cup Writers \cup Workers]
        /\ job[d].path \in Paths
    BY JobIssued, Zenon DEF CapInv, IInv, TypeOK
  <2>1. /\ wpc[d] = "installed" /\ lease[job[d].path] = Free
        /\ UNCHANGED <<st, path, file, retired, disk, data, saved, mode, index,
                       entId, fault, ns>>
    BY Zenon DEF prepareDrainCompletions, columns, ram, history
  <2>2. CASE /\ drainStillClaimed(d) /\ holds' = holds \cup {job[d].id}
             /\ lease' = [lease EXCEPT ![job[d].path] = d] /\ Goto(d, "held")
    <3>1. UNCHANGED <<job, target, at, buf>> /\ At(d, "held")
      BY <2>2, Zenon DEF Goto, work
    <3>2. Others(d) /\ wpc'[d] = "held"
      BY <3>1, <1>WorkerOthers, Zenon
    <3>3. Copying(d)'
      BY <2>1, <2>2, <3>1, <3>2, Zenon DEF StoredInv, Drains, Copying
    <3>4. Free # Poisoned
      BY Zenon DEF Free, Poisoned
    <3>5. \A p \in Paths : lease[p] = Poisoned => lease'[p] = Poisoned
      BY <2>1, <2>2, <2>t, <3>4, Zenon
    <3>6. holds \subseteq holds' /\ wpc[d] # "done" /\ \A q \in Ids : st'[q] = st[q]
      BY <2>1, <2>2, Zenon
    <3> QED
      BY <2>1, <3>2, <3>3, <3>5, <3>6, <1>KeptWorkerState, Zenon
  <2>3. CASE Leave(d) /\ UNCHANGED <<holds, lease>>
    <3>1. holds \subseteq holds' /\ wpc[d] # "done" /\ \A q \in Ids : st'[q] = st[q]
      BY <2>1, <2>3, Zenon
    <3>2. \A p \in Paths : lease[p] = Poisoned => lease'[p] = Poisoned
      BY <2>3, Zenon
    <3> QED
      BY <2>1, <2>3, <3>1, <3>2, <1>LeaveOthers, <1>KeptWorkerState, Zenon
  <2> QED
    BY <2>2, <2>3, Zenon DEF prepareDrainCompletions

\* A worker that owns its row changes only the backend file of its name.
<1>KeptBackend.
  ASSUME CapInv, StoredInv, NEW d \in Workers, Steady,
         UNCHANGED <<file, disk, saved, ns>>,
         data' = data \/ drainStillClaimed(d),
         \A p \in Paths : p # job[d].path => data'[p] = data[p]
  PROVE  RowsStored' /\ BackendStored' /\ HasFile' /\ NameMoved'
  <2> USE <1>KeptBackend
  <2>1. \A r \in Ids : Revivable(r)' <=> Revivable(r)
    BY SteadyLife, Zenon
  <2>2. path' = path
    BY Zenon DEF Steady, SteadyRows
  <2>3. RowsStored'
    BY <2>1, <2>2, Zenon DEF StoredInv, RowsStored
  <2>4. \A p : Unpending(p)' <=> Unpending(p)
    BY <2>1, <2>2, Zenon DEF Unpending
  <2>5. BackendStored'
    <3> SUFFICES ASSUME NEW p \in Paths, Unpending(p) PROVE data'[p] = data[p]
      BY <2>4, Zenon DEF StoredInv, BackendStored, Cancelling
    <3>1. drainStillClaimed(d) => p # job[d].path
      BY ClaimedRow, Zenon DEF Unpending
    <3> QED
      BY <3>1, Zenon
  <2>6. HasFile'
    BY Zenon DEF StoredInv, HasFile, Steady, SteadyRows
  <2>7. NameMoved'
    BY <2>4, Zenon DEF StoredInv, NameMoved
  <2> QED
    BY <2>3, <2>5, <2>6, <2>7, Zenon

\* FailClaimedDrain: reads of the name are refused from then on.
<1>KeptFail.
  ASSUME CapInv, CapInv', StoredInv, NEW d \in Workers, NEW integrity,
         wpc[d] \notin {"idle", "done"}, drainStillClaimed(d),
         job[d].id \notin holds, FailClaimedDrain(d, integrity), Leave(d),
         UNCHANGED <<path, file, retired, holds, disk, saved, mode, entId, ns,
                     lease>>,
         \A p \in Paths : p # job[d].path => data'[p] = data[p]
  PROVE  StoredInv'
  <2> USE <1>KeptFail
  <2>t. /\ st \in [Ids -> States] /\ fault \in [Paths -> Ids \cup {None}]
        /\ index \in [Paths -> Ids \cup {None}] /\ path \in [Ids -> Paths]
        /\ entId \in [Ids -> Ids \cup {None}] /\ file \in [Ids -> Ids]
    BY Zenon DEF CapInv, IInv, TypeOK
  <2>j. job[d].id \in Ids /\ job[d].path \in Paths
    BY JobIssued, Zenon
  <2> SUFFICES ASSUME NEW r \in Ids, r = job[d].id, NEW p \in Paths, p = job[d].path
               PROVE  StoredInv'
    BY <2>j, Zenon
  <2>r. /\ Revivable(r) /\ Latest(r) /\ path[r] = p /\ st[r] = "draining"
        /\ ~HasNewerRowForPath(r)
    BY ClaimedRow, Zenon DEF Revivable, Latest
  <2>a. /\ st' = [st EXCEPT ![r] = "failed"]
        /\ fault' = (IF fault[p] >= r THEN fault ELSE [fault EXCEPT ![p] = r])
        /\ index' = IF index[p] # None /\ entId[index[p]] = r
                    THEN [index EXCEPT ![p] = None] ELSE index
    BY <2>r, Zenon DEF FailClaimedDrain, blockRead
  <2>b. /\ \A q \in Ids : q # r => st'[q] = st[q]
        /\ st'[r] = "failed"
        /\ \A q \in Paths : q # p => index'[q] = index[q] /\ fault'[q] = fault[q]
        /\ fault'[p] = IF fault[p] >= r THEN fault[p] ELSE r
        /\ index'[p] = IF index[p] # None /\ entId[index[p]] = r THEN None
                       ELSE index[p]
    BY <2>a, <2>t, Zenon
  <2>o. Others(d) /\ wpc'[d] = "idle" /\ Copying(d)'
    BY <1>LeaveOthers, Zenon
  <2>1. Steady
    <3>1. \A q \in Ids : (Exists(q)' <=> Exists(q)) /\ (st'[q] = "done" <=> st[q] = "done")
      BY <2>b, <2>r, Zenon DEF Exists
    <3> QED
      BY <3>1, Zenon DEF Steady, SteadyRows
  <2>l. \A q \in Ids : Revivable(q)' <=> Revivable(q)
    BY <2>1, SteadyLife, Zenon
  <2>2. RowsStored' /\ BackendStored' /\ HasFile' /\ NameMoved'
    BY <2>1, <1>KeptBackend, Zenon
  <2>3. RowsShadowed'
    <3> SUFFICES ASSUME mode = "up", NEW q \in Ids, Revivable(q)
                 PROVE  Shadowed(q)' \/ ReadFault(path[q])'
      BY <2>l, Zenon DEF RowsShadowed
    <3>1. Shadowed(q) \/ ReadFault(path[q])
      BY Zenon DEF StoredInv, RowsShadowed
    <3>2. CASE q = r
      <4>1. fault[p] \in Ids \cup {None} /\ r # None
        BY <2>t, NotNone, Zenon
      <4>2. fault'[p] # None /\ fault'[p] >= r /\ fault'[p] >= fault[p]
        BY <2>b, <4>1 DEF Ids, None
      <4>3. CASE Shadowed(r)
        <5>1. index[p] # None /\ entId[index[p]] = r
          BY <2>r, <2>t, <4>3, NotNone DEF Shadowed
        <5>2. index'[p] = None
          BY <2>b, <5>1, Zenon
        <5>3. ReadFault(p)'
          BY <4>2, <5>2, Zenon DEF ReadFault
        <5> QED
          BY <2>r, <3>2, <5>3, Zenon DEF ReadFault
      <4>4. CASE ReadFault(p)
        <5>1. index[p] # None => entId[index[p]] \in Int /\ ~(entId[index[p]] > fault[p])
          BY <2>t, <4>4 DEF ReadFault, Ids, None
        <5>2. index'[p] # None => index'[p] = index[p]
          BY <2>b, Zenon
        <5>3. index[p] # None => ~(entId[index[p]] > fault'[p])
          BY <2>b, <4>1, <4>2, <5>1 DEF Ids, None
        <5>4. ReadFault(p)'
          BY <4>2, <5>2, <5>3, Zenon DEF ReadFault
        <5> QED
          BY <2>r, <3>2, <5>4, Zenon DEF ReadFault
      <4> QED
        BY <2>r, <3>1, <3>2, <4>3, <4>4, Zenon
    <3>3. CASE q # r
      <4>1. path[q] # p /\ path[q] \in Paths
        BY <2>r, <2>t, <3>3, OneLatest, Zenon DEF Revivable
      <4> QED
        BY <2>b, <3>1, <4>1, Zenon DEF Shadowed, ReadFault
    <3> QED
      BY <3>2, <3>3, Zenon
  <2>4. IndexOwned'
    <3> SUFFICES ASSUME NEW q \in Paths, index'[q] # None
                 PROVE  \/ st'[entId[index'[q]]] \in Pending
                        \/ Retained(entId[index[q]], q)'
                        \/ ns.pc = "cancelled" /\ q = ns.new
      BY Zenon DEF IndexOwned
    <3>1. index'[q] = index[q] /\ index[q] \in Ids
      BY <2>b, <2>t
    <3>2. PICK x \in Ids : x = entId[index[q]]
      BY <3>1, EntryRow, NotNone, Zenon
    <3>3. x # r
      <4>1. CASE q = p
        BY <2>b, <3>1, <3>2, <4>1, NotNone, Zenon
      <4>2. CASE q # p
        BY <2>r, <3>1, <3>2, <4>2, EntryRow, NotNone, Zenon DEF Pending
      <4> QED
        BY <4>1, <4>2, Zenon
    <3>4. st'[x] = st[x]
      BY <2>b, <3>3, Zenon
    <3>5. Completing(x, q) => Completing(x, q)'
      BY <2>o, Zenon DEF Completing, Others
    <3>6. Retained(x, q) => Retained(x, q)'
      BY <3>4, <3>5, Zenon DEF Retained
    <3>7. \/ st[x] \in Pending \/ Retained(x, q)
          \/ ns.pc = "cancelled" /\ q = ns.new
      BY <3>1, <3>2, NotNone, Zenon DEF StoredInv, IndexOwned
    <3>8. Retained(x, q)' => Retained(entId[index[q]], q)'
      BY <3>1, <3>2, Zenon DEF Retained, Completing
    <3> QED
      BY <3>1, <3>2, <3>4, <3>6, <3>7, <3>8, Zenon
  <2>5. Drains'
    <3> SUFFICES ASSUME NEW e \in Workers, e # d PROVE Copying(e)'
      BY <2>o, Zenon DEF Drains
    <3>1. Copying(e)
      BY Zenon DEF StoredInv, Drains
    <3>2. \A q \in Ids : st'[q] = "draining" => st[q] = "draining"
      BY <2>b, Zenon
    <3>3. drainStillClaimed(e)' /\ wpc[e] \notin {"idle", "claimed"} =>
            drainStillClaimed(e)
      BY <2>o, <3>2, ClaimKept, Zenon DEF Others
    <3>4. drainStillClaimed(e) /\ wpc[e] # "idle" =>
            data'[job[e].path] = data[job[e].path]
      BY JobIssued, OneClaim, Zenon
    <3> QED
      BY <2>o, <3>1, <3>3, <3>4, KeptCopying, Zenon DEF Others
  <2> QED
    BY <2>2, <2>3, <2>4, <2>5, Zenon DEF StoredInv

\* A worker goes on, and publishes under its name if the row is still its own.
<1>KeptPublish.
  ASSUME CapInv, CapInv', StoredInv, NEW d \in Workers, wpc[d] # "idle",
         wpc[d] # "done",
         UNCHANGED <<st, path, file, retired, holds, disk, saved, mode, index,
                     entId, fault, ns, lease>>,
         data' = data \/ drainStillClaimed(d),
         \A p \in Paths : p # job[d].path => data'[p] = data[p],
         \A e \in Workers : e # d =>
           /\ wpc'[e] = wpc[e] /\ job'[e] = job[e] /\ target'[e] = target[e]
           /\ at'[e] = at[e] \/ (drainStillClaimed(d) /\ at'[e] = at[e] \ {job[d].path})
           /\ buf'[e] = buf[e],
         Copying(d)'
  PROVE  StoredInv'
  <2> USE <1>KeptPublish
  <2>1. Steady
    BY Zenon DEF Steady, SteadyRows, Exists
  <2>2. RowsStored' /\ BackendStored' /\ HasFile' /\ NameMoved'
    BY <2>1, <1>KeptBackend, Zenon
  <2>3. RowsShadowed'
    BY <2>1, KeptShadow, Zenon DEF StoredInv
  <2>4. IndexOwned'
    <3>1. holds \subseteq holds' /\ \A p \in Paths : lease[p] = Poisoned => lease'[p] = Poisoned
      BY Zenon
    <3>2. \A e \in Workers : wpc[e] = "done" => wpc'[e] = "done" /\ job'[e] = job[e]
      BY Zenon
    <3>3. \A r \in Ids : /\ st[r] \in Pending => st'[r] \in Pending
                         /\ st[r] = "done" => st'[r] = "done"
      BY Zenon
    <3> QED
      BY <3>1, <3>2, <3>3, KeptIndex, Zenon DEF StoredInv
  <2>5. Drains'
    <3> SUFFICES ASSUME NEW e \in Workers, e # d PROVE Copying(e)'
      BY Zenon DEF Drains
    <3>1. Copying(e)
      BY Zenon DEF StoredInv, Drains
    <3>2. drainStillClaimed(e)' => drainStillClaimed(e)
      BY Zenon DEF drainStillClaimed
    <3>3. drainStillClaimed(e) /\ drainStillClaimed(d) /\ wpc[e] # "idle" =>
            job[e].path # job[d].path
      BY OneClaim, Zenon
    <3>4. drainStillClaimed(e) /\ wpc[e] # "idle" =>
            data'[job[e].path] = data[job[e].path]
      BY <3>3, JobIssued, Zenon
    <3>5. ASSUME drainStillClaimed(e), wpc[e] = "opened"
          PROVE  at'[e] = at[e]
      <4>1. drainStillClaimed(d) => job[d].path \notin at[e]
        BY <3>1, <3>3, <3>5, Zenon DEF Copying
      <4>2. job[d].path \notin at[e] => at[e] \ {job[d].path} = at[e]
        BY Zenon
      <4> QED
        BY <4>1, <4>2, Zenon
    <3> QED
      BY <3>1, <3>2, <3>4, <3>5, KeptCopying, Zenon
  <2> QED
    BY <2>2, <2>3, <2>4, <2>5, Zenon DEF StoredInv

<1>KeptOpenTarget.
  ASSUME CapInv, CapInv', StoredInv, NEW d \in Workers, openDrainTarget(d)
  PROVE  StoredInv'
  <2> USE <1>KeptOpenTarget
  <2>t. data \in [Paths -> Versions \cup {NoFile, Torn}] /\ job[d].path \in Paths
        /\ target \in [Workers -> Targets] /\ at \in [Workers -> SUBSET Paths]
    BY JobIssued, Zenon DEF CapInv, IInv, TypeOK
  <2> SUFFICES ASSUME NEW p \in Paths, p = job[d].path, NEW t,
                      t = drainTarget(job[d].id, job[d].path)
               PROVE  StoredInv'
    BY <2>t, Zenon
  <2>1. /\ wpc[d] = "loaded" /\ lease[p] = Free
        /\ UNCHANGED <<st, path, file, retired, holds, disk, saved, mode, index,
                       entId, fault, ns, lease>>
    BY Zenon DEF openDrainTarget, ram, history
  <2>2. CASE /\ drainStillClaimed(d) /\ At(d, "opened")
             /\ target' = [target EXCEPT ![d] = t] /\ UNCHANGED <<job, buf>>
             /\ at' = [at EXCEPT ![d] = IF t = "inplace" THEN {p} ELSE {}]
             /\ data' = [data EXCEPT ![p] = Torn] \/ data' = data
    <3>1. Others(d) /\ wpc'[d] = "opened"
      BY <2>2, <1>WorkerOthers, Zenon
    <3>2. \A q \in Paths : q # p => data'[q] = data[q]
      BY <2>2, <2>t, Zenon
    <3>3. Copying(d)'
      <4>1. target'[d] = t /\ at'[d] = IF t = "inplace" THEN {p} ELSE {}
        BY <2>2, <2>t, Zenon
      <4>2. ns.pc # "idle" => p # ns.new
        BY <2>1, FreeName, Zenon
      <4> QED
        BY <2>1, <2>2, <3>1, <4>1, <4>2, Zenon DEF Copying
    <3>4. wpc[d] # "idle" /\ wpc[d] # "done"
      BY <2>1, Zenon
    <3> QED
      BY <2>1, <2>2, <3>1, <3>2, <3>3, <3>4, <1>KeptPublish, Zenon DEF Others
  <2>3. CASE Leave(d) /\ data' = data
    <3>1. Others(d) /\ Copying(d)'
      BY <2>3, <1>LeaveOthers, Zenon
    <3>2. wpc[d] # "idle" /\ wpc[d] # "done"
      BY <2>1, Zenon
    <3> QED
      BY <2>1, <2>3, <3>1, <3>2, <1>KeptPublish, Zenon DEF Others
  <2>4. \/ /\ drainStillClaimed(d) /\ At(d, "opened")
           /\ target' = [target EXCEPT ![d] = t] /\ UNCHANGED <<job, buf>>
           /\ at' = [at EXCEPT ![d] = IF t = "inplace" THEN {p} ELSE {}]
           /\ data' = [data EXCEPT ![p] = Torn] \/ data' = data
        \/ Leave(d) /\ data' = data
    BY Zenon DEF openDrainTarget
  <2> QED
    BY <2>2, <2>3, <2>4, Zenon

<1>KeptInstall.
  ASSUME CapInv, CapInv', StoredInv, NEW d \in Workers, installNewName(d)
  PROVE  StoredInv'
  <2> USE <1>KeptInstall
  <2>t. data \in [Paths -> Versions \cup {NoFile, Torn}] /\ job[d].path \in Paths
    BY JobIssued, Zenon DEF CapInv, IInv, TypeOK
  <2>1. /\ wpc[d] = "copied" /\ lease[job[d].path] = Free
        /\ UNCHANGED <<st, path, file, retired, holds, disk, saved, mode, index,
                       entId, fault, ns, lease>>
    BY Zenon DEF installNewName, ram, history
  <2>2. wpc[d] # "idle" /\ wpc[d] # "done"
    BY <2>1, Zenon
  <2>3. CASE /\ drainStillClaimed(d) /\ data' = [data EXCEPT ![job[d].path] = buf[d]]
             /\ at' = Unlinked(job[d].path) /\ At(d, "installed")
             /\ UNCHANGED <<job, target, buf>>
    <3>1. data'[job[d].path] = buf[d] /\ \A q \in Paths : q # job[d].path => data'[q] = data[q]
      BY <2>3, <2>t, Zenon
    <3>2. wpc'[d] = "installed" /\ \A e \in Workers : e # d => wpc'[e] = wpc[e]
      BY <2>3, Zenon DEF At, CapInv, IInv, TypeOK
    <3>3. \A e \in Workers : at'[e] = at[e] \ {job[d].path}
      BY <2>3, Zenon DEF Unlinked
    <3>4. Copying(d)'
      BY <2>1, <2>3, <3>1, <3>2, Zenon DEF StoredInv, Drains, Copying
    <3>5. \A e \in Workers : e # d =>
            /\ wpc'[e] = wpc[e] /\ job'[e] = job[e] /\ target'[e] = target[e]
            /\ at'[e] = at[e] \/ (drainStillClaimed(d) /\ at'[e] = at[e] \ {job[d].path})
            /\ buf'[e] = buf[e]
      BY <2>3, <3>2, <3>3, Zenon
    <3> QED
      BY <2>1, <2>2, <2>3, <3>1, <3>4, <3>5, <1>KeptPublish, Zenon
  <2>4. CASE Leave(d) /\ data' = data
    <3>1. Others(d) /\ Copying(d)'
      BY <2>4, <1>LeaveOthers, Zenon
    <3> QED
      BY <2>1, <2>2, <2>4, <3>1, <1>KeptPublish, Zenon DEF Others
  <2> QED
    BY <2>3, <2>4, Zenon DEF installNewName

\* Copy reads the private file of a row that is still the worker's own.
<1>KeptCopy.
  ASSUME CapInv, CapInv', StoredInv, NEW d \in Workers, Copy(d), ~LateCopy
  PROVE  StoredInv'
  <2> USE <1>KeptCopy
  <2>t. /\ job[d].path \in Paths /\ job[d].file \in Ids
        /\ buf \in [Workers -> Versions]
    BY JobIssued, Zenon DEF CapInv, IInv, TypeOK
  <2>1. /\ wpc[d] = "opened"
        /\ data' = [p \in Paths |-> IF p \in at[d] THEN Source(d) ELSE data[p]]
        /\ UNCHANGED <<path, file, retired, holds, disk, saved, mode, entId, ns,
                       lease>>
    BY Zenon DEF Copy, history
  <2>2. wpc[d] # "idle" /\ wpc[d] # "done" /\ wpc[d] \notin {"idle", "done"}
    BY <2>1, Zenon
  <2>3. at[d] = {} \/ drainStillClaimed(d)
    BY Zenon DEF LateCopy
  <2>4. Copying(d)
    BY Zenon DEF StoredInv, Drains
  <2>5. \A q \in Paths : q # job[d].path => data'[q] = data[q]
    <3>1. at[d] \subseteq {job[d].path}
      BY <2>1, <2>3, <2>4, Zenon DEF Copying
    <3> QED
      BY <2>1, <3>1, Zenon
  <2>6. ASSUME ~drainStillClaimed(d)
        PROVE  data' = data
    BY <2>1, <2>3, <2>6, Zenon DEF CapInv, IInv, TypeOK
  <2>7. CASE /\ buf' = [buf EXCEPT ![d] = Source(d)] /\ At(d, afterCopy(d))
             /\ UNCHANGED <<job, target, at, st, fault, index>>
    <3>1. Others(d) /\ wpc'[d] = afterCopy(d)
      <4>1. UNCHANGED <<job, target, at>> /\ \E x : buf' = [buf EXCEPT ![d] = x]
        BY <2>7, Zenon
      <4> QED
        BY <2>7, <4>1, <1>WorkerOthers, Zenon
    <3>2. buf'[d] = Source(d)
      BY <2>7, <2>t, Zenon
    <3>3. Copying(d)'
      <4> SUFFICES ASSUME drainStillClaimed(d) PROVE Copying(d)'
        BY <2>1, <2>7, Zenon DEF Copying, drainStillClaimed
      <4>1. disk[job[d].file] # NoFile
        BY ClaimedRow, Zenon DEF StoredInv, HasFile
      <4>2. Source(d) = disk[job[d].file]
        BY <4>1, Zenon DEF Source
      <4>3. target[d] = "inplace" => data'[job[d].path] = Source(d)
        BY <2>1, <2>4, <2>t, Zenon DEF Copying
      <4> QED
        BY <2>1, <2>4, <2>7, <3>1, <3>2, <4>2, <4>3, Zenon DEF Copying,
           afterCopy
    <3> QED
      BY <2>1, <2>2, <2>5, <2>6, <2>7, <3>1, <3>3, <1>KeptPublish, Zenon
      DEF Others
  <2>8. CASE FailClaimedDrain(d, TRUE) /\ Leave(d)
    <3>1. CASE drainStillClaimed(d) /\ job[d].id \notin holds
      BY <2>1, <2>2, <2>5, <2>8, <3>1, <1>KeptFail, Zenon
    <3>2. CASE ~(drainStillClaimed(d) /\ job[d].id \notin holds)
      <4>1. UNCHANGED <<st, fault, index>>
        BY <2>8, <3>2, Zenon DEF FailClaimedDrain
      <4>2. Others(d) /\ Copying(d)'
        BY <2>8, <1>LeaveOthers, Zenon
      <4> QED
        BY <2>1, <2>2, <2>5, <2>6, <4>1, <4>2, <1>KeptPublish, Zenon DEF Others
    <3> QED
      BY <3>1, <3>2, Zenon
  <2> QED
    BY <2>7, <2>8, Zenon DEF Copy

<1>KeptFailures.
  ASSUME CapInv, CapInv', StoredInv, NEW d \in Workers,
         failPermanent(d) \/ publishConflictCopy(d)
  PROVE  StoredInv'
  <2> USE <1>KeptFailures
  <2>1. /\ wpc[d] \in {"loaded", "copied"} /\ Leave(d)
        /\ \E integrity : FailClaimedDrain(d, integrity)
        /\ UNCHANGED <<path, file, retired, holds, disk, data, saved, mode, entId,
                       ns, lease>>
    BY Zenon DEF failPermanent, publishConflictCopy, history
  <2>2. wpc[d] # "idle" /\ wpc[d] # "done" /\ wpc[d] \notin {"idle", "done"}
    BY <2>1, Zenon
  <2>3. \A p \in Paths : p # job[d].path => data'[p] = data[p]
    BY <2>1, Zenon
  <2>4. CASE drainStillClaimed(d) /\ job[d].id \notin holds
    BY <2>1, <2>2, <2>3, <2>4, <1>KeptFail, Zenon
  <2>5. CASE ~(drainStillClaimed(d) /\ job[d].id \notin holds)
    <3>1. UNCHANGED <<st, fault, index>>
      BY <2>1, <2>5, Zenon DEF FailClaimedDrain
    <3>2. Others(d) /\ Copying(d)'
      BY <2>1, <1>LeaveOthers, Zenon
    <3> QED
      BY <2>1, <2>2, <2>3, <3>1, <3>2, <1>KeptPublish, Zenon DEF Others
  <2> QED
    BY <2>4, <2>5, Zenon

\* batchMarkDone: the published file holds what the save held.
<1>KeptMarkDone.
  ASSUME CapInv, CapInv', StoredInv, NEW d \in Workers, batchMarkDone(d)
  PROVE  StoredInv'
  <2> USE <1>KeptMarkDone
  <2>t. /\ st \in [Ids -> States] /\ index \in [Paths -> Ids \cup {None}]
        /\ entId \in [Ids -> Ids \cup {None}] /\ ns \in NameOps
        /\ file \in [Ids -> Ids] /\ path \in [Ids -> Paths]
    BY Zenon DEF CapInv, IInv, TypeOK
  <2>j. job[d].id \in Ids /\ job[d].path \in Paths
    BY JobIssued, Zenon
  <2> SUFFICES ASSUME NEW r \in Ids, r = job[d].id, NEW p \in Paths, p = job[d].path
               PROVE  StoredInv'
    BY <2>j, Zenon
  <2>a. /\ wpc[d] = "held" /\ st' = [st EXCEPT ![r] = "done"] /\ At(d, "done")
        /\ UNCHANGED <<path, file, retired, holds, disk, data, saved, mode, index,
                       entId, fault, ns, lease, job, target, at, buf>>
    BY Zenon DEF batchMarkDone, Goto, columns, ram, work, history
  <2>b. st'[r] = "done" /\ \A q \in Ids : q # r => st'[q] = st[q]
    BY <2>a, <2>t, Zenon
  <2>c. drainStillClaimed(d)
    BY <2>a, HeldClaimed, Zenon
  <2>r. /\ Revivable(r) /\ path[r] = p /\ file[r] = job[d].file
        /\ st[r] = "draining" /\ Exists(r)
    BY <2>c, ClaimedRow, Zenon
  <2>h. r \in holds /\ lease[p] = d /\ d # Handler
    BY <2>a, SpoolAssumption, Zenon
       DEF CapInv, IInv, WorkersOwn, Owned, Structure,
       LeasesHeld, WorkerHolds, Handler
  <2>o. Others(d) /\ wpc'[d] = "done"
    BY <2>a, <1>WorkerOthers, Zenon
  <2>1. \A q \in Ids : Revivable(q)' <=> Revivable(q) /\ q # r
    <3>1. \A q \in Ids : Exists(q)' <=> Exists(q)
      BY <2>b, <2>r, Zenon DEF Exists
    <3>2. \A q \in Ids : HasNewerRowForPath(q)' <=> HasNewerRowForPath(q)
      BY <2>a, <3>1, Zenon DEF HasNewerRowForPath
    <3> QED
      BY <2>a, <2>b, <3>1, <3>2, Zenon DEF Revivable, Latest
  <2>2. RowsStored'
    BY <2>1, <2>a, Zenon DEF StoredInv, RowsStored
  <2>3. BackendStored'
    <3> SUFFICES ASSUME NEW q \in Paths, saved[q] >= 0, Unpending(q)',
                        ~(Cancelling(q) /\ ns.files # {})
                 PROVE  data[q] = saved[q]
      BY <2>a, Zenon DEF BackendStored, Cancelling
    <3>1. CASE q = p
      <4>1. data[p] = disk[file[r]]
        BY <2>a, <2>c, <2>r, Zenon DEF StoredInv, Drains, Copying
      <4> QED
        BY <2>r, <3>1, <4>1, Zenon DEF StoredInv, RowsStored
    <3>2. CASE q # p
      <4>1. Unpending(q)
        BY <2>1, <2>a, <2>r, <3>2, Zenon DEF Unpending
      <4> QED
        BY <4>1, Zenon DEF StoredInv, BackendStored
    <3> QED
      BY <3>1, <3>2, Zenon
  <2>4. HasFile'
    BY <2>a, <2>b, Zenon DEF StoredInv, HasFile, Exists
  <2>5. NameMoved'
    <3> SUFFICES ASSUME ns.pc = "migrated"
                 PROVE  /\ Unpending(ns.old)'
                        /\ ns.how # "backend" =>
                             ~(saved[ns.old] >= 0) /\ ~Unpending(ns.new)'
      BY <2>a, Zenon DEF NameMoved
    <3>1. Unpending(ns.old)'
      BY <2>1, <2>a, Zenon DEF StoredInv, NameMoved, Unpending
    <3>2. ns.new # p
      BY <2>h, Zenon DEF CapInv, Structure, LeasesHeld, NameHolds
    <3>3. ~Unpending(ns.new) => ~Unpending(ns.new)'
      BY <2>1, <2>a, <2>r, <3>2, Zenon DEF Unpending
    <3> QED
      BY <3>1, <3>3, Zenon DEF StoredInv, NameMoved
  <2>6. RowsShadowed'
    BY <2>1, <2>a, Zenon DEF StoredInv, RowsShadowed, Shadowed, ReadFault
  <2>7. IndexOwned'
    <3> SUFFICES ASSUME NEW q \in Paths, index[q] # None
                 PROVE  \/ st'[entId[index[q]]] \in Pending
                        \/ Retained(entId[index[q]], q)'
                        \/ ns.pc = "cancelled" /\ q = ns.new
      BY <2>a, Zenon DEF IndexOwned
    <3>1. PICK x \in Ids : x = entId[index[q]]
      BY EntryRow, NotNone, Zenon
    <3>2. Retained(x, q)' => Retained(entId[index[q]], q)'
      BY <2>a, <3>1, Zenon DEF Retained, Completing
    <3>3. CASE x = r
      <4>0. Shadow(q)
        BY Zenon DEF CapInv, Structure, Shadows
      <4>1. q = p
        BY <2>r, <3>1, <3>3, <4>0, Zenon DEF Shadow, Pending
      <4>2. Completing(x, q)'
        BY <2>a, <2>o, <3>3, <4>1, Zenon DEF Completing
      <4> QED
        BY <2>a, <2>b, <2>h, <2>r, <3>2, <3>3, <4>1, <4>2, Zenon DEF Retained
    <3>4. CASE x # r
      <4>1. st'[x] = st[x]
        BY <2>b, <3>4, Zenon
      <4>2. Completing(x, q) => Completing(x, q)'
        BY <2>a, <2>o, Zenon DEF Completing, Others
      <4>3. Retained(x, q) => Retained(x, q)'
        BY <2>a, <4>1, <4>2, Zenon DEF Retained
      <4> QED
        BY <3>1, <3>2, <4>1, <4>3, Zenon DEF StoredInv, IndexOwned
    <3> QED
      BY <3>3, <3>4, Zenon
  <2>8. Drains'
    <3> SUFFICES ASSUME NEW e \in Workers PROVE Copying(e)'
      BY Zenon DEF Drains
    <3>1. CASE e = d
      BY <2>o, <3>1, FreshCopying, Zenon
    <3>2. CASE e # d
      <4>1. Copying(e)
        BY Zenon DEF StoredInv, Drains
      <4>2. \A q \in Ids : st'[q] = "draining" => st[q] = "draining"
        BY <2>b, Zenon
      <4>3. drainStillClaimed(e)' /\ wpc[e] \notin {"idle", "claimed"} =>
              drainStillClaimed(e)
        BY <2>a, <2>o, <3>2, <4>2, ClaimKept, Zenon DEF Others
      <4> QED
        BY <2>a, <2>o, <3>2, <4>1, <4>3, KeptCopying, Zenon DEF Others
    <3> QED
      BY <3>1, <3>2, Zenon
  <2> QED
    BY <2>2, <2>3, <2>4, <2>5, <2>6, <2>7, <2>8, Zenon DEF StoredInv

\* CompleteAcknowledgedDrain: the file and the entry that go are the done row's.
<1>KeptComplete.
  ASSUME CapInv, CapInv', StoredInv, NEW d \in Workers,
         CompleteAcknowledgedDrain(d)
  PROVE  StoredInv'
  <2> USE <1>KeptComplete
  <2>t. /\ disk \in [Ids -> Contents] /\ index \in [Paths -> Ids \cup {None}]
        /\ entId \in [Ids -> Ids \cup {None}] /\ file \in [Ids -> Ids]
        /\ path \in [Ids -> Paths] /\ job \in [Workers -> Jobs]
        /\ wpc \in [Workers -> WorkerPcs] /\ target \in [Workers -> Targets]
        /\ at \in [Workers -> SUBSET Paths]
        /\ lease \in [Paths -> {Free, Poisoned, Handler} \cup Writers \cup Workers]
    BY Zenon DEF CapInv, IInv, TypeOK
  <2>j. job[d].id \in Ids /\ job[d].path \in Paths /\ job[d].file \in Ids
    BY JobIssued, Zenon
  <2> SUFFICES ASSUME NEW r \in Ids, r = job[d].id, NEW p \in Paths,
                      p = job[d].path, NEW f \in Ids, f = job[d].file
               PROVE  StoredInv'
    BY <2>j, Zenon
  <2>a. /\ wpc[d] = "done"
        /\ index' = IF index[p] # None /\ entId[index[p]] = r
                    THEN [index EXCEPT ![p] = None] ELSE index
        /\ disk' = [disk EXCEPT ![f] = NoFile] /\ holds' = holds \ {r}
        /\ lease' = [lease EXCEPT ![p] = Free] /\ At(d, "idle")
        /\ job' = [job EXCEPT ![d] = SomeJob]
        /\ target' = [target EXCEPT ![d] = "stage"] /\ at' = [at EXCEPT ![d] = {}]
        /\ buf' = [KeepOpen({f}) EXCEPT ![d] = 0]
        /\ UNCHANGED <<st, path, file, retired, data, saved, mode, entId, fault, ns>>
    BY Zenon DEF CompleteAcknowledgedDrain, columns, history
  <2>b. /\ \A g \in Ids : g # f => disk'[g] = disk[g]
        /\ \A q \in Paths : q # p => index'[q] = index[q] /\ lease'[q] = lease[q]
        /\ index'[p] = IF index[p] # None /\ entId[index[p]] = r THEN None
                       ELSE index[p]
    BY <2>a, <2>t, Zenon
  <2>c. wpc'[d] = "idle"
        /\ \A e \in Workers : e # d =>
             /\ wpc'[e] = wpc[e] /\ job'[e] = job[e] /\ target'[e] = target[e]
             /\ at'[e] = at[e]
    BY <2>a, <2>t, Zenon DEF At
  <2>d. \A e \in Workers : e # d /\ wpc[e] = "copied" => buf'[e] = buf[e]
    BY <2>a, Zenon DEF KeepOpen
  <2>r. /\ st[r] = "done" /\ r \in holds /\ path[r] = p /\ file[r] = f
        /\ lease[p] = d /\ d # Poisoned /\ Exists(r)
    BY <2>a, SpoolAssumption, Zenon
       DEF CapInv, IInv, WorkersOwn, Owned, Structure,
       LeasesHeld, WorkerHolds, Poisoned, Exists
  <2>f. \A q \in Ids : Exists(q) /\ st[q] # "done" => q # r /\ file[q] # f
    BY <2>r, Zenon DEF CapInv, Structure, FilesOwned
  <2>l. \A q \in Ids : Revivable(q)' <=> Revivable(q)
    BY <2>a, Zenon DEF Revivable, Latest, Exists, HasNewerRowForPath
  <2>u. \A q : Unpending(q)' <=> Unpending(q)
    BY <2>a, <2>l, Zenon DEF Unpending
  <2>v. \A q \in Ids : Revivable(q) => q # r /\ disk'[file[q]] = disk[file[q]]
    BY <2>b, <2>f, <2>t, Zenon DEF Revivable, Latest
  <2>1. RowsStored'
    BY <2>a, <2>l, <2>v, Zenon DEF StoredInv, RowsStored
  <2>2. BackendStored'
    BY <2>a, <2>u, Zenon DEF StoredInv, BackendStored, Cancelling
  <2>3. HasFile'
    BY <2>a, <2>b, <2>f, <2>t, Zenon DEF StoredInv, HasFile, Exists
  <2>4. NameMoved'
    BY <2>a, <2>u, Zenon DEF StoredInv, NameMoved
  <2>5. RowsShadowed'
    <3> SUFFICES ASSUME mode = "up", NEW q \in Ids, Revivable(q)
                 PROVE  Shadowed(q)' \/ ReadFault(path[q])'
      BY <2>a, <2>l, Zenon DEF RowsShadowed
    <3>1. Shadowed(q) \/ ReadFault(path[q])
      BY Zenon DEF StoredInv, RowsShadowed
    <3>2. CASE path[q] # p
      BY <2>a, <2>b, <2>t, <3>1, <3>2, Zenon DEF Shadowed, ReadFault
    <3>3. CASE path[q] = p
      <4>1. CASE Shadowed(q)
        <5>1. index'[p] = index[p]
          BY <2>b, <2>v, <3>3, <4>1 DEF Shadowed
        <5> QED
          BY <2>a, <3>3, <4>1, <5>1, Zenon DEF Shadowed
      <4>2. CASE ReadFault(p)
        <5>1. index'[p] = None \/ index'[p] = index[p]
          BY <2>b, Zenon
        <5>2. ReadFault(p)'
          BY <2>a, <4>2, <5>1, Zenon DEF ReadFault
        <5> QED
          BY <2>a, <3>3, <5>2, Zenon DEF ReadFault
      <4> QED
        BY <3>1, <3>3, <4>1, <4>2, Zenon
    <3> QED
      BY <3>2, <3>3, Zenon
  <2>6. IndexOwned'
    <3> SUFFICES ASSUME NEW q \in Paths, index'[q] # None
                 PROVE  \/ st[entId[index'[q]]] \in Pending
                        \/ Retained(entId[index[q]], q)'
                        \/ ns.pc = "cancelled" /\ q = ns.new
      BY <2>a, Zenon DEF IndexOwned
    <3>1. index'[q] = index[q]
      BY <2>b, Zenon
    <3>2. PICK x \in Ids : x = entId[index[q]]
      BY <3>1, EntryRow, NotNone, Zenon
    <3>3. q = p => x # r
      BY <2>b, <3>1, <3>2, Zenon
    <3>4. Retained(x, q) => x # r
      BY <2>r, <3>3, Zenon DEF Retained
    <3>5. Completing(x, q) /\ x # r => Completing(x, q)'
      BY <2>c, Zenon DEF Completing
    <3>6. q = p => lease[q] # Poisoned
      BY <2>r, Zenon
    <3>7. Retained(x, q) => Retained(x, q)'
      <4> SUFFICES ASSUME Retained(x, q) PROVE Retained(x, q)'
        OBVIOUS
      <4>1. x \in holds'
        BY <2>a, <3>4, Zenon DEF Retained
      <4>2. lease[q] = Poisoned => lease'[q] = Poisoned
        BY <2>b, <3>6, Zenon
      <4> QED
        BY <2>a, <3>4, <3>5, <4>1, <4>2, Zenon DEF Retained
    <3>8. Retained(x, q)' => Retained(entId[index[q]], q)'
      BY <2>a, <3>1, <3>2, Zenon DEF Retained, Completing
    <3> QED
      BY <3>1, <3>2, <3>7, <3>8, Zenon DEF StoredInv, IndexOwned
  <2>7. Drains'
    <3> SUFFICES ASSUME NEW e \in Workers PROVE Copying(e)'
      BY Zenon DEF Drains
    <3>1. CASE e = d
      BY <2>c, <3>1, FreshCopying, Zenon
    <3>2. CASE e # d
      <4>1. Copying(e)
        BY Zenon DEF StoredInv, Drains
      <4>2. drainStillClaimed(e)' => drainStillClaimed(e)
        BY <2>a, <2>c, <3>2, Zenon DEF drainStillClaimed
      <4>3. ASSUME drainStillClaimed(e)
            PROVE  disk'[job[e].file] = disk[job[e].file]
        <5>1. PICK x \in Ids : Revivable(x) /\ file[x] = job[e].file
          BY <4>3, ClaimedRow, Zenon
        <5> QED
          BY <2>v, <5>1, Zenon
      <4> QED
        BY <2>a, <2>c, <2>d, <3>2, <4>1, <4>2, <4>3, KeptCopying, Zenon
    <3> QED
      BY <3>1, <3>2, Zenon
  <2> QED
    BY <2>1, <2>2, <2>3, <2>4, <2>5, <2>6, <2>7, Zenon DEF StoredInv

\* A poisoned completion keeps everything.
<1>KeptPoison.
  ASSUME CapInv, CapInv', StoredInv, NEW d \in Workers, PoisonCompletion(d)
  PROVE  StoredInv'
  <2> USE <1>KeptPoison
  <2>t. /\ lease \in [Paths -> {Free, Poisoned, Handler} \cup Writers \cup Workers]
        /\ job[d].path \in Paths /\ index \in [Paths -> Ids \cup {None}]
        /\ entId \in [Ids -> Ids \cup {None}]
    BY JobIssued, Zenon DEF CapInv, IInv, TypeOK
  <2>a. /\ wpc[d] = "done" /\ Leave(d)
        /\ lease' = [lease EXCEPT ![job[d].path] = Poisoned]
        /\ UNCHANGED <<st, path, file, retired, holds, disk, data, saved, mode, index,
                       entId, fault, ns>>
    BY Zenon DEF PoisonCompletion, table, columns, ram
  <2>o. Others(d) /\ Copying(d)'
    BY <2>a, <1>LeaveOthers, Zenon
  <2>p. /\ lease'[job[d].path] = Poisoned
        /\ \A p \in Paths : lease[p] = Poisoned => lease'[p] = Poisoned
    BY <2>a, <2>t, Zenon
  <2>1. Steady
    BY <2>a, Zenon DEF Steady, SteadyRows, Exists
  <2>2. RowsStored' /\ BackendStored' /\ HasFile' /\ NameMoved'
    BY <2>1, <2>a, KeptData, Zenon DEF StoredInv
  <2>3. RowsShadowed'
    BY <2>1, <2>a, KeptShadow, Zenon DEF StoredInv
  <2>4. IndexOwned'
    <3>1. \A x, q : Completing(x, q) =>
            Completing(x, q)' \/ q = job[d].path
      BY <2>o, Zenon DEF Completing, Others
    <3>2. \A x : \A q \in Paths : Retained(x, q) => Retained(x, q)'
      BY <2>a, <2>p, <3>1, Zenon DEF Retained
    <3> SUFFICES ASSUME NEW q \in Paths, index[q] # None
                 PROVE  \/ st[entId[index[q]]] \in Pending
                        \/ Retained(entId[index[q]], q)'
                        \/ ns.pc = "cancelled" /\ q = ns.new
      BY <2>a, Zenon DEF IndexOwned
    <3>3. PICK x : x = entId[index[q]]
      OBVIOUS
    <3>4. Retained(x, q)' => Retained(entId[index[q]], q)'
      BY <2>a, <3>3, Zenon DEF Retained, Completing
    <3> QED
      BY <3>2, <3>3, <3>4, Zenon DEF StoredInv, IndexOwned
  <2>5. Drains'
    <3> SUFFICES ASSUME NEW e \in Workers, e # d PROVE Copying(e)'
      BY <2>o, Zenon DEF Drains
    <3>1. Copying(e)
      BY Zenon DEF StoredInv, Drains
    <3>2. drainStillClaimed(e)' => drainStillClaimed(e)
      BY <2>a, <2>o, Zenon DEF drainStillClaimed, Others
    <3> QED
      BY <2>a, <2>o, <3>1, <3>2, KeptCopying, Zenon DEF Others
  <2> QED
    BY <2>2, <2>3, <2>4, <2>5, Zenon DEF StoredInv

<1> SUFFICES ASSUME CapInv, CapInv', StoredInv, ~LateCopy,
                    NEW d \in Workers, Worker(d)
             PROVE  StoredInv'
  BY Zenon
<1> QED
  BY <1>KeptClaims, <1>KeptPrepare, <1>KeptOpenTarget, <1>KeptInstall,
     <1>KeptCopy, <1>KeptFailures,
     <1>KeptMarkDone, <1>KeptComplete, <1>KeptPoison, Zenon DEF Worker

-----------------------------------------------------------------------------
(* Retries and garbage collection.                                         *)

\* DeleteDone, unless it uncovers an older failed save: nothing becomes
\* revivable that was not.
LEMMA KeptDeleteDone ==
  ASSUME CapInv, CapInv', StoredInv, NEW r \in Ids, DeleteDone(r), ~StaleCollection
  PROVE  StoredInv'
<1>t. st \in [Ids -> States] /\ index \in [Paths -> Ids \cup {None}]
      /\ entId \in [Ids -> Ids \cup {None}]
  BY Zenon DEF CapInv, IInv, TypeOK
<1>a. /\ st[r] = "done" /\ r \notin holds /\ st' = [st EXCEPT ![r] = "none"]
      /\ UNCHANGED <<path, file, retired, holds, disk, data, saved, mode, index,
                     entId, fault, ns, lease, wpc, job, target, at, buf>>
  BY Zenon DEF DeleteDone, columns, ram, procs, work
<1>b. st'[r] = "none" /\ \A q \in Ids : q # r => st'[q] = st[q]
  BY <1>a, <1>t, Zenon
<1>1. \A q \in Ids : Revivable(q)' <=> Revivable(q)
  <2> SUFFICES ASSUME NEW q \in Ids, q # r PROVE Revivable(q)' <=> Revivable(q)
    <3>1. ~Revivable(r) /\ ~Revivable(r)'
      BY <1>a, <1>b, Zenon DEF Revivable, Latest, Exists
    <3> QED
      BY <3>1, Zenon
  <2>1. HasNewerRowForPath(q)' => HasNewerRowForPath(q)
    BY <1>a, <1>b, Zenon DEF HasNewerRowForPath, Exists
  <2>2. Revivable(q) => Revivable(q)'
    BY <1>a, <1>b, <2>1, Zenon DEF Revivable, Latest, Exists
  <2>3. ASSUME Revivable(q)' PROVE Revivable(q)
    <3>1. /\ st[q] # "none" /\ st[q] # "done" /\ ~retired[q]
          /\ ~HasNewerRowForPath(q)'
      BY <1>a, <1>b, <2>3, Zenon DEF Revivable, Latest, Exists
    <3>2. CASE st[q] \in Pending
      BY <3>2, PendingRevivable, Zenon
    <3>3. CASE st[q] = "failed"
      <4>1. ~(q < r /\ path[q] = path[r])
        BY <3>1, <3>3, Zenon DEF StaleCollection
      <4>2. HasNewerRowForPath(q) => HasNewerRowForPath(q)'
        BY <1>a, <1>b, <4>1, Zenon DEF HasNewerRowForPath, Exists, Ids
      <4> QED
        BY <3>1, <4>2, Zenon DEF Revivable, Latest, Exists
    <3> QED
      BY <1>t, <3>1, <3>2, <3>3, Zenon DEF States, Pending
  <2> QED
    BY <2>2, <2>3, Zenon
<1>u. \A q : Unpending(q)' <=> Unpending(q)
  BY <1>1, <1>a, Zenon DEF Unpending
<1>2. RowsStored'
  BY <1>1, <1>a, Zenon DEF StoredInv, RowsStored
<1>3. BackendStored'
  BY <1>a, <1>u, Zenon DEF StoredInv, BackendStored, Cancelling
<1>4. HasFile'
  <2>1. \A q \in Ids : Exists(q)' => Exists(q) /\ st'[q] = st[q]
    BY <1>b, Zenon DEF Exists
  <2> QED
    BY <1>a, <2>1, Zenon DEF StoredInv, HasFile
<1>5. NameMoved'
  BY <1>a, <1>u, Zenon DEF StoredInv, NameMoved
<1>6. RowsShadowed'
  BY <1>1, <1>a, Zenon DEF StoredInv, RowsShadowed, Shadowed, ReadFault
<1>7. IndexOwned'
  <2> SUFFICES ASSUME NEW q \in Paths, index[q] # None
               PROVE  \/ st'[entId[index[q]]] \in Pending
                      \/ Retained(entId[index[q]], q)'
                      \/ ns.pc = "cancelled" /\ q = ns.new
    BY <1>a, Zenon DEF IndexOwned
  <2>1. PICK x \in Ids : x = entId[index[q]]
    BY EntryRow, NotNone, Zenon
  <2>2. st[x] \in Pending \/ Retained(x, q) \/ (ns.pc = "cancelled" /\ q = ns.new)
    BY <2>1, Zenon DEF StoredInv, IndexOwned
  <2>3. st[x] \in Pending \/ Retained(x, q) => x # r
    BY <1>a, Zenon DEF Retained, Pending
  <2>4. x # r => st'[x] = st[x]
    BY <1>b, Zenon
  <2>5. Retained(x, q) => Retained(entId[index[q]], q)'
    BY <1>a, <2>1, <2>3, <2>4, Zenon DEF Retained, Completing
  <2> QED
    BY <2>1, <2>2, <2>3, <2>4, <2>5, Zenon
<1>8. Drains'
  <2>1. \A q \in Ids : st'[q] = "draining" => st[q] = "draining"
    BY <1>b, Zenon
  <2> QED
    BY <1>a, <2>1, KeptDrains, Zenon
<1> QED
  BY <1>2, <1>3, <1>4, <1>5, <1>6, <1>7, <1>8, Zenon DEF StoredInv

LEMMA KeptMaintenance ==
  ASSUME CapInv, CapInv', StoredInv, Maintenance, ~StaleCollection
  PROVE  StoredInv'
<1>1. ASSUME NEW r \in Ids, NEW p \in Paths, retryFailed(r) \/ Reconcile(p)
      PROVE  StoredInv'
  <2>1. UNCHANGED <<st, path, file, retired, holds, disk, data, saved, mode,
                    index, entId, fault, ns, wpc, job, target, at, buf, lease>>
    BY <1>1, Zenon DEF retryFailed, Reconcile, table, columns, ram, procs, work,
       history
  <2>2. \A q \in Paths : lease[q] = Poisoned => lease'[q] = Poisoned
    BY <2>1, Zenon
  <2> QED
    BY <2>1, <2>2, KeptQuiet, Zenon
<1>2. ASSUME NEW r \in Ids, ResetForRetry(r)
      PROVE  StoredInv'
  <2>1. UNCHANGED <<path, file, retired, holds, disk, data, saved, mode, index,
                    entId, fault, ns, wpc, job, target, at, buf, lease>>
    BY <1>2, Zenon DEF ResetForRetry, work, history
  <2>2. \A q \in Paths : lease[q] = Poisoned => lease'[q] = Poisoned
    BY <2>1, Zenon
  <2>3. \/ st[r] = "failed" /\ st' = [st EXCEPT ![r] = "ready"]
        \/ st' = st
    BY <1>2, Zenon DEF ResetForRetry, Retryable
  <2>4. PICK s \in {"writing", "ready"} : s = "ready"
    OBVIOUS
  <2>5. st' = [st EXCEPT ![r] = s] \/ st' = st
    BY <2>3, <2>4, Zenon
  <2>6. st[r] \in {"writing", "ready", "failed"} \/ st' = st
    BY <2>3, Zenon
  <2> QED
    BY <2>1, <2>2, <2>5, <2>6, KeptRowState, Zenon
<1>3. ASSUME NEW r \in Ids, DeleteDone(r)
      PROVE  StoredInv'
  BY <1>3, KeptDeleteDone, Zenon
<1>4. SomePath \in Paths
  BY SpoolAssumption, Zenon DEF SomePath
<1>5. \A p \in Paths : Reconcile(p) => \E r \in Ids : TRUE
  BY SpoolAssumption DEF Ids
<1> QED
  BY <1>1, <1>2, <1>3, <1>4, <1>5, Zenon DEF Maintenance

-----------------------------------------------------------------------------
(* Renames and removals.                                                   *)

\* The row that a rename moves, or the row that replaces it while it drains.
MovesRow(r, n, a, b) ==
  /\ n = r \/ n = nextId
  /\ n # r <=> st[r] = "draining"
  /\ st' = IF n = r THEN st ELSE [st EXCEPT ![r] = "none", ![n] = "ready"]
  /\ path' = [path EXCEPT ![n] = b] /\ file' = [file EXCEPT ![n] = file[r]]
  /\ retired' = [q \in Ids |-> retired[q] \/
       (Exists(q) /\ (path[q] = b \/ (path[q] = a /\ q < r)))]


\* The facts that MigrateRow establishes of rows: the moved row is the only one
\* under the new name that can drain, and none is left under the old name.
RowMoved(r, n, a, b) ==
  /\ Revivable(n)' /\ st'[n] \in {"writing", "ready"}
  /\ path'[n] = b /\ file'[n] = file[r]
  /\ \A q \in Ids : q # n => path'[q] = path[q] /\ file'[q] = file[q]
  /\ \A q \in Ids : Exists(q)' /\ q # n => q # r /\ st'[q] = st[q] /\ Exists(q)
  /\ \A q \in Ids : Exists(q) => q = r \/ q # n
  /\ \A q \in Ids : Exists(q) /\ q # r => st'[q] = st[q]
  /\ \A q \in Ids : retired[q] => retired'[q]
  /\ \A q \in Ids : Revivable(q)' /\ q # n =>
       path[q] # a /\ path[q] # b /\ Revivable(q)
  /\ \A q \in Ids : Revivable(q) /\ path[q] # a /\ path[q] # b =>
       Revivable(q)' /\ q # n

LEMMA KeptNameOp ==
  CapInv /\ CapInv' /\ RemovalInv /\ RemovalInv' /\ StoredInv /\ ~BlindMigration
    /\ NameOp => StoredInv'
\* The rows of the name that disappears are cancelled; if there were none, the
\* backend has what is stored under it.
<1>KeptBegin.
  ASSUME CapInv, CapInv', RemovalInv', StoredInv, NEW kind, NEW old \in Paths,
         NEW new \in Paths, beginName(kind, old, new)
  PROVE  StoredInv'
  <2> USE <1>KeptBegin
  <2>t. /\ st \in [Ids -> States] /\ index \in [Paths -> Ids \cup {None}]
        /\ entId \in [Ids -> Ids \cup {None}] /\ path \in [Ids -> Paths]
        /\ lease \in [Paths -> {Free, Poisoned, Handler} \cup Writers \cup Workers]
    BY Zenon DEF CapInv, IInv, TypeOK
  <2>a. /\ ns.pc = "idle" /\ lease[old] = Free /\ lease[new] = Free
        /\ ~LatestFailedAt(new)
        /\ lease' = [lease EXCEPT ![old] = Handler, ![new] = Handler]
        /\ st' = [r \in Ids |-> IF r \in PendingAt(new) THEN "none" ELSE st[r]]
        /\ retired' = [r \in Ids |-> retired[r] \/
             (Exists(r) /\ path[r] = new /\ \E q \in PendingAt(new) : r < q)]
        /\ UNCHANGED <<path, file, holds, disk, data, saved, mode, index, entId,
                       fault, wpc, job, target, at, buf>>
    BY Zenon DEF beginName, ram, work
  <2>n. ns'.pc = "cancelled" /\ ns'.new = new /\ ns'.files = {file[r] : r \in PendingAt(new)}
    BY Zenon DEF beginName
  <2>b. /\ \A r \in Ids : (path[r] # new \/ st[r] \notin Pending) => st'[r] = st[r]
        /\ \A r \in Ids : path[r] = new /\ st[r] \in Pending => st'[r] = "none"
        /\ \A r \in Ids : retired[r] => retired'[r]
        /\ \A r \in Ids : path[r] # new => (retired'[r] <=> retired[r])
    BY <2>a, Zenon DEF PendingAt, Pending
  <2>c. \A r \in Ids : Revivable(r)' => path[r] # new
    <3>1. Cancelling(ns.new)'
      BY <2>n, Zenon DEF Cancelling
    <3>2. \A r \in Ids : Revivable(r)' => path'[r] # ns'.new
      BY <3>1, Zenon DEF RemovalInv, NameCleared
    <3> QED
      BY <2>a, <2>n, <3>2, Zenon
  <2>1. \A r \in Ids : path[r] # new => (Revivable(r)' <=> Revivable(r))
    <3> SUFFICES ASSUME NEW r \in Ids, path[r] # new
                 PROVE  Revivable(r)' <=> Revivable(r)
      OBVIOUS
    <3>1. HasNewerRowForPath(r)' <=> HasNewerRowForPath(r)
      BY <2>a, <2>b, Zenon DEF HasNewerRowForPath, Exists
    <3> QED
      BY <2>a, <2>b, <3>1, Zenon DEF Revivable, Latest, Exists
  <2>2. RowsStored'
    BY <2>1, <2>a, <2>c, Zenon DEF StoredInv, RowsStored
  <2>3. BackendStored'
    <3> SUFFICES ASSUME NEW p \in Paths, saved[p] >= 0, Unpending(p)',
                        ~(Cancelling(p)' /\ ns'.files # {})
                 PROVE  data[p] = saved[p]
      BY <2>a, Zenon DEF BackendStored, Cancelling
    <3>1. ~Cancelling(p)
      BY <2>a, Zenon DEF Cancelling
    <3>2. Unpending(p)
      <4>1. CASE p # new
        BY <2>1, <2>a, <4>1, Zenon DEF Unpending
      <4>2. CASE p = new
        <5>1. Cancelling(p)'
          BY <2>n, <4>2, Zenon DEF Cancelling
        <5>2. PendingAt(new) = {}
          BY <2>n, <5>1, Zenon
        <5> SUFFICES ASSUME NEW r \in Ids, Revivable(r), path[r] = new PROVE FALSE
          BY <4>2, Zenon DEF Unpending
        <5>3. st[r] \notin Pending
          BY <5>2, Zenon DEF PendingAt, Pending
        <5>4. st[r] = "failed"
          BY <2>t, <5>3, Zenon DEF Revivable, Latest, Exists, States, Pending
        <5> QED
          BY <2>a, <5>4, Zenon DEF LatestFailedAt, Revivable, Latest
      <4> QED
        BY <4>1, <4>2, Zenon
    <3> QED
      BY <3>1, <3>2, Zenon DEF StoredInv, BackendStored
  <2>4. HasFile'
    <3>1. \A r \in Ids : Exists(r)' => Exists(r) /\ st'[r] = st[r]
      BY <2>b, Zenon DEF Exists
    <3> QED
      BY <2>a, <3>1, Zenon DEF StoredInv, HasFile
  <2>5. NameMoved'
    BY <2>n, Zenon DEF NameMoved
  <2>6. RowsShadowed'
    BY <2>1, <2>a, <2>c, Zenon DEF StoredInv, RowsShadowed, Shadowed, ReadFault
  <2>7. IndexOwned'
    <3> SUFFICES ASSUME NEW q \in Paths, index[q] # None, q # new
                 PROVE  \/ st'[entId[index[q]]] \in Pending
                        \/ Retained(entId[index[q]], q)'
      BY <2>a, <2>n, Zenon DEF IndexOwned
    <3>1. PICK x \in Ids : x = entId[index[q]]
      BY EntryRow, NotNone, Zenon
    <3>2. st[x] \in Pending \/ Retained(x, q)
      BY <2>a, <3>1, Zenon DEF StoredInv, IndexOwned
    <3>3. Shadow(q)
      BY Zenon DEF CapInv, Structure, Shadows
    <3>4. st[x] \in Pending => path[x] = q
      BY <3>1, <3>3, Zenon DEF Shadow
    <3>5. st'[x] = st[x]
      BY <2>b, <3>2, <3>4, Zenon DEF Retained
    <3>6. lease[q] = Poisoned => lease'[q] = Poisoned
      <4>1. Free # Poisoned
        BY Zenon DEF Free, Poisoned
      <4> QED
        BY <2>a, <2>t, <4>1, Zenon
    <3>7. Retained(x, q) => Retained(entId[index[q]], q)'
      BY <2>a, <3>1, <3>5, <3>6, Zenon DEF Retained, Completing
    <3> QED
      BY <3>1, <3>2, <3>5, <3>7, Zenon
  <2>8. Drains'
    <3> SUFFICES ASSUME NEW e \in Workers PROVE Copying(e)'
      BY Zenon DEF Drains
    <3>1. Copying(e)
      BY Zenon DEF StoredInv, Drains
    <3>2. job[e].id \in Ids
      BY JobIssued, Zenon
    <3>3. drainStillClaimed(e)' => drainStillClaimed(e) /\ job[e].path # new
      BY <2>a, <2>b, <3>2, Zenon DEF drainStillClaimed, Pending
    <3> QED
      BY <2>a, <2>n, <3>1, <3>3, KeptCopying, Zenon
  <2> QED
    BY <2>2, <2>3, <2>4, <2>5, <2>6, <2>7, <2>8, Zenon DEF StoredInv

\* The files that cancelForDelete removes belong to no row.
<1>KeptCancel.
  ASSUME CapInv, CapInv', RemovalInv, StoredInv, cancelForDelete
  PROVE  StoredInv'
  <2> USE <1>KeptCancel
  <2>t. /\ ns \in NameOps /\ file \in [Ids -> Ids] /\ path \in [Ids -> Paths]
        /\ index \in [Paths -> Ids \cup {None}] /\ fault \in [Paths -> Ids \cup {None}]
    BY Zenon DEF CapInv, IInv, TypeOK
  <2>p. ns.new \in Paths
    BY <2>t, Zenon DEF NameOps
  <2>a. /\ ns.pc = "cancelled" /\ index' = [index EXCEPT ![ns.new] = None]
        /\ disk' = [g \in Ids |-> IF g \in ns.files THEN NoFile ELSE disk[g]]
        /\ fault' = IF ns.files = {} THEN fault ELSE [fault EXCEPT ![ns.new] = None]
        /\ buf' = KeepOpen(ns.files)
        /\ UNCHANGED <<st, path, file, retired, holds, data, saved, mode, entId,
                       lease, wpc, job, target, at>>
    BY Zenon DEF cancelForDelete, table, columns, history
  <2>n. /\ ns'.pc = "spooled" /\ ns'.new = ns.new /\ ns'.files = ns.files
    BY <2>t, Zenon DEF cancelForDelete, NameOps
  <2>b. /\ index'[ns.new] = None
        /\ \A q \in Paths : q # ns.new => index'[q] = index[q] /\ fault'[q] = fault[q]
    BY <2>a, <2>p, <2>t, Zenon
  <2>d. \A e \in Workers : wpc[e] = "copied" => buf'[e] = buf[e]
    BY <2>a, Zenon DEF KeepOpen
  <2>l. \A r \in Ids : Revivable(r)' <=> Revivable(r)
    BY <2>a, Zenon DEF Revivable, Latest, Exists, HasNewerRowForPath
  <2>u. \A q : Unpending(q)' <=> Unpending(q)
    BY <2>a, <2>l, Zenon DEF Unpending
  <2>c. \A q : Cancelling(q)' <=> Cancelling(q)
    BY <2>a, <2>n, Zenon DEF Cancelling
  <2>f. \A r \in Ids : Exists(r) => disk'[file[r]] = disk[file[r]]
    <3>1. \A r \in Ids : Exists(r) => file[r] \notin ns.files
      BY <2>a, Zenon DEF CapInv, Structure, NameTaken
    <3> QED
      BY <2>a, <2>t, <3>1, Zenon
  <2>v. \A r \in Ids : Revivable(r) => path[r] # ns.new /\ Exists(r)
    <3>1. Cancelling(ns.new)
      BY <2>a, Zenon DEF Cancelling
    <3> QED
      BY <3>1, Zenon DEF RemovalInv, NameCleared, Revivable, Latest
  <2>1. RowsStored'
    BY <2>a, <2>f, <2>l, <2>v, Zenon DEF StoredInv, RowsStored
  <2>2. BackendStored'
    BY <2>a, <2>c, <2>n, <2>u, Zenon DEF StoredInv, BackendStored
  <2>3. HasFile'
    BY <2>a, <2>f, Zenon DEF StoredInv, HasFile, Exists
  <2>4. NameMoved'
    BY <2>n, Zenon DEF NameMoved
  <2>5. RowsShadowed'
    <3> SUFFICES ASSUME mode = "up", NEW q \in Ids, Revivable(q)
                 PROVE  Shadowed(q)' \/ ReadFault(path[q])'
      BY <2>a, <2>l, Zenon DEF RowsShadowed
    <3>1. Shadowed(q) \/ ReadFault(path[q])
      BY Zenon DEF StoredInv, RowsShadowed
    <3>2. path[q] # ns.new /\ path[q] \in Paths
      BY <2>t, <2>v, Zenon
    <3> QED
      BY <2>a, <2>b, <3>1, <3>2, Zenon DEF Shadowed, ReadFault
  <2>6. IndexOwned'
    <3> SUFFICES ASSUME NEW q \in Paths, index'[q] # None
                 PROVE  \/ st[entId[index'[q]]] \in Pending
                        \/ Retained(entId[index[q]], q)'
      BY <2>a, Zenon DEF IndexOwned
    <3>1. index'[q] = index[q] /\ q # ns.new
      BY <2>b, Zenon
    <3>2. PICK x : x = entId[index[q]]
      OBVIOUS
    <3>3. st[x] \in Pending \/ Retained(x, q)
      BY <3>1, <3>2, Zenon DEF StoredInv, IndexOwned
    <3>4. Retained(x, q) => Retained(x, q)'
      BY <2>a, Zenon DEF Retained, Completing
    <3>5. entId'[index'[q]] = x
      BY <2>a, <3>1, <3>2, Zenon
    <3>6. Retained(x, q)' => Retained(entId[index[q]], q)'
      BY <3>5, Zenon DEF Retained, Completing
    <3> QED
      BY <3>1, <3>2, <3>3, <3>4, <3>6, Zenon
  <2>7. Drains'
    <3> SUFFICES ASSUME NEW e \in Workers PROVE Copying(e)'
      BY Zenon DEF Drains
    <3>1. Copying(e)
      BY Zenon DEF StoredInv, Drains
    <3>2. drainStillClaimed(e)' => drainStillClaimed(e)
      BY <2>a, Zenon DEF drainStillClaimed
    <3>3. ASSUME drainStillClaimed(e)
          PROVE  disk'[job[e].file] = disk[job[e].file]
      <4>1. PICK x \in Ids : Exists(x) /\ file[x] = job[e].file
        BY <3>3, ClaimedRow, Zenon
      <4> QED
        BY <2>f, <4>1
    <3>4. ns.pc # "idle"
      BY <2>a, Zenon
    <3> QED
      BY <2>a, <2>d, <2>n, <3>1, <3>2, <3>3, <3>4, KeptCopying, Zenon
  <2> QED
    BY <2>1, <2>2, <2>3, <2>4, <2>5, <2>6, <2>7, Zenon DEF StoredInv

\* A rename of a name without a pending or failed save moves the backend file.
<1>KeptMigrateNone.
  ASSUME CapInv, CapInv', RemovalInv, StoredInv, ns.pc = "spooled",
         ~LatestFailedAt(ns.old), ActiveAt(ns.old) = {},
         ns' = [ns EXCEPT !.pc = "migrated"],
         UNCHANGED <<st, path, file, retired, holds, disk, data, saved, mode,
                     index, entId, fault, lease, wpc, job, target, at, buf>>
  PROVE  StoredInv'
  <2> USE <1>KeptMigrateNone
  <2>t. ns \in NameOps /\ st \in [Ids -> States]
    BY Zenon DEF CapInv, IInv, TypeOK
  <2>n. /\ ns'.pc = "migrated" /\ ns'.new = ns.new /\ ns'.files = ns.files
        /\ ns'.old = ns.old /\ ns'.how = "backend" /\ ns.how = "backend"
    BY <2>t, Zenon DEF NameOps, RemovalInv, NamePhase
  <2>l. \A r \in Ids : Revivable(r)' <=> Revivable(r)
    BY Zenon DEF Revivable, Latest, Exists, HasNewerRowForPath
  <2>u. \A q : Unpending(q)' <=> Unpending(q)
    BY <2>l, Zenon DEF Unpending
  <2>c. \A q : Cancelling(q)' <=> Cancelling(q)
    BY <2>n, Zenon DEF Cancelling
  <2>1. RowsStored' /\ HasFile'
    BY <2>l, Zenon DEF StoredInv, RowsStored, HasFile, Exists
  <2>2. BackendStored'
    BY <2>c, <2>n, <2>u, Zenon DEF StoredInv, BackendStored
  <2>3. NameMoved'
    <3>1. Unpending(ns.old)
      <4> SUFFICES ASSUME NEW r \in Ids, Revivable(r), path[r] = ns.old PROVE FALSE
        BY Zenon DEF Unpending
      <4>1. st[r] \notin Pending
        BY PendingRevivable, Zenon DEF ActiveAt
      <4>2. st[r] = "failed"
        BY <2>t, <4>1, Zenon DEF Revivable, Latest, Exists, States, Pending
      <4> QED
        BY <4>2, Zenon DEF LatestFailedAt, Revivable, Latest
    <3>2. Unpending(ns.old)'
      BY <2>l, <2>n, <3>1, Zenon DEF Unpending
    <3> QED
      BY <2>n, <3>2, Zenon DEF NameMoved
  <2>4. RowsShadowed'
    BY <2>l, Zenon DEF StoredInv, RowsShadowed, Shadowed, ReadFault
  <2>5. IndexOwned'
    <3> SUFFICES ASSUME NEW q \in Paths, index[q] # None
                 PROVE  \/ st[entId[index[q]]] \in Pending
                        \/ Retained(entId[index[q]], q)'
      BY Zenon DEF IndexOwned
    <3>1. st[entId[index[q]]] \in Pending \/ Retained(entId[index[q]], q)
      BY Zenon DEF StoredInv, IndexOwned
    <3> QED
      BY <3>1, Zenon DEF Retained, Completing
  <2>6. Drains'
    <3> SUFFICES ASSUME NEW e \in Workers PROVE Copying(e)'
      BY Zenon DEF Drains
    <3>1. Copying(e)
      BY Zenon DEF StoredInv, Drains
    <3>2. drainStillClaimed(e)' => drainStillClaimed(e)
      BY Zenon DEF drainStillClaimed
    <3>3. ns.pc # "idle"
      OBVIOUS
    <3> QED
      BY <2>n, <3>1, <3>2, <3>3, KeptCopying, Zenon
  <2> QED
    BY <2>1, <2>2, <2>3, <2>4, <2>5, <2>6, Zenon DEF StoredInv

<1>MovedRows.
  ASSUME CapInv, NEW a \in Paths, NEW b \in Paths, a # b, NEW r \in Ids,
         NEW n \in Ids, Active(r), path[r] = a, MovesRow(r, n, a, b)
  PROVE  RowMoved(r, n, a, b)
  <2> USE <1>MovedRows
  <2>t. /\ st \in [Ids -> States] /\ path \in [Ids -> Paths]
        /\ file \in [Ids -> Ids] /\ nextId \in Int /\ retired \in [Ids -> BOOLEAN]
    BY DEF CapInv, IInv, TypeOK
  <2>   /\ n = r \/ n = nextId
        /\ n # r <=> st[r] = "draining"
        /\ st' = IF n = r THEN st ELSE [st EXCEPT ![r] = "none", ![n] = "ready"]
        /\ path' = [path EXCEPT ![n] = b] /\ file' = [file EXCEPT ![n] = file[r]]
        /\ retired' = [q \in Ids |-> retired[q] \/
             (Exists(q) /\ (path[q] = b \/ (path[q] = a /\ q < r)))]
    BY Zenon DEF MovesRow
  <2>r. st[r] \in Pending /\ Exists(r) /\ ~retired[r] /\ ~HasNewerRowForPath(r)
    BY Zenon DEF Active, Pending, Exists, CapInv, IInv, ActiveIsLatest
  <2>i. \A q \in Ids : Exists(q) => q < nextId /\ (q = r \/ q # n)
    BY <2>t DEF CapInv, IInv, RowsIssued, Ids
  <2>1. /\ path'[n] = b /\ file'[n] = file[r]
        /\ \A q \in Ids : q # n => path'[q] = path[q] /\ file'[q] = file[q]
    BY <2>t, Zenon
  <2>2. /\ \A q \in Ids : q # n /\ q # r => st'[q] = st[q]
        /\ n # r => st'[r] = "none" /\ st'[n] = "ready"
        /\ n = r => st'[n] = st[r]
    BY <2>t, Zenon
  <2>3. st'[n] \in {"writing", "ready"}
    BY <2>2, <2>r, Zenon DEF Pending
  <2>4. \A q \in Ids : Exists(q)' /\ q # n => q # r /\ st'[q] = st[q] /\ Exists(q)
    BY <2>2, Zenon DEF Exists
  <2>5. \A q \in Ids : /\ retired[q] => retired'[q]
                       /\ Exists(q) /\ path[q] = b => retired'[q]
                       /\ Exists(q) /\ path[q] = a /\ q < r => retired'[q]
                       /\ path[q] # a /\ path[q] # b => (retired'[q] <=> retired[q])
                       /\ ~Exists(q) => (retired'[q] <=> retired[q])
    BY Zenon
  <2>6. ~retired'[n]
    <3>1. CASE n = r
      <4>1. ~(r < r)
        BY DEF Ids
      <4> QED
        BY <2>r, <3>1, <4>1, Zenon
    <3>2. CASE n # r
      <4>1. ~Exists(n) /\ ~(n < nextId)
        BY <2>i, <2>t, <3>2
      <4>2. ~retired[n]
        BY <4>1, Zenon DEF CapInv, Structure, Superseded
      <4> QED
        BY <2>5, <4>1, <4>2, Zenon
    <3> QED
      BY <3>1, <3>2, Zenon
  <2>7. Revivable(n)'
    <3>1. ASSUME NEW q \in Ids, q > n, Exists(q)', ~retired'[q], path'[q] = path'[n]
          PROVE  FALSE
      <4>1. q # n
        BY <3>1 DEF Ids
      <4>2. Exists(q) /\ path[q] = b
        BY <2>1, <2>4, <3>1, <4>1, Zenon
      <4> QED
        BY <2>5, <3>1, <4>2, Zenon
    <3>2. ~HasNewerRowForPath(n)'
      BY <3>1, Zenon DEF HasNewerRowForPath
    <3>3. Exists(n)' /\ st'[n] # "done"
      BY <2>3, Zenon DEF Exists
    <3> QED
      BY <2>6, <3>2, <3>3, Zenon DEF Revivable, Latest
  <2>8. ASSUME NEW q \in Ids, Revivable(q)', q # n
        PROVE  path[q] # a /\ path[q] # b
    <3>1. Exists(q) /\ ~retired'[q] /\ q # r
      BY <2>4, <2>8, Zenon DEF Revivable, Latest
    <3>2. path[q] # b
      BY <2>5, <3>1, Zenon
    <3>3. ASSUME path[q] = a PROVE FALSE
      <4>1. ~(q < r)
        BY <2>5, <3>1, <3>3, Zenon
      <4>2. q > r /\ ~retired[q]
        BY <2>5, <3>1, <4>1 DEF Ids
      <4> QED
        BY <2>r, <3>1, <3>3, <4>2, Zenon DEF HasNewerRowForPath
    <3> QED
      BY <3>2, <3>3, Zenon
  <2>9. ASSUME NEW q \in Ids, path[q] # a, path[q] # b, q # n
        PROVE  Revivable(q)' <=> Revivable(q)
    <3>1. q # r /\ st'[q] = st[q] /\ (retired'[q] <=> retired[q]) /\ path'[q] = path[q]
      BY <2>1, <2>2, <2>5, <2>9, Zenon
    <3>2. ASSUME NEW z \in Ids
          PROVE  (Exists(z)' /\ ~retired'[z] /\ path'[z] = path'[q])
                   <=> (Exists(z) /\ ~retired[z] /\ path[z] = path[q])
      <4>1. CASE z = n
        <5>1. path'[z] # path'[q]
          BY <2>1, <2>9, <3>1, <4>1, Zenon
        <5>2. ~(Exists(z) /\ path[z] = path[q])
          BY <2>i, <2>9, <4>1, Zenon
        <5> QED
          BY <5>1, <5>2, Zenon
      <4>2. CASE z = r /\ z # n
        BY <2>1, <2>4, <2>9, <3>1, <4>2, Zenon
      <4>3. CASE z # r /\ z # n
        <5>1. st'[z] = st[z] /\ path'[z] = path[z]
          BY <2>1, <2>2, <4>3, Zenon
        <5>2. path[z] = path[q] => (retired'[z] <=> retired[z])
          BY <2>5, <2>9, Zenon
        <5> QED
          BY <3>1, <5>1, <5>2, Zenon DEF Exists
      <4> QED
        BY <4>1, <4>2, <4>3, Zenon
    <3>3. HasNewerRowForPath(q)' <=> HasNewerRowForPath(q)
      BY <3>2, Zenon DEF HasNewerRowForPath
    <3> QED
      BY <3>1, <3>3, Zenon DEF Revivable, Latest, Exists
  <2>10. \A q \in Ids : Revivable(q) /\ path[q] # a => q # n
    BY <2>i, Zenon DEF Revivable, Latest
  <2>11. \A q \in Ids : Exists(q) /\ q # r => st'[q] = st[q]
    BY <2>2, <2>i, Zenon
  <2> QED
    BY <2>1, <2>3, <2>4, <2>5, <2>7, <2>8, <2>9, <2>10, <2>11, <2>i, Zenon
       DEF RowMoved

\* The rename moves the save, its shadow entry and what was stored.
<1>KeptMigrateRow.
  ASSUME CapInv, CapInv', RemovalInv, StoredInv, ns.pc = "spooled",
         ns.kind = "rename", NEW r \in ActiveAt(ns.old), Shadowed(r),
         MigrateRow(r),
         UNCHANGED <<disk, data, mode, lease, wpc, job, target, at, buf>>
  PROVE  StoredInv'
  <2> USE <1>KeptMigrateRow
  <2>t. /\ ns \in NameOps /\ file \in [Ids -> Ids] /\ path \in [Ids -> Paths]
        /\ index \in [Paths -> Ids \cup {None}] /\ fault \in [Paths -> Ids \cup {None}]
        /\ entId \in [Ids -> Ids \cup {None}] /\ nextId \in Int
        /\ saved \in [Paths -> Versions \cup {Removed, Moved}]
        /\ st \in [Ids -> States]
    BY DEF CapInv, IInv, TypeOK
  <2>p. ns.old \in Paths /\ ns.new \in Paths /\ ns.old # ns.new
    BY <2>t, Zenon DEF CapInv, Structure, LeasesHeld, NameHolds, NameOps
  <2>r. r \in Ids /\ Active(r) /\ path[r] = ns.old
    BY Zenon DEF ActiveAt
  <2> SUFFICES ASSUME NEW a \in Paths, NEW b \in Paths, a = ns.old, b = ns.new,
                      a # b, NEW f \in Ids, f = file[r]
               PROVE  StoredInv'
    BY <2>p, <2>r, <2>t, Zenon
  <2>s. index[a] = f /\ entId[f] = r /\ f # None
    BY <2>r, NotNone, Zenon DEF Shadowed
  <2>n. PICK n \in Ids : n = IF st[r] = "draining" THEN nextId ELSE r
    BY Zenon DEF MigrateRow
  <2>a. /\ st' = IF n = r THEN st ELSE [st EXCEPT ![r] = "none", ![n] = "ready"]
        /\ path' = [path EXCEPT ![n] = b] /\ file' = [file EXCEPT ![n] = file[r]]
        /\ retired' = [q \in Ids |-> retired[q] \/
             (Exists(q) /\ (path[q] = b \/ (path[q] = a /\ q < r)))]
        /\ index' = [index EXCEPT ![a] = None, ![b] = f]
        /\ entId' = [entId EXCEPT ![f] = n]
        /\ saved' = [saved EXCEPT ![a] = Moved, ![b] = saved[a]]
        /\ fault' = [fault EXCEPT ![a] = IF @ <= r THEN None ELSE @,
                                  ![b] = IF @ <= n THEN None ELSE @]
        /\ holds' = holds
    BY <2>n, <2>s, Zenon DEF MigrateRow, MoveSaved
  <2>m. /\ ns'.pc = "migrated" /\ ns'.old = a /\ ns'.new = b /\ ns'.how # "backend"
    BY <2>t, Zenon DEF MigrateRow, NameOps
  <2>d. (n = r \/ n = nextId) /\ (n # r <=> st[r] = "draining")
    <3>1. Exists(r) /\ r < nextId
      BY <2>r, Zenon DEF Active, Exists, CapInv, IInv, RowsIssued
    <3> QED
      BY <2>n, <2>r, <2>t, <3>1 DEF Ids
  <2>b. /\ index'[a] = None /\ index'[b] = f /\ entId'[f] = n
        /\ saved'[a] = Moved /\ saved'[b] = saved[a]
        /\ \A q \in Paths : q # a /\ q # b =>
             index'[q] = index[q] /\ saved'[q] = saved[q] /\ fault'[q] = fault[q]
        /\ \A g \in Ids : g # f => entId'[g] = entId[g]
    BY <2>a, <2>t, Zenon
  <2>c. path[r] = a
    BY <2>r, Zenon
  <2>w. /\ Revivable(n)' /\ st'[n] \in {"writing", "ready"}
        /\ path'[n] = b /\ file'[n] = file[r]
        /\ \A q \in Ids : q # n => path'[q] = path[q] /\ file'[q] = file[q]
        /\ \A q \in Ids : Exists(q)' /\ q # n => q # r /\ st'[q] = st[q] /\ Exists(q)
        /\ \A q \in Ids : Exists(q) => q = r \/ q # n
        /\ \A q \in Ids : Exists(q) /\ q # r => st'[q] = st[q]
        /\ \A q \in Ids : retired[q] => retired'[q]
        /\ \A q \in Ids : Revivable(q)' /\ q # n =>
             path[q] # a /\ path[q] # b /\ Revivable(q)
        /\ \A q \in Ids : Revivable(q) /\ path[q] # a /\ path[q] # b =>
             Revivable(q)' /\ q # n
    <3>1. MovesRow(r, n, a, b)
      BY <2>a, <2>d, Zenon DEF MovesRow
    <3>2. Active(r) /\ r \in Ids
      BY <2>r, Zenon
    <3>3. RowMoved(r, n, a, b)
      BY <2>c, <3>1, <3>2, <1>MovedRows, Zenon
    <3> QED
      BY <3>3, Zenon DEF RowMoved
  <2>x. file'[n] = f
    BY <2>w, Zenon
  <2>e. Revivable(r) /\ Exists(r) /\ st[r] \in Pending
    BY <2>r, PendingRevivable, Zenon DEF Active, Pending
  <2>f. \A q \in Ids : Exists(q) /\ q # r => file[q] # f
    BY <2>e, <2>r, Zenon DEF CapInv, Structure, FilesOwned
  <2>g. \A q \in Paths : q # a => index[q] # f
    <3> SUFFICES ASSUME NEW q \in Paths, index[q] = f PROVE q = a
      BY Zenon
    <3>1. Shadow(q)
      BY Zenon DEF CapInv, Structure, Shadows
    <3> QED
      BY <2>e, <2>r, <2>s, <3>1, Zenon DEF Shadow
  <2>1. RowsStored'
    <3>1. saved'[path'[n]] >= 0 => disk'[file'[n]] = saved'[path'[n]]
      <4>1. saved[a] >= 0 => disk[f] = saved[a]
        BY <2>c, <2>e, <2>r, Zenon DEF StoredInv, RowsStored
      <4> QED
        BY <2>b, <2>w, <2>x, <4>1, Zenon
    <3>2. ASSUME NEW q \in Ids, Revivable(q)', q # n, saved'[path'[q]] >= 0
          PROVE  disk'[file'[q]] = saved'[path'[q]]
      <4>1. /\ path'[q] = path[q] /\ file'[q] = file[q] /\ Revivable(q)
            /\ path[q] # a /\ path[q] # b /\ path[q] \in Paths
        BY <2>t, <2>w, <3>2, Zenon
      <4>2. saved'[path[q]] = saved[path[q]]
        BY <2>b, <4>1, Zenon
      <4> QED
        BY <3>2, <4>1, <4>2, Zenon DEF StoredInv, RowsStored
    <3> QED
      BY <3>1, <3>2, Zenon DEF RowsStored
  <2>2. BackendStored'
    <3> SUFFICES ASSUME NEW q \in Paths, saved'[q] >= 0, Unpending(q)'
                 PROVE  data[q] = saved'[q]
      BY Zenon DEF BackendStored
    <3>1. q # b
      BY <2>w, Zenon DEF Unpending
    <3>2. q # a
      BY <2>b, NotStored, Zenon
    <3>3. Unpending(q)
      <4> SUFFICES ASSUME NEW x \in Ids, Revivable(x), path[x] = q PROVE FALSE
        BY Zenon DEF Unpending
      <4>1. Revivable(x)' /\ path'[x] = q
        BY <2>w, <3>1, <3>2, Zenon
      <4> QED
        BY <4>1, Zenon DEF Unpending
    <3>4. ~Cancelling(q)
      BY <3>1, Zenon DEF Cancelling
    <3> QED
      BY <2>b, <3>1, <3>2, <3>3, <3>4, Zenon DEF StoredInv, BackendStored
  <2>3. HasFile'
    <3>1. disk'[file'[n]] # NoFile
      <4>1. disk[f] # NoFile
        BY <2>e, <2>r, Zenon DEF StoredInv, HasFile, Pending
      <4> QED
        BY <2>x, <4>1, Zenon
    <3>2. \A q \in Ids : Exists(q)' /\ st'[q] # "done" /\ q # n =>
            disk'[file'[q]] # NoFile
      BY <2>w, Zenon DEF StoredInv, HasFile
    <3> QED
      BY <3>1, <3>2, Zenon DEF HasFile
  <2>4. NameMoved'
    <3>1. Unpending(ns.old)'
      BY <2>m, <2>w, Zenon DEF Unpending
    <3>2. ~Unpending(ns.new)'
      BY <2>m, <2>w, Zenon DEF Unpending
    <3>3. ~(saved'[ns'.old] >= 0)
      BY <2>b, <2>m, NotStored, Zenon
    <3> QED
      BY <3>1, <3>2, <3>3, Zenon DEF NameMoved
  <2>5. RowsShadowed'
    <3> SUFFICES ASSUME mode = "up", NEW q \in Ids, Revivable(q)'
                 PROVE  Shadowed(q)' \/ ReadFault(path[q])'
      BY Zenon DEF RowsShadowed
    <3>1. CASE q = n
      BY <2>b, <2>w, <2>x, <3>1, Zenon DEF Shadowed
    <3>2. CASE q # n
      <4>1. PICK z \in Paths : z = path[q]
        BY <2>t, Zenon
      <4>2. /\ path'[q] = z /\ file'[q] = file[q] /\ Revivable(q)
            /\ z # a /\ z # b
        BY <2>w, <3>2, <4>1, Zenon
      <4>3. q # r /\ Exists(q)
        BY <2>r, <4>1, <4>2, Zenon DEF Revivable, Latest
      <4>4. file[q] # f /\ file[q] \in Ids
        BY <2>f, <2>t, <4>3, Zenon
      <4>5. index'[z] = index[z] /\ entId'[file[q]] = entId[file[q]]
            /\ fault'[z] = fault[z]
        BY <2>b, <4>2, <4>4, Zenon
      <4>6. index[z] # None => entId'[index[z]] = entId[index[z]]
        <5> SUFFICES ASSUME index[z] # None
                     PROVE  entId'[index[z]] = entId[index[z]]
          BY Zenon
        <5>1. index[z] \in Ids /\ index[z] # f
          BY <2>g, <4>2, EntryRow, Zenon
        <5> QED
          BY <2>b, <5>1, Zenon
      <4>7. Shadowed(q) => Shadowed(q)'
        BY <4>1, <4>2, <4>5, Zenon DEF Shadowed
      <4>8. ReadFault(z) => ReadFault(z)'
        BY <4>5, <4>6, Zenon DEF ReadFault
      <4>9. Shadowed(q) \/ ReadFault(z)
        BY <4>1, <4>2, Zenon DEF StoredInv, RowsShadowed
      <4>10. ReadFault(z)' => ReadFault(path[q])'
        BY <4>2, Zenon DEF ReadFault
      <4> QED
        BY <4>7, <4>8, <4>9, <4>10, Zenon
    <3> QED
      BY <3>1, <3>2, Zenon
  <2>6. IndexOwned'
    <3> SUFFICES ASSUME NEW q \in Paths, index'[q] # None
                 PROVE  \/ st'[entId'[index'[q]]] \in Pending
                        \/ Retained(entId[index[q]], q)'
      BY Zenon DEF IndexOwned
    <3>1. q # a
      BY <2>b, Zenon
    <3>2. CASE q = b
      BY <2>b, <2>w, <3>2, Zenon DEF Pending
    <3>3. CASE q # b
      <4>1. index'[q] = index[q] /\ index[q] # f /\ index[q] \in Ids
        <5>1. index'[q] = index[q]
          BY <2>b, <3>1, <3>3, Zenon
        <5> QED
          BY <2>g, <3>1, <5>1, EntryRow, Zenon
      <4>5. Shadow(q)
        BY Zenon DEF CapInv, Structure, Shadows
      <4>2. PICK x \in Ids : x = entId[index[q]]
        BY <2>t, <4>1, <4>5, NotNone, Zenon DEF Shadow
      <4>3. entId'[index'[q]] = x
        BY <2>b, <4>1, <4>2, Zenon
      <4>4. st[x] \in Pending \/ Retained(x, q)
        BY <4>1, <4>2, NotNone, Zenon DEF StoredInv, IndexOwned
      <4>6. x # r /\ Exists(x)
        BY <2>e, <2>r, <3>1, <4>1, <4>2, <4>4, <4>5, NotNone, Zenon
           DEF Shadow, Retained,
           Exists, Pending
      <4>7. st'[x] = st[x] /\ path'[x] = path[x]
        BY <2>w, <4>6, Zenon
      <4>8. Retained(x, q) => Retained(x, q)'
        BY <2>a, <4>7, Zenon DEF Retained, Completing
      <4>9. Retained(x, q)' => Retained(entId[index[q]], q)'
        BY <4>3, Zenon DEF Retained, Completing
      <4> QED
        BY <4>3, <4>4, <4>7, <4>8, <4>9, Zenon
    <3> QED
      BY <3>2, <3>3, Zenon
  <2>7. Drains'
    <3> SUFFICES ASSUME NEW e \in Workers PROVE Copying(e)'
      BY Zenon DEF Drains
    <3>1. Copying(e)
      BY Zenon DEF StoredInv, Drains
    <3>2. drainStillClaimed(e)' => drainStillClaimed(e)
      <4> SUFFICES ASSUME drainStillClaimed(e)' PROVE drainStillClaimed(e)
        OBVIOUS
      <4>1. PICK x \in Ids : x = job[e].id
        BY JobIssued, Zenon
      <4>2. /\ st'[x] = "draining" /\ ~retired'[x] /\ path'[x] = job[e].path
            /\ file'[x] = job[e].file
        BY <4>1, Zenon DEF drainStillClaimed
      <4>3. x # n /\ Exists(x)'
        BY <2>w, <4>2, Zenon DEF Exists
      <4> QED
        BY <2>w, <4>1, <4>2, <4>3, Zenon DEF drainStillClaimed
    <3>3. ns.pc # "idle"
      OBVIOUS
    <3> QED
      BY <2>m, <3>1, <3>2, <3>3, KeptCopying, Zenon
  <2> QED
    BY <2>1, <2>2, <2>3, <2>4, <2>5, <2>6, <2>7, Zenon DEF StoredInv

<1>KeptMigrate.
  ASSUME CapInv, CapInv', RemovalInv, StoredInv, MigrateForRename, ~BlindMigration
  PROVE  StoredInv'
  <2> USE <1>KeptMigrate
  <2>a. /\ ns.pc = "spooled" /\ ns.kind = "rename" /\ ~LatestFailedAt(ns.old)
        /\ UNCHANGED <<disk, data, mode, lease, wpc, job, target, at, buf>>
        /\ \/ /\ ActiveAt(ns.old) = {} /\ ns' = [ns EXCEPT !.pc = "migrated"]
              /\ UNCHANGED <<st, path, file, retired, holds, index, entId, fault,
                             saved>>
           \/ \E r \in ActiveAt(ns.old) : MigrateRow(r)
    BY Zenon DEF MigrateForRename, refuseMigration, table, columns, work
  <2>1. CASE /\ ActiveAt(ns.old) = {} /\ ns' = [ns EXCEPT !.pc = "migrated"]
             /\ UNCHANGED <<st, path, file, retired, holds, index, entId, fault,
                            saved>>
    BY <2>a, <2>1, <1>KeptMigrateNone, Zenon
  <2>2. CASE \E r \in ActiveAt(ns.old) : MigrateRow(r)
    BY <2>a, <2>2, <1>KeptMigrateRow, Zenon DEF BlindMigration
  <2> QED
    BY <2>a, <2>1, <2>2, Zenon

\* A worker that owns its row copies to neither name of the rename or removal.
<1>NamesUncopied.
  ASSUME CapInv, StoredInv, NEW e \in Workers, drainStillClaimed(e),
         wpc[e] \in {"opened", "copied", "installed", "held"}, ns.pc # "idle"
  PROVE  job[e].path # ns.new /\ (ns.pc = "migrated" => job[e].path # ns.old)
  <2> USE <1>NamesUncopied
  <2>1. job[e].path # ns.new
    <3>1. CASE wpc[e] = "held"
      <4>1. lease[job[e].path] = e /\ lease[ns.new] = Handler
        BY <3>1, Zenon DEF CapInv, Structure, LeasesHeld, WorkerHolds, NameHolds
      <4>2. e # Handler
        BY SpoolAssumption, Zenon DEF Handler
      <4> QED
        BY <4>1, <4>2, Zenon
    <3>2. CASE wpc[e] # "held"
      BY <3>2, Zenon DEF StoredInv, Drains, Copying
    <3> QED
      BY <3>1, <3>2, Zenon
  <2>2. ns.pc = "migrated" => job[e].path # ns.old
    BY ClaimedRow, Zenon DEF StoredInv, NameMoved, Unpending
  <2> QED
    BY <2>1, <2>2, Zenon

\* The end of a rename or removal, for what it does not store or move.
<1>KeptEnd.
  ASSUME CapInv, CapInv', StoredInv, NEW to, EndName(to), ns.pc # "idle",
         ns.pc # "cancelled", RowsStored', BackendStored',
         UNCHANGED <<st, path, file, retired, holds, disk, mode, index, entId,
                     fault, wpc, job, target, buf>>,
         \A p \in Paths : p # ns.new /\ (ns.pc = "migrated" => p # ns.old) =>
           data'[p] = data[p],
         \A e \in Workers :
           ns.new \notin at[e] /\ (ns.pc = "migrated" => ns.old \notin at[e]) =>
             at'[e] = at[e]
  PROVE  StoredInv'
  <2> USE <1>KeptEnd
  <2>t. /\ ns \in NameOps
        /\ lease \in [Paths -> {Free, Poisoned, Handler} \cup Writers \cup Workers]
    BY Zenon DEF CapInv, IInv, TypeOK
  <2>a. /\ ns'.pc = "idle"
        /\ lease' = [lease EXCEPT ![ns.old] = to, ![ns.new] = to]
    BY IdleNamePhase, Zenon DEF EndName
  <2>l. \A r \in Ids : Revivable(r)' <=> Revivable(r)
    BY Zenon DEF Revivable, Latest, Exists, HasNewerRowForPath
  <2>1. HasFile'
    BY Zenon DEF StoredInv, HasFile, Exists
  <2>2. NameMoved'
    BY <2>a, Zenon DEF NameMoved
  <2>3. RowsShadowed'
    BY <2>l, Zenon DEF StoredInv, RowsShadowed, Shadowed, ReadFault
  <2>4. IndexOwned'
    <3>1. \A p \in Paths : lease[p] = Poisoned => lease'[p] = Poisoned
      <4>1. lease[ns.old] = Handler /\ lease[ns.new] = Handler
        BY Zenon DEF CapInv, Structure, LeasesHeld, NameHolds
      <4>2. Handler # Poisoned
        BY Zenon DEF Handler, Poisoned
      <4> QED
        BY <2>a, <2>t, <4>1, <4>2, Zenon
    <3> SUFFICES ASSUME NEW q \in Paths, index[q] # None
                 PROVE  \/ st[entId[index[q]]] \in Pending
                        \/ Retained(entId[index[q]], q)'
      BY Zenon DEF IndexOwned
    <3>2. st[entId[index[q]]] \in Pending \/ Retained(entId[index[q]], q)
      BY Zenon DEF StoredInv, IndexOwned
    <3> QED
      BY <3>1, <3>2, Zenon DEF Retained, Completing
  <2>5. Drains'
    <3> SUFFICES ASSUME NEW e \in Workers PROVE Copying(e)'
      BY Zenon DEF Drains
    <3>1. Copying(e)
      BY Zenon DEF StoredInv, Drains
    <3>2. drainStillClaimed(e)' => drainStillClaimed(e)
      BY Zenon DEF drainStillClaimed
    <3>3. ASSUME drainStillClaimed(e), wpc[e] \in {"installed", "held"}
          PROVE  data'[job[e].path] = data[job[e].path]
      BY <3>3, <1>NamesUncopied, JobIssued, Zenon
    <3>4. ASSUME drainStillClaimed(e), wpc[e] = "opened"
          PROVE  at'[e] = at[e]
      <4>1. job[e].path # ns.new /\ (ns.pc = "migrated" => job[e].path # ns.old)
        BY <3>4, <1>NamesUncopied, Zenon
      <4>2. \A p \in at[e] : p = job[e].path
        BY <3>1, <3>4, Zenon DEF Copying
      <4> QED
        BY <4>1, <4>2, Zenon
    <3> QED
      BY <2>a, <3>1, <3>2, <3>3, <3>4, KeptCopying, Zenon
  <2> QED
    BY <2>1, <2>2, <2>3, <2>4, <2>5, Zenon DEF StoredInv

\* A refused rename or removal: a save that was cancelled for it is lost with
\* what was stored under the name (the client learns of it).
<1>KeptRefused.
  ASSUME CapInv, CapInv', RemovalInv, StoredInv, MigrateRefused \/ BackendRefused
  PROVE  StoredInv'
  <2> USE <1>KeptRefused
  <2>t. ns \in NameOps /\ saved \in [Paths -> Versions \cup {Removed, Moved}]
    BY Zenon DEF CapInv, IInv, TypeOK
  <2>p. ns.new \in Paths
    BY <2>t, Zenon DEF NameOps
  <2>a. /\ ns.pc \in {"spooled", "migrated"} /\ \E to : EndName(to)
        /\ \/ saved' = [saved EXCEPT ![ns.new] = Removed]
           \/ saved' = saved /\ ~(ns.files # {} /\ ns.how = "backend")
        /\ UNCHANGED <<st, path, file, retired, holds, disk, data, mode, index,
                       entId, fault, wpc, job, target, buf, at>>
    BY Zenon DEF MigrateRefused, BackendRefused, table, columns, ram, work
  <2>b. \A p \in Paths : saved'[p] = saved[p] \/ (p = ns.new /\ ~(saved'[p] >= 0))
    <3>1. ~(Removed >= 0)
      BY NotStored, Zenon
    <3> QED
      BY <2>a, <2>p, <2>t, <3>1, Zenon
  <2>l. \A r \in Ids : Revivable(r)' <=> Revivable(r)
    BY <2>a, Zenon DEF Revivable, Latest, Exists, HasNewerRowForPath
  <2>1. RowsStored'
    <3> SUFFICES ASSUME NEW r \in Ids, Revivable(r), saved'[path[r]] >= 0
                 PROVE  disk[file[r]] = saved'[path[r]]
      BY <2>a, <2>l, Zenon DEF RowsStored
    <3>1. path[r] \in Paths
      BY Zenon DEF CapInv, IInv, TypeOK
    <3> QED
      BY <2>b, <3>1, Zenon DEF StoredInv, RowsStored
  <2>2. BackendStored'
    <3> SUFFICES ASSUME NEW p \in Paths, saved'[p] >= 0, Unpending(p)
                 PROVE  data[p] = saved'[p]
      BY <2>a, <2>l, Zenon DEF BackendStored, Unpending
    <3>1. saved'[p] = saved[p]
      BY <2>b, Zenon
    <3>2. ~(Cancelling(p) /\ ns.files # {})
      <4> SUFFICES ASSUME Cancelling(p), ns.files # {} PROVE FALSE
        OBVIOUS
      <4>1. p = ns.new /\ ns.how = "backend"
        BY <2>a, Zenon DEF Cancelling, RemovalInv, NamePhase
      <4>2. saved'[ns.new] = Removed
        BY <2>a, <2>p, <2>t, <4>1, Zenon
      <4> QED
        BY <4>1, <4>2, NotStored, Zenon
    <3> QED
      BY <3>1, <3>2, Zenon DEF StoredInv, BackendStored
  <2>3. ns.pc # "idle" /\ ns.pc # "cancelled"
    BY <2>a, Zenon
  <2> QED
    BY <2>1, <2>2, <2>3, <2>a, <1>KeptEnd, Zenon

<1>KeptRemove.
  ASSUME CapInv, CapInv', RemovalInv, StoredInv, remove
  PROVE  StoredInv'
  <2> USE <1>KeptRemove
  <2>t. /\ ns \in NameOps /\ saved \in [Paths -> Versions \cup {Removed, Moved}]
        /\ data \in [Paths -> Versions \cup {NoFile, Torn}]
    BY Zenon DEF CapInv, IInv, TypeOK
  <2>p. ns.new \in Paths /\ ns.old = ns.new /\ ns.pc # "idle" /\ ns.pc # "cancelled"
    BY <2>t, Zenon DEF remove, NameOps, RemovalInv, NamePhase
  <2>a. /\ ns.pc = "spooled" /\ EndName(Free)
        /\ data' = [data EXCEPT ![ns.new] = NoFile]
        /\ saved' = [saved EXCEPT ![ns.new] = Removed]
        /\ at' = Unlinked(ns.new)
        /\ UNCHANGED <<st, path, file, retired, holds, disk, mode, index, entId,
                       fault, wpc, job, target, buf>>
    BY <2>p, Zenon DEF remove, ram
  <2>b. /\ ~(saved'[ns.new] >= 0)
        /\ \A p \in Paths : p # ns.new => saved'[p] = saved[p] /\ data'[p] = data[p]
    <3>1. ~(Removed >= 0)
      BY NotStored, Zenon
    <3> QED
      BY <2>a, <2>p, <2>t, <3>1, Zenon
  <2>l. \A r \in Ids : Revivable(r)' <=> Revivable(r)
    BY <2>a, Zenon DEF Revivable, Latest, Exists, HasNewerRowForPath
  <2>1. RowsStored'
    <3> SUFFICES ASSUME NEW r \in Ids, Revivable(r), saved'[path[r]] >= 0
                 PROVE  disk[file[r]] = saved'[path[r]]
      BY <2>a, <2>l, Zenon DEF RowsStored
    <3>1. path[r] \in Paths
      BY Zenon DEF CapInv, IInv, TypeOK
    <3> QED
      BY <2>b, <3>1, Zenon DEF StoredInv, RowsStored
  <2>2. BackendStored'
    <3> SUFFICES ASSUME NEW p \in Paths, saved'[p] >= 0, Unpending(p)
                 PROVE  data'[p] = saved'[p]
      BY <2>a, <2>l, Zenon DEF BackendStored, Unpending
    <3>1. p # ns.new
      BY <2>b, Zenon
    <3>2. ~Cancelling(p)
      BY <3>1, Zenon DEF Cancelling
    <3> QED
      BY <2>b, <3>1, <3>2, Zenon DEF StoredInv, BackendStored
  <2>3. \A e \in Workers : ns.new \notin at[e] => at'[e] = at[e]
    <3> SUFFICES ASSUME NEW e \in Workers, ns.new \notin at[e] PROVE at'[e] = at[e]
      OBVIOUS
    <3>1. at'[e] = at[e] \ {ns.new}
      BY <2>a, Zenon DEF Unlinked
    <3>2. at[e] \ {ns.new} = at[e]
      BY Zenon
    <3> QED
      BY <3>1, <3>2, Zenon
  <2> QED
    BY <2>1, <2>2, <2>3, <2>a, <2>b, <2>p, <1>KeptEnd, Zenon

\* The backend rename carries what was stored under the old name, unless the
\* save was moved already.
<1>KeptRename.
  ASSUME CapInv, CapInv', RemovalInv, StoredInv, rename
  PROVE  StoredInv'
  <2> USE <1>KeptRename
  <2>t. /\ ns \in NameOps /\ saved \in [Paths -> Versions \cup {Removed, Moved}]
        /\ data \in [Paths -> Versions \cup {NoFile, Torn}]
        /\ path \in [Ids -> Paths]
    BY Zenon DEF CapInv, IInv, TypeOK
  <2>p. /\ ns.old \in Paths /\ ns.new \in Paths /\ ns.old # ns.new
        /\ ns.pc # "idle" /\ ns.pc # "cancelled" /\ ns.pc = "migrated"
    BY <2>t, Zenon DEF rename, NameOps, RemovalInv, NamePhase, CapInv,
       Structure,
       LeasesHeld, NameHolds
  <2> SUFFICES ASSUME NEW a \in Paths, NEW b \in Paths, a = ns.old, b = ns.new, a # b
               PROVE  StoredInv'
    BY <2>p, Zenon
  <2>a. /\ ns.how = "backend" => data[a] # NoFile
        /\ data' = (IF ns.how # "skip" /\ data[a] # NoFile
                    THEN [data EXCEPT ![a] = NoFile, ![b] = data[a]] ELSE data)
        /\ at' = (IF ns.how # "skip" /\ data[a] # NoFile
                  THEN [d \in Workers |-> IF a \in at[d] THEN {b} ELSE at[d] \ {b}]
                  ELSE at)
        /\ ns.how = "backend" => saved' = [saved EXCEPT ![a] = Moved, ![b] = saved[a]]
        /\ ns.how # "backend" => saved' = saved
        /\ \E to : EndName(to)
        /\ UNCHANGED <<st, path, file, retired, holds, disk, mode, index, entId,
                       fault, wpc, job, target, buf>>
    BY Zenon DEF rename, MoveSaved, ram
  <2>b. \A p \in Paths : p # a /\ p # b => data'[p] = data[p] /\ saved'[p] = saved[p]
    BY <2>a, <2>t, Zenon
  <2>c. ns.how = "backend" =>
          data'[b] = data[a] /\ saved'[b] = saved[a] /\ saved'[a] = Moved
    BY <2>a, <2>t, Zenon
  <2>l. \A r \in Ids : Revivable(r)' <=> Revivable(r)
    BY <2>a, Zenon DEF Revivable, Latest, Exists, HasNewerRowForPath
  <2>u. Unpending(a) /\ (ns.how = "backend" => Unpending(b))
        /\ (ns.how # "backend" => ~(saved[a] >= 0) /\ ~Unpending(b))
    <3>1. Unpending(a) /\ (ns.how # "backend" => ~(saved[a] >= 0) /\ ~Unpending(b))
      BY <2>p, Zenon DEF StoredInv, NameMoved
    <3>2. ns.how = "backend" => Unpending(b)
      BY <2>p, Zenon DEF RemovalInv, NameCleared, Cancelling, Unpending
    <3> QED
      BY <3>1, <3>2, Zenon
  <2>1. RowsStored'
    <3> SUFFICES ASSUME NEW r \in Ids, Revivable(r), NEW p \in Paths, p = path[r],
                        saved'[p] >= 0
                 PROVE  disk[file[r]] = saved'[p]
      BY <2>a, <2>l, <2>t, Zenon DEF RowsStored
    <3>1. p # a /\ (ns.how = "backend" => p # b)
      BY <2>u, Zenon DEF Unpending
    <3>2. saved'[p] = saved[p]
      BY <2>a, <2>b, <3>1, Zenon
    <3> QED
      BY <3>2, Zenon DEF StoredInv, RowsStored
  <2>2. BackendStored'
    <3> SUFFICES ASSUME NEW p \in Paths, saved'[p] >= 0, Unpending(p)
                 PROVE  data'[p] = saved'[p]
      BY <2>a, <2>l, Zenon DEF BackendStored, Unpending
    <3>1. ASSUME NEW q \in Paths, q # b, saved[q] >= 0, Unpending(q)
          PROVE  data[q] = saved[q]
      BY <3>1, Zenon DEF StoredInv, BackendStored, Cancelling
    <3>2. CASE p = a
      BY <2>a, <2>c, <2>u, <3>2, NotStored, Zenon
    <3>3. CASE p = b
      BY <2>c, <2>u, <3>1, <3>3, Zenon
    <3>4. CASE p # a /\ p # b
      BY <2>b, <3>1, <3>4, Zenon
    <3> QED
      BY <3>2, <3>3, <3>4, Zenon
  <2>3. \A e \in Workers : b \notin at[e] /\ a \notin at[e] => at'[e] = at[e]
    <3> SUFFICES ASSUME NEW e \in Workers, b \notin at[e], a \notin at[e]
                 PROVE  at'[e] = at[e]
      OBVIOUS
    <3>1. at'[e] = at[e] \ {b} \/ at'[e] = at[e]
      BY <2>a, Zenon
    <3>2. at[e] \ {b} = at[e]
      BY Zenon
    <3> QED
      BY <3>1, <3>2, Zenon
  <2> QED
    BY <2>1, <2>2, <2>3, <2>a, <2>b, <2>p, <1>KeptEnd, Zenon

<1> SUFFICES ASSUME CapInv, CapInv', RemovalInv, RemovalInv', StoredInv, NameOp,
                    ~BlindMigration
             PROVE  StoredInv'
  BY Zenon
<1> QED
  BY <1>KeptBegin, <1>KeptCancel, <1>KeptMigrate, <1>KeptRefused,
     <1>KeptRename, <1>KeptRemove,
     Zenon DEF NameOp

-----------------------------------------------------------------------------
(* Restarts.                                                               *)

LEMMA KeptCrash ==
  ASSUME CapInv, RemovalInv, StoredInv, Crash
  PROVE  StoredInv'
<1>t. ns \in NameOps /\ saved \in [Paths -> Versions \cup {Removed, Moved}]
  BY Zenon DEF CapInv, IInv, TypeOK
<1>p. ns.new \in Paths
  BY <1>t, Zenon DEF NameOps
<1>a. /\ mode' = "down" /\ index' = [p \in Paths |-> None]
      /\ wpc' = [d \in Workers |-> "idle"] /\ ns' = IdleName
      /\ saved' = (IF Cancelling(ns.new) THEN [saved EXCEPT ![ns.new] = Removed]
                   ELSE saved)
      /\ UNCHANGED <<st, path, file, retired, disk, data>>
  BY Zenon DEF Crash
<1>b. /\ \A p \in Paths : saved'[p] = saved[p] \/ ~(saved'[p] >= 0)
      /\ \A p \in Paths : Cancelling(p) => ~(saved'[p] >= 0)
  <2>1. ~(Removed >= 0)
    BY NotStored, Zenon
  <2>2. \A p : Cancelling(p) => p = ns.new
    BY Zenon DEF Cancelling
  <2> QED
    BY <1>a, <1>p, <1>t, <2>1, <2>2, Zenon
<1>l. \A r \in Ids : Revivable(r)' <=> Revivable(r)
  BY <1>a, Zenon DEF Revivable, Latest, Exists, HasNewerRowForPath
<1>1. RowsStored'
  <2> SUFFICES ASSUME NEW r \in Ids, Revivable(r), saved'[path[r]] >= 0
               PROVE  disk[file[r]] = saved'[path[r]]
    BY <1>a, <1>l, Zenon DEF RowsStored
  <2>1. path[r] \in Paths
    BY Zenon DEF CapInv, IInv, TypeOK
  <2> QED
    BY <1>b, <2>1, Zenon DEF StoredInv, RowsStored
<1>2. BackendStored'
  <2> SUFFICES ASSUME NEW p \in Paths, saved'[p] >= 0, Unpending(p)
               PROVE  data[p] = saved'[p]
    BY <1>a, <1>l, Zenon DEF BackendStored, Unpending
  <2> QED
    BY <1>b, Zenon DEF StoredInv, BackendStored
<1>3. HasFile'
  BY <1>a, Zenon DEF StoredInv, HasFile, Exists
<1>4. NameMoved'
  BY <1>a, IdleNamePhase, Zenon DEF NameMoved
<1>5. RowsShadowed' /\ IndexOwned'
  BY <1>a, Zenon DEF RowsShadowed, IndexOwned
<1>6. Drains'
  BY <1>a, FreshCopying, Zenon DEF Drains
<1> QED
  BY <1>1, <1>2, <1>3, <1>4, <1>5, <1>6, Zenon DEF StoredInv

\* The names and entries that the boot scan restores.
LEMMA Restored ==
  ASSUME CapInv, CapInv', RecoverOnBoot, CheckDrainCompletionRecovery,
         NEW r \in Ids, Revivable(r)
  PROVE  /\ Recovered(r) = "ready" => Shadowed(r)'
         /\ Recovered(r) = "failed" => ReadFault(path[r])'
<1>t. path \in [Ids -> Paths] /\ file \in [Ids -> Ids] /\ path[r] \in Paths
      /\ file[r] \in Ids
  BY Zenon DEF CapInv, IInv, TypeOK
<1> SUFFICES ASSUME NEW p \in Paths, NEW f \in Ids, p = path[r], f = file[r]
             PROVE  /\ Recovered(r) = "ready" => index'[p] = f /\ entId'[f] = r
                    /\ Recovered(r) = "failed" =>
                         fault'[p] # None /\ index'[p] = None
  <2>1. path' = path /\ file' = file
    BY Zenon DEF RecoverOnBoot
  <2> QED
    BY <1>t, <2>1, Zenon DEF Shadowed, ReadFault
<1> DEFINE owner(q) == {x \in Ids : path[x] = q /\ Latest(x)}
           ready == {x \in Ids : Latest(x) /\ Recovered(x) = "ready"}
           failed == {x \in Ids : Latest(x) /\ Recovered(x) = "failed"}
<1>a. /\ index' = [q \in Paths |->
           IF owner(q) \cap ready = {} THEN None
           ELSE CHOOSE g \in Ids : \E x \in owner(q) \cap ready : g = file[x]]
      /\ entId' = [g \in Ids |->
           IF \E x \in ready : file[x] = g
           THEN CHOOSE x \in ready : file[x] = g ELSE None]
      /\ fault' = [q \in Paths |-> restoreFault(q, failed)]
  BY Zenon DEF RecoverOnBoot
<1>b. Latest(r) /\ \A x \in owner(p) : x = r
  BY OneLatest, Zenon DEF Revivable, Latest
<1>1. ASSUME Recovered(r) = "ready" PROVE index'[p] = f /\ entId'[f] = r
  <2>1. r \in ready /\ r \in owner(p)
    BY <1>1, <1>b, Zenon
  <2>2. index'[p] = f
    <3>1. index'[p] = CHOOSE g \in Ids : \E x \in owner(p) \cap ready : g = file[x]
      BY <1>a, <2>1, Zenon
    <3>2. \E g \in Ids : \E x \in owner(p) \cap ready : g = file[x]
      BY <2>1, Zenon
    <3>3. \E x \in owner(p) \cap ready : index'[p] = file[x]
      BY <3>1, <3>2, Zenon
    <3> QED
      BY <1>b, <3>3, Zenon
  <2>3. entId'[f] = r
    <3>1. entId'[f] = CHOOSE x \in ready : file[x] = f
      BY <1>a, <2>1, Zenon
    <3>2. entId'[f] \in ready /\ file[entId'[f]] = f
      BY <2>1, <3>1, Zenon
    <3> HIDE DEF owner, failed
    <3> QED
      BY <1>b, <3>2, Zenon DEF Latest, CapInv, Structure, FilesOwned
  <2> QED
    BY <2>2, <2>3, Zenon
<1>2. ASSUME Recovered(r) = "failed" PROVE fault'[p] # None /\ index'[p] = None
  <2>1. r \in failed /\ r \notin ready
    BY <1>2, <1>b, Zenon
  <2>2. owner(p) \cap ready = {}
    BY <1>b, <2>1, Zenon
  <2>3. index'[p] = None
    BY <1>a, <2>2, Zenon
  <2>4. fault'[p] = CHOOSE x \in failed : path[x] = p
    BY <1>a, <2>1, Zenon DEF restoreFault
  <2>5. fault'[p] \in failed
    BY <2>1, <2>4, Zenon
  <2>6. fault'[p] \in Ids
    BY <2>5, Zenon
  <2> QED
    BY <2>3, <2>6, NotNone, Zenon
<1> QED
  BY <1>1, <1>2, Zenon

LEMMA KeptBoot ==
  ASSUME CapInv, CapInv', StoredInv, RecoverOnBoot
  PROVE  StoredInv'
<1>t. st \in [Ids -> States]
  BY Zenon DEF CapInv, IInv, TypeOK
<1>a. /\ mode = "down"
      /\ UNCHANGED <<path, file, retired, holds, disk, data, lease, wpc, job, ns,
                     saved>>
  BY Zenon DEF RecoverOnBoot, procs, work, history
<1>d. Drains'
  <2>1. \A d \in Workers : wpc'[d] = "idle"
    BY <1>a, Zenon DEF CapInv, IInv, WorkersOwn
  <2> QED
    BY <2>1, FreshCopying, Zenon DEF Drains
<1>1. CASE ~CheckDrainCompletionRecovery
  <2>1. mode' = "refused" /\ UNCHANGED <<st, index, entId, fault>>
    BY <1>1, Zenon DEF RecoverOnBoot
  <2>2. Steady
    BY <1>a, <2>1, Zenon DEF Steady, SteadyRows, Exists
  <2>3. RowsStored' /\ BackendStored' /\ HasFile' /\ NameMoved'
    BY <1>a, <2>2, KeptData, Zenon DEF StoredInv
  <2>4. RowsShadowed'
    BY <2>1, Zenon DEF RowsShadowed
  <2>5. IndexOwned'
    BY <1>a, <2>1, Zenon DEF StoredInv, IndexOwned, Retained, Completing
  <2> QED
    BY <1>d, <2>3, <2>4, <2>5, Zenon DEF StoredInv
<1>2. CASE CheckDrainCompletionRecovery
  <2> DEFINE owner(q) == {x \in Ids : path[x] = q /\ Latest(x)}
             ready == {x \in Ids : Latest(x) /\ Recovered(x) = "ready"}
  <2>1. /\ st' = [r \in Ids |-> Recovered(r)]
        /\ index' = [q \in Paths |->
             IF owner(q) \cap ready = {} THEN None
             ELSE CHOOSE g \in Ids : \E x \in owner(q) \cap ready : g = file[x]]
    BY <1>2, Zenon DEF RecoverOnBoot
  <2>2. ASSUME NEW r \in Ids
        PROVE  /\ st[r] \in {"none", "done"} => Recovered(r) = st[r]
               /\ st[r] \notin {"none", "done"} =>
                    Recovered(r) # "none" /\ Recovered(r) # "done"
               /\ Latest(r) /\ st[r] # "done" => Recovered(r) \in {"ready", "failed"}
    BY Zenon DEF Recovered, Latest, Exists
  <2>3. Steady
    <3>1. \A r \in Ids : st'[r] = Recovered(r)
      BY <2>1, Zenon
    <3>2. \A r \in Ids : (st'[r] # "none" <=> st[r] # "none")
                         /\ (st'[r] = "done" <=> st[r] = "done")
      BY <2>2, <3>1, Zenon
    <3> QED
      BY <1>a, <3>2, Zenon DEF Steady, SteadyRows, Exists
  <2>4. RowsStored' /\ BackendStored' /\ HasFile' /\ NameMoved'
    BY <1>a, <2>3, KeptData, Zenon DEF StoredInv
  <2>5. RowsShadowed'
    <3> SUFFICES ASSUME NEW r \in Ids, Revivable(r)'
                 PROVE  Shadowed(r)' \/ ReadFault(path[r])'
      BY Zenon DEF RowsShadowed
    <3>1. Revivable(r)
      BY <2>3, SteadyLife, Zenon
    <3>2. Recovered(r) \in {"ready", "failed"}
      BY <2>2, <3>1, Zenon DEF Revivable
    <3> QED
      BY <1>2, <3>1, <3>2, Restored, Zenon
  <2>6. IndexOwned'
    <3> SUFFICES ASSUME NEW p \in Paths, index'[p] # None
                 PROVE  st'[entId'[index'[p]]] \in Pending
      BY Zenon DEF IndexOwned
    <3>1. /\ owner(p) \cap ready # {}
          /\ index'[p] = CHOOSE g \in Ids : \E x \in owner(p) \cap ready : g = file[x]
      BY <2>1, Zenon
    <3>2. \E g \in Ids : \E x \in owner(p) \cap ready : g = file[x]
      BY <3>1, Zenon DEF CapInv, IInv, TypeOK
    <3>3. PICK x \in owner(p) \cap ready : index'[p] = file[x]
      BY <3>1, <3>2, Zenon
    <3>4. x \in Ids /\ Latest(x) /\ Recovered(x) = "ready" /\ path[x] = p
      BY Zenon
    <3>5. Revivable(x)
      BY <2>2, <3>4, Zenon DEF Revivable
    <3>6. Shadowed(x)'
      BY <1>2, <3>4, <3>5, Restored, Zenon
    <3>7. entId'[file[x]] = x
      BY <1>a, <3>6, Zenon DEF Shadowed
    <3>8. st'[x] = "ready"
      BY <2>1, <3>4, Zenon
    <3> QED
      BY <3>3, <3>7, <3>8, Zenon DEF Pending
  <2> QED
    BY <1>d, <2>4, <2>5, <2>6, Zenon DEF StoredInv
<1> QED
  BY <1>1, <1>2, Zenon

LEMMA KeptInit == Init => StoredInv
<1> SUFFICES ASSUME Init PROVE StoredInv
  OBVIOUS
<1>a. /\ st = [r \in Ids |-> "none"] /\ index = [p \in Paths |-> None]
      /\ ns = IdleName /\ wpc = [d \in Workers |-> "idle"]
      /\ data = [p \in Paths |-> IF p \in Existing THEN 1 ELSE NoFile]
      /\ saved = [p \in Paths |-> IF p \in Existing THEN 1 ELSE Removed]
  BY Zenon DEF Init
<1>1. RowsStored /\ HasFile /\ RowsShadowed
  BY <1>a, Zenon
     DEF RowsStored, HasFile, RowsShadowed, Revivable, Latest, Exists
<1>2. BackendStored
  <2> SUFFICES ASSUME NEW p \in Paths, saved[p] >= 0 PROVE data[p] = saved[p]
    BY Zenon DEF BackendStored
  <2>1. ~(Removed >= 0)
    BY NotStored, Zenon
  <2> QED
    BY <1>a, <2>1, Zenon
<1>3. NameMoved
  BY <1>a, IdleNamePhase, Zenon DEF NameMoved
<1>4. IndexOwned /\ Drains
  BY <1>a, Zenon DEF IndexOwned, Drains, Copying
<1> QED
  BY <1>1, <1>2, <1>3, <1>4, Zenon DEF StoredInv

LEMMA KeptStep ==
  ASSUME CapInv, CapInv', RemovalInv, RemovalInv', StoredInv, [Next]_vars,
         [~Exceptional]_vars
  PROVE  StoredInv'
<1>1. CASE UNCHANGED vars
  <2>1. UNCHANGED <<st, path, file, retired, holds, disk, data, saved, mode,
                    index, entId, fault, ns, wpc, job, target, at, buf, lease>>
    BY <1>1, Zenon DEF vars, table, columns, ram, procs, work, history
  <2> QED
    BY <2>1, KeptQuiet, Zenon
<1>2. CASE Next /\ ~Exceptional
  <2>1. ~StaleCollection /\ ~LateCopy /\ ~BlindMigration /\ ~BlindOpen
    BY <1>2, Zenon DEF Exceptional
  <2> QED
    BY <1>2, <2>1, KeptClient, KeptSweeper, KeptMaintenance, KeptNameOp,
       KeptCrash,
       KeptBoot, KeptWorker, Zenon DEF Next
<1> QED
  BY <1>1, <1>2, Zenon

-----------------------------------------------------------------------------
(* What the invariant says to clients.                                     *)

LEMMA StoredRetained == StoredInv => SavedBytesRetained
<1> SUFFICES ASSUME StoredInv, NEW p \in Paths, saved[p] >= 0, ~Cancelling(p)
             PROVE  \/ \E r \in Ids : Exists(r) /\ disk[file[r]] = saved[p]
                    \/ \E q \in Paths : data[q] = saved[p]
  BY Zenon DEF SavedBytesRetained
<1>1. CASE Unpending(p)
  BY <1>1, Zenon DEF StoredInv, BackendStored
<1>2. CASE ~Unpending(p)
  <2>1. PICK r \in Ids : Revivable(r) /\ path[r] = p
    BY <1>2, Zenon DEF Unpending
  <2>2. disk[file[r]] = saved[p]
    BY <2>1, Zenon DEF StoredInv, RowsStored
  <2> QED
    BY <2>1, <2>2, Zenon DEF Revivable, Latest
<1> QED
  BY <1>1, <1>2, Zenon

LEMMA StoredFresh == CapInv /\ StoredInv => FreshReads
<1> SUFFICES ASSUME CapInv, StoredInv, NEW p \in Paths, Settled(p), saved[p] >= 0,
                    ~ReadFault(p)
             PROVE  Read(p) = saved[p]
  <2>1. ASSUME NEW p \in Paths, ReadFault(p) PROVE Read(p) = EIO
    BY <2>1, Zenon DEF Read
  <2> QED
    BY <2>1, Zenon DEF FreshReads
<1>a. mode = "up" /\ lease[p] = Free
  BY Zenon DEF Settled
<1>b. /\ Free # Handler /\ Free # Poisoned /\ \A d \in Workers : Free # d
  BY SpoolAssumption, Zenon DEF Free, Handler, Poisoned
<1>c. ns.pc # "idle" => p # ns.new
  BY <1>a, <1>b, Zenon DEF CapInv, Structure, LeasesHeld, NameHolds
<1>1. CASE index[p] = None
  <2>1. Unpending(p)
    <3> SUFFICES ASSUME NEW r \in Ids, Revivable(r), path[r] = p PROVE FALSE
      BY Zenon DEF Unpending
    <3>1. Shadowed(r)
      BY <1>a, Zenon DEF StoredInv, RowsShadowed
    <3>2. file[r] \in Ids
      BY Zenon DEF CapInv, IInv, TypeOK
    <3> QED
      BY <1>1, <3>1, <3>2, NotNone, Zenon DEF Shadowed
  <2>2. data[p] = saved[p]
    BY <1>c, <2>1, Zenon DEF StoredInv, BackendStored, Cancelling
  <2> QED
    BY <1>1, <2>2, Zenon DEF Read
<1>2. CASE index[p] # None
  <2>1. Shadow(p)
    BY Zenon DEF CapInv, Structure, Shadows
  <2>2. PICK f \in Ids : f = index[p]
    BY <1>2, Zenon DEF CapInv, IInv, TypeOK
  <2>3. PICK x \in Ids : x = entId[f]
    BY <1>2, <2>1, <2>2, Zenon DEF CapInv, IInv, TypeOK, Shadow
  <2>4. st[x] \in Pending \/ Retained(x, p)
    BY <1>2, <1>c, <2>2, <2>3, Zenon DEF StoredInv, IndexOwned
  <2>5. ~Retained(x, p)
    <3>1. ~Completing(x, p)
      BY <1>a, <1>b, Zenon
         DEF Completing, CapInv, Structure, LeasesHeld, WorkerHolds
    <3> QED
      BY <1>a, <1>b, <3>1, Zenon DEF Retained
  <2>6. path[x] = p /\ file[x] = f
    BY <1>2, <2>1, <2>2, <2>3, <2>4, <2>5, Zenon DEF Shadow
  <2>7. Revivable(x)
    BY <2>4, <2>5, PendingRevivable, Zenon
  <2>8. disk[f] = saved[p]
    BY <2>6, <2>7, Zenon DEF StoredInv, RowsStored
  <2> QED
    BY <1>2, <2>2, <2>8, Zenon DEF Read
<1> QED
  BY <1>1, <1>2, Zenon
=============================================================================
