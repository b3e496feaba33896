---------------------------- MODULE LeaseProofs ----------------------------
(***************************************************************************)
(* The lease table is coherent, every write stays inside its tenure, and   *)
(* no drain replaces what another Mac wrote since its save, for any number *)
(* of Macs, epochs, saves and faults.                                      *)
(***************************************************************************)
EXTENDS ProjectLease, TLAPS

\* The types that the proofs of coherence and of the fence use.
TableOK == /\ rec \in Leases /\ mem \in Leases
           /\ unit \in [Macs -> Units] /\ stray \in [Macs -> Units]

\* A request that is under way was sent by a Mac.
Senders == \A r \in late : r.m \in Macs

\* Fenced alone is not inductive: a unit is admitted on the strength of the
\* proxy's table, and belongs to the tenure in Redis because the two agree.
LeaseInv == TableOK /\ Coherent /\ Fenced

-----------------------------------------------------------------------------
(* What a step may do to the table and to the units.                        *)

\* A step that changes the table needs the fence, so no unit is in flight.
LEMMA Tabled ==
  ASSUME LeaseInv, Fence, UNCHANGED units, rec' \in Leases, mem' \in Leases,
         unresolved' \/ mem' = rec'
  PROVE  LeaseInv'
  BY Zenon DEF LeaseInv, TableOK, Coherent, Fenced, Fence, units

\* A step that leaves table and units alone.
LEMMA Idle ==
  ASSUME LeaseInv, UNCHANGED <<rec, mem, unresolved>>, UNCHANGED units
  PROVE  LeaseInv'
  BY Zenon DEF LeaseInv, TableOK, Coherent, Fenced, units

\* A grant or an end of a tenure is a lease again, within the epoch's bound.
LEMMA NextLease ==
  ASSUME LeaseInv
  PROVE  /\ rec.epoch \in Nat
         /\ rec.epoch < MaxEpoch => End \in Leases /\ \A m \in Macs : Grant(m) \in Leases
         /\ End.epoch = rec.epoch + 1 /\ \A m \in Macs : Grant(m).epoch = rec.epoch + 1
<1>1. rec \in Leases BY Zenon DEF LeaseInv, TableOK
<1>2. rec.epoch \in Epochs /\ rec.hist \in [Macs -> Epochs] BY <1>1, Zenon
  DEF Leases
<1>3. rec.epoch \in Nat BY <1>2 DEF Epochs
<1>4. rec.epoch < MaxEpoch => rec.epoch + 1 \in Epochs
  BY <1>3, LeaseAssumption DEF Epochs
<1>5. End.epoch = rec.epoch + 1 BY <1>1, Zenon DEF End, Leases
<1>6. rec.epoch < MaxEpoch => End \in Leases BY <1>1, <1>4, Zenon
  DEF End, Leases
<1>7. ASSUME NEW m \in Macs, rec.epoch < MaxEpoch PROVE Grant(m) \in Leases
  <2>1. [rec.hist EXCEPT ![m] = rec.epoch + 1] \in [Macs -> Epochs]
    BY <1>2, <1>4, <1>7, Zenon
  <2> QED BY <1>4, <1>7, <2>1, Zenon DEF Grant, Leases
<1> QED BY <1>3, <1>5, <1>6, <1>7, Zenon DEF Grant

LEMMA Transits ==
  ASSUME LeaseInv, Fence, UNCHANGED units, NEW l,
         l = End \/ \E m \in Macs : l = Grant(m), transition(l)
  PROVE  LeaseInv'
<1>1. rec.epoch < MaxEpoch /\ rec' = l /\ mem' = l BY Zenon DEF transition
<1>2. l \in Leases BY <1>1, NextLease, Zenon
<1> QED BY <1>1, <1>2, Tabled, Zenon

LEMMA StoreErrs ==
  ASSUME LeaseInv, Fence, UNCHANGED units, NEW l,
         l = rec \/ l = End \/ \E m \in Macs : l = Grant(m), storeFails(l)
  PROVE  LeaseInv'
<1>1. l.epoch <= MaxEpoch /\ (rec' = rec \/ rec' = l) /\ unresolved' /\ mem' = mem
  BY Zenon DEF storeFails
<1>2. rec \in Leases /\ mem \in Leases BY Zenon DEF LeaseInv, TableOK
<1>3. l \in Leases
  <2>1. CASE l = rec BY <1>2, <2>1, Zenon
  <2>2. CASE l # rec
    <3>1. l.epoch = rec.epoch + 1 /\ rec.epoch \in Nat BY <2>2, NextLease, Zenon
    <3>2. rec.epoch < MaxEpoch BY <1>1, <3>1, LeaseAssumption
    <3> QED BY <2>2, <3>2, NextLease, Zenon
  <2> QED BY <2>1, <2>2, Zenon
<1> QED BY <1>1, <1>2, <1>3, Tabled, Zenon

LEMMA Grants ==
  ASSUME LeaseInv, UNCHANGED units, NEW m \in Macs, grantLocked(m)
  PROVE  LeaseInv'
<1>1. CASE Free
  <2>1. Fence /\ transition(Grant(m)) BY <1>1, Zenon DEF grantLocked
  <2> QED BY <2>1, Transits, Zenon
<1>2. CASE ~Free
  <2>1. UNCHANGED proxy BY <1>2, Zenon DEF grantLocked
  <2> QED BY <2>1, Idle, Zenon DEF proxy
<1> QED BY <1>1, <1>2, Zenon

LEMMA Ends ==
  ASSUME LeaseInv, UNCHANGED units, endLocked
  PROVE  LeaseInv'
BY Transits, Zenon DEF endLocked

LEMMA Releases ==
  ASSUME LeaseInv, UNCHANGED units, NEW m, NEW e, cmdRelease(m, e)
  PROVE  LeaseInv'
<1>1. CASE Holder = m /\ mem.epoch = e
  <2>1. endLocked BY <1>1, Zenon DEF cmdRelease
  <2> QED BY <2>1, Ends, Zenon
<1>2. CASE ~(Holder = m /\ mem.epoch = e)
  <2>1. UNCHANGED proxy BY <1>2, Zenon DEF cmdRelease
  <2> QED BY <2>1, Idle, Zenon DEF proxy
<1> QED BY <1>1, <1>2, Zenon

LEMMA GrantErrs ==
  ASSUME LeaseInv, UNCHANGED units, NEW m \in Macs, grantFails(m)
  PROVE  LeaseInv'
<1>1. Fence /\ storeFails(Grant(m)) BY Zenon DEF grantFails
<1> QED BY <1>1, StoreErrs, Zenon

\* A context of a Mac that asks for the lease.
LEMMA Asks ==
  ASSUME LeaseInv, UNCHANGED units, NEW c, NEW m \in Macs, Ask(c, m)
  PROVE  LeaseInv'
<1>1. CASE grantLocked(m) BY <1>1, Grants, Zenon
<1>2. CASE grantFails(m) BY <1>2, GrantErrs, Zenon
<1>3. CASE renewFails(m)
  <2>1. Fence /\ storeFails(rec) BY <1>3, Zenon DEF renewFails
  <2> QED BY <2>1, StoreErrs, Zenon
<1>4. CASE GivesUp(Acquire(m))
  <2>1. UNCHANGED proxy BY <1>4, Zenon DEF GivesUp
  <2> QED BY <2>1, Idle, Zenon DEF proxy
<1> QED BY <1>1, <1>2, <1>3, <1>4, Zenon DEF Ask

\* A Mac that gives the lease back.
LEMMA LetsGo ==
  ASSUME LeaseInv, UNCHANGED units, NEW m \in Macs, NEW cost, releaseNow(m, cost)
  PROVE  LeaseInv'
<1>1. CASE cmdRelease(m, cl[m].epoch) BY <1>1, Releases, Zenon
<1>2. CASE releaseFails(m, cl[m].epoch)
  <2>1. Fence /\ storeFails(End) BY <1>2, Zenon DEF releaseFails
  <2> QED BY <2>1, StoreErrs, Zenon
<1>3. CASE GivesUp(ReleaseOf(m))
  <2>1. UNCHANGED proxy BY <1>3, Zenon DEF GivesUp
  <2> QED BY <2>1, Idle, Zenon DEF proxy
<1> QED BY <1>1, <1>2, <1>3, Zenon DEF releaseNow

-----------------------------------------------------------------------------
(* One lemma per part of the system.                                        *)

LEMMA ClientStep ==
  ASSUME LeaseInv, NEW m \in Macs, Client(m) \/ Release(m)
  PROVE  LeaseInv'
<1>1. CASE acquireAsync(m)
  <2>1. UNCHANGED units /\ (UNCHANGED proxy \/ Ask("loop", m)) BY <1>1, Zenon
    DEF acquireAsync
  <2> QED BY <2>1, Asks, Idle, Zenon DEF proxy
<1>2. CASE Tick(m)
  <2>1. UNCHANGED units /\ UNCHANGED <<rec, mem, unresolved>>
    BY <1>2, Zenon DEF Tick, heartbeat
  <2> QED BY <2>1, Idle, Zenon
<1>3. CASE retryWaiting(m)
  <2>1. UNCHANGED units /\ Ask("loop", m) BY <1>3, Zenon DEF retryWaiting
  <2> QED BY <2>1, Asks, Zenon
<1>4. CASE LoopAnswered(m) BY <1>4, Idle, Zenon DEF LoopAnswered, proxy
<1>5. CASE DeferredRelease(m)
  <2>1. UNCHANGED units /\ releaseNow(m, {}) BY <1>5, Zenon DEF DeferredRelease
  <2> QED BY <2>1, LetsGo, Zenon
<1>6. CASE Release(m)
  <2>1. UNCHANGED units /\ (UNCHANGED proxy \/ releaseNow(m, {"event"}))
    BY <1>6, Zenon DEF Release
  <2> QED BY <2>1, LetsGo, Idle, Zenon DEF proxy
<1> QED BY <1>1, <1>2, <1>3, <1>4, <1>5, <1>6, Zenon DEF Client

\* The proxy admits a unit of the holder: its table says so, and agrees with
\* Redis.
LEMMA Admits ==
  ASSUME LeaseInv, NEW m \in Macs, Admit(m)
  PROVE  LeaseInv'
<1> DEFINE u == [st |-> "sent", at |-> mem.epoch, place |-> row[m].st = "write"]
<1>1. /\ Holder = m /\ unit' = [unit EXCEPT ![m] = u]
      /\ UNCHANGED <<rec, mem, unresolved, stray>>
  BY Zenon DEF Admit
<1>2. TableOK /\ Coherent /\ Fenced BY Zenon DEF LeaseInv
<1>3. mem.epoch \in Epochs BY <1>2, Zenon DEF TableOK, Leases
<1>4. u \in Units BY <1>3, Zenon DEF Units
<1>5. m # Nobody BY LeaseAssumption, Zenon
<1>6. rec.holder = m /\ rec.epoch = mem.epoch
  BY <1>1, <1>2, <1>5, Zenon DEF Holder, Coherent
<1>7. TableOK' BY <1>1, <1>2, <1>4, Zenon DEF TableOK
<1>8. Fenced'
  <2> SUFFICES ASSUME NEW n \in Macs, NEW v \in {unit'[n], stray'[n]}, v.st = "sent"
               PROVE  rec'.holder = n /\ rec'.epoch = v.at
    BY Zenon DEF Fenced
  <2>1. CASE n = m /\ v = unit'[n]
    <3>1. v = u BY <1>1, <1>2, <2>1, Zenon DEF TableOK
    <3> QED BY <1>1, <1>6, <2>1, <3>1
  <2>2. CASE ~(n = m /\ v = unit'[n])
    <3>1. v \in {unit[n], stray[n]} BY <1>1, <1>2, <2>2, Zenon DEF TableOK
    <3> QED BY <1>1, <1>2, <3>1, Zenon DEF Fenced
  <2> QED BY <2>1, <2>2, Zenon
<1> QED BY <1>1, <1>2, <1>7, <1>8, Zenon DEF LeaseInv, Coherent

\* A step that only ends units, or moves one to a dead connection.
LEMMA UnitsOnly ==
  ASSUME LeaseInv, UNCHANGED <<rec, mem, unresolved>>,
         unit' \in [Macs -> Units], stray' \in [Macs -> Units],
         \A n \in Macs : \A v \in {unit'[n], stray'[n]} :
            v.st = "sent" => v \in {unit[n], stray[n]}
  PROVE  LeaseInv'
BY Zenon DEF LeaseInv, TableOK, Coherent, Fenced

LEMMA DrainStep ==
  ASSUME LeaseInv, NEW m \in Macs, Drain(m)
  PROVE  LeaseInv'
<1>1. CASE leaseGate(m)
  <2>1. UNCHANGED units /\ (UNCHANGED proxy \/ Ask("drain", m)) BY <1>1, Zenon
    DEF leaseGate
  <2> QED BY <2>1, Asks, Idle, Zenon DEF proxy
<1>2. CASE GateAnswered(m) BY <1>2, Idle, Zenon DEF GateAnswered, proxy
<1>3. CASE openDrainTarget(m) BY <1>3, Idle, Zenon DEF openDrainTarget, proxy
<1>4. CASE Deny(m) BY <1>4, Idle, Zenon DEF Deny, proxy
<1>5. CASE ImplicitGrant(m)
  <2>1. UNCHANGED units /\ (grantLocked(m) \/ grantFails(m)) BY <1>5, Zenon
    DEF ImplicitGrant
  <2> QED BY <2>1, Grants, GrantErrs, Zenon
<1>6. CASE Admit(m) BY <1>6, Admits, Zenon
<1>7. CASE Commit(m)
  <2>1. /\ unit' = [unit EXCEPT ![m].st = "applied"]
        /\ UNCHANGED <<rec, mem, unresolved, stray>>
    BY <1>7, Zenon DEF Commit, proxy
  <2>2. unit \in [Macs -> Units] /\ stray \in [Macs -> Units] BY Zenon
    DEF LeaseInv, TableOK
  <2>3. unit' \in [Macs -> Units] BY <2>1, <2>2, Zenon DEF Units
  <2>4. \A n \in Macs : unit'[n].st = "sent" => unit'[n] = unit[n]
    BY <2>1, <2>2, Zenon DEF Units
  <2> QED BY <2>1, <2>2, <2>3, <2>4, UnitsOnly, Zenon
<1>8. CASE Done(m)
  <2>1. unit' = [unit EXCEPT ![m] = NoUnit] /\ UNCHANGED <<rec, mem, unresolved, stray>>
    BY <1>8, Zenon DEF Done, proxy
  <2>2. unit \in [Macs -> Units] /\ stray \in [Macs -> Units] BY Zenon
    DEF LeaseInv, TableOK
  <2>3. NoUnit \in Units /\ NoUnit.st # "sent" BY LeaseAssumption DEF NoUnit,
  Units, Epochs
  <2>4. unit' \in [Macs -> Units] BY <2>1, <2>2, <2>3, Zenon
  <2>5. \A n \in Macs : unit'[n].st = "sent" => unit'[n] = unit[n] BY <2>1,
     <2>2, <2>3, Zenon
  <2> QED BY <2>1, <2>2, <2>4, <2>5, UnitsOnly, Zenon
<1> QED BY <1>1, <1>2, <1>3, <1>4, <1>5, <1>6, <1>7, <1>8, Zenon DEF Drain

LEMMA FaultStep ==
  ASSUME LeaseInv, NEW m \in Macs,
         \/ \E b \in Bases : probeBase(m, b)
         \/ Lost(m) \/ CommitStray(m) \/ killUpstream(m) \/ GrowsOld(m) \/ Relaunch(m)
  PROVE  LeaseInv'
<1>0. /\ unit \in [Macs -> Units] /\ stray \in [Macs -> Units]
      /\ NoUnit \in Units /\ NoUnit.st # "sent"
  BY LeaseAssumption DEF LeaseInv, TableOK, NoUnit, Units, Epochs
<1>1. CASE \E b \in Bases : probeBase(m, b) BY <1>1, Idle, Zenon
  DEF probeBase, proxy
<1>2. CASE Lost(m)
  <2>1. /\ stray' = [stray EXCEPT ![m] = unit[m]] /\ unit' = [unit EXCEPT ![m] = NoUnit]
        /\ UNCHANGED <<rec, mem, unresolved>>
    BY <1>2, Zenon DEF Lost, proxy
  <2>2. unit' \in [Macs -> Units] /\ stray' \in [Macs -> Units] BY <1>0, <2>1,
     Zenon
  <2>3. \A n \in Macs : \A v \in {unit'[n], stray'[n]} :
          v.st = "sent" => v \in {unit[n], stray[n]}
    BY <1>0, <2>1, Zenon
  <2> QED BY <2>1, <2>2, <2>3, UnitsOnly, Zenon
<1>3. CASE CommitStray(m)
  <2>1. /\ stray' = [stray EXCEPT ![m].st = "applied"]
        /\ UNCHANGED <<rec, mem, unresolved, unit>>
    BY <1>3, Zenon DEF CommitStray, proxy
  <2>2. stray' \in [Macs -> Units] BY <1>0, <2>1, Zenon DEF Units
  <2>3. \A n \in Macs : stray'[n].st = "sent" => stray'[n] = stray[n]
    BY <1>0, <2>1, Zenon DEF Units
  <2> QED BY <1>0, <2>1, <2>2, <2>3, UnitsOnly, Zenon
<1>4. CASE killUpstream(m)
  <2>1. stray' = [stray EXCEPT ![m] = NoUnit] /\ UNCHANGED <<rec, mem, unresolved, unit>>
    BY <1>4, Zenon DEF killUpstream, proxy
  <2>2. stray' \in [Macs -> Units] BY <1>0, <2>1, Zenon
  <2>3. \A n \in Macs : stray'[n].st = "sent" => stray'[n] = stray[n] BY <1>0,
     <2>1, Zenon
  <2> QED BY <1>0, <2>1, <2>2, <2>3, UnitsOnly, Zenon
<1>5. CASE GrowsOld(m) BY <1>5, Idle, Zenon DEF GrowsOld, proxy
<1>6. CASE Relaunch(m) BY <1>6, Idle, Zenon DEF Relaunch, proxy
<1> QED BY <1>1, <1>2, <1>3, <1>4, <1>5, <1>6, Zenon

LEMMA ProxyStep ==
  ASSUME LeaseInv,
         sweep \/ cmdBreak \/ flushDirty \/ loadLeases \/ \E r \in late : Deliver(r),
         Senders
  PROVE  LeaseInv'
<1>1. CASE sweep
  <2>1. UNCHANGED units /\ endLocked BY <1>1, Zenon DEF sweep
  <2> QED BY <2>1, Ends, Zenon
<1>2. CASE cmdBreak
  <2>1. UNCHANGED units /\ endLocked BY <1>2, Zenon DEF cmdBreak
  <2> QED BY <2>1, Ends, Zenon
<1>3. CASE flushDirty
  <2>1. Fence /\ UNCHANGED units /\ storeFails(rec) BY <1>3, Zenon
    DEF flushDirty
  <2> QED BY <2>1, StoreErrs, Zenon
<1>4. CASE loadLeases
  <2>1. /\ mem' = rec /\ rec' = rec
        /\ unit' = [n \in Macs |-> NoUnit] /\ stray' = [n \in Macs |-> NoUnit]
    BY <1>4, Zenon DEF loadLeases
  <2>2. NoUnit \in Units /\ NoUnit.st # "sent" BY LeaseAssumption DEF NoUnit,
  Units, Epochs
  <2> QED BY <2>1, <2>2, Zenon DEF LeaseInv, TableOK, Coherent, Fenced
<1>5. CASE \E r \in late : Deliver(r)
  <2>1. PICK r \in late : UNCHANGED units /\ serve(r) BY <1>5, Zenon DEF Deliver
  <2>2. r.m \in Macs BY Zenon DEF Senders
  <2>3. CASE grantLocked(r.m) BY <2>1, <2>2, <2>3, Grants, Zenon
  <2>4. CASE cmdRelease(r.m, r.epoch) BY <2>1, <2>4, Releases, Zenon
  <2> QED BY <2>1, <2>3, <2>4, Zenon DEF serve
<1> QED BY <1>1, <1>2, <1>3, <1>4, <1>5, Zenon

LEMMA SendersStep == ASSUME Senders, [Next]_vars PROVE Senders'
<1>1. ASSUME NEW m \in Macs, NEW c, Ask(c, m) PROVE Senders'
  BY <1>1 DEF Ask, GivesUp, Acquire, Senders
<1>2. ASSUME NEW m \in Macs, NEW cost, releaseNow(m, cost) PROVE Senders'
  BY <1>2 DEF releaseNow, GivesUp, ReleaseOf, Senders
<1>3. ASSUME UNCHANGED late PROVE Senders'
  BY <1>3, Zenon DEF Senders
<1>4. ASSUME NEW m \in Macs, Client(m) \/ Release(m) PROVE Senders'
  <2>1. UNCHANGED late \/ Ask("loop", m) \/ \E cost \in {{}, {"event"}} : releaseNow(m, cost)
    BY <1>4, Zenon
    DEF Client, acquireAsync, Tick, retryWaiting, LoopAnswered, DeferredRelease,
                Release
  <2> QED BY <1>1, <1>2, <1>3, <2>1, Zenon
<1>5. ASSUME NEW m \in Macs, Drain(m) PROVE Senders'
  <2>1. UNCHANGED late \/ Ask("drain", m)
    BY <1>5, Zenon
    DEF Drain, leaseGate, GateAnswered, openDrainTarget, Deny, ImplicitGrant,
                Admit, Commit, Done
  <2> QED BY <1>1, <1>3, <2>1, Zenon
<1>6. ASSUME NEW m \in Macs, 
             \/ \E b \in Bases : probeBase(m, b)
             \/ Lost(m) \/ CommitStray(m) \/ killUpstream(m) \/ GrowsOld(m) \/ Relaunch(m)
      PROVE  Senders'
  BY <1>3, <1>6, Zenon
  DEF probeBase, Lost, CommitStray, killUpstream, GrowsOld, Relaunch
<1>7. ASSUME sweep \/ cmdBreak \/ flushDirty \/ loadLeases PROVE Senders'
  BY <1>3, <1>7, Zenon DEF sweep, cmdBreak, flushDirty, loadLeases
<1>8. ASSUME NEW r \in late, Deliver(r) PROVE Senders'
  BY <1>8, Zenon DEF Deliver, Senders
<1>9. CASE UNCHANGED vars BY <1>3, <1>9, Zenon DEF vars
<1> QED BY <1>4, <1>5, <1>6, <1>7, <1>8, <1>9, Zenon DEF Next

LEMMA NextStep == ASSUME LeaseInv, Senders, [Next]_vars PROVE LeaseInv'
<1>1. CASE UNCHANGED vars BY <1>1, Idle, Zenon DEF vars, proxy
<1> QED BY <1>1, ClientStep, DrainStep, FaultStep, ProxyStep, Zenon DEF Next

LEMMA InitInv == Init => LeaseInv /\ Senders
<1> SUFFICES ASSUME Init PROVE LeaseInv /\ Senders BY Zenon
<1>1. 0 \in Epochs BY LeaseAssumption DEF Epochs
<1>2. NoUnit \in Units /\ NoUnit.st # "sent" BY <1>1, Zenon DEF NoUnit, Units
<1>3. rec \in Leases /\ mem = rec BY <1>1, Zenon DEF Init, Leases
<1>4. unit = [m \in Macs |-> NoUnit] /\ stray = [m \in Macs |-> NoUnit] /\ late = {}
  BY Zenon DEF Init
<1> QED BY <1>2, <1>3, <1>4, Zenon
  DEF LeaseInv, TableOK, Coherent, Fenced, Senders

LEMMA LeaseAlways == Spec => []LeaseInv
<1>1. Init => LeaseInv /\ Senders BY InitInv, Zenon
<1>2. LeaseInv /\ Senders /\ [Next]_vars => (LeaseInv /\ Senders)'
  BY NextStep, SendersStep, Zenon
<1> QED BY <1>1, <1>2, PTL DEF Spec

-----------------------------------------------------------------------------
\* The proxy's table and the record in Redis agree, or the project is in
\* quarantine (LeaseEngine.transition and loadLeases).
THEOREM TableCoherent == Spec => []Coherent
<1>1. LeaseInv => Coherent BY Zenon DEF LeaseInv
<1> QED BY <1>1, LeaseAlways, PTL

\* Every write unit that Redis may still apply belongs to the present tenure
\* of its project (LeaseEngine.Decide, grantLocked and endLocked).
THEOREM WritesFenced == Spec => []Fenced
<1>1. LeaseInv => Fenced BY Zenon DEF LeaseInv
<1> QED BY <1>1, LeaseAlways, PTL

-----------------------------------------------------------------------------
(* Types.                                                                   *)

States == [held : BOOLEAN, epoch : Epochs, fresh : BOOLEAN, known : BOOLEAN,
           foreignBefore : Epochs, wanted : BOOLEAN, touched : BOOLEAN]
Replies == [status : Statuses, epoch : Epochs, foreign : BOOLEAN]
Rows == [st : RowStates, acc : Epochs, base : Bases \cup {"present", "claimed"},
         seen : Nat, tainted : BOOLEAN, dec : Epochs, sure : BOOLEAN]
Files == [ver : Nat, by : Macs \cup {Nobody}]

ProxyOK == unresolved \in BOOLEAN /\ pending \in {"unheard", "none", "some"}
ClientOK == cl \in [Macs -> States] /\ loop \in [Macs -> {"idle", "touch", "retry"}]
CallOK == call \in [Macs -> [Contexts -> Replies]]
SaveOK == row \in [Macs -> Rows] /\ file \in Files
UntoldOK == untold \in [Macs -> SUBSET Epochs]
LateOK == late \subseteq Requests
CountOK == count \in [DOMAIN Bounds -> Nat]

LEMMA TypeParts ==
  TypeOK <=> /\ TableOK /\ ProxyOK /\ ClientOK /\ CallOK /\ SaveOK /\ UntoldOK
             /\ LateOK /\ CountOK
BY Zenon
DEF TypeOK, TableOK, ProxyOK, ClientOK, CallOK, SaveOK, UntoldOK, LateOK,
CountOK,
       States, Replies, Rows, Files

LEMMA Counted == ASSUME CountOK, NEW K, SpendAll(K) PROVE CountOK'
<1>1. count' = [k \in DOMAIN Bounds |-> count[k] + IF k \in K THEN 1 ELSE 0]
  BY Zenon DEF SpendAll
<1>2. ASSUME NEW k \in DOMAIN Bounds PROVE count[k] + (IF k \in K THEN 1 ELSE 0) \in Nat
  BY DEF CountOK
<1> QED BY <1>1, <1>2, Zenon DEF CountOK

LEMMA CountedOne == ASSUME CountOK, NEW k, Spend(k) PROVE CountOK'
BY Counted, Zenon DEF Spend

LEMMA StateTypes ==
  ASSUME TypeOK, NEW m \in Macs
  PROVE  /\ cl[m] \in States /\ NoState \in States /\ beaten(m) \in States
         /\ \A r \in Replies : acquired(m, r) \in States
<1>1. cl[m] \in States BY TypeParts, Zenon DEF ClientOK
<1>2. NoState \in States BY LeaseAssumption DEF NoState, States, Epochs
<1>3. mem.epoch \in Epochs /\ 0 \in Epochs
  BY TypeParts, LeaseAssumption DEF TableOK, Leases, Epochs
<1>4. beaten(m) \in States
  <2> DEFINE st == [cl[m] EXCEPT !.known = @ \/ cl[m].held]
  <2>1. st \in States BY <1>1, Zenon DEF States
  <2>2. [st EXCEPT !.held = TRUE, !.epoch = mem.epoch, !.fresh = TRUE] \in States
    BY <1>3, <2>1, Zenon DEF States
  <2>3. [st EXCEPT !.held = FALSE, !.epoch = 0, !.fresh = FALSE] \in States
    BY <1>3, <2>1, Zenon DEF States
  <2> QED BY <2>1, <2>2, <2>3, Zenon DEF beaten
<1>5. ASSUME NEW r \in Replies PROVE acquired(m, r) \in States
  <2>1. r.epoch \in Epochs BY Zenon DEF Replies
  <2>2. [cl[m] EXCEPT !.held = TRUE, !.epoch = r.epoch, !.fresh = TRUE,
                      !.foreignBefore = IF r.status = "GRANTED" /\ r.foreign
                                        THEN r.epoch ELSE @] \in States
    BY <1>1, <2>1, Zenon DEF States
  <2>3. [cl[m] EXCEPT !.held = FALSE, !.epoch = 0, !.fresh = FALSE] \in States
    BY <1>1, <1>3, Zenon DEF States
  <2> QED BY <1>1, <2>2, <2>3, Zenon DEF acquired
<1> QED BY <1>1, <1>2, <1>4, <1>5, Zenon

LEMMA StateUpdates ==
  ASSUME NEW f \in [Macs -> States], NEW m \in Macs, NEW b \in BOOLEAN
  PROVE  /\ [f EXCEPT ![m].touched = b] \in [Macs -> States]
         /\ [f EXCEPT ![m].wanted = b] \in [Macs -> States]
         /\ [f EXCEPT ![m].fresh = b] \in [Macs -> States]
         /\ [f EXCEPT ![m].held = FALSE, ![m].epoch = 0, ![m].fresh = FALSE] \in [Macs -> States]
         /\ [f EXCEPT ![m].wanted = FALSE, ![m].held = FALSE, ![m].epoch = 0,
                      ![m].fresh = FALSE] \in [Macs -> States]
<1>1. f[m] \in States /\ 0 \in Epochs BY LeaseAssumption DEF Epochs
<1>2. [f[m] EXCEPT !.touched = b] \in States BY <1>1, Zenon DEF States
<1>3. [f[m] EXCEPT !.wanted = b] \in States BY <1>1, Zenon DEF States
<1>4. [f[m] EXCEPT !.fresh = b] \in States BY <1>1, Zenon DEF States
<1>5. [f[m] EXCEPT !.held = FALSE, !.epoch = 0, !.fresh = FALSE] \in States
  BY <1>1, Zenon DEF States
<1>6. [f[m] EXCEPT !.wanted = FALSE, !.held = FALSE, !.epoch = 0, !.fresh = FALSE] \in States
  BY <1>1, Zenon DEF States
<1>7. [f EXCEPT ![m].touched = b] \in [Macs -> States] BY <1>2, Zenon
<1>8. [f EXCEPT ![m].wanted = b] \in [Macs -> States] BY <1>3, Zenon
<1>9. [f EXCEPT ![m].fresh = b] \in [Macs -> States] BY <1>4, Zenon
<1>10. [f EXCEPT ![m].held = FALSE, ![m].epoch = 0, ![m].fresh = FALSE] \in [Macs -> States]
  BY <1>5, Zenon
<1>11. [f EXCEPT ![m].wanted = FALSE, ![m].held = FALSE, ![m].epoch = 0, ![m].fresh = FALSE]
         \in [Macs -> States]
  BY <1>6, Zenon
<1> QED BY <1>7, <1>8, <1>9, <1>10, <1>11, Zenon

LEMMA RowTypes ==
  ASSUME TypeOK, NEW m \in Macs
  PROVE  /\ row[m] \in Rows /\ NoRow \in Rows
         /\ \A s \in RowStates : Parked(m, s) \in Rows /\ [row[m] EXCEPT !.st = s] \in Rows
         /\ \A s \in States, e \in Epochs : \A u : Decided(m, s, e, u) \in Rows
<1>1. row[m] \in Rows BY TypeParts, Zenon DEF SaveOK
<1>2. 0 \in Epochs BY LeaseAssumption DEF Epochs
<1>3. NoRow \in Rows BY <1>2, Zenon DEF NoRow, Rows, RowStates
<1>4. ASSUME NEW s \in RowStates
      PROVE  Parked(m, s) \in Rows /\ [row[m] EXCEPT !.st = s] \in Rows
  BY <1>1, <1>2, <1>4, Zenon DEF Parked, Rows
<1>5. ASSUME NEW s \in States, NEW e \in Epochs, NEW u PROVE Decided(m, s, e, u) \in Rows
  <2>1. taints(s.foreignBefore, row[m].acc) \in BOOLEAN BY Zenon DEF taints
  <2>2. (u = {}) \in BOOLEAN /\ "open" \in RowStates BY Zenon DEF RowStates
  <2> QED BY <1>1, <2>1, <2>2, Zenon DEF Decided, Rows
<1> QED BY <1>1, <1>3, <1>4, <1>5, Zenon

-----------------------------------------------------------------------------
(* What a step may do to the tenure in Redis and to what is told of it.     *)

\* Another Mac had a tenure since the last one of m.
Foreign(m) == \E q \in Macs \ {m} : rec.hist[q] > rec.hist[m]

Noted(m) == [untold EXCEPT ![m] = IF Active(m) THEN @ \cup {rec.epoch + 1} ELSE @]

Stands == rec' = rec /\ untold' = untold
Finishes == rec.epoch < MaxEpoch /\ rec' \in {rec, End} /\ untold' = untold
Offers(m) == rec.epoch < MaxEpoch /\ rec' \in {rec, Grant(m)} /\ untold' = Noted(m)

\* What a reply r to m says of the step that served it.
Answers(m, r) ==
  /\ r.epoch <= rec'.epoch
  /\ r.status = "GRANTED" => /\ rec' = Grant(m) /\ r.epoch = rec.epoch + 1
                             /\ r.foreign <=> Foreign(m)

LEMMA Tenures ==
  ASSUME LeaseInv, TypeOK
  PROVE  /\ rec.epoch \in Nat /\ rec.epoch \in Epochs /\ mem.epoch \in Epochs
         /\ rec.epoch < MaxEpoch => rec.epoch + 1 \in Epochs
         /\ ~unresolved => mem = rec
         /\ 0 \in Epochs
BY LeaseAssumption DEF LeaseInv, TableOK, Coherent, Leases, Epochs

LEMMA Marked ==
  ASSUME UntoldOK, NEW m \in Macs, NEW e \in Epochs
  PROVE  [untold EXCEPT ![m] = IF Active(m) THEN @ \cup {e} ELSE @] \in [Macs -> SUBSET Epochs]
BY Zenon DEF UntoldOK

LEMMA GrantEffect ==
  ASSUME LeaseInv, TypeOK, NEW m \in Macs, grantLocked(m)
  PROVE  /\ ProxyOK' /\ UntoldOK'
         /\ (Stands /\ ~Free) \/ (Free /\ rec' = Grant(m) /\ Offers(m))
<1>1. CASE Free
  <2>1. /\ rec.epoch < MaxEpoch /\ rec' = Grant(m) /\ untold' = Noted(m)
        /\ unresolved' = unresolved /\ pending' = "unheard"
    BY <1>1, Zenon DEF grantLocked, transition, Untold, Noted
  <2>2. UntoldOK' BY <2>1, Marked, Tenures, TypeParts, Zenon DEF UntoldOK, Noted
  <2> QED BY <1>1, <2>1, <2>2, TypeParts, Zenon DEF ProxyOK, Offers
<1>2. CASE ~Free
  BY <1>2, TypeParts, Zenon DEF grantLocked, proxy, ProxyOK, UntoldOK, Stands
<1> QED BY <1>1, <1>2, Zenon

LEMMA GrantErrEffect ==
  ASSUME LeaseInv, TypeOK, NEW m \in Macs, grantFails(m)
  PROVE  ProxyOK' /\ UntoldOK' /\ Offers(m)
<1>1. /\ Grant(m).epoch <= MaxEpoch /\ rec' \in {rec, Grant(m)} /\ untold' = Noted(m)
      /\ unresolved' = TRUE /\ pending' = pending
  BY Zenon DEF grantFails, storeFails, Untold, Noted
<1>2. rec.epoch < MaxEpoch BY <1>1, Tenures, LeaseAssumption DEF Grant
<1>3. UntoldOK' BY <1>1, <1>2, Marked, Tenures, TypeParts, Zenon
  DEF UntoldOK, Noted
<1> QED BY <1>1, <1>2, <1>3, TypeParts, Zenon DEF ProxyOK, Offers

LEMMA EndEffect ==
  ASSUME LeaseInv, TypeOK, endLocked, UNCHANGED untold
  PROVE  ProxyOK' /\ UntoldOK' /\ Finishes
BY TypeParts, Zenon DEF endLocked, transition, ProxyOK, UntoldOK, Finishes

LEMMA ReleaseEffect ==
  ASSUME LeaseInv, TypeOK, NEW m, NEW e, cmdRelease(m, e)
  PROVE  ProxyOK' /\ UntoldOK' /\ (Stands \/ Finishes)
<1>1. UNCHANGED untold BY Zenon DEF cmdRelease
<1>2. CASE endLocked BY <1>1, <1>2, EndEffect, Zenon
<1>3. CASE UNCHANGED proxy
  BY <1>1, <1>3, TypeParts, Zenon DEF proxy, ProxyOK, UntoldOK, Stands
<1> QED BY <1>2, <1>3, Zenon DEF cmdRelease

\* A context of a Mac asks, and gets a reply that fits the step.
LEMMA AskEffect ==
  ASSUME LeaseInv, TypeOK, NEW m \in Macs, NEW c \in Contexts, Ask(c, m)
  PROVE  /\ ProxyOK' /\ UntoldOK' /\ LateOK' /\ CountOK' /\ CallOK'
         /\ Stands \/ Offers(m)
         /\ \E r \in Replies : call' = [call EXCEPT ![m][c] = r] /\ Answers(m, r)
<1>1. /\ call \in [Macs -> [Contexts -> Replies]] /\ LateOK /\ CountOK /\ UntoldOK /\ ProxyOK
  BY TypeParts, Zenon DEF CallOK
<1>2. Error \in Replies /\ Error.status = "error" /\ Error.epoch = 0
  BY LeaseAssumption DEF Error, Reply, Replies, Statuses, Epochs
<1>3. ASSUME NEW r \in Replies, call' = [call EXCEPT ![m][c] = r] PROVE CallOK'
  BY <1>1, <1>3, Zenon DEF CallOK
<1>4. CASE /\ grantLocked(m) /\ call' = [call EXCEPT ![m][c] = acquireReply(m)]
           /\ UNCHANGED <<late, count>>
  <2> DEFINE r == acquireReply(m)
  <2>1. ProxyOK' /\ UntoldOK' BY <1>4, GrantEffect, Zenon
  <2>2. LateOK' /\ CountOK' BY <1>1, <1>4, Zenon DEF LateOK, CountOK
  <2>3. CASE Free
    <3>1. rec' = Grant(m) /\ Offers(m) BY <1>4, <2>3, GrantEffect, Zenon
    <3>2. mem = rec BY <2>3, Tenures, Zenon DEF Free
    <3>3. rec.epoch + 1 \in Epochs /\ rec'.epoch = rec.epoch + 1 /\ rec.epoch + 1 \in Nat
      BY <3>1, Tenures DEF Offers, Grant
    <3>4. r = Reply("GRANTED", mem.epoch + 1, foreignSince(m))
      <4>1. Free /\ ~unresolved /\ Holder # m
        BY <2>3, LeaseAssumption, Zenon DEF Free, Holder
      <4> QED BY <4>1, Zenon DEF acquireReply
    <3>5. foreignSince(m) <=> Foreign(m) BY <3>2, Zenon
      DEF foreignSince, Foreign
    <3>6. foreignSince(m) \in BOOLEAN BY Zenon DEF foreignSince
    <3>7. /\ r \in Replies /\ r.status = "GRANTED" /\ r.epoch = rec.epoch + 1
          /\ r.foreign = foreignSince(m)
      BY <3>2, <3>3, <3>4, <3>6 DEF Reply, Replies, Statuses
    <3>8. Answers(m, r) BY <3>1, <3>3, <3>5, <3>7 DEF Answers
    <3> QED BY <1>3, <1>4, <2>1, <2>2, <3>1, <3>7, <3>8, Zenon
  <2>4. CASE ~Free
    <3>1. Stands BY <1>4, <2>4, GrantEffect, Zenon
    <3>2. \/ r = Error
          \/ ~unresolved /\ r = Reply("RENEWED", mem.epoch, FALSE)
          \/ ~unresolved /\ r = Reply("HELD", mem.epoch, FALSE)
      <4>1. unresolved => Holder # m BY LeaseAssumption, Zenon DEF Holder
      <4> QED BY <2>4, <4>1, Zenon DEF acquireReply
    <3>3. r \in Replies /\ r.status # "GRANTED" /\ (r.epoch = 0 \/ r.epoch = rec.epoch)
      <4>1. CASE r = Error BY <1>2, <4>1, Zenon
      <4>2. CASE r # Error
        <5>1. mem = rec /\ rec.epoch \in Epochs BY <3>2, <4>2, Tenures, Zenon
        <5>2. PICK s \in {"RENEWED", "HELD"} : r = Reply(s, rec.epoch, FALSE)
          BY <3>2, <4>2, <5>1, Zenon
        <5> QED BY <5>1, <5>2 DEF Reply, Replies, Statuses
      <4> QED BY <4>1, <4>2, Zenon
    <3>4. Answers(m, r) BY <3>1, <3>3, Tenures DEF Answers, Stands
    <3> QED BY <1>3, <1>4, <2>1, <2>2, <3>1, <3>3, <3>4, Zenon
  <2> QED BY <2>3, <2>4, Zenon
<1>5. CASE /\ (grantFails(m) \/ renewFails(m)) /\ UNCHANGED late
           /\ call' = [call EXCEPT ![m][c] = Error] /\ Spend("event")
  <2>1. CountOK' /\ LateOK' BY <1>1, <1>5, CountedOne, Zenon DEF LateOK
  <2>2. ProxyOK' /\ UntoldOK' /\ (Stands \/ Offers(m))
    <3>1. CASE grantFails(m) BY <3>1, GrantErrEffect, Zenon
    <3>2. CASE renewFails(m)
      BY <1>1, <3>2, Zenon DEF renewFails, storeFails, ProxyOK, UntoldOK, Stands
    <3> QED BY <1>5, <3>1, <3>2, Zenon
  <2>3. Answers(m, Error) BY <1>2, <2>2, Tenures DEF Answers, Stands, Offers,
  Grant
  <2> QED BY <1>2, <1>3, <1>5, <2>1, <2>2, <2>3, Zenon
<1>6. CASE /\ GivesUp(Acquire(m)) /\ call' = [call EXCEPT ![m][c] = Error] /\ Spend("event")
  <2>1. CountOK' BY <1>1, <1>6, CountedOne, Zenon
  <2>2. Acquire(m) \in Requests BY Tenures, Zenon DEF Acquire, Requests
  <2>3. LateOK' BY <1>1, <1>6, <2>2, Zenon DEF GivesUp, LateOK
  <2>4. Stands /\ ProxyOK' /\ UntoldOK'
    BY <1>1, <1>6, Zenon DEF GivesUp, proxy, ProxyOK, UntoldOK, Stands
  <2>5. Answers(m, Error) BY <1>2, <2>4, Tenures DEF Answers, Stands
  <2> QED BY <1>2, <1>3, <1>6, <2>1, <2>3, <2>4, <2>5, Zenon
<1> QED BY <1>4, <1>5, <1>6, Zenon DEF Ask

\* A Mac gives the lease back.
Dropped(m) == [cl EXCEPT ![m].wanted = FALSE, ![m].held = FALSE, ![m].epoch = 0,
                         ![m].fresh = FALSE]

LEMMA DropEffect ==
  ASSUME LeaseInv, TypeOK, NEW m \in Macs, NEW cost, releaseNow(m, cost)
  PROVE  /\ ProxyOK' /\ UntoldOK' /\ LateOK' /\ CountOK' /\ cl' \in [Macs -> States]
         /\ Stands \/ Finishes
         /\ cl' = cl \/ cl' = Dropped(m)
<1>1. cl \in [Macs -> States] /\ LateOK /\ CountOK /\ UntoldOK /\ ProxyOK
  BY TypeParts, Zenon DEF ClientOK
<1>2. CASE /\ cmdRelease(m, cl[m].epoch) /\ cl' = Dropped(m)
           /\ SpendAll(cost) /\ UNCHANGED late
  <2>1. ProxyOK' /\ UntoldOK' /\ (Stands \/ Finishes) BY <1>2, ReleaseEffect,
     Zenon
  <2>2. CountOK' /\ LateOK' BY <1>1, <1>2, Counted, Zenon DEF LateOK
  <2>3. cl' \in [Macs -> States]
    <3>1. Dropped(m) \in [Macs -> States] BY <1>1, StateUpdates, Zenon
      DEF Dropped
    <3> QED BY <1>2, <3>1, Zenon
  <2> QED BY <1>2, <2>1, <2>2, <2>3, Zenon
<1>3. CASE /\ releaseFails(m, cl[m].epoch) /\ UNCHANGED late
           /\ SpendAll(cost \cup {"event"}) /\ UNCHANGED cl
  <2>1. /\ End.epoch <= MaxEpoch /\ rec' \in {rec, End} /\ untold' = untold
        /\ unresolved' = TRUE /\ pending' = pending
    BY <1>3, Zenon DEF releaseFails, storeFails
  <2>2. rec.epoch < MaxEpoch BY <2>1, NextLease, LeaseAssumption
  <2>3. CountOK' /\ LateOK' BY <1>1, <1>3, Counted, Zenon DEF LateOK
  <2> QED BY <1>1, <1>3, <2>1, <2>2, <2>3, Zenon DEF ProxyOK, UntoldOK, Finishes
<1>4. CASE GivesUp(ReleaseOf(m)) /\ SpendAll(cost \cup {"event"}) /\ UNCHANGED cl
  <2>1. CountOK' BY <1>1, <1>4, Counted, Zenon
  <2>2. cl[m].epoch \in Epochs BY <1>1, Zenon DEF States
  <2>3. ReleaseOf(m) \in Requests BY <2>2, Zenon DEF ReleaseOf, Requests
  <2>4. LateOK' BY <1>1, <1>4, <2>3, Zenon DEF GivesUp, LateOK
  <2> QED BY <1>1, <1>4, <2>1, <2>4, Zenon
    DEF GivesUp, proxy, ProxyOK, UntoldOK, Stands
<1> QED BY <1>2, <1>3, <1>4, Zenon DEF releaseNow, Dropped

-----------------------------------------------------------------------------
(* Every step keeps the types.                                              *)

Typed == ProxyOK /\ ClientOK /\ CallOK /\ SaveOK /\ UntoldOK /\ LateOK /\ CountOK

LEMMA ClientTypes ==
  ASSUME LeaseInv, TypeOK, NEW m \in Macs, Client(m) \/ Release(m)
  PROVE  Typed'
<1>0. Typed BY TypeParts, Zenon DEF Typed
<1>1. CASE acquireAsync(m)
  <2>1. /\ cl' = [cl EXCEPT ![m].touched = FALSE] /\ UNCHANGED <<row, file>>
    BY <1>1, Zenon DEF acquireAsync
  <2>2. cl' \in [Macs -> States] BY <1>0, <2>1, StateUpdates, Zenon
    DEF Typed, ClientOK
  <2>3. CASE UNCHANGED <<proxy, loop, call, late, untold, count>>
    BY <1>0, <2>1, <2>2, <2>3, Zenon
    DEF Typed, proxy, ProxyOK, ClientOK, CallOK, SaveOK, UntoldOK,
                                  LateOK, CountOK
  <2>4. CASE Ask("loop", m) /\ loop' = [loop EXCEPT ![m] = "touch"]
    <3>1. "loop" \in Contexts BY Zenon DEF Contexts
    <3>2. ProxyOK' /\ UntoldOK' /\ LateOK' /\ CountOK' /\ CallOK' BY <2>4,
       <3>1, AskEffect, Zenon
    <3> QED BY <1>0, <2>1, <2>2, <2>4, <3>2, Zenon DEF Typed, ClientOK, SaveOK
  <2> QED BY <1>1, <2>3, <2>4, Zenon DEF acquireAsync
<1>2. CASE Tick(m)
  <2>1. /\ UNCHANGED <<loop, call, late, row, file, untold>> /\ unresolved' = unresolved
        /\ (UNCHANGED count \/ Spend("event"))
        /\ (cl' = cl \/ cl' = [cl EXCEPT ![m] = beaten(m)])
    BY <1>2, Zenon DEF Tick, heartbeat
  <2>2. pending' \in {"unheard", "none", "some"}
    BY <1>0, <1>2, Zenon DEF Tick, heartbeat, Typed, ProxyOK
  <2>3. cl' \in [Macs -> States] BY <1>0, <2>1, StateTypes, Zenon
    DEF Typed, ClientOK
  <2>4. CountOK' BY <1>0, <2>1, CountedOne, Zenon DEF Typed, CountOK
  <2> QED BY <1>0, <2>1, <2>2, <2>3, <2>4, Zenon
    DEF Typed, ProxyOK, ClientOK, CallOK, SaveOK,
                                              UntoldOK, LateOK
<1>3. CASE retryWaiting(m)
  <2>1. /\ Ask("loop", m) /\ loop' = [loop EXCEPT ![m] = "retry"]
        /\ UNCHANGED <<cl, row, file>>
    BY <1>3, Zenon DEF retryWaiting
  <2>2. "loop" \in Contexts BY Zenon DEF Contexts
  <2>3. ProxyOK' /\ UntoldOK' /\ LateOK' /\ CountOK' /\ CallOK' BY <2>1, <2>2,
     AskEffect, Zenon
  <2> QED BY <1>0, <2>1, <2>3, Zenon DEF Typed, ClientOK, SaveOK
<1>4. CASE LoopAnswered(m)
  <2> DEFINE r == Answer(m, "loop")
  <2>1. /\ cl' = [cl EXCEPT ![m] = acquired(m, r)] /\ Told(m, r)
        /\ call' = [call EXCEPT ![m]["loop"] = NoCall]
        /\ loop' = [loop EXCEPT ![m] = "idle"]
        /\ UNCHANGED <<proxy, late, file, count>>
    BY <1>4, Zenon DEF LoopAnswered, Received
  <2>2. row' = [row EXCEPT ![m].st =
           IF loop[m] = "retry" /\ r.status \in {"GRANTED", "RENEWED"} /\ @ = "waiting"
           THEN "ready" ELSE @]
    BY <1>4, Zenon DEF LoopAnswered
  <2>3. r \in Replies BY <1>0, Zenon DEF Typed, CallOK, Answer, Contexts
  <2>4. CallOK' BY <1>0, <2>1, Tenures, Zenon
    DEF Typed, CallOK, NoCall, Reply, Replies, Statuses
  <2>5. row' \in [Macs -> Rows] BY <1>0, <2>2 DEF Typed, SaveOK, Rows, RowStates
  <2>6. UntoldOK' BY <1>0, <2>1, Tenures, Zenon DEF Typed, UntoldOK, Told
  <2>7. cl' \in [Macs -> States] BY <1>0, <2>1, <2>3, StateTypes, Zenon
    DEF Typed, ClientOK
  <2> QED BY <1>0, <2>1, <2>4, <2>5, <2>6, <2>7, Zenon
    DEF Typed, proxy, ProxyOK, ClientOK, SaveOK,
                                                    LateOK, CountOK
<1>5. CASE DeferredRelease(m)
  <2>1. releaseNow(m, {}) /\ UNCHANGED <<loop, call, row, file>> BY <1>5, Zenon
    DEF DeferredRelease
  <2>2. ProxyOK' /\ UntoldOK' /\ LateOK' /\ CountOK' /\ cl' \in [Macs -> States]
    BY <2>1, DropEffect, Zenon
  <2> QED BY <1>0, <2>1, <2>2, Zenon DEF Typed, ClientOK, CallOK, SaveOK
<1>6. CASE Release(m)
  <2>1. UNCHANGED <<loop, call, row, file>> BY <1>6, Zenon DEF Release
  <2>2. CASE /\ cl' = [cl EXCEPT ![m].wanted = TRUE] /\ Spend("event")
             /\ UNCHANGED <<proxy, late, untold>>
    <3>1. cl' \in [Macs -> States] BY <1>0, <2>2, StateUpdates, Zenon
      DEF Typed, ClientOK
    <3>2. CountOK' BY <1>0, <2>2, CountedOne, Zenon DEF Typed
    <3> QED BY <1>0, <2>1, <2>2, <3>1, <3>2, Zenon
      DEF Typed, proxy, ProxyOK, ClientOK, CallOK,
                                                SaveOK, UntoldOK, LateOK
  <2>3. CASE releaseNow(m, {"event"})
    <3>1. ProxyOK' /\ UntoldOK' /\ LateOK' /\ CountOK' /\ cl' \in [Macs -> States]
      BY <2>3, DropEffect, Zenon
    <3> QED BY <1>0, <2>1, <3>1, Zenon DEF Typed, ClientOK, CallOK, SaveOK
  <2> QED BY <1>6, <2>2, <2>3, Zenon DEF Release
<1> QED BY <1>1, <1>2, <1>3, <1>4, <1>5, <1>6, Zenon DEF Client

LEMMA ApplyTypes ==
  ASSUME SaveOK, NEW m \in Macs, NEW u, Apply(u, m)
  PROVE  SaveOK'
<1>1. row \in [Macs -> Rows] /\ file \in Files BY Zenon DEF SaveOK
<1>2. CASE UNCHANGED <<file, row>> BY <1>1, <1>2, Zenon DEF SaveOK
<1>3. CASE /\ file' = [ver |-> file.ver + 1, by |-> m]
           /\ row' = [row EXCEPT ![m].seen = IF row[m].base = "claimed" THEN file.ver + 1 ELSE @]
  <2>1. file.ver + 1 \in Nat BY <1>1 DEF Files
  <2>2. file' \in Files BY <1>3, <2>1, Zenon DEF Files
  <2>3. row' \in [Macs -> Rows] BY <1>1, <1>3, <2>1 DEF Rows
  <2> QED BY <2>2, <2>3, Zenon DEF SaveOK
<1> QED BY <1>2, <1>3, Zenon DEF Apply

LEMMA HoldTypes ==
  ASSUME TypeOK, NEW m \in Macs, Hold(m)
  PROVE  cl' \in [Macs -> States] /\ row' \in [Macs -> Rows]
<1>1. cl \in [Macs -> States] /\ row \in [Macs -> Rows] /\ 0 \in Epochs
  BY TypeParts, LeaseAssumption DEF ClientOK, SaveOK, Epochs
<1>2. Parked(m, "waiting") \in Rows BY RowTypes, Zenon DEF RowStates
<1>3. cl' \in [Macs -> States] BY <1>1, StateUpdates, Zenon DEF Hold
<1> QED BY <1>1, <1>2, <1>3, Zenon DEF Hold

LEMMA DrainTypes ==
  ASSUME LeaseInv, TypeOK, NEW m \in Macs, Drain(m)
  PROVE  Typed'
<1>0. Typed /\ row \in [Macs -> Rows] /\ row[m] \in Rows
  BY TypeParts, Zenon DEF Typed, SaveOK
<1>1. CASE leaseGate(m)
  <2>1. UNCHANGED <<cl, loop, file>> BY <1>1, Zenon DEF leaseGate
  <2>2. CASE /\ row' = [row EXCEPT ![m] = Decided(m, cl[m], cl[m].epoch, untold[m])]
             /\ UNCHANGED <<proxy, call, late, untold, count>>
    <3>1. cl[m] \in States /\ cl[m].epoch \in Epochs BY StateTypes, Zenon
      DEF States
    <3>2. row' \in [Macs -> Rows] BY <1>0, <2>2, <3>1, RowTypes, Zenon
    <3> QED BY <1>0, <2>1, <2>2, <3>2, Zenon
      DEF Typed, proxy, ProxyOK, ClientOK, CallOK, SaveOK,
                                          UntoldOK, LateOK, CountOK
  <2>3. CASE Ask("drain", m) /\ row' = [row EXCEPT ![m].st = "gate"]
    <3>1. "drain" \in Contexts BY Zenon DEF Contexts
    <3>2. ProxyOK' /\ UntoldOK' /\ LateOK' /\ CountOK' /\ CallOK' BY <2>3,
       <3>1, AskEffect, Zenon
    <3>3. row' \in [Macs -> Rows] BY <1>0, <2>3, Zenon DEF Rows, RowStates
    <3> QED BY <1>0, <2>1, <3>2, <3>3, Zenon DEF Typed, ClientOK, SaveOK
  <2> QED BY <1>1, <2>2, <2>3, Zenon DEF leaseGate
<1>2. CASE GateAnswered(m)
  <2> DEFINE r == Answer(m, "drain")
             st == acquired(m, r)
  <2>1. /\ cl' = [cl EXCEPT ![m] = st] /\ Told(m, r)
        /\ call' = [call EXCEPT ![m]["drain"] = NoCall]
        /\ UNCHANGED <<proxy, loop, late, file, count>>
    BY <1>2, Zenon DEF GateAnswered, Received
  <2>2. row' = [row EXCEPT ![m] =
           CASE r.status = "HELD" -> [@ EXCEPT !.st = "waiting"]
             [] r.status = "error" -> Parked(m, "open")
             [] OTHER -> Decided(m, st, r.epoch, untold'[m])]
    BY <1>2, Zenon DEF GateAnswered
  <2>3. r \in Replies /\ r.epoch \in Epochs
    BY <1>0, Zenon DEF Typed, CallOK, Answer, Contexts, Replies
  <2>4. st \in States BY <2>3, StateTypes, Zenon
  <2>5. CallOK' BY <1>0, <2>1, Tenures, Zenon
    DEF Typed, CallOK, NoCall, Reply, Replies, Statuses
  <2>6. UntoldOK' BY <1>0, <2>1, Tenures, Zenon DEF Typed, UntoldOK, Told
  <2>7. cl' \in [Macs -> States] BY <1>0, <2>1, <2>4, Zenon DEF Typed, ClientOK
  <2>8. /\ [row[m] EXCEPT !.st = "waiting"] \in Rows /\ Parked(m, "open") \in Rows
        /\ Decided(m, st, r.epoch, untold'[m]) \in Rows
    BY <2>3, <2>4, RowTypes, Zenon DEF RowStates
  <2>9. row' \in [Macs -> Rows] BY <1>0, <2>2, <2>8, Zenon
  <2> QED BY <1>0, <2>1, <2>5, <2>6, <2>7, <2>9, Zenon
    DEF Typed, proxy, ProxyOK, ClientOK, SaveOK,
                                                    LateOK, CountOK
<1>3. CASE openDrainTarget(m)
  <2>1. /\ \/ row' = [row EXCEPT ![m] = [row[m] EXCEPT !.st = "write", !.base = "claimed"]]
           \/ row' = [row EXCEPT ![m] = Parked(m, "aside")]
        /\ UNCHANGED <<proxy, client, late, file, untold, count>>
    BY <1>3, Zenon DEF openDrainTarget
  <2>2. Parked(m, "aside") \in Rows BY RowTypes, Zenon DEF RowStates
  <2>3. [row[m] EXCEPT !.st = "write", !.base = "claimed"] \in Rows
    BY <1>0, Zenon DEF Rows, RowStates
  <2>4. row' \in [Macs -> Rows] BY <1>0, <2>1, <2>2, <2>3, Zenon
  <2> QED BY <1>0, <2>1, <2>4, Zenon
    DEF Typed, proxy, client, ProxyOK, ClientOK, CallOK, SaveOK,
                                  UntoldOK, LateOK, CountOK
<1>4. CASE Deny(m)
  <2>1. Hold(m) /\ UNCHANGED <<proxy, loop, call, late, file, untold, count>>
    BY <1>4, Zenon DEF Deny
  <2>2. cl' \in [Macs -> States] /\ row' \in [Macs -> Rows] BY <2>1,
     HoldTypes, Zenon
  <2> QED BY <1>0, <2>1, <2>2, Zenon
    DEF Typed, proxy, ProxyOK, ClientOK, CallOK, SaveOK,
                                  UntoldOK, LateOK, CountOK
<1>5. CASE ImplicitGrant(m)
  <2>1. UNCHANGED <<loop, call, late, file>> BY <1>5, Zenon DEF ImplicitGrant
  <2>2. CASE grantLocked(m) /\ UNCHANGED <<cl, row, count>>
    <3>1. ProxyOK' /\ UntoldOK' BY <2>2, GrantEffect, Zenon
    <3> QED BY <1>0, <2>1, <2>2, <3>1, Zenon
      DEF Typed, ClientOK, CallOK, SaveOK, LateOK, CountOK
  <2>3. CASE grantFails(m) /\ Hold(m) /\ Spend("event")
    <3>1. ProxyOK' /\ UntoldOK' BY <2>3, GrantErrEffect, Zenon
    <3>2. CountOK' BY <1>0, <2>3, CountedOne, Zenon DEF Typed
    <3>3. cl' \in [Macs -> States] /\ row' \in [Macs -> Rows] BY <2>3,
       HoldTypes, Zenon
    <3> QED BY <1>0, <2>1, <3>1, <3>2, <3>3, Zenon
      DEF Typed, ClientOK, CallOK, SaveOK, LateOK
  <2> QED BY <1>5, <2>2, <2>3, Zenon DEF ImplicitGrant
<1>6. CASE Admit(m)
  BY <1>0, <1>6, Zenon
  DEF Admit, Typed, client, ProxyOK, ClientOK, CallOK, SaveOK, UntoldOK,
                    LateOK, CountOK
<1>7. CASE Commit(m)
  <2>1. Apply(unit[m], m) /\ UNCHANGED <<proxy, client, late, untold, count>>
    BY <1>7, Zenon DEF Commit
  <2>2. SaveOK' BY <1>0, <2>1, ApplyTypes, Zenon DEF Typed
  <2> QED BY <1>0, <2>1, <2>2, Zenon
    DEF Typed, proxy, client, ProxyOK, ClientOK, CallOK, UntoldOK,
                                  LateOK, CountOK
<1>8. CASE Done(m)
  <2>1. /\ (UNCHANGED <<row, untold>> \/ (row' = [row EXCEPT ![m] = NoRow]
                                          /\ untold' = [untold EXCEPT ![m] = {}]))
        /\ UNCHANGED <<proxy, client, late, file, count>>
    BY <1>8, Zenon DEF Done
  <2>2. row' \in [Macs -> Rows] BY <1>0, <2>1, RowTypes, Zenon
  <2>3. UntoldOK' BY <1>0, <2>1, Zenon DEF Typed, UntoldOK
  <2> QED BY <1>0, <2>1, <2>2, <2>3, Zenon
    DEF Typed, proxy, client, ProxyOK, ClientOK, CallOK,
                                        SaveOK, LateOK, CountOK
<1> QED BY <1>1, <1>2, <1>3, <1>4, <1>5, <1>6, <1>7, <1>8, Zenon DEF Drain

LEMMA FaultTypes ==
  ASSUME LeaseInv, TypeOK, NEW m \in Macs,
         \/ \E b \in Bases : probeBase(m, b)
         \/ Lost(m) \/ CommitStray(m) \/ killUpstream(m) \/ GrowsOld(m) \/ Relaunch(m)
  PROVE  Typed'
<1>0. Typed /\ row \in [Macs -> Rows] /\ row[m] \in Rows /\ cl \in [Macs -> States]
  BY TypeParts, Zenon DEF Typed, SaveOK, ClientOK
<1>1. CASE \E b \in Bases : probeBase(m, b)
  <2>1. PICK b \in Bases : probeBase(m, b) BY <1>1, Zenon
  <2> DEFINE e == IF cl[m].held THEN cl[m].epoch ELSE 0
  <2>2. /\ row' = [row EXCEPT ![m] = [NoRow EXCEPT !.st = "ready", !.base = b,
                                                   !.seen = file.ver, !.acc = e]]
        /\ cl' = [cl EXCEPT ![m].touched = @ \/ ~Fresh(m)]
        /\ Spend("save") /\ UNCHANGED <<proxy, loop, call, late, file, untold>>
    BY <2>1, Zenon DEF probeBase
  <2>3. e \in Epochs BY <1>0, Tenures, Zenon DEF States
  <2>4. file.ver \in Nat BY <1>0, Zenon DEF Typed, SaveOK, Files
  <2>5. [NoRow EXCEPT !.st = "ready", !.base = b, !.seen = file.ver, !.acc = e] \in Rows
    <3>1. NoRow \in Rows /\ "ready" \in RowStates /\ b \in Bases \cup {"present", "claimed"}
      BY RowTypes, Zenon DEF RowStates
    <3> QED BY <2>3, <2>4, <3>1, Zenon DEF Rows
  <2>6. row' \in [Macs -> Rows] BY <1>0, <2>2, <2>5, Zenon
  <2>7. cl' \in [Macs -> States]
    <3>1. (cl[m].touched \/ ~Fresh(m)) \in BOOLEAN BY Zenon
    <3> QED BY <1>0, <2>2, <3>1, StateUpdates, Zenon
  <2>8. CountOK' BY <1>0, <2>2, CountedOne, Zenon DEF Typed
  <2> QED BY <1>0, <2>2, <2>6, <2>7, <2>8, Zenon
    DEF Typed, proxy, ProxyOK, ClientOK, CallOK, SaveOK,
                                              UntoldOK, LateOK
<1>2. CASE Lost(m)
  <2>1. /\ row' = [row EXCEPT ![m] = Parked(m, "ready")] /\ Spend("event")
        /\ UNCHANGED <<proxy, client, late, file, untold>>
    BY <1>2, Zenon DEF Lost
  <2>2. Parked(m, "ready") \in Rows BY RowTypes, Zenon DEF RowStates
  <2>3. row' \in [Macs -> Rows] BY <1>0, <2>1, <2>2, Zenon
  <2>4. CountOK' BY <1>0, <2>1, CountedOne, Zenon DEF Typed
  <2> QED BY <1>0, <2>1, <2>3, <2>4, Zenon
    DEF Typed, proxy, client, ProxyOK, ClientOK, CallOK,
                                        SaveOK, UntoldOK, LateOK
<1>3. CASE CommitStray(m)
  <2>1. Apply(stray[m], m) /\ UNCHANGED <<proxy, client, late, untold, count>>
    BY <1>3, Zenon DEF CommitStray
  <2>2. SaveOK' BY <1>0, <2>1, ApplyTypes, Zenon DEF Typed
  <2> QED BY <1>0, <2>1, <2>2, Zenon
    DEF Typed, proxy, client, ProxyOK, ClientOK, CallOK, UntoldOK,
                                  LateOK, CountOK
<1>4. CASE killUpstream(m)
  BY <1>0, <1>4, Zenon
  DEF killUpstream, Typed, proxy, client, ProxyOK, ClientOK, CallOK, SaveOK,
                    UntoldOK, LateOK, CountOK
<1>5. CASE GrowsOld(m)
  <2>1. /\ cl' = [cl EXCEPT ![m].fresh = FALSE]
        /\ UNCHANGED <<proxy, loop, call, late, row, file, untold, count>>
    BY <1>5, Zenon DEF GrowsOld
  <2>2. cl' \in [Macs -> States] BY <1>0, <2>1, StateUpdates, Zenon
  <2> QED BY <1>0, <2>1, <2>2, Zenon
    DEF Typed, proxy, ProxyOK, ClientOK, CallOK, SaveOK, UntoldOK,
                                  LateOK, CountOK
<1>6. CASE Relaunch(m)
  <2>1. /\ cl' = [cl EXCEPT ![m] = NoState] /\ loop' = [loop EXCEPT ![m] = "idle"]
        /\ call' = [call EXCEPT ![m] = [c \in Contexts |-> NoCall]]
        /\ untold' = [untold EXCEPT ![m] = IF Active(m) THEN @ \cup {0} ELSE @]
        /\ Spend("event") /\ UNCHANGED <<proxy, late, row, file>>
    BY <1>6, Zenon DEF Relaunch, Untold
  <2>2. cl' \in [Macs -> States] BY <1>0, <2>1, StateTypes, Zenon
  <2>3. NoCall \in Replies BY Tenures, Zenon
    DEF NoCall, Reply, Replies, Statuses
  <2>4. CallOK' BY <1>0, <2>1, <2>3, Zenon DEF Typed, CallOK
  <2>5. UntoldOK' BY <1>0, <2>1, Marked, Tenures, Zenon DEF Typed, UntoldOK
  <2>6. CountOK' BY <1>0, <2>1, CountedOne, Zenon DEF Typed
  <2> QED BY <1>0, <2>1, <2>2, <2>4, <2>5, <2>6, Zenon
    DEF Typed, proxy, ProxyOK, ClientOK, SaveOK,
                                                    LateOK
<1> QED BY <1>1, <1>2, <1>3, <1>4, <1>5, <1>6, Zenon

LEMMA ProxyTypes ==
  ASSUME LeaseInv, TypeOK,
         sweep \/ cmdBreak \/ flushDirty \/ loadLeases \/ \E r \in late : Deliver(r)
  PROVE  Typed'
<1>0. Typed /\ row \in [Macs -> Rows] BY TypeParts, Zenon DEF Typed, SaveOK
<1>1. CASE sweep
  <2>1. endLocked /\ UNCHANGED <<client, late, row, file, untold,
     count>> BY <1>1, Zenon DEF sweep
  <2>2. ProxyOK' /\ UntoldOK' BY <2>1, EndEffect, Zenon
  <2> QED BY <1>0, <2>1, <2>2, Zenon
    DEF Typed, client, ClientOK, CallOK, SaveOK, LateOK, CountOK
<1>2. CASE cmdBreak
  <2>1. endLocked /\ Spend("event") /\ UNCHANGED <<client, late, row, file, untold>>
    BY <1>2, Zenon DEF cmdBreak
  <2>2. ProxyOK' /\ UntoldOK' BY <2>1, EndEffect, Zenon
  <2>3. CountOK' BY <1>0, <2>1, CountedOne, Zenon DEF Typed
  <2> QED BY <1>0, <2>1, <2>2, <2>3, Zenon
    DEF Typed, client, ClientOK, CallOK, SaveOK, LateOK
<1>3. CASE flushDirty
  <2>1. /\ Spend("event") /\ UNCHANGED <<client, late, row, file, untold>>
        /\ unresolved' = TRUE /\ pending' = pending
    BY <1>3, Zenon DEF flushDirty, storeFails
  <2>2. CountOK' BY <1>0, <2>1, CountedOne, Zenon DEF Typed
  <2> QED BY <1>0, <2>1, <2>2, Zenon
    DEF Typed, client, ProxyOK, ClientOK, CallOK, SaveOK, UntoldOK,
                                  LateOK
<1>4. CASE loadLeases
  <2>1. /\ (UNCHANGED count \/ Spend("event")) /\ unresolved' = FALSE
        /\ row' = [m \in Macs |-> IF unit[m].st = "none" THEN row[m] ELSE Parked(m, "ready")]
        /\ UNCHANGED <<client, late, file, untold>>
    BY <1>4, Zenon DEF loadLeases
  <2>2. pending' \in {"unheard", "none", "some"} BY <1>0, <1>4, Zenon
    DEF loadLeases, Typed, ProxyOK
  <2>3. CountOK' BY <1>0, <2>1, CountedOne, Zenon DEF Typed, CountOK
  <2>4. \A m \in Macs : row[m] \in Rows /\ Parked(m, "ready") \in Rows
    BY RowTypes, Zenon DEF RowStates
  <2>5. row' \in [Macs -> Rows] BY <2>1, <2>4, Zenon
  <2> QED BY <1>0, <2>1, <2>2, <2>3, <2>5, Zenon
    DEF Typed, client, ProxyOK, ClientOK, CallOK,
                                              SaveOK, UntoldOK, LateOK
<1>5. CASE \E r \in late : Deliver(r)
  <2>1. PICK r \in late : /\ serve(r) /\ late' = late \ {r}
                          /\ UNCHANGED <<client, row, file, count>>
    BY <1>5, Zenon DEF Deliver
  <2>2. r.m \in Macs BY <1>0, Zenon DEF Typed, LateOK, Requests
  <2>3. ProxyOK' /\ UntoldOK'
    <3>1. CASE grantLocked(r.m) BY <2>2, <3>1, GrantEffect, Zenon
    <3>2. CASE cmdRelease(r.m, r.epoch) BY <3>2, ReleaseEffect, Zenon
    <3> QED BY <2>1, <3>1, <3>2, Zenon DEF serve
  <2> QED BY <1>0, <2>1, <2>3, Zenon
    DEF Typed, client, ClientOK, CallOK, SaveOK, LateOK, CountOK
<1> QED BY <1>1, <1>2, <1>3, <1>4, <1>5, Zenon

LEMMA TypeStep ==
  ASSUME LeaseInv, LeaseInv', TypeOK, [Next]_vars
  PROVE  TypeOK'
<1>1. Typed'
  <2>1. CASE UNCHANGED vars
    BY <2>1, TypeParts, Zenon
    DEF vars, proxy, client, Typed, ProxyOK, ClientOK, CallOK, SaveOK,
                           UntoldOK, LateOK, CountOK
  <2> QED BY <2>1, ClientTypes, DrainTypes, FaultTypes, ProxyTypes, Zenon
    DEF Next
<1>2. TableOK' BY Zenon DEF LeaseInv
<1> QED BY <1>1, <1>2, TypeParts, PTL DEF Typed

LEMMA InitTypes == Init => TypeOK
<1> SUFFICES ASSUME Init PROVE TypeOK BY Zenon
<1>1. 0 \in Epochs BY LeaseAssumption DEF Epochs
<1>2. TableOK BY InitInv, Zenon DEF LeaseInv
<1>3. ProxyOK BY Zenon DEF Init, ProxyOK
<1>4. ClientOK BY <1>1, Zenon DEF Init, ClientOK, NoState, States
<1>5. CallOK BY <1>1, Zenon DEF Init, CallOK, NoCall, Reply, Replies, Statuses
<1>6. SaveOK BY <1>1, Zenon DEF Init, SaveOK, NoRow, Rows, RowStates, Files
<1>7. UntoldOK /\ LateOK /\ CountOK BY Zenon DEF Init, UntoldOK, LateOK, CountOK
<1> QED BY <1>2, <1>3, <1>4, <1>5, <1>6, <1>7, TypeParts, Zenon

LEMMA TypesAlways == Spec => [](LeaseInv /\ TypeOK)
<1>1. Init => TypeOK BY InitTypes, Zenon
<1>2. LeaseInv /\ LeaseInv' /\ TypeOK /\ [Next]_vars => TypeOK' BY TypeStep,
   Zenon
<1> QED BY <1>1, <1>2, LeaseAlways, PTL DEF Spec

\* Every variable keeps its type.
THEOREM LeaseTypeCorrect == Spec => []TypeOK
<1> QED BY TypesAlways, PTL

-----------------------------------------------------------------------------
(* A save that its drain takes for safe replaces nothing another Mac wrote *)
(* since.  The argument: while a Mac has missed a foreign write, it has     *)
(* been or is about to be warned of it (Warned).  A drain that decided to   *)
(* rewrite in place, and that had been told of every grant, was not warned; *)
(* as long as its tenure lasts nobody else can have written (Decides).      *)

\* A tenure is the last one of its holder, and later than those of others.
HistOK ==
  \A n \in Macs :
    /\ rec.hist[n] <= rec.epoch
    /\ rec.holder = n => /\ rec.hist[n] = rec.epoch
                         /\ \A q \in Macs \ {n} : rec.hist[q] < rec.epoch

\* No Mac knows of an epoch that has not begun.
Known(n) ==
  /\ cl[n].epoch <= rec.epoch /\ row[n].acc <= rec.epoch /\ row[n].dec <= rec.epoch
  /\ \A c \in Contexts : /\ call[n][c].epoch <= rec.epoch
                         /\ call[n][c].status = "GRANTED" => call[n][c].epoch > 0

Seen(n) == row[n].seen <= file.ver /\ (file.by = Nobody => file.ver = 0)

\* A unit belongs to a drain, one that rewrites the file to a drain that
\* decided to.
Writes(n) == unit[n].st # "none" => /\ row[n].st \in {"write", "aside"}
                                    /\ unit[n].place => row[n].st = "write"

\* A foreign write was missed, and nothing the Mac was told has been forgotten.
Missed(n) == Active(n) /\ ~Kept(n) /\ 0 \notin untold[n]

\* The next grant will say so, a grant that it has yet to be told of does, or
\* it has been told.
Warned(n) ==
  \/ rec.hist[n] < rec.hist[file.by]
  \/ \E g \in untold[n] :
       /\ row[n].acc < g /\ g <= rec.epoch
       /\ \A c \in Contexts :
            call[n][c].status = "GRANTED" /\ call[n][c].epoch = g => call[n][c].foreign
  \/ row[n].acc < cl[n].foreignBefore

\* What the drain of n decided stands for as long as its tenure lasts.
Decides(n) ==
  /\ row[n].st \in {"open", "write"} /\ row[n].sure
  /\ rec.holder = n /\ rec.epoch = row[n].dec
  /\ row[n].st = "open" => ~row[n].tainted

Good(n) == /\ Known(n) /\ Seen(n) /\ Writes(n)
           /\ Missed(n) => Warned(n)
           /\ Decides(n) => Kept(n)

\* The inductive invariant.
KeptInv == HistOK /\ \A n \in Macs : Good(n)

-----------------------------------------------------------------------------
(* Steps that neither write the file nor tell a Mac of a grant.             *)

LEMMA Numbers ==
  ASSUME TypeOK, NEW n \in Macs
  PROVE  /\ rec.epoch \in Nat /\ rec.hist \in [Macs -> Nat]
         /\ rec.holder \in Macs \cup {Nobody}
         /\ cl[n].epoch \in Nat /\ cl[n].foreignBefore \in Nat
         /\ row[n].acc \in Nat /\ row[n].dec \in Nat /\ row[n].seen \in Nat
         /\ file.ver \in Nat /\ file.by \in Macs \cup {Nobody}
         /\ \A c \in Contexts : call[n][c] \in Replies /\ call[n][c].epoch \in Nat
         /\ untold[n] \subseteq Nat
<1>1. Epochs \subseteq Nat BY LeaseAssumption DEF Epochs
<1>2. rec \in Leases BY TypeParts, Zenon DEF TableOK
<1>3. rec.epoch \in Nat /\ rec.hist \in [Macs -> Nat] /\ rec.holder \in Macs \cup {Nobody}
  BY <1>1, <1>2, Zenon DEF Leases
<1>4. cl[n] \in States /\ row[n] \in Rows BY StateTypes, RowTypes, Zenon
<1>5. cl[n].epoch \in Nat /\ cl[n].foreignBefore \in Nat BY <1>1, <1>4, Zenon
  DEF States
<1>6. row[n].acc \in Nat /\ row[n].dec \in Nat /\ row[n].seen \in Nat
  BY <1>1, <1>4, Zenon
  DEF Rows
<1>7. file.ver \in Nat /\ file.by \in Macs \cup {Nobody}
  BY TypeParts, Zenon
  DEF SaveOK, Files
<1>8. \A c \in Contexts : call[n][c] \in Replies BY TypeParts, Zenon DEF CallOK
<1>9. \A c \in Contexts : call[n][c].epoch \in Nat BY <1>1, <1>8, Zenon
  DEF Replies
<1>10. untold[n] \subseteq Nat BY <1>1, TypeParts, Zenon DEF UntoldOK
<1> QED BY <1>3, <1>5, <1>6, <1>7, <1>8, <1>9, <1>10, Zenon

\* What a step does to the tenure.
Tenure == \/ rec' = rec \/ rec' = End
          \/ \E p \in Macs : /\ rec' = Grant(p)
                             /\ Active(p) => rec.epoch + 1 \in untold'[p]

LEMMA TenureParts ==
  ASSUME LeaseInv, TypeOK, Tenure
  PROVE  \/ rec' = rec
         \/ /\ rec'.holder = Nobody /\ rec'.epoch = rec.epoch + 1 /\ rec'.hist = rec.hist
         \/ \E p \in Macs : /\ rec' = Grant(p)
                            /\ rec'.holder = p /\ rec'.epoch = rec.epoch + 1
                            /\ rec'.hist = [rec.hist EXCEPT ![p] = rec.epoch + 1]
                            /\ Active(p) => rec.epoch + 1 \in untold'[p]
<1>1. rec \in Leases BY TypeParts, Zenon DEF TableOK
<1>2. CASE rec' = End BY <1>1, <1>2, Zenon DEF End, Leases
<1>3. ASSUME NEW p \in Macs
      PROVE  /\ Grant(p).holder = p /\ Grant(p).epoch = rec.epoch + 1
             /\ Grant(p).hist = [rec.hist EXCEPT ![p] = rec.epoch + 1]
  BY Zenon DEF Grant
<1> QED BY <1>2, <1>3 DEF Tenure

LEMMA HistStep ==
  ASSUME LeaseInv, TypeOK, HistOK, Tenure
  PROVE  HistOK'
<1>0. rec.epoch \in Nat /\ \A n \in Macs : rec.hist[n] \in Nat /\ rec.hist \in [Macs -> Nat]
  BY Numbers, Tenures, Zenon
<1>1. CASE rec' = rec BY <1>1, Zenon DEF HistOK
<1>2. CASE /\ rec'.holder = Nobody /\ rec'.epoch = rec.epoch + 1 /\ rec'.hist = rec.hist
  BY <1>0, <1>2, LeaseAssumption DEF HistOK
<1>3. ASSUME NEW p \in Macs, rec'.holder = p, rec'.epoch = rec.epoch + 1,
             rec'.hist = [rec.hist EXCEPT ![p] = rec.epoch + 1]
      PROVE  HistOK'
  <2>1. \A n \in Macs : rec'.hist[n] = IF n = p THEN rec.epoch + 1 ELSE rec.hist[n]
    BY <1>0, <1>3, Zenon
  <2>2. \A n \in Macs : rec.hist[n] <= rec.epoch BY Zenon DEF HistOK
  <2> QED BY <1>0, <1>3, <2>1, <2>2 DEF HistOK
<1> QED BY <1>1, <1>2, <1>3, TenureParts, Zenon

\* The save of n is as it was, or out of a drain.
RowQuiet(n) ==
  \/ row'[n] = row[n]
  \/ /\ row'[n].seen = row[n].seen /\ row'[n].acc = row[n].acc
     /\ row'[n].dec \in {row[n].dec, 0} /\ Active(n)
     /\ row'[n].st \notin {"open", "write"} /\ unit'[n].st = "none"
  \/ row'[n] = NoRow /\ unit'[n].st = "none"

UnitQuiet(n) == unit'[n] = unit[n] \/ Writes(n)'

\* n is told nothing, and a context that gets a reply gets one that fits.
CallQuiet(n) == \A c \in Contexts : call'[n][c] = call[n][c] \/ Answers(n, call'[n][c])
StateQuiet(n) == /\ cl'[n].foreignBefore = cl[n].foreignBefore
                 /\ cl'[n].epoch = cl[n].epoch \/ cl'[n].epoch <= rec'.epoch
TellQuiet(n) == Active(n)' => untold[n] \subseteq untold'[n]

Quiet(n) == /\ RowQuiet(n) /\ UnitQuiet(n) /\ CallQuiet(n) /\ StateQuiet(n) /\ TellQuiet(n)
            /\ file' = file

\* The save of n, if it still is one, has the base and the epoch it had.
SameSave(n) == Active(n)' => /\ Active(n) /\ row'[n].seen = row[n].seen
                             /\ row'[n].acc = row[n].acc

\* A step that tells n nothing leaves a warning standing.
LEMMA WarnedStep ==
  ASSUME LeaseInv, TypeOK, HistOK, Tenure, NEW n \in Macs, Good(n), SameSave(n),
         CallQuiet(n), TellQuiet(n), cl'[n].foreignBefore = cl[n].foreignBefore,
         file' = file, Missed(n)'
  PROVE  Warned(n)'
<1>0. /\ rec.epoch \in Nat /\ rec.hist \in [Macs -> Nat] /\ row[n].acc \in Nat
      /\ row[n].seen \in Nat /\ file.ver \in Nat /\ file.by \in Macs \cup {Nobody}
      /\ \A c \in Contexts : call[n][c].epoch \in Nat
  BY Numbers, Zenon
<1>a. rec' = rec \/ rec'.epoch = rec.epoch + 1 BY TenureParts, Zenon
<1>1. /\ Active(n) /\ row'[n].seen = row[n].seen /\ row'[n].acc = row[n].acc
      /\ untold[n] \subseteq untold'[n] /\ file' = file
      /\ cl'[n].foreignBefore = cl[n].foreignBefore
  BY Zenon DEF SameSave, Missed, TellQuiet
<1>2. Missed(n) BY <1>1, Zenon DEF Missed, Kept
<1>3. file.by \in Macs BY <1>0, <1>2 DEF Missed, Kept, Good, Seen
<1>4. CASE row[n].acc < cl[n].foreignBefore BY <1>1, <1>4, Zenon DEF Warned
<1>5. ASSUME NEW g \in untold[n], row[n].acc < g, g <= rec.epoch,
             \A c \in Contexts : call[n][c].status = "GRANTED" /\ call[n][c].epoch = g
                                   => call[n][c].foreign
      PROVE  Warned(n)'
  <2>1. g \in Nat BY Numbers, Zenon
  <2>2. g <= rec'.epoch BY <1>0, <1>a, <1>5, <2>1
  <2>3. ASSUME NEW c \in Contexts, call'[n][c].status = "GRANTED", call'[n][c].epoch = g
        PROVE  call'[n][c].foreign
    <3>1. ~Answers(n, call'[n][c]) BY <1>0, <1>5, <2>1, <2>3 DEF Answers
    <3>2. call'[n][c] = call[n][c] BY <3>1, Zenon DEF CallQuiet
    <3> QED BY <1>5, <2>3, <3>2, Zenon
  <2> QED BY <1>1, <1>5, <2>2, <2>3, Zenon DEF Warned
<1>6. CASE rec.hist[n] < rec.hist[file.by]
  <2>1. CASE rec'.hist = rec.hist BY <1>1, <1>6, <2>1, Zenon DEF Warned
  <2>2. ASSUME NEW p \in Macs, p # n, rec'.hist = [rec.hist EXCEPT ![p] = rec.epoch + 1]
        PROVE  Warned(n)'
    <3>1. rec'.hist[n] = rec.hist[n] /\ rec'.hist[file.by] >= rec.hist[file.by]
      BY <1>0, <1>3, <2>2 DEF HistOK
    <3>2. rec'.hist[n] \in Nat /\ rec'.hist[file.by] \in Nat
      BY <1>0, <1>3, <2>2
    <3>3. rec'.hist[n] < rec'.hist[file'.by] BY <1>0, <1>1, <1>3, <1>6, <3>1,
    <3>2
    <3> QED BY <3>3, Zenon DEF Warned
  <2>3. ASSUME rec' = Grant(n), rec'.epoch = rec.epoch + 1, rec.epoch + 1 \in untold'[n]
        PROVE  Warned(n)'
    <3>1. Foreign(n) BY <1>0, <1>2, <1>3, <1>6, Zenon DEF Foreign, Missed, Kept
    <3>2. row'[n].acc < rec.epoch + 1 BY <1>0, <1>1 DEF Good, Known
    <3>3. ASSUME NEW c \in Contexts, call'[n][c].status = "GRANTED",
                 call'[n][c].epoch = rec.epoch + 1
          PROVE  call'[n][c].foreign
      <4>1. call'[n][c] # call[n][c] BY <1>0, <3>3 DEF Good, Known
      <4>2. Answers(n, call'[n][c]) BY <4>1, Zenon DEF CallQuiet
      <4> QED BY <3>1, <3>3, <4>2, Zenon DEF Answers
    <3> QED BY <1>0, <2>3, <3>2, <3>3 DEF Warned
  <2> QED BY <1>1, <2>1, <2>2, <2>3, TenureParts, Zenon
<1> QED BY <1>2, <1>4, <1>5, <1>6, Zenon DEF Good, Warned

\* Such a step keeps what holds of n.
LEMMA QuietKeeps ==
  ASSUME LeaseInv, TypeOK, HistOK, Tenure, NEW n \in Macs, Good(n), Quiet(n)
  PROVE  Good(n)'
<1>0. /\ rec.epoch \in Nat /\ rec.hist \in [Macs -> Nat]
      /\ row[n].acc \in Nat /\ row[n].dec \in Nat /\ row[n].seen \in Nat
      /\ file.ver \in Nat /\ file.by \in Macs \cup {Nobody}
      /\ cl[n].epoch \in Nat
      /\ \A c \in Contexts : call[n][c].epoch \in Nat
  BY Numbers, Zenon
<1>1. rec' = rec \/ rec'.epoch = rec.epoch + 1 BY TenureParts, Zenon
<1>2. Known(n)'
  <2>1. rec'.epoch \in Nat /\ rec.epoch <= rec'.epoch BY <1>0, <1>1
  <2>2. row'[n].acc <= rec'.epoch /\ row'[n].dec <= rec'.epoch
    BY <1>0, <2>1 DEF Good, Known, Quiet, RowQuiet, NoRow
  <2>3. cl'[n].epoch <= rec'.epoch BY <1>0, <2>1 DEF Good, Known, Quiet,
  StateQuiet
  <2>4. \A c \in Contexts :
          /\ call'[n][c].epoch <= rec'.epoch
          /\ call'[n][c].status = "GRANTED" => call'[n][c].epoch > 0
    BY <1>0, <2>1 DEF Good, Known, Quiet, CallQuiet, Answers
  <2> QED BY <2>2, <2>3, <2>4, Zenon DEF Known
<1>3. Seen(n)' BY <1>0 DEF Good, Seen, Quiet, RowQuiet, NoRow
<1>4. Writes(n)' BY Zenon DEF Good, Writes, Quiet, RowQuiet, UnitQuiet
<1>5. ASSUME Missed(n)' PROVE Warned(n)'
  <2>1. SameSave(n) BY DEF Quiet, RowQuiet, SameSave, Active, NoRow
  <2> QED BY <1>5, <2>1, WarnedStep, Zenon DEF Quiet, StateQuiet
<1>6. ASSUME Decides(n)' PROVE Kept(n)'
  <2>1. row'[n] = row[n] BY <1>6 DEF Decides, Quiet, RowQuiet, NoRow
  <2>2. rec' = rec BY <1>0, <1>1, <1>6, <2>1 DEF Decides, Good, Known
  <2> QED BY <1>6, <2>1, <2>2, Zenon DEF Decides, Good, Kept, Quiet
<1> QED BY <1>2, <1>3, <1>4, <1>5, <1>6, Zenon DEF Good

LEMMA AllQuiet ==
  ASSUME LeaseInv, TypeOK, KeptInv, Tenure, \A n \in Macs : Quiet(n)
  PROVE  KeptInv'
BY HistStep, QuietKeeps, Zenon DEF KeptInv

\* In most steps one Mac changes, and the others see the tenure change at most.
Alone(m) == /\ file' = file
            /\ \A n \in Macs \ {m} :
                 /\ row'[n] = row[n] /\ unit'[n] = unit[n] /\ cl'[n] = cl[n]
                 /\ call'[n] = call[n] /\ untold'[n] = untold[n]

LEMMA ActorKeeps ==
  ASSUME LeaseInv, TypeOK, KeptInv, Tenure, NEW m \in Macs, Alone(m), Good(m)'
  PROVE  KeptInv'
<1>1. HistOK' BY HistStep, Zenon DEF KeptInv
<1>2. ASSUME NEW n \in Macs \ {m} PROVE Good(n)'
  <2>1. Quiet(n) BY Zenon
    DEF Alone, Quiet, RowQuiet, UnitQuiet, CallQuiet, StateQuiet, TellQuiet
  <2> QED BY <2>1, QuietKeeps, Zenon DEF KeptInv
<1> QED BY <1>1, <1>2, Zenon DEF KeptInv

LEMMA ActorQuiet ==
  ASSUME LeaseInv, TypeOK, KeptInv, Tenure, NEW m \in Macs, Alone(m), Quiet(m)
  PROVE  KeptInv'
BY ActorKeeps, QuietKeeps, Zenon DEF KeptInv

LEMMA Functions ==
  ASSUME LeaseInv, TypeOK
  PROVE  /\ cl \in [Macs -> States] /\ row \in [Macs -> Rows] /\ unit \in [Macs -> Units]
         /\ call \in [Macs -> [Contexts -> Replies]] /\ untold \in [Macs -> SUBSET Epochs]
BY TypeParts, Zenon DEF ClientOK, SaveOK, CallOK, UntoldOK, TableOK

\* What is noted of a grant.
LEMMA Notes ==
  ASSUME LeaseInv, TypeOK, NEW m \in Macs, Stands \/ Finishes \/ Offers(m)
  PROVE  /\ Tenure /\ \A n \in Macs : untold[n] \subseteq untold'[n]
         /\ \A n \in Macs \ {m} : untold'[n] = untold[n]
<1>1. CASE Stands BY <1>1, Zenon DEF Stands, Tenure
<1>2. CASE Finishes BY <1>2, Zenon DEF Finishes, Tenure
<1>3. CASE Offers(m)
  <2>1. untold' = Noted(m) /\ untold \in [Macs -> SUBSET Epochs] /\ rec' \in {rec, Grant(m)}
    BY <1>3, Functions, Zenon DEF Offers
  <2>2. untold'[m] = IF Active(m) THEN untold[m] \cup {rec.epoch + 1} ELSE untold[m]
    BY <2>1, Zenon DEF Noted
  <2>3. \A n \in Macs \ {m} : untold'[n] = untold[n] BY <2>1, Zenon DEF Noted
  <2>4. Tenure BY <2>1, <2>2, Zenon DEF Tenure
  <2> QED BY <2>2, <2>3, <2>4, Zenon
<1> QED BY <1>1, <1>2, <1>3, Zenon

LEMMA AskQuiet ==
  ASSUME LeaseInv, TypeOK, NEW m \in Macs, NEW c \in Contexts, Ask(c, m)
  PROVE  /\ Tenure /\ CallQuiet(m) /\ TellQuiet(m)
         /\ \A n \in Macs \ {m} : call'[n] = call[n] /\ untold'[n] = untold[n]
<1>1. Stands \/ Offers(m) BY AskEffect, Zenon
<1>2. PICK r \in Replies : call' = [call EXCEPT ![m][c] = r] /\ Answers(m,
   r) BY AskEffect, Zenon
<1>3. /\ call'[m][c] = r /\ \A k \in Contexts \ {c} : call'[m][k] = call[m][k]
      /\ \A n \in Macs \ {m} : call'[n] = call[n]
  BY <1>2, Functions, Zenon
<1>4. CallQuiet(m) BY <1>2, <1>3, Zenon DEF CallQuiet
<1> QED BY <1>1, <1>3, <1>4, Notes, Zenon DEF TellQuiet

LEMMA DropQuiet ==
  ASSUME LeaseInv, TypeOK, NEW m \in Macs, NEW cost, releaseNow(m, cost)
  PROVE  /\ Tenure /\ untold' = untold /\ StateQuiet(m)
         /\ \A n \in Macs \ {m} : cl'[n] = cl[n]
<1>1. Stands \/ Finishes BY DropEffect, Zenon
<1>2. Tenure /\ untold' = untold BY <1>1, Zenon DEF Tenure, Stands, Finishes
<1>3. rec'.epoch >= 0
  <2>1. rec.epoch \in Nat BY Tenures, Zenon
  <2>2. rec' = rec \/ rec'.epoch = rec.epoch + 1 BY <1>2, TenureParts, Zenon
  <2> QED BY <2>1, <2>2
<1>4. CASE cl' = cl BY <1>2, <1>4, Zenon DEF StateQuiet
<1>5. CASE cl' = Dropped(m)
  <2>0. cl[m] \in States /\ cl \in [Macs -> States] BY Functions, Zenon
  <2>3. cl'[m] = [cl[m] EXCEPT !.wanted = FALSE, !.held = FALSE, !.epoch = 0,
                               !.fresh = FALSE]
    BY <1>5, <2>0, Zenon DEF Dropped
  <2>1. cl'[m].epoch = 0 /\ cl'[m].foreignBefore = cl[m].foreignBefore
    BY <2>0, <2>3, Zenon DEF States
  <2>2. \A n \in Macs \ {m} : cl'[n] = cl[n] BY <1>5, Functions, Zenon
    DEF Dropped
  <2> QED BY <1>2, <1>3, <2>1, <2>2, Zenon DEF StateQuiet
<1> QED BY <1>4, <1>5, DropEffect, Zenon

-----------------------------------------------------------------------------
(* The client.                                                              *)

LEMMA BeatenQuiet ==
  ASSUME LeaseInv, TypeOK, NEW m \in Macs, Known(m), rec' = rec,
         cl' = [cl EXCEPT ![m] = beaten(m)]
  PROVE  StateQuiet(m) /\ \A n \in Macs \ {m} : cl'[n] = cl[n]
<1> DEFINE st == [cl[m] EXCEPT !.known = @ \/ cl[m].held]
<1>1. cl \in [Macs -> States] /\ cl[m] \in States BY Functions, Zenon
<1>2. st \in States /\ st.epoch = cl[m].epoch /\ st.foreignBefore = cl[m].foreignBefore
  BY <1>1, Zenon DEF States
<1>3. cl'[m] = beaten(m) /\ \A n \in Macs \ {m} : cl'[n] = cl[n] BY <1>1, Zenon
<1>4. CASE beaten(m) = st BY <1>2, <1>3, <1>4, Zenon DEF StateQuiet
<1>5. CASE Holder = m /\ beaten(m) = [st EXCEPT !.held = TRUE, !.epoch = mem.epoch, !.fresh = TRUE]
  <2>1. beaten(m).epoch = mem.epoch /\ beaten(m).foreignBefore = cl[m].foreignBefore
    BY <1>2, <1>5, Zenon DEF States
  <2>2. mem = rec BY <1>5, Tenures, LeaseAssumption, Zenon DEF Holder
  <2> QED BY <1>3, <2>1, <2>2, Tenures DEF StateQuiet
<1>6. CASE beaten(m) = [st EXCEPT !.held = FALSE, !.epoch = 0, !.fresh = FALSE]
  <2>1. beaten(m).epoch = 0 /\ beaten(m).foreignBefore = cl[m].foreignBefore
    BY <1>2, <1>6, Zenon DEF States
  <2> QED BY <1>3, <2>1, Tenures DEF StateQuiet
<1>7. \/ beaten(m) = st
      \/ Holder = m /\ beaten(m) = [st EXCEPT !.held = TRUE, !.epoch = mem.epoch, !.fresh = TRUE]
      \/ beaten(m) = [st EXCEPT !.held = FALSE, !.epoch = 0, !.fresh = FALSE]
  BY Zenon DEF beaten
<1> QED BY <1>3, <1>4, <1>5, <1>6, <1>7, Zenon

\* A reply is acted on: what it warns of is remembered, unless it was
\* overtaken.
Heard(m) == /\ Missed(m)' => Warned(m)'
            /\ cl'[m].epoch <= rec'.epoch
            /\ \A k \in Contexts : /\ call'[m][k].epoch <= rec'.epoch
                                   /\ call'[m][k].status = "GRANTED" => call'[m][k].epoch > 0
            /\ \A n \in Macs \ {m} :
                 cl'[n] = cl[n] /\ call'[n] = call[n] /\ untold'[n] = untold[n]

LEMMA ToldKeeps ==
  ASSUME LeaseInv, TypeOK, NEW m \in Macs, NEW c \in Contexts, Good(m), rec' = rec,
         file' = file, cl' = [cl EXCEPT ![m] = acquired(m, call[m][c])],
         Told(m, call[m][c]), Received(m, c), SameSave(m)
  PROVE  Heard(m)
<1> DEFINE r == call[m][c]
<1>0. /\ rec.epoch \in Nat /\ row[m].acc \in Nat /\ r \in Replies /\ r.epoch \in Nat
      /\ untold[m] \subseteq Nat /\ cl[m].epoch \in Nat /\ cl[m].foreignBefore \in Nat
  BY Numbers, Zenon
<1>1. /\ cl \in [Macs -> States] /\ call \in [Macs -> [Contexts -> Replies]]
      /\ untold \in [Macs -> SUBSET Epochs]
  BY Functions, Zenon
<1>2. /\ call'[m][c] = NoCall /\ \A k \in Contexts \ {c} : call'[m][k] = call[m][k]
      /\ \A n \in Macs \ {m} : call'[n] = call[n]
  BY <1>1, Zenon DEF Received
<1>3. cl'[m] = acquired(m, r) /\ \A n \in Macs \ {m} : cl'[n] = cl[n] BY <1>1,
   Zenon
<1>4. /\ untold'[m] = CASE r.status # "GRANTED" -> untold[m]
                        [] r.foreign /\ r.epoch < cl[m].foreignBefore /\ Active(m) ->
                             untold[m] \cup {0}
                        [] OTHER -> untold[m] \ {r.epoch}
      /\ \A n \in Macs \ {m} : untold'[n] = untold[n]
  BY <1>1, Zenon DEF Told
<1>5. NoCall.status = "none" /\ NoCall.epoch = 0 BY Zenon DEF NoCall, Reply
<1>6. /\ cl'[m].epoch \in {r.epoch, 0, cl[m].epoch}
      /\ cl'[m].foreignBefore = IF r.status = "GRANTED" /\ r.foreign THEN r.epoch
                                ELSE cl[m].foreignBefore
  <2>1. cl[m] \in States BY <1>1, Zenon
  <2>2. CASE r.status \in {"GRANTED", "RENEWED"}
    <3>1. acquired(m, r) = [cl[m] EXCEPT !.held = TRUE, !.epoch = r.epoch, !.fresh = TRUE,
                              !.foreignBefore = IF r.status = "GRANTED" /\ r.foreign
                                                THEN r.epoch ELSE @]
      BY <2>2, Zenon DEF acquired
    <3> QED BY <1>3, <2>1, <3>1, Zenon DEF States
  <2>3. CASE r.status = "HELD"
    <3>1. acquired(m, r) = [cl[m] EXCEPT !.held = FALSE, !.epoch = 0, !.fresh = FALSE]
      BY <2>3, Zenon DEF acquired
    <3>2. acquired(m, r).epoch = 0 /\ acquired(m, r).foreignBefore = cl[m].foreignBefore
      BY <2>1, <3>1, Zenon DEF States
    <3> QED BY <1>3, <2>3, <3>2, Zenon
  <2>4. CASE r.status \notin {"GRANTED", "RENEWED", "HELD"}
    BY <1>3, <2>4 DEF acquired
  <2> QED BY <2>2, <2>3, <2>4, Zenon
<1>7. cl'[m].epoch <= rec'.epoch BY <1>0, <1>6 DEF Good, Known
<1>8. \A k \in Contexts : /\ call'[m][k].epoch <= rec'.epoch
                          /\ call'[m][k].status = "GRANTED" => call'[m][k].epoch > 0
  BY <1>0, <1>2, <1>5 DEF Good, Known
<1>9. ASSUME Missed(m)' PROVE Warned(m)'
  <2>1. /\ Active(m) /\ row'[m].acc = row[m].acc /\ row'[m].seen = row[m].seen
        /\ ~Kept(m) /\ 0 \notin untold'[m]
    BY <1>9, Zenon DEF SameSave, Missed, Kept
  <2>2. r.status = "GRANTED" => r.epoch > 0 BY Zenon DEF Good, Known
  <2>3. \A g \in untold[m] : g \in untold'[m] \/ (r.status = "GRANTED" /\ g = r.epoch)
    BY <1>4, Zenon
  <2>4. r.status = "GRANTED" /\ r.foreign => cl[m].foreignBefore <= r.epoch
    BY <1>0, <1>4, <2>1
  <2>5. Missed(m)
    <3>1. 0 \notin untold[m] BY <1>0, <2>1, <2>2, <2>3
    <3> QED BY <2>1, <3>1, Zenon DEF Missed
  <2>6. CASE rec.hist[m] < rec.hist[file.by] BY <2>6, Zenon DEF Warned
  <2>7. ASSUME NEW g \in untold[m], row[m].acc < g, g <= rec.epoch,
               \A k \in Contexts : call[m][k].status = "GRANTED" /\ call[m][k].epoch = g
                                     => call[m][k].foreign
        PROVE  Warned(m)'
    <3>1. CASE r.status = "GRANTED" /\ g = r.epoch
      BY <1>6, <2>1, <2>7, <3>1, Zenon DEF Warned
    <3>2. CASE g \in untold'[m]
      <4>1. \A k \in Contexts : call'[m][k].status = "GRANTED" /\ call'[m][k].epoch = g
                                  => call'[m][k].foreign
        BY <1>2, <1>5, <2>7, Zenon
      <4> QED BY <2>1, <2>7, <3>2, <4>1, Zenon DEF Warned
    <3> QED BY <2>3, <3>1, <3>2, Zenon
  <2>8. CASE row[m].acc < cl[m].foreignBefore
    <3>1. row'[m].acc < cl'[m].foreignBefore BY <1>0, <1>6, <2>1, <2>4, <2>8
    <3> QED BY <3>1, Zenon DEF Warned
  <2> QED BY <2>5, <2>6, <2>7, <2>8, Zenon DEF Good, Warned
<1> QED BY <1>2, <1>3, <1>4, <1>7, <1>8, <1>9, Zenon DEF Heard

\* A step in which only the client of m acts, and which tells it nothing.
LEMMA ClientQuiet ==
  ASSUME LeaseInv, TypeOK, KeptInv, NEW m \in Macs, Tenure, CallQuiet(m), StateQuiet(m),
         TellQuiet(m), UNCHANGED <<unit, row, file>>,
         \A n \in Macs \ {m} : cl'[n] = cl[n] /\ call'[n] = call[n] /\ untold'[n] = untold[n]
  PROVE  KeptInv'
<1>1. Alone(m) BY Zenon DEF Alone
<1>2. Quiet(m) BY Zenon DEF Quiet, RowQuiet, UnitQuiet
<1> QED BY <1>1, <1>2, ActorQuiet, Zenon

LEMMA ClientKeeps ==
  ASSUME LeaseInv, TypeOK, KeptInv, NEW m \in Macs, Client(m) \/ Release(m)
  PROVE  KeptInv'
<1>0. /\ cl \in [Macs -> States] /\ row \in [Macs -> Rows]
      /\ cl[m] \in States /\ Good(m)
  BY Functions, Zenon DEF KeptInv
<1>1. CASE acquireAsync(m)
  <2>1. /\ cl' = [cl EXCEPT ![m].touched = FALSE] /\ UNCHANGED <<unit, row, file>>
        /\ UNCHANGED <<rec, call, untold>> \/ Ask("loop", m)
    BY <1>1, Zenon DEF acquireAsync, units, proxy
  <2>2. /\ cl'[m].epoch = cl[m].epoch /\ cl'[m].foreignBefore = cl[m].foreignBefore
        /\ \A n \in Macs \ {m} : cl'[n] = cl[n]
    BY <1>0, <2>1, Zenon DEF States
  <2>3. StateQuiet(m) BY <2>2, Zenon DEF StateQuiet
  <2>4. CASE UNCHANGED <<rec, call, untold>>
    <3>1. Tenure /\ CallQuiet(m) /\ TellQuiet(m)
      BY <2>4, Zenon
      DEF Tenure, CallQuiet, TellQuiet
    <3> QED BY <2>1, <2>2, <2>3, <2>4, <3>1, ClientQuiet, Zenon
  <2>5. CASE Ask("loop", m)
    <3>1. "loop" \in Contexts BY Zenon DEF Contexts
    <3> QED BY <2>1, <2>2, <2>3, <2>5, <3>1, AskQuiet, ClientQuiet, Zenon
  <2> QED BY <2>1, <2>4, <2>5, Zenon
<1>2. CASE Tick(m)
  <2>1. /\ UNCHANGED <<rec, unit, call, row, file, untold>>
        /\ cl' = cl \/ cl' = [cl EXCEPT ![m] = beaten(m)]
    BY <1>2, Zenon DEF Tick, heartbeat, units
  <2>2. Tenure /\ CallQuiet(m) /\ TellQuiet(m)
    BY <2>1, Zenon
    DEF Tenure, CallQuiet, TellQuiet
  <2>3. StateQuiet(m) /\ \A n \in Macs \ {m} : cl'[n] = cl[n]
    <3>1. CASE cl' = cl BY <3>1, Zenon DEF StateQuiet
    <3>2. CASE cl' = [cl EXCEPT ![m] = beaten(m)]
      BY <1>0, <2>1, <3>2, BeatenQuiet, Zenon DEF Good
    <3> QED BY <2>1, <3>1, <3>2, Zenon
  <2> QED BY <2>1, <2>2, <2>3, ClientQuiet, Zenon
<1>3. CASE retryWaiting(m)
  <2>1. Ask("loop", m) /\ UNCHANGED <<unit, cl, row, file>>
    BY <1>3, Zenon
    DEF retryWaiting, units
  <2>2. "loop" \in Contexts /\ StateQuiet(m) BY <2>1, Zenon
    DEF Contexts, StateQuiet
  <2> QED BY <2>1, <2>2, AskQuiet, ClientQuiet, Zenon
<1>4. CASE LoopAnswered(m)
  <2> DEFINE r == call[m]["loop"]
  <2>1. /\ cl' = [cl EXCEPT ![m] = acquired(m, r)] /\ Told(m, r) /\ Received(m, "loop")
        /\ row' = [row EXCEPT ![m].st =
             IF loop[m] = "retry" /\ r.status \in {"GRANTED", "RENEWED"} /\ @ = "waiting"
             THEN "ready" ELSE @]
        /\ UNCHANGED <<rec, unit, file>> /\ "loop" \in Contexts
    BY <1>4, Zenon DEF LoopAnswered, Answer, proxy, units, Contexts
  <2>2. /\ row'[m] = row[m] \/ (row[m].st = "waiting" /\ row'[m] = [row[m] EXCEPT !.st = "ready"])
        /\ \A n \in Macs \ {m} : row'[n] = row[n]
    <3>1. row[m] = [row[m] EXCEPT !.st = row[m].st] BY <1>0, Zenon DEF Rows
    <3> QED BY <1>0, <2>1, <3>1, Zenon
  <2>3. CASE row'[m] = row[m]
    <3>1. SameSave(m) BY <2>3, Zenon DEF SameSave, Active
    <3>2. Heard(m) BY <1>0, <2>1, <3>1, ToldKeeps, Zenon
    <3>3. Known(m)' BY <1>0, <2>1, <2>3, <3>2, Zenon DEF Good, Known, Heard
    <3>4. Seen(m)' /\ Writes(m)' /\ (Decides(m)' => Kept(m)')
      BY <1>0, <2>1, <2>3, Zenon DEF Good, Seen, Writes, Decides, Kept
    <3>5. Good(m)' BY <3>2, <3>3, <3>4, Zenon DEF Good, Heard
    <3>6. Alone(m) /\ Tenure BY <2>1, <2>2, <3>2, Zenon DEF Alone, Tenure, Heard
    <3> QED BY <3>5, <3>6, ActorKeeps, Zenon
  <2>4. CASE row[m].st = "waiting" /\ row'[m] = [row[m] EXCEPT !.st = "ready"]
    <3>0. /\ row'[m].st = "ready" /\ row'[m].seen = row[m].seen
          /\ row'[m].acc = row[m].acc /\ row'[m].dec = row[m].dec
      <4>1. row[m] \in Rows /\ row'[m] = [row[m] EXCEPT !.st = "ready"]
        BY <1>0, <2>4, Zenon
      <4> QED BY <4>1, Zenon DEF Rows
    <3>1. SameSave(m) BY <2>4, <3>0, Zenon DEF SameSave, Active
    <3>2. Heard(m) BY <1>0, <2>1, <3>1, ToldKeeps, Zenon
    <3>3. Known(m)' BY <1>0, <2>1, <3>0, <3>2, Zenon DEF Good, Known, Heard
    <3>4. Seen(m)' /\ Writes(m)' /\ (Decides(m)' => Kept(m)')
      BY <1>0, <2>1, <2>4, <3>0, Zenon DEF Good, Seen, Writes, Decides
    <3>5. Good(m)' BY <3>2, <3>3, <3>4, Zenon DEF Good, Heard
    <3>6. Alone(m) /\ Tenure BY <2>1, <2>2, <3>2, Zenon DEF Alone, Tenure, Heard
    <3> QED BY <3>5, <3>6, ActorKeeps, Zenon
  <2> QED BY <2>2, <2>3, <2>4, Zenon
<1>5. ASSUME NEW cost, releaseNow(m, cost), UNCHANGED <<unit, call, row, file>>
      PROVE  KeptInv'
  <2>1. /\ Tenure /\ untold' = untold /\ StateQuiet(m)
        /\ \A n \in Macs \ {m} : cl'[n] = cl[n]
    BY <1>5, DropQuiet, Zenon
  <2>2. CallQuiet(m) /\ TellQuiet(m) BY <1>5, <2>1, Zenon
    DEF CallQuiet, TellQuiet
  <2> QED BY <1>5, <2>1, <2>2, ClientQuiet, Zenon
<1>6. CASE DeferredRelease(m)
  <2>1. releaseNow(m, {}) /\ UNCHANGED <<unit, call, row, file>>
    BY <1>6, Zenon DEF DeferredRelease, units
  <2> QED BY <1>5, <2>1, Zenon
<1>7. CASE Release(m)
  <2>1. UNCHANGED <<unit, call, row, file>> BY <1>7, Zenon DEF Release, units
  <2>2. CASE cl' = [cl EXCEPT ![m].wanted = TRUE] /\ UNCHANGED <<proxy, untold>>
    <3>1. /\ cl'[m].epoch = cl[m].epoch /\ cl'[m].foreignBefore = cl[m].foreignBefore
          /\ \A n \in Macs \ {m} : cl'[n] = cl[n]
      BY <1>0, <2>2, Zenon DEF States
    <3>2. Tenure /\ CallQuiet(m) /\ TellQuiet(m) /\ StateQuiet(m)
      BY <2>1, <2>2, <3>1, Zenon
      DEF Tenure, CallQuiet, TellQuiet, StateQuiet, proxy
    <3> QED BY <2>1, <2>2, <3>1, <3>2, ClientQuiet, Zenon
  <2>3. CASE releaseNow(m, {"event"}) BY <1>5, <2>1, <2>3, Zenon
  <2> QED BY <1>7, <2>2, <2>3, Zenon DEF Release
<1> QED BY <1>1, <1>2, <1>3, <1>4, <1>6, <1>7, Zenon DEF Client

-----------------------------------------------------------------------------
(* The drain.                                                               *)

\* A row that leaves its drain, with no unit of it in flight.
LEMMA ParkQuiet ==
  ASSUME LeaseInv, TypeOK, NEW m \in Macs, Active(m), unit'[m].st = "none",
         NEW s \in RowStates \ {"open", "write"},
         row'[m] = Parked(m, s) \/ row'[m] = [row[m] EXCEPT !.st = s]
  PROVE  RowQuiet(m)
<1>1. row[m] \in Rows BY Functions, Zenon
<1>2. /\ row'[m].seen = row[m].seen /\ row'[m].acc = row[m].acc
      /\ row'[m].dec \in {row[m].dec, 0} /\ row'[m].st = s
  BY <1>1, Zenon DEF Parked, Rows
<1> QED BY <1>2, Zenon DEF RowQuiet

\* A drain decides on what its Mac has been told by now: a Mac that knows of
\* every grant, and holds the lease, has been warned of what it missed.
LEMMA SafeDecision ==
  ASSUME LeaseInv, TypeOK, HistOK, NEW m \in Macs, Good(m), rec' = rec, file' = file,
         Missed(m)' => Warned(m)', row'[m].st = "open", row'[m].seen = row[m].seen,
         row'[m].acc = row[m].acc, row'[m].sure => untold'[m] = {},
         row'[m].tainted <=> taints(cl'[m].foreignBefore, row[m].acc),
         cl'[m].foreignBefore \in Nat
  PROVE  Decides(m)' => Kept(m)'
<1> SUFFICES ASSUME Decides(m)', ~Kept(m)' PROVE FALSE BY Zenon
<1>0. /\ rec.epoch \in Nat /\ rec.hist \in [Macs -> Nat] /\ row[m].acc \in Nat
      /\ row[m].seen \in Nat /\ file.ver \in Nat /\ file.by \in Macs \cup {Nobody}
  BY Numbers, Zenon
<1>1. untold'[m] = {} /\ rec.holder = m /\ ~row'[m].tainted BY Zenon DEF Decides
<1>2. Warned(m)' BY <1>1, Zenon DEF Missed, Active
<1>3. file.by \in Macs /\ file.by # m BY <1>0 DEF Good, Seen, Kept
<1>4. ~(rec.hist[m] < rec.hist[file.by])
  <2>1. rec.hist[m] = rec.epoch /\ rec.hist[file.by] < rec.epoch
    BY <1>1, <1>3, Zenon
    DEF HistOK
  <2> QED BY <1>0, <1>3, <2>1
<1>5. ~(row[m].acc < cl'[m].foreignBefore) BY <1>0, <1>1 DEF taints
<1> QED BY <1>1, <1>2, <1>4, <1>5, Zenon DEF Warned

LEMMA DecidedParts ==
  ASSUME TypeOK, NEW m \in Macs, NEW st, NEW e, NEW u
  PROVE  LET d == Decided(m, st, e, u)
         IN  /\ d.st = "open" /\ d.seen = row[m].seen /\ d.acc = row[m].acc /\ d.dec = e
             /\ d.tainted = taints(st.foreignBefore, row[m].acc)
             /\ d.sure = (u = {})
<1>1. row[m] \in Rows BY RowTypes, Zenon
<1> QED BY <1>1, Zenon DEF Decided, Rows

LEMMA GateKeeps ==
  ASSUME LeaseInv, TypeOK, KeptInv, NEW m \in Macs, leaseGate(m)
  PROVE  KeptInv'
<1>0. /\ row \in [Macs -> Rows] /\ Good(m) /\ HistOK /\ row[m].st = "ready"
      /\ UNCHANGED <<unit, cl, file>> /\ unit[m].st = "none" /\ Active(m)
  BY Functions, Zenon DEF KeptInv, leaseGate, units, Good, Writes, Active
<1>1. CASE Fresh(m)
  <2> DEFINE d == Decided(m, cl[m], cl[m].epoch, untold[m])
  <2>1. row' = [row EXCEPT ![m] = d] /\ UNCHANGED <<rec, call, untold>>
    BY <1>1, Zenon DEF leaseGate, proxy
  <2>2. row'[m] = d /\ \A n \in Macs \ {m} : row'[n] = row[n] BY <1>0, <2>1,
     Zenon
  <2>3. /\ d.st = "open" /\ d.seen = row[m].seen /\ d.acc = row[m].acc
        /\ d.dec = cl[m].epoch /\ d.tainted = taints(cl[m].foreignBefore, row[m].acc)
        /\ d.sure = (untold[m] = {})
    BY DecidedParts
  <2> HIDE DEF d
  <2>4. Alone(m) /\ Tenure /\ SameSave(m) /\ CallQuiet(m) /\ TellQuiet(m)
    BY <1>0, <2>1, <2>2, <2>3, Zenon
    DEF Alone, Tenure, SameSave, CallQuiet, TellQuiet
  <2>5. Missed(m)' => Warned(m)' BY <1>0, <2>4, WarnedStep, Zenon
  <2>6. Known(m)' /\ Seen(m)' /\ Writes(m)'
    BY <1>0, <2>1, <2>2, <2>3, Zenon DEF Good, Known, Seen, Writes
  <2>7. cl[m].foreignBefore \in Nat BY Numbers, Zenon
  <2>8. Decides(m)' => Kept(m)'
    BY <1>0, <2>1, <2>2, <2>3, <2>5, <2>7, SafeDecision, Zenon
  <2>9. Good(m)' BY <2>5, <2>6, <2>8, Zenon DEF Good
  <2> QED BY <2>4, <2>9, ActorKeeps, Zenon
<1>2. CASE ~Fresh(m)
  <2>1. Ask("drain", m) /\ row' = [row EXCEPT ![m].st = "gate"] /\ "drain" \in Contexts
    BY <1>2, Zenon DEF leaseGate, Contexts
  <2>2. /\ row'[m] = [row[m] EXCEPT !.st = "gate"]
        /\ \A n \in Macs \ {m} : row'[n] = row[n]
    BY <1>0, <2>1, Zenon
  <2>3. /\ Tenure /\ CallQuiet(m) /\ TellQuiet(m)
        /\ \A n \in Macs \ {m} : call'[n] = call[n] /\ untold'[n] = untold[n]
    BY <2>1, AskQuiet, Zenon
  <2>4. RowQuiet(m) BY <1>0, <2>2, ParkQuiet, Zenon DEF RowStates
  <2>5. Quiet(m) BY <1>0, <2>3, <2>4, Zenon DEF Quiet, UnitQuiet, StateQuiet
  <2>6. Alone(m) BY <1>0, <2>2, <2>3, Zenon DEF Alone
  <2> QED BY <2>3, <2>5, <2>6, ActorQuiet, Zenon
<1> QED BY <1>1, <1>2, Zenon

LEMMA AnswerKeeps ==
  ASSUME LeaseInv, TypeOK, KeptInv, NEW m \in Macs, GateAnswered(m)
  PROVE  KeptInv'
<1> DEFINE r == call[m]["drain"]
           d == Decided(m, acquired(m, r), r.epoch, untold'[m])
<1>0. /\ row \in [Macs -> Rows] /\ Good(m) /\ HistOK /\ row[m].st = "gate"
      /\ UNCHANGED <<rec, unit, file>> /\ unit[m].st = "none" /\ Active(m)
      /\ cl \in [Macs -> States] /\ "drain" \in Contexts
  BY Functions, Zenon
  DEF KeptInv, GateAnswered, proxy, units, Good, Writes, Active, Contexts
<1>1. /\ cl' = [cl EXCEPT ![m] = acquired(m, r)] /\ Told(m, r) /\ Received(m, "drain")
      /\ row' = [row EXCEPT ![m] = CASE r.status = "HELD" -> [@ EXCEPT !.st = "waiting"]
                                     [] r.status = "error" -> Parked(m, "open")
                                     [] OTHER -> d]
  BY Zenon DEF GateAnswered, Answer
<1>2. /\ row'[m] \in {[row[m] EXCEPT !.st = "waiting"], Parked(m, "open"), d}
      /\ \A n \in Macs \ {m} : row'[n] = row[n]
  BY <1>0, <1>1, Zenon
<1>3. cl'[m] = acquired(m, r) BY <1>0, <1>1, Zenon
<1>4. /\ d.st = "open" /\ d.seen = row[m].seen /\ d.acc = row[m].acc
      /\ d.dec = r.epoch /\ d.tainted = taints(cl'[m].foreignBefore, row[m].acc)
      /\ d.sure = (untold'[m] = {})
  BY <1>3, DecidedParts
<1>5. /\ [row[m] EXCEPT !.st = "waiting"].st = "waiting"
      /\ [row[m] EXCEPT !.st = "waiting"].seen = row[m].seen
      /\ [row[m] EXCEPT !.st = "waiting"].acc = row[m].acc
      /\ [row[m] EXCEPT !.st = "waiting"].dec = row[m].dec
  BY <1>0, Zenon DEF Rows
<1>6. /\ Parked(m, "open").st = "open" /\ Parked(m, "open").seen = row[m].seen
      /\ Parked(m, "open").acc = row[m].acc /\ Parked(m, "open").dec = 0
      /\ Parked(m, "open").sure = FALSE
  BY <1>0, Zenon DEF Parked, Rows
<1> HIDE DEF d
<1>7. /\ row'[m].st \in {"waiting", "open"} /\ row'[m].seen = row[m].seen
      /\ row'[m].acc = row[m].acc /\ row'[m].dec \in {row[m].dec, 0, r.epoch}
  BY <1>2, <1>4, <1>5, <1>6, Zenon
<1>8. SameSave(m) BY <1>0, <1>7, Zenon DEF SameSave
<1>9. Heard(m) BY <1>0, <1>1, <1>8, ToldKeeps, Zenon
<1>10. Known(m)'
  <2>1. rec.epoch \in Nat BY Tenures, Zenon
  <2>2. row'[m].acc <= rec'.epoch /\ row'[m].dec <= rec'.epoch
    BY <1>0, <1>7, <2>1 DEF Good, Known
  <2> QED BY <1>9, <2>2, Zenon DEF Known, Heard
<1>11. Seen(m)' /\ Writes(m)' BY <1>0, <1>7, Zenon DEF Good, Seen, Writes
<1>12. Decides(m)' => Kept(m)'
  <2>1. CASE row'[m] = d
    <3>1. cl'[m].foreignBefore \in Nat
      <4>1. acquired(m, r) \in States BY <1>0, Functions, StateTypes, Zenon
      <4> QED BY <1>3, <4>1, LeaseAssumption DEF States, Epochs
    <3> QED BY <1>0, <1>4, <1>9, <2>1, <3>1, SafeDecision, Zenon DEF Heard
  <2>2. CASE row'[m] # d BY <1>2, <1>5, <1>6, <2>2, Zenon DEF Decides
  <2> QED BY <2>1, <2>2, Zenon
<1>13. Good(m)' BY <1>9, <1>10, <1>11, <1>12, Zenon DEF Good, Heard
<1>14. Alone(m) /\ Tenure BY <1>0, <1>2, <1>9, Zenon DEF Alone, Tenure, Heard
<1> QED BY <1>13, <1>14, ActorKeeps, Zenon

\* The base lets the save rewrite the file: it is what the save was made from,
\* or the drain decided that nobody else has written it.
LEMMA OpenKeeps ==
  ASSUME LeaseInv, TypeOK, KeptInv, NEW m \in Macs, openDrainTarget(m)
  PROVE  KeptInv'
<1> DEFINE w == [row[m] EXCEPT !.st = "write", !.base = "claimed"]
<1>0. /\ row \in [Macs -> Rows] /\ row[m] \in Rows /\ Good(m) /\ HistOK /\ row[m].st = "open"
      /\ UNCHANGED <<rec, unit, cl, call, file, untold>> /\ unit[m].st = "none" /\ Active(m)
  BY Functions, Zenon
  DEF KeptInv, openDrainTarget, proxy, units, client, Good, Writes, Active
<1>1. PICK matches \in Matches(m) :
        row' = [row EXCEPT ![m] = IF drainBaseAllowsInPlace(m, matches)
                                  THEN [@ EXCEPT !.st = "write", !.base = "claimed"]
                                  ELSE Parked(m, "aside")]
  BY Zenon DEF openDrainTarget
<1>2. /\ row'[m] = IF drainBaseAllowsInPlace(m, matches) THEN w ELSE Parked(m, "aside")
      /\ \A n \in Macs \ {m} : row'[n] = row[n]
  BY <1>0, <1>1, Zenon
<1>3. Alone(m) /\ Tenure /\ CallQuiet(m) /\ TellQuiet(m) /\ StateQuiet(m)
  BY <1>0, <1>2, Zenon DEF Alone, Tenure, CallQuiet, TellQuiet, StateQuiet
<1>4. CASE drainBaseAllowsInPlace(m, matches)
  <2>1. /\ row'[m].st = "write" /\ row'[m].seen = row[m].seen /\ row'[m].acc = row[m].acc
        /\ row'[m].dec = row[m].dec /\ row'[m].sure = row[m].sure
    BY <1>0, <1>2, <1>4, Zenon DEF Rows
  <2>2. SameSave(m) BY <1>0, <2>1, Zenon DEF SameSave
  <2>3. Missed(m)' => Warned(m)' BY <1>0, <1>3, <2>2, WarnedStep, Zenon
  <2>4. Known(m)' /\ Seen(m)' /\ Writes(m)'
    BY <1>0, <2>1, Zenon
    DEF Good, Known, Seen, Writes
  <2>5. Kept(m) => Kept(m)' BY <1>0, <2>1, Zenon DEF Kept
  <2>6. ASSUME Decides(m)' PROVE Kept(m)
    <3>1. CASE row[m].base = "present" BY <1>4, <3>1, Zenon
      DEF drainBaseAllowsInPlace, Kept
    <3>2. CASE row[m].base # "present"
      <4>1. ~row[m].tainted BY <1>4, <3>2, Zenon DEF drainBaseAllowsInPlace
      <4>2. Decides(m) BY <1>0, <2>1, <2>6, <4>1, Zenon DEF Decides
      <4> QED BY <1>0, <4>2, Zenon DEF Good
    <3> QED BY <3>1, <3>2, Zenon
  <2>7. Good(m)' BY <2>3, <2>4, <2>5, <2>6, Zenon DEF Good
  <2> QED BY <1>3, <2>7, ActorKeeps, Zenon
<1>5. CASE ~drainBaseAllowsInPlace(m, matches)
  <2>1. RowQuiet(m) BY <1>0, <1>2, <1>5, ParkQuiet, Zenon DEF RowStates
  <2>2. Quiet(m) BY <1>0, <1>3, <2>1, Zenon DEF Quiet, UnitQuiet
  <2> QED BY <1>3, <2>2, ActorQuiet, Zenon
<1> QED BY <1>4, <1>5, Zenon

\* A refused write parks its row.
LEMMA HoldQuiet ==
  ASSUME LeaseInv, TypeOK, KeptInv, NEW m \in Macs, Tenure, Writing(m), Hold(m),
         UNCHANGED <<unit, call, file>>, \A n \in Macs : untold[n] \subseteq untold'[n],
         \A n \in Macs \ {m} : untold'[n] = untold[n]
  PROVE  KeptInv'
<1>0. /\ row \in [Macs -> Rows] /\ cl \in [Macs -> States] /\ cl[m] \in States
      /\ unit[m].st = "none" /\ Active(m)
  BY Functions, Zenon DEF Writing, Active
<1>1. /\ row'[m] = Parked(m, "waiting") /\ \A n \in Macs \ {m} : row'[n] = row[n]
      /\ cl' = [cl EXCEPT ![m].held = FALSE, ![m].epoch = 0, ![m].fresh = FALSE]
  BY <1>0, Zenon DEF Hold
<1>2. /\ cl'[m].epoch = 0 /\ cl'[m].foreignBefore = cl[m].foreignBefore
      /\ \A n \in Macs \ {m} : cl'[n] = cl[n]
  BY <1>0, <1>1, Zenon DEF States
<1>3. rec'.epoch >= 0
  <2>1. rec.epoch \in Nat BY Tenures, Zenon
  <2>2. rec' = rec \/ rec'.epoch = rec.epoch + 1 BY TenureParts, Zenon
  <2> QED BY <2>1, <2>2
<1>4. StateQuiet(m) BY <1>2, <1>3, Zenon DEF StateQuiet
<1>5. RowQuiet(m) BY <1>0, <1>1, ParkQuiet, Zenon DEF RowStates
<1>6. Quiet(m) BY <1>4, <1>5, Zenon DEF Quiet, UnitQuiet, CallQuiet, TellQuiet
<1>7. Alone(m) BY <1>1, <1>2, Zenon DEF Alone
<1> QED BY <1>6, <1>7, ActorQuiet, Zenon

\* A write lands in the tenure of its Mac, which is the last one: a Mac that
\* missed it will be warned by its next grant.
LEMMA ApplyKeeps ==
  ASSUME LeaseInv, TypeOK, KeptInv, NEW m \in Macs, NEW u, Apply(u, m), rec.holder = m,
         UNCHANGED <<rec, cl, call, untold>>,
         (unit[m].st # "none" /\ unit'[m].place = unit[m].place) \/ unit' = unit,
         \A n \in Macs \ {m} : unit'[n] = unit[n]
  PROVE  KeptInv'
<1>0. /\ row \in [Macs -> Rows] /\ row[m] \in Rows /\ HistOK /\ \A n \in Macs : Good(n)
      /\ Tenure
  BY Functions, Zenon DEF KeptInv, Tenure
<1>1. CASE UNCHANGED <<file, row>>
  <2>1. Writes(m)' BY <1>0, <1>1, Zenon DEF Good, Writes
  <2>2. ASSUME NEW n \in Macs PROVE Quiet(n)
    BY <1>1, <2>1, Zenon
    DEF Quiet, RowQuiet, UnitQuiet, CallQuiet, StateQuiet, TellQuiet
  <2> QED BY <1>0, <2>2, AllQuiet, Zenon
<1>2. CASE /\ file' = [ver |-> file.ver + 1, by |-> m]
           /\ row' = [row EXCEPT ![m].seen = IF row[m].base = "claimed" THEN file.ver + 1 ELSE @]
  <2>1. /\ row'[m].st = row[m].st /\ row'[m].acc = row[m].acc /\ row'[m].dec = row[m].dec
        /\ row'[m].seen \in {row[m].seen, file.ver + 1}
        /\ \A n \in Macs \ {m} : row'[n] = row[n]
    BY <1>0, <1>2, Zenon DEF Rows
  <2>2. /\ file'.ver = file.ver + 1 /\ file'.by = m /\ m # Nobody /\ file.ver \in Nat
    BY <1>2, Numbers, LeaseAssumption, Zenon
  <2>3. ASSUME NEW n \in Macs PROVE Good(n)'
    <3>0. row[n].seen \in Nat /\ rec.hist \in [Macs -> Nat] /\ rec.epoch \in Nat BY Numbers, Zenon
    <3>1. Known(n)' BY <1>0, <2>1, Zenon DEF Good, Known
    <3>2. Seen(n)' BY <1>0, <2>1, <2>2, <3>0 DEF Good, Seen
    <3>3. CASE n = m
      <4>1. Kept(n)' BY <2>2, <3>3, Zenon DEF Kept
      <4>2. Writes(n)' BY <1>0, <2>1, <3>3, Zenon DEF Good, Writes
      <4> QED BY <3>1, <3>2, <4>1, <4>2, Zenon DEF Good, Missed
    <3>4. CASE n # m
      <4>1. Writes(n)' BY <1>0, <2>1, <3>4, Zenon DEF Good, Writes
      <4>2. rec'.hist[n] < rec'.hist[file'.by] BY <1>0, <2>2, <3>0, <3>4, Zenon
        DEF HistOK
      <4>3. Warned(n)' BY <4>2, Zenon DEF Warned
      <4>4. ~Decides(n)' BY <3>4, Zenon DEF Decides
      <4> QED BY <3>1, <3>2, <4>1, <4>3, <4>4, Zenon DEF Good
    <3> QED BY <3>3, <3>4, Zenon
  <2> QED BY <1>0, <2>3, HistStep, Zenon DEF KeptInv
<1> QED BY <1>1, <1>2, Zenon DEF Apply

LEMMA DrainKeeps ==
  ASSUME LeaseInv, TypeOK, KeptInv, NEW m \in Macs, Drain(m)
  PROVE  KeptInv'
<1>0. /\ row \in [Macs -> Rows] /\ unit \in [Macs -> Units] /\ untold \in [Macs -> SUBSET Epochs]
      /\ Good(m)
  BY Functions, Zenon DEF KeptInv
<1>1. CASE Deny(m)
  <2>1. Writing(m) /\ Hold(m) /\ UNCHANGED <<rec, unit, call, file, untold>>
    BY <1>1, Zenon DEF Deny, proxy, units
  <2>2. Tenure BY <2>1, Zenon DEF Tenure
  <2> QED BY <2>1, <2>2, HoldQuiet, Zenon
<1>2. CASE ImplicitGrant(m)
  <2>1. /\ Writing(m) /\ UNCHANGED <<unit, call, file>>
        /\ (grantLocked(m) /\ UNCHANGED <<cl, row>>) \/ (grantFails(m) /\ Hold(m))
    BY <1>2, Zenon DEF ImplicitGrant, units
  <2>2. Stands \/ Offers(m) BY <2>1, GrantEffect, GrantErrEffect, Zenon
  <2>3. /\ Tenure /\ \A n \in Macs : untold[n] \subseteq untold'[n]
        /\ \A n \in Macs \ {m} : untold'[n] = untold[n]
    BY <2>2, Notes, Zenon
  <2>4. CASE Hold(m) BY <2>1, <2>3, <2>4, HoldQuiet, Zenon
  <2>5. CASE UNCHANGED <<cl, row>>
    <3>1. CallQuiet(m) /\ StateQuiet(m) /\ TellQuiet(m)
      BY <2>1, <2>3, <2>5, Zenon DEF CallQuiet, StateQuiet, TellQuiet
    <3> QED BY <2>1, <2>3, <2>5, <3>1, ClientQuiet, Zenon
  <2> QED BY <2>1, <2>4, <2>5, Zenon
<1>3. CASE Admit(m)
  <2> DEFINE u == [st |-> "sent", at |-> mem.epoch, place |-> row[m].st = "write"]
  <2>1. /\ Writing(m) /\ unit' = [unit EXCEPT ![m] = u]
        /\ UNCHANGED <<rec, cl, call, row, file, untold>>
    BY <1>3, Zenon DEF Admit, client
  <2>2. unit'[m] = u /\ \A n \in Macs \ {m} : unit'[n] = unit[n] BY <1>0,
     <2>1, Zenon
  <2>3. row[m].st \in {"write", "aside"} /\ row' = row BY <2>1, Zenon
    DEF Writing
  <2>4. unit'[m].place = (row[m].st = "write")
    <3>1. u.place = (row[m].st = "write") BY Zenon
    <3> HIDE DEF u
    <3> QED BY <2>2, <3>1, Zenon
  <2>5. Writes(m)' BY <2>3, <2>4, Zenon DEF Writes
  <2>6. Quiet(m) /\ Tenure
    BY <2>1, <2>5, Zenon
    DEF Quiet, RowQuiet, UnitQuiet, CallQuiet, StateQuiet, TellQuiet, Tenure
  <2>7. Alone(m) BY <2>1, <2>2, Zenon DEF Alone
  <2> QED BY <2>6, <2>7, ActorQuiet, Zenon
<1>4. CASE Commit(m)
  <2>1. /\ unit[m].st = "sent" /\ unit' = [unit EXCEPT ![m].st = "applied"]
        /\ Apply(unit[m], m) /\ UNCHANGED <<rec, cl, call, untold>>
    BY <1>4, Zenon DEF Commit, proxy, client
  <2>2. /\ unit'[m].place = unit[m].place /\ \A n \in Macs \ {m} : unit'[n] = unit[n]
    BY <1>0, <2>1, Zenon DEF Units
  <2>3. rec.holder = m BY <2>1, Zenon DEF LeaseInv, Fenced
  <2> QED BY <2>1, <2>2, <2>3, ApplyKeeps, Zenon
<1>5. CASE Done(m)
  <2>1. /\ unit' = [unit EXCEPT ![m] = NoUnit] /\ UNCHANGED <<rec, cl, call, file>>
        /\ \/ UNCHANGED <<row, untold>>
           \/ row' = [row EXCEPT ![m] = NoRow] /\ untold' = [untold EXCEPT ![m] = {}]
    BY <1>5, Zenon DEF Done, proxy, client
  <2>2. unit'[m].st = "none" /\ \A n \in Macs \ {m} : unit'[n] = unit[n]
    BY <1>0, <2>1, Zenon DEF NoUnit
  <2>3. /\ (row'[m] = row[m] /\ untold'[m] = untold[m]) \/ row'[m] = NoRow
        /\ \A n \in Macs \ {m} : row'[n] = row[n] /\ untold'[n] = untold[n]
    BY <1>0, <2>1, Zenon
  <2>4. RowQuiet(m) /\ TellQuiet(m) BY <2>2, <2>3 DEF RowQuiet, TellQuiet,
  Active, NoRow
  <2>5. Writes(m)' BY <2>2, Zenon DEF Writes
  <2>6. Quiet(m) /\ Tenure
    BY <2>1, <2>4, <2>5, Zenon
    DEF Quiet, UnitQuiet, CallQuiet, StateQuiet, Tenure
  <2>7. Alone(m) BY <2>1, <2>2, <2>3, Zenon DEF Alone
  <2> QED BY <2>6, <2>7, ActorQuiet, Zenon
<1> QED BY <1>1, <1>2, <1>3, <1>4, <1>5, GateKeeps, AnswerKeeps, OpenKeeps,
   Zenon DEF Drain

-----------------------------------------------------------------------------
(* Saves, faults and restarts.                                              *)

LEMMA SaveKeeps ==
  ASSUME LeaseInv, TypeOK, KeptInv, NEW m \in Macs, NEW b \in Bases, probeBase(m, b)
  PROVE  KeptInv'
<1> DEFINE e == IF cl[m].held THEN cl[m].epoch ELSE 0
           s == [NoRow EXCEPT !.st = "ready", !.base = b, !.seen = file.ver, !.acc = e]
<1>0. /\ row \in [Macs -> Rows] /\ cl \in [Macs -> States] /\ cl[m] \in States /\ Good(m)
      /\ ~Active(m) /\ UNCHANGED <<rec, unit, call, file, untold>>
      /\ file.ver \in Nat /\ rec.epoch \in Nat /\ cl[m].epoch \in Nat
  BY Functions, Numbers, Zenon DEF KeptInv, probeBase, proxy, units
<1>1. row' = [row EXCEPT ![m] = s] /\ cl' = [cl EXCEPT ![m].touched = @ \/ ~Fresh(m)]
  BY Zenon DEF probeBase
<1>2. row'[m] = s /\ \A n \in Macs \ {m} : row'[n] = row[n] BY <1>0, <1>1, Zenon
<1>3. /\ cl'[m].epoch = cl[m].epoch /\ \A n \in Macs \ {m} : cl'[n] = cl[n]
  BY <1>0, <1>1, Zenon DEF States
<1>4. s.st = "ready" /\ s.seen = file.ver /\ s.acc = e /\ s.dec = 0 BY Zenon
  DEF NoRow
<1>5. e \in Nat /\ e <= rec.epoch BY <1>0 DEF Good, Known
<1> HIDE DEF s, e
<1>6. Known(m)' BY <1>0, <1>2, <1>3, <1>4, <1>5 DEF Good, Known
<1>7. Seen(m)' /\ Kept(m)' BY <1>0, <1>2, <1>4 DEF Good, Seen, Kept
<1>8. Writes(m)' BY <1>0, Zenon DEF Good, Writes, Active
<1>9. Good(m)' BY <1>6, <1>7, <1>8, Zenon DEF Good, Missed
<1>10. Alone(m) /\ Tenure BY <1>0, <1>2, <1>3, Zenon DEF Alone, Tenure
<1> QED BY <1>9, <1>10, ActorKeeps, Zenon

LEMMA FaultKeeps ==
  ASSUME LeaseInv, TypeOK, KeptInv, NEW m \in Macs,
         Lost(m) \/ CommitStray(m) \/ killUpstream(m) \/ GrowsOld(m) \/ Relaunch(m)
  PROVE  KeptInv'
<1>0. /\ row \in [Macs -> Rows] /\ unit \in [Macs -> Units] /\ untold \in [Macs -> SUBSET Epochs]
      /\ cl \in [Macs -> States] /\ call \in [Macs -> [Contexts -> Replies]] /\ Good(m)
  BY Functions, Zenon DEF KeptInv
<1>1. CASE Lost(m)
  <2>1. /\ unit[m].st # "none" /\ unit' = [unit EXCEPT ![m] = NoUnit]
        /\ row' = [row EXCEPT ![m] = Parked(m, "ready")]
        /\ UNCHANGED <<rec, cl, call, file, untold>>
    BY <1>1, Zenon DEF Lost, proxy, client
  <2>2. /\ unit'[m].st = "none" /\ row'[m] = Parked(m, "ready")
        /\ \A n \in Macs \ {m} : unit'[n] = unit[n] /\ row'[n] = row[n]
    BY <1>0, <2>1, Zenon DEF NoUnit
  <2>3. Active(m) BY <1>0, <2>1, Zenon DEF Good, Writes, Active
  <2>4. RowQuiet(m) BY <2>2, <2>3, ParkQuiet, Zenon DEF RowStates
  <2>5. Quiet(m) /\ Tenure
    BY <2>1, <2>2, <2>4, Zenon
    DEF Quiet, UnitQuiet, Writes, CallQuiet, StateQuiet, TellQuiet, Tenure
  <2>6. Alone(m) BY <2>1, <2>2, Zenon DEF Alone
  <2> QED BY <2>5, <2>6, ActorQuiet, Zenon
<1>2. CASE CommitStray(m)
  <2>1. /\ stray[m].st = "sent" /\ Apply(stray[m], m)
        /\ UNCHANGED <<rec, unit, cl, call, untold>>
    BY <1>2, Zenon DEF CommitStray, proxy, client
  <2>2. rec.holder = m BY <2>1, Zenon DEF LeaseInv, Fenced
  <2> QED BY <2>1, <2>2, ApplyKeeps, Zenon
<1>3. CASE killUpstream(m) \/ GrowsOld(m)
  <2>1. UNCHANGED <<rec, unit, call, row, file, untold>>
    BY <1>3, Zenon DEF killUpstream, GrowsOld, proxy, units, client
  <2>2. cl' = cl \/ cl' = [cl EXCEPT ![m].fresh = FALSE]
    BY <1>3, Zenon DEF killUpstream, GrowsOld, client
  <2>3. /\ cl'[m].epoch = cl[m].epoch /\ cl'[m].foreignBefore = cl[m].foreignBefore
        /\ \A n \in Macs \ {m} : cl'[n] = cl[n]
    <3>1. cl[m] \in States /\ cl \in [Macs -> States] BY <1>0, Zenon
    <3>2. \A n \in Macs \ {m} : cl'[n] = cl[n] BY <2>2, <3>1, Zenon
    <3>3. cl'[m] = cl[m] \/ cl'[m] = [cl[m] EXCEPT !.fresh = FALSE]
      BY <2>2, <3>1, Zenon
    <3>4. cl'[m].epoch = cl[m].epoch /\ cl'[m].foreignBefore = cl[m].foreignBefore
      BY <3>1, <3>3, Zenon DEF States
    <3> QED BY <3>2, <3>4, Zenon
  <2>4. Tenure /\ CallQuiet(m) /\ StateQuiet(m) /\ TellQuiet(m)
    BY <2>1, <2>3, Zenon DEF Tenure, CallQuiet, StateQuiet, TellQuiet
  <2> QED BY <2>1, <2>3, <2>4, ClientQuiet, Zenon
<1>4. CASE Relaunch(m)
  <2>1. /\ row[m].st \in {"none", "ready", "waiting"} /\ UNCHANGED <<rec, unit, row, file>>
        /\ cl' = [cl EXCEPT ![m] = NoState]
        /\ call' = [call EXCEPT ![m] = [c \in Contexts |-> NoCall]]
        /\ untold' = [untold EXCEPT ![m] = IF Active(m) THEN @ \cup {0} ELSE @]
    BY <1>4, Zenon DEF Relaunch, Untold, proxy, units
  <2>2. /\ cl'[m] = NoState /\ \A c \in Contexts : call'[m][c] = NoCall
        /\ \A n \in Macs \ {m} :
             cl'[n] = cl[n] /\ call'[n] = call[n] /\ untold'[n] = untold[n]
    BY <1>0, <2>1, Zenon
  <2>3. Active(m) => 0 \in untold'[m] BY <1>0, <2>1, Zenon
  <2>4. rec.epoch \in Nat BY Tenures, Zenon
  <2>5. Known(m)' BY <1>0, <2>1, <2>2, <2>4 DEF Good, Known, NoState, NoCall,
  Reply
  <2>6. Seen(m)' /\ Writes(m)' /\ ~Missed(m)' /\ ~Decides(m)'
    BY <1>0, <2>1, <2>3, Zenon DEF Good, Seen, Writes, Missed, Decides, Active
  <2>7. Good(m)' BY <2>5, <2>6, Zenon DEF Good
  <2>8. Alone(m) /\ Tenure BY <2>1, <2>2, Zenon DEF Alone, Tenure
  <2> QED BY <2>7, <2>8, ActorKeeps, Zenon
<1> QED BY <1>1, <1>2, <1>3, <1>4, Zenon

LEMMA ProxyKeeps ==
  ASSUME LeaseInv, TypeOK, KeptInv,
         sweep \/ cmdBreak \/ flushDirty \/ loadLeases \/ \E r \in late : Deliver(r)
  PROVE  KeptInv'
<1>1. ASSUME Tenure, UNCHANGED <<unit, cl, call, row, file>>,
             \A n \in Macs : untold[n] \subseteq untold'[n]
      PROVE  KeptInv'
  <2>1. ASSUME NEW n \in Macs PROVE Quiet(n)
    BY <1>1, Zenon
    DEF Quiet, RowQuiet, UnitQuiet, CallQuiet, StateQuiet, TellQuiet
  <2> QED BY <1>1, <2>1, AllQuiet, Zenon
<1>2. CASE sweep \/ cmdBreak
  <2>1. endLocked /\ UNCHANGED <<unit, cl, call, row, file, untold>>
    BY <1>2, Zenon DEF sweep, cmdBreak, units, client
  <2>2. Tenure BY <2>1, EndEffect, Zenon DEF Finishes, Tenure
  <2> QED BY <1>1, <2>1, <2>2, Zenon
<1>3. CASE flushDirty
  <2>1. rec' = rec /\ UNCHANGED <<unit, cl, call, row, file, untold>>
    BY <1>3, Zenon DEF flushDirty, storeFails, units, client
  <2> QED BY <1>1, <2>1, Zenon DEF Tenure
<1>4. CASE loadLeases
  <2>1. /\ unit' = [m \in Macs |-> NoUnit] /\ UNCHANGED <<rec, cl, call, file, untold>>
        /\ row' = [m \in Macs |-> IF unit[m].st = "none" THEN row[m] ELSE Parked(m, "ready")]
    BY <1>4, Zenon DEF loadLeases, client
  <2>2. ASSUME NEW n \in Macs PROVE Quiet(n)
    <3>1. unit'[n].st = "none" BY <2>1, Zenon DEF NoUnit
    <3>2. CASE unit[n].st = "none"
      <4>1. RowQuiet(n) BY <2>1, <3>2, Zenon DEF RowQuiet
      <4> QED
        BY <2>1, <3>1, <4>1, Zenon
        DEF Quiet, UnitQuiet, Writes, CallQuiet, StateQuiet, TellQuiet
    <3>3. CASE unit[n].st # "none"
      <4>1. Active(n) BY <3>3, Zenon DEF KeptInv, Good, Writes, Active
      <4>2. row'[n] = Parked(n, "ready") BY <2>1, <3>3, Zenon
      <4>3. RowQuiet(n) BY <3>1, <4>1, <4>2, ParkQuiet, Zenon DEF RowStates
      <4> QED
        BY <2>1, <3>1, <4>3, Zenon
        DEF Quiet, UnitQuiet, Writes, CallQuiet, StateQuiet, TellQuiet
    <3> QED BY <3>2, <3>3, Zenon
  <2>3. Tenure BY <2>1, Zenon DEF Tenure
  <2> QED BY <2>2, <2>3, AllQuiet, Zenon
<1>5. CASE \E r \in late : Deliver(r)
  <2>1. PICK r \in late : serve(r) /\ UNCHANGED <<unit, cl, call, row, file>>
    BY <1>5, Zenon DEF Deliver, units, client
  <2>2. r.m \in Macs BY TypeParts, Zenon DEF LateOK, Requests
  <2>3. Stands \/ Finishes \/ Offers(r.m)
    BY <2>1, <2>2, GrantEffect, ReleaseEffect, Zenon
    DEF serve
  <2> QED BY <1>1, <2>1, <2>2, <2>3, Notes, Zenon
<1> QED BY <1>2, <1>3, <1>4, <1>5, Zenon

-----------------------------------------------------------------------------
LEMMA InitKept == Init => KeptInv
<1> SUFFICES ASSUME Init PROVE KeptInv BY Zenon
<1>1. rec = [holder |-> Nobody, epoch |-> 0,
   hist |-> [m \in Macs |-> 0]] BY Zenon DEF Init
<1>2. HistOK BY <1>1, LeaseAssumption DEF HistOK
<1>3. ASSUME NEW n \in Macs PROVE Good(n)
  <2>1. /\ unit[n] = NoUnit /\ cl[n] = NoState /\ row[n] = NoRow
        /\ \A c \in Contexts : call[n][c] = NoCall
        /\ file = [ver |-> 0, by |-> Nobody]
    BY Zenon DEF Init
  <2>a. /\ rec.epoch = 0 /\ cl[n].epoch = 0 /\ row[n].acc = 0 /\ row[n].dec = 0
        /\ \A c \in Contexts : call[n][c].epoch = 0 /\ call[n][c].status = "none"
    <3>1. NoState.epoch = 0 BY Zenon DEF NoState
    <3>2. NoRow.acc = 0 /\ NoRow.dec = 0 BY Zenon DEF NoRow
    <3>3. NoCall.epoch = 0 /\ NoCall.status = "none" BY Zenon DEF NoCall, Reply
    <3> QED BY <1>1, <2>1, <3>1, <3>2, <3>3, Zenon
  <2>2. Known(n) BY <2>a DEF Known
  <2>3. Seen(n) /\ Writes(n) /\ ~Missed(n) /\ ~Decides(n)
    BY <2>1 DEF Seen, Writes, Missed, Decides, Active, NoRow, NoUnit
  <2> QED BY <2>2, <2>3, Zenon DEF Good
<1> QED BY <1>2, <1>3, Zenon DEF KeptInv

LEMMA KeptStep == ASSUME LeaseInv, TypeOK, KeptInv, [Next]_vars PROVE KeptInv'
<1>1. CASE UNCHANGED vars
  <2>1. ASSUME NEW n \in Macs PROVE Quiet(n)
    BY <1>1, Zenon
    DEF vars, proxy, units, client, Quiet, RowQuiet, UnitQuiet, CallQuiet,
    StateQuiet,
                TellQuiet
  <2>2. Tenure BY <1>1, Zenon DEF vars, proxy, Tenure
  <2> QED BY <2>1, <2>2, AllQuiet, Zenon
<1> QED BY <1>1, ClientKeeps, DrainKeeps, SaveKeeps, FaultKeeps, ProxyKeeps,
   Zenon DEF Next

LEMMA KeptAlways == Spec => [](LeaseInv /\ TypeOK /\ KeptInv)
<1>1. Init => KeptInv BY InitKept, Zenon
<1>2. LeaseInv /\ TypeOK /\ KeptInv /\ [Next]_vars => KeptInv' BY KeptStep,
   Zenon
<1> QED BY <1>1, <1>2, TypesAlways, PTL DEF Spec

\* A save that is rewritten in place under the tenure its drain asked for, by
\* a Mac that knows of the grants it was given since the save, replaces
\* nothing another Mac wrote since (EnsureForDrain, foreignSinceLocked and
\* drainBaseAllowsInPlace).
THEOREM ForeignWorkIsKept == Spec => ForeignWorkKept
<1>1. LeaseInv /\ TypeOK /\ KeptInv
        => [\A m \in Macs : Rewrites(m) /\ row[m].dec = unit[m].at /\ row[m].sure
                              => Kept(m)]_vars
  <2> SUFFICES ASSUME LeaseInv, KeptInv, NEW m \in Macs, Rewrites(m),
                      row[m].dec = unit[m].at, row[m].sure
               PROVE  Kept(m)
    BY Zenon
  <2>1. rec.holder = m /\ rec.epoch = row[m].dec BY Zenon
    DEF LeaseInv, Fenced, Rewrites
  <2>2. row[m].st = "write" BY Zenon DEF KeptInv, Good, Writes, Rewrites
  <2>3. Decides(m) BY <2>1, <2>2, Zenon DEF Decides
  <2> QED BY <2>3, Zenon DEF KeptInv, Good
<1> QED BY <1>1, KeptAlways, PTL DEF ForeignWorkKept
============================================================================
