---------------------------- MODULE ProjectLease ----------------------------
(***************************************************************************)
(* The writer lease of one project: the proxy's lease table                *)
(* (internal/respproxy/leases.go, leasecmd.go, decide.go) and the Macs that*)
(* share the project (nfs/project_lease.go, nfs/drain_refusal.go and the   *)
(* choice between rewriting a file in place and setting a conflict copy    *)
(* aside in nfs/drainer_publish.go).  Each Mac has at most one pending     *)
(* save, of one file that all of them edit.                                *)
(*                                                                         *)
(* A request is served when it is sent, or, once its sender has given up,  *)
(* at any later time or never.  The loop goroutine and the drain of a Mac  *)
(* wait for their replies independently of each other, and a reply is      *)
(* acted on some time after the request was served; only a heartbeat is    *)
(* answered and acted on in one step.  The epoch of a state that is not    *)
(* held is read by nobody and is 0.  Time is not modelled: a confirmation  *)
(* grows old, and a lease runs out, whenever the code's windows allow it.  *)
(***************************************************************************)
EXTENDS Naturals, FiniteSets

CONSTANTS
  Macs,        \* principals of kind KindMac
  Nobody,      \* the holder of a free project
  Bases,       \* kinds of base identity a save records
  MaxEpoch,    \* bound on the epoch counter
  MaxSaves,    \* bound on saves
  MaxEvents    \* bound on faults (delayed requests, store errors, dead
               \* connections, restarts), breaks and uses of "Done editing"

ASSUME LeaseAssumption ==
  /\ Nobody \notin Macs
  /\ Bases \subseteq {"present", "weak"}
  /\ {MaxEpoch, MaxSaves, MaxEvents} \subseteq Nat

Epochs == 0..MaxEpoch
Contexts == {"loop", "drain"}
Statuses == {"none", "error", "GRANTED", "RENEWED", "HELD"}
Requests == [m : Macs, op : {"acquire", "release"}, epoch : Epochs]
RowStates == {"none", "ready", "waiting", "gate", "open", "write", "aside"}

VARIABLES
  rec,         \* the lease hash and its epoch counter in Redis
  mem,         \* the lease in the proxy's table
  unresolved,  \* the outcome of the table's last transition is not known
  pending,     \* what the holder's last heartbeat since its last write
               \* reported of pending rows
  unit,        \* the write unit each Mac's drain has in flight
  stray,       \* a unit whose connection died and that is not yet killed
  cl,          \* projectLeaseState of each Mac
  loop,        \* where the loop goroutine of each Mac is
  call,        \* the reply each context of a Mac waits for
  late,        \* requests whose sender has given up
  row,         \* the Mac's pending save of the file
  file,        \* the file in the project: its version and who wrote it
  untold,      \* grants since the save that the Mac has not been told of
  count

proxy == <<rec, mem, unresolved, pending>>
units == <<unit, stray>>
client == <<cl, loop, call>>
vars == <<proxy, units, client, late, row, file, untold, count>>

Bounds == [event |-> MaxEvents, save |-> MaxSaves]
SpendAll(K) == /\ \A k \in K : count[k] < Bounds[k]
               /\ count' = [k \in DOMAIN Bounds |-> count[k] + IF k \in K THEN 1 ELSE 0]
Spend(k) == SpendAll({k})

NoUnit == [st |-> "none", at |-> 0, place |-> FALSE]
NoRow == [st |-> "none", acc |-> 0, base |-> "present", seen |-> 0,
          tainted |-> FALSE, dec |-> 0, sure |-> FALSE]
NoState == [held |-> FALSE, epoch |-> 0, fresh |-> FALSE, known |-> FALSE,
            foreignBefore |-> 0, wanted |-> FALSE, touched |-> FALSE]
Reply(s, e, f) == [status |-> s, epoch |-> e, foreign |-> f]
NoCall == Reply("none", 0, FALSE)
Error == Reply("error", 0, FALSE)

Leases == [holder : Macs \cup {Nobody}, epoch : Epochs, hist : [Macs -> Epochs]]
Units == [st : {"none", "sent", "applied"}, at : Epochs, place : BOOLEAN]

\* Every variable keeps its type.
TypeOK ==
  /\ rec \in Leases /\ mem \in Leases
  /\ unresolved \in BOOLEAN /\ pending \in {"unheard", "none", "some"}
  /\ unit \in [Macs -> Units] /\ stray \in [Macs -> Units]
  /\ cl \in [Macs -> [held : BOOLEAN, epoch : Epochs, fresh : BOOLEAN,
                      known : BOOLEAN, foreignBefore : Epochs,
                      wanted : BOOLEAN, touched : BOOLEAN]]
  /\ loop \in [Macs -> {"idle", "touch", "retry"}]
  /\ call \in [Macs -> [Contexts -> [status : Statuses, epoch : Epochs,
                                     foreign : BOOLEAN]]]
  /\ late \subseteq Requests
  /\ row \in [Macs -> [st : RowStates, acc : Epochs,
                       base : Bases \cup {"present", "claimed"}, seen : Nat,
                       tainted : BOOLEAN, dec : Epochs, sure : BOOLEAN]]
  /\ file \in [ver : Nat, by : Macs \cup {Nobody}]
  /\ untold \in [Macs -> SUBSET Epochs]
  /\ count \in [DOMAIN Bounds -> Nat]

Init ==
  /\ rec = [holder |-> Nobody, epoch |-> 0, hist |-> [m \in Macs |-> 0]]
  /\ mem = rec
  /\ unresolved = FALSE /\ pending = "unheard"
  /\ unit = [m \in Macs |-> NoUnit] /\ stray = [m \in Macs |-> NoUnit]
  /\ cl = [m \in Macs |-> NoState]
  /\ loop = [m \in Macs |-> "idle"]
  /\ call = [m \in Macs |-> [c \in Contexts |-> NoCall]]
  /\ late = {}
  /\ row = [m \in Macs |-> NoRow]
  /\ file = [ver |-> 0, by |-> Nobody]
  /\ untold = [m \in Macs |-> {}]
  /\ count = [k \in DOMAIN Bounds |-> 0]

-----------------------------------------------------------------------------
(* The lease table. *)

\* Mutant: a lost connection gives the fence back at once.
FenceForgetsLost == \A m \in Macs : unit[m].st = "none"

\* The write side of the project's fence is free: every admitted unit has
\* been answered, or its upstream connection killed.
Fence == \A m \in Macs : unit[m].st = "none" /\ stray[m].st = "none"

\* Mutant: the history is compared with the epoch being granted.
foreignSinceAfter(m) == \E q \in Macs \ {m} : mem.hist[q] > mem.epoch + 1

\* Another principal held the project after m's last epoch.
foreignSince(m) == \E q \in Macs \ {m} : mem.hist[q] > mem.hist[m]

Grant(m) == [holder |-> m, epoch |-> rec.epoch + 1,
             hist |-> [rec.hist EXCEPT ![m] = rec.epoch + 1]]
End == [rec EXCEPT !.holder = Nobody, !.epoch = @ + 1]

\* leaseTransitionLua compares the expected tenure with the stored one
\* before it writes; the table follows once the reply is there.
transition(next) ==
  /\ rec.epoch < MaxEpoch
  /\ mem = rec
  /\ rec' = next /\ mem' = next
  /\ UNCHANGED unresolved

\* Mutant: an error reply is taken for a transition that was not applied.
storeFailsUnresolved(next) == /\ next.epoch <= MaxEpoch
                              /\ rec' \in {rec, next}
                              /\ UNCHANGED <<mem, unresolved, pending>>

\* A transition whose reply is an error may have been applied: the project
\* stays quarantined until the table is loaded again.
storeFails(next) ==
  /\ next.epoch <= MaxEpoch
  /\ rec' \in {rec, next}
  /\ unresolved' = TRUE
  /\ UNCHANGED <<mem, pending>>

Holder == IF unresolved THEN Nobody ELSE mem.holder
Free == ~unresolved /\ mem.holder = Nobody

\* The answer of cmdAcquire, and what it changes.
acquireReply(m) ==
  CASE unresolved -> Error
    [] Free -> Reply("GRANTED", mem.epoch + 1, foreignSince(m))
    [] Holder = m -> Reply("RENEWED", mem.epoch, FALSE)
    [] OTHER -> Reply("HELD", mem.epoch, FALSE)

\* A grant since the save of m that its Mac has yet to be told of.
Active(m) == row[m].st # "none"
Untold(m, e) == untold' = [untold EXCEPT ![m] = IF Active(m) THEN @ \cup {e} ELSE @]

grantLocked(m) ==
  /\ Fence
  /\ IF Free THEN /\ transition(Grant(m)) /\ pending' = "unheard"
                  /\ Untold(m, rec.epoch + 1)
             ELSE UNCHANGED <<proxy, untold>>

endLocked == Fence /\ Holder # Nobody /\ transition(End) /\ pending' = "unheard"

cmdRelease(m, e) ==
  /\ Fence
  /\ IF Holder = m /\ mem.epoch = e THEN endLocked ELSE UNCHANGED proxy
  /\ UNCHANGED untold

heartbeat(m, p) ==
  /\ pending' = IF Holder # m THEN pending ELSE IF p THEN "some" ELSE "none"
  /\ UNCHANGED <<rec, mem, unresolved>>

serve(r) ==
  \/ r.op = "acquire" /\ grantLocked(r.m)
  \/ r.op = "release" /\ cmdRelease(r.m, r.epoch)

\* The side connection fails in the middle of a grant, a renewal or an end.
grantFails(m) == Fence /\ Free /\ storeFails(Grant(m)) /\ Untold(m, rec.epoch + 1)
renewFails(m) == Fence /\ Holder = m /\ storeFails(rec) /\ UNCHANGED untold

releaseFails(m, e) == /\ Fence /\ Holder = m /\ mem.epoch = e
                      /\ storeFails(End) /\ UNCHANGED untold

\* The sender gives up on a request that is still under way.
GivesUp(r) == /\ late' = late \cup {r}
              /\ UNCHANGED <<proxy, untold>>

Acquire(m) == [m |-> m, op |-> "acquire", epoch |-> 0]
ReleaseOf(m) == [m |-> m, op |-> "release", epoch |-> cl[m].epoch]

\* A context of a Mac asks for the lease and waits for the reply.
Ask(c, m) ==
  \/ /\ grantLocked(m)
     /\ call' = [call EXCEPT ![m][c] = acquireReply(m)]
     /\ UNCHANGED <<late, count>>
  \/ /\ \/ (grantFails(m) \/ renewFails(m)) /\ UNCHANGED late
        \/ GivesUp(Acquire(m))
     /\ call' = [call EXCEPT ![m][c] = Error]
     /\ Spend("event")

-----------------------------------------------------------------------------
(* The lease client of a Mac. *)

Fresh(m) == cl[m].held /\ cl[m].fresh
Answer(m, c) == call[m][c]
Received(m, c) == call' = [call EXCEPT ![m][c] = NoCall]

\* What acquire records of its reply.
acquired(m, r) ==
  CASE r.status \in {"GRANTED", "RENEWED"} ->
         [cl[m] EXCEPT !.held = TRUE, !.epoch = r.epoch, !.fresh = TRUE,
                       !.foreignBefore = IF r.status = "GRANTED" /\ r.foreign
                                         THEN r.epoch ELSE @]
    [] r.status = "HELD" ->
         [cl[m] EXCEPT !.held = FALSE, !.epoch = 0, !.fresh = FALSE]
    [] OTHER -> cl[m]

\* A reply that was overtaken puts an older boundary in the place of a newer
\* one; 0 stands for what is forgotten that way, or in a restart.
Told(m, r) ==
  untold' = [untold EXCEPT ![m] =
    CASE r.status # "GRANTED" -> @
      [] r.foreign /\ r.epoch < cl[m].foreignBefore /\ Active(m) -> @ \cup {0}
      [] OTHER -> @ \ {r.epoch}]

\* The loop takes a project from touchCh.
acquireAsync(m) ==
  /\ loop[m] = "idle" /\ cl[m].touched
  /\ cl' = [cl EXCEPT ![m].touched = FALSE]
  /\ IF Fresh(m)
     THEN UNCHANGED <<proxy, loop, call, late, untold, count>>
     ELSE Ask("loop", m) /\ loop' = [loop EXCEPT ![m] = "touch"]
  /\ UNCHANGED <<units, row, file>>

\* A reply updates the projects whose inode is known, and the inode of a
\* held one is learned first.
beaten(m) ==
  LET st == [cl[m] EXCEPT !.known = @ \/ cl[m].held]
  IN  CASE ~st.known -> st
        [] st.known /\ Holder = m ->
             [st EXCEPT !.held = TRUE, !.epoch = mem.epoch, !.fresh = TRUE]
        [] OTHER -> [st EXCEPT !.held = FALSE, !.epoch = 0, !.fresh = FALSE]

\* A tick scans the spool and sends the heartbeat.  A scan that fails counts
\* no row; a reply that is lost changes nothing here.
Tick(m) ==
  /\ loop[m] = "idle"
  /\ \/ heartbeat(m, Active(m)) /\ cl' = [cl EXCEPT ![m] = beaten(m)] /\ UNCHANGED count
     \/ heartbeat(m, FALSE) /\ cl' = [cl EXCEPT ![m] = beaten(m)] /\ Spend("event")
     \/ heartbeat(m, Active(m)) /\ UNCHANGED cl /\ Spend("event")
  /\ UNCHANGED <<units, loop, call, late, row, file, untold>>

\* Then it asks again for a project whose rows wait.
retryWaiting(m) ==
  /\ loop[m] = "idle" /\ row[m].st = "waiting"
  /\ Ask("loop", m)
  /\ loop' = [loop EXCEPT ![m] = "retry"]
  /\ UNCHANGED <<units, cl, row, file>>

\* The reply the loop waited for.  To a retry, a grant lets the waiting rows
\* drain again.
LoopAnswered(m) ==
  LET r == Answer(m, "loop")
  IN  /\ loop[m] # "idle"
      /\ cl' = [cl EXCEPT ![m] = acquired(m, r)]
      /\ Told(m, r)
      /\ Received(m, "loop")
      /\ row' = [row EXCEPT ![m].st =
           IF loop[m] = "retry" /\ r.status \in {"GRANTED", "RENEWED"} /\ @ = "waiting"
           THEN "ready" ELSE @]
      /\ loop' = [loop EXCEPT ![m] = "idle"]
      /\ UNCHANGED <<proxy, units, late, file, count>>

\* releaseNow: the reply, whatever it says, ends the client's tenure; an
\* error changes nothing.
releaseNow(m, cost) ==
  \/ /\ ~unresolved
     /\ cmdRelease(m, cl[m].epoch)
     /\ cl' = [cl EXCEPT ![m].wanted = FALSE, ![m].held = FALSE, ![m].epoch = 0,
                         ![m].fresh = FALSE]
     /\ SpendAll(cost)
     /\ UNCHANGED late
  \/ /\ (releaseFails(m, cl[m].epoch) /\ UNCHANGED late) \/ GivesUp(ReleaseOf(m))
     /\ SpendAll(cost \cup {"event"})
     /\ UNCHANGED cl

\* The end of a tick: a release that was deferred.  The scan said that
\* nothing is pending; it may have failed, and a save may have come since.
DeferredRelease(m) ==
  /\ loop[m] = "idle" /\ cl[m].wanted /\ cl[m].held
  /\ releaseNow(m, {})
  /\ UNCHANGED <<units, loop, call, row, file>>

\* "Done editing" in the menu: deferred while this Mac has unsent changes.
Release(m) ==
  /\ cl[m].held
  /\ IF Active(m)
     THEN /\ cl' = [cl EXCEPT ![m].wanted = TRUE]
          /\ Spend("event")
          /\ UNCHANGED <<proxy, late, untold>>
     ELSE releaseNow(m, {"event"})
  /\ UNCHANGED <<units, loop, call, row, file>>

-----------------------------------------------------------------------------
(* Saves and their drains. *)

\* Mutant: the save records no base.
probeBaseAbsent(m, b) ==
  /\ ~Active(m)
  /\ Spend("save")
  /\ row' = [row EXCEPT ![m] = [NoRow EXCEPT !.st = "ready", !.base = "absent"]]
  /\ UNCHANGED <<proxy, units, cl, loop, call, late, file, untold>>

\* A write opens: probeBase records the epoch and the base, and touches the
\* project.
probeBase(m, b) ==
  /\ ~Active(m)
  /\ Spend("save")
  /\ row' = [row EXCEPT ![m] = [NoRow EXCEPT !.st = "ready", !.base = b, !.seen = file.ver,
                                             !.acc = IF cl[m].held THEN cl[m].epoch ELSE 0]]
  /\ cl' = [cl EXCEPT ![m].touched = @ \/ ~Fresh(m)]
  /\ UNCHANGED <<proxy, units, loop, call, late, file, untold>>

taints(foreignBefore, acc) == foreignBefore > 0 /\ acc < foreignBefore

\* A row that leaves a drain keeps nothing of what the drain had decided.
Parked(m, s) == [row[m] EXCEPT !.st = s, !.tainted = FALSE, !.dec = 0, !.sure = FALSE]

Decided(m, st, epoch, unknown) ==
  [row[m] EXCEPT !.st = "open", !.tainted = taints(st.foreignBefore, row[m].acc),
                 !.dec = epoch, !.sure = unknown = {}]

\* leaseGate with EnsureForDrain: a recent confirmation is trusted.
leaseGate(m) ==
  /\ row[m].st = "ready"
  /\ IF Fresh(m)
     THEN /\ row' = [row EXCEPT ![m] = Decided(m, cl[m], cl[m].epoch, untold[m])]
          /\ UNCHANGED <<proxy, call, late, untold, count>>
     ELSE /\ Ask("drain", m)
          /\ row' = [row EXCEPT ![m].st = "gate"]
  /\ UNCHANGED <<units, cl, loop, file>>

\* An error leaves the refusal of a foreign write to the proxy.
GateAnswered(m) ==
  LET r == Answer(m, "drain")
      st == acquired(m, r)
  IN  /\ row[m].st = "gate"
      /\ cl' = [cl EXCEPT ![m] = st]
      /\ Told(m, r)
      /\ Received(m, "drain")
      /\ row' = [row EXCEPT ![m] =
           CASE r.status = "HELD" -> [@ EXCEPT !.st = "waiting"]
             [] r.status = "error" -> Parked(m, "open")
             [] OTHER -> Decided(m, st, r.epoch, untold'[m])]
      /\ UNCHANGED <<proxy, units, loop, late, file, count>>

\* Whether the base lets the row rewrite the file found: an exact identity
\* always, the inode alone (claimed) or length and second (weak) only when
\* no foreign holder is known.  The inode, the length and the second may be
\* the same although another Mac changed the file, or may differ.
Matches(m) == {TRUE} \cup (IF file.ver = row[m].seen THEN {} ELSE {FALSE})

drainBaseAllowsInPlace(m, matches) ==
  IF row[m].base = "present" THEN file.ver = row[m].seen
                             ELSE matches /\ ~row[m].tainted

\* The row claims the inode before the first byte changes.
openDrainTarget(m) ==
  /\ row[m].st = "open"
  /\ \E matches \in Matches(m) :
       row' = [row EXCEPT ![m] =
         IF drainBaseAllowsInPlace(m, matches)
         THEN [@ EXCEPT !.st = "write", !.base = "claimed"]
         ELSE Parked(m, "aside")]
  /\ UNCHANGED <<proxy, units, client, late, file, untold, count>>

-----------------------------------------------------------------------------
(* Decide: the write units of a drain. *)

Writing(m) == row[m].st \in {"write", "aside"} /\ unit[m].st = "none"

\* JMDENY reaches the drain as EROFS: holdIfRefused parks the row.
Hold(m) ==
  /\ row' = [row EXCEPT ![m] = Parked(m, "waiting")]
  /\ cl' = [cl EXCEPT ![m].held = FALSE, ![m].epoch = 0, ![m].fresh = FALSE]

Deny(m) ==
  /\ Writing(m)
  /\ unresolved \/ Holder \notin {m, Nobody}
  /\ Hold(m)
  /\ UNCHANGED <<proxy, units, loop, call, late, file, untold, count>>

\* The first write of a free project is granted the lease implicitly.
ImplicitGrant(m) ==
  /\ Writing(m) /\ Free
  /\ \/ grantLocked(m) /\ UNCHANGED <<cl, row, count>>
     \/ grantFails(m) /\ Hold(m) /\ Spend("event")
  /\ UNCHANGED <<units, loop, call, late, file>>

Admit(m) ==
  /\ Writing(m) /\ Holder = m
  /\ unit' = [unit EXCEPT ![m] = [st |-> "sent", at |-> mem.epoch,
                                   place |-> row[m].st = "write"]]
  /\ pending' = "unheard"
  /\ UNCHANGED <<rec, mem, unresolved, stray, client, late, row, file, untold, count>>

\* Redis applies the unit.  What one drain writes counts as one version.
Apply(u, m) ==
  IF u.place /\ ~(file.by = m /\ file.ver = row[m].seen)
  THEN /\ file' = [ver |-> file.ver + 1, by |-> m]
       /\ row' = [row EXCEPT ![m].seen = IF row[m].base = "claimed" THEN file.ver + 1 ELSE @]
  ELSE UNCHANGED <<file, row>>

Commit(m) ==
  /\ unit[m].st = "sent"
  /\ unit' = [unit EXCEPT ![m].st = "applied"]
  /\ Apply(unit[m], m)
  /\ UNCHANGED <<proxy, stray, client, late, untold, count>>

CommitStray(m) ==
  /\ stray[m].st = "sent"
  /\ stray' = [stray EXCEPT ![m].st = "applied"]
  /\ Apply(stray[m], m)
  /\ UNCHANGED <<proxy, unit, client, late, untold, count>>

\* The reply ends the unit, and the last one the drain.
Done(m) ==
  /\ unit[m].st = "applied"
  /\ unit' = [unit EXCEPT ![m] = NoUnit]
  /\ \/ UNCHANGED <<row, untold>>
     \/ row' = [row EXCEPT ![m] = NoRow] /\ untold' = [untold EXCEPT ![m] = {}]
  /\ UNCHANGED <<proxy, stray, client, late, file, count>>

\* The connection dies with the unit in flight: the drain fails and will be
\* retried, and the fence stays held until the upstream connection is
\* killed.
Lost(m) ==
  /\ unit[m].st # "none" /\ stray[m].st = "none"
  /\ Spend("event")
  /\ stray' = [stray EXCEPT ![m] = unit[m]]
  /\ unit' = [unit EXCEPT ![m] = NoUnit]
  /\ row' = [row EXCEPT ![m] = Parked(m, "ready")]
  /\ UNCHANGED <<proxy, client, late, file, untold>>

killUpstream(m) ==
  /\ stray[m].st # "none"
  /\ stray' = [stray EXCEPT ![m] = NoUnit]
  /\ UNCHANGED <<proxy, unit, client, late, row, file, untold, count>>

-----------------------------------------------------------------------------
(* Lifetimes, faults and restarts. *)

\* projectLeaseFresh passes without a new confirmation.
GrowsOld(m) ==
  /\ cl[m].fresh
  /\ cl' = [cl EXCEPT ![m].fresh = FALSE]
  /\ UNCHANGED <<proxy, units, loop, call, late, row, file, untold, count>>

\* m has had no answer within the orphan window: it is longer than the
\* client trusts a confirmation and than it waits for a reply.
Silent(m) ==
  /\ ~cl[m].fresh
  /\ \A c \in Contexts : Answer(m, c).status \notin {"GRANTED", "RENEWED"}

\* The sweeper ends a lease that is orphaned, or idle with nothing pending.
\* The idle window is the longer one: a lease that is idle and not orphaned
\* had a heartbeat since its last write.
sweep ==
  /\ Holder # Nobody
  /\ Silent(Holder) \/ pending = "none"
  /\ endLocked
  /\ UNCHANGED <<units, client, late, row, file, untold, count>>

cmdBreak ==
  /\ Spend("event")
  /\ endLocked
  /\ UNCHANGED <<units, client, late, row, file, untold>>

\* A flush of the touch fields whose reply is an error.
flushDirty ==
  /\ Fence /\ Holder # Nobody
  /\ storeFails(rec) /\ Spend("event")
  /\ UNCHANGED <<units, client, late, row, file, untold>>

\* The proxy starts again and loads the table.  Redis has freed the old
\* process's connections by the time its singleton key has run out: what
\* they had sent was applied or never will be.
loadLeases ==
  /\ (unresolved /\ UNCHANGED count) \/ Spend("event")
  /\ mem' = rec /\ unresolved' = FALSE
  /\ pending' \in IF pending = "unheard" THEN {pending} ELSE {"none", "some"}
  /\ unit' = [m \in Macs |-> NoUnit] /\ stray' = [m \in Macs |-> NoUnit]
  /\ row' = [m \in Macs |-> IF unit[m].st = "none" THEN row[m]
                             ELSE Parked(m, "ready")]
  /\ UNCHANGED <<rec, client, late, file, untold>>

\* The app of a Mac starts again: the lease client begins empty, the rows
\* are still in the spool.
Relaunch(m) ==
  /\ row[m].st \in {"none", "ready", "waiting"}
  /\ Spend("event")
  /\ cl' = [cl EXCEPT ![m] = NoState]
  /\ loop' = [loop EXCEPT ![m] = "idle"]
  /\ call' = [call EXCEPT ![m] = [c \in Contexts |-> NoCall]]
  /\ Untold(m, 0)
  /\ UNCHANGED <<proxy, units, late, row, file>>

\* A request is served after its sender has given up.
Deliver(r) ==
  /\ serve(r)
  /\ late' = late \ {r}
  /\ UNCHANGED <<units, client, row, file, count>>

Client(m) ==
  \/ acquireAsync(m) \/ Tick(m) \/ retryWaiting(m) \/ LoopAnswered(m)
  \/ DeferredRelease(m)

Drain(m) ==
  \/ leaseGate(m) \/ GateAnswered(m) \/ openDrainTarget(m) \/ Deny(m)
  \/ ImplicitGrant(m) \/ Admit(m) \/ Commit(m) \/ Done(m)

Next ==
  \/ \E m \in Macs :
       \/ Client(m) \/ Drain(m) \/ Release(m)
       \/ \E b \in Bases : probeBase(m, b)
       \/ Lost(m) \/ CommitStray(m) \/ killUpstream(m)
       \/ GrowsOld(m) \/ Relaunch(m)
  \/ sweep \/ cmdBreak \/ flushDirty \/ loadLeases
  \/ \E r \in late : Deliver(r)

Spec == Init /\ [][Next]_vars

-----------------------------------------------------------------------------
(* Properties. *)

\* The table and the record in Redis agree on the tenure, unless the project
\* is quarantined: no crash, store error or late request makes the proxy
\* decide for a holder that Redis does not have.
Coherent == unresolved \/ mem = rec

\* A unit that Redis may still apply belongs to the holder and to the tenure
\* it was admitted under: neither a grant nor a release, an expiry, a break
\* or a lost connection lets a write in after the project changed hands.
Fenced == \A m \in Macs : \A u \in {unit[m], stray[m]} :
            u.st = "sent" => rec.holder = m /\ rec.epoch = u.at

Rewrites(m) == unit[m].st = "sent" /\ unit'[m].st = "applied" /\ unit[m].place

Kept(m) == file.ver = row[m].seen \/ file.by = m

\* A save that is rewritten in place under the tenure its drain asked for, by
\* a Mac that was told, in their order, of the grants it was given since the
\* save, replaces nothing another Mac wrote since: whatever the base recorded,
\* foreign_since sets the save aside as a conflict copy.
ForeignWorkKept ==
  [][\A m \in Macs : Rewrites(m) /\ row[m].dec = unit[m].at /\ row[m].sure
                      => Kept(m)]_vars

\* The same of every such save: a grant's foreign_since is remembered for as
\* long as the grant lasts, whoever on the Mac asked for it.
BoundaryRemembered ==
  [][\A m \in Macs : Rewrites(m) /\ row[m].dec = unit[m].at => Kept(m)]_vars
=============================================================================
