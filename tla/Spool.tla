------------------------------- MODULE Spool -------------------------------
(***************************************************************************)
(* The write spool, its drainer and the file operations of the NFS handler *)
(* that meet there (nfs/spool.go, nfs/drainer*.go, nfs/handler.go,         *)
(* metadata/spool_store.go, metadata/spool_completion.go).                 *)
(*                                                                         *)
(* A save is a row of the SQLite table spool_entries, a private file on    *)
(* the local SSD and an in-memory entry that shadows the name for readers. *)
(* Drain workers copy finished saves to the backend, publish them under    *)
(* their name and only then give the private file up.  Renames, removals,  *)
(* retries and restarts run against that pipeline at any moment.           *)
(*                                                                         *)
(* Contents are version numbers: 0 is an empty file, every write makes a   *)
(* new version, and a written file occupies one unit of spool capacity.    *)
(* SpoolStore.writeMu makes every row transition atomic; the namespace     *)
(* coordinator's leases (module Namespace) appear as the variable lease.   *)
(***************************************************************************)
EXTENDS Integers, FiniteSets

CONSTANTS
  Paths,       \* names of regular files
  Writers,     \* client requests that can be in progress at once
  Workers,     \* drain workers
  Existing,    \* names that already are backend files when the spool starts
  Opens,       \* kinds of write-open the clients issue: "create", "write"
  Capacity,    \* effective capacity, in written files
  MaxRows,     \* bound: rows ever inserted
  MaxVersion,  \* bound: versions ever written
  MaxTries,    \* DrainerConfig.MaxAttempts
  MaxFails,    \* bound: failed copies, transactions and backend calls
  MaxNames,    \* bound: renames and removals
  MaxCrashes,  \* bound: process deaths
  MaxPurges    \* bound: done rows collected

ASSUME SpoolAssumption ==
  /\ IsFiniteSet(Paths) /\ Paths # {}
  /\ IsFiniteSet(Writers) /\ IsFiniteSet(Workers)
  /\ Writers \cap Workers = {}
  /\ {"free", "poisoned", "handler"} \cap (Writers \cup Workers) = {}
  /\ Existing \subseteq Paths
  /\ Opens \subseteq {"create", "write"}
  /\ Capacity \in Nat /\ MaxRows \in Nat \ {0} /\ MaxVersion \in Nat \ {0}
  /\ MaxTries \in Nat /\ MaxFails \in Nat /\ MaxNames \in Nat
  /\ MaxCrashes \in Nat /\ MaxPurges \in Nat

VARIABLES
  (* the table spool_entries, one function per column; ids never come back *)
  st, path, file, ver, held, retired, tries, nextId,
  base, same,  \* the recorded base identity, and whether it still matches
  holds,       \* ids in spool_completion_holds
  disk,        \* the private files on the SSD
  data,        \* backend: name -> content
  mirror,      \* the metadata mirror's entry for a name
  (* memory of the running process *)
  mode,        \* "up", "down" between a crash and the boot scan, "refused"
  index,       \* SpoolIndex: name -> private file that shadows it
  entId, entClosed, \* SpoolEntry.id and .closed, by private file
  used,        \* SpoolStore.used
  fault,       \* SpoolStore.readFaults: name -> id of the failed save
  lease,       \* namespace leases
  fin,         \* finalizations between closing the entry and MarkReady
  wr,          \* client requests
  wpc, job,    \* drain workers: program counter and claimed row
  target,      \* how a worker publishes its row
  at,          \* the name now of the file that an in-place drain has open
  buf,         \* what a worker read, or its descriptor still reads
  ns,          \* the rename or removal in progress
  retrying,    \* row whose bytes retryFailed has charged, 0 if none
  (* history *)
  saved,       \* what the client last stored under a name
  limbo,       \* names of a rename or removal that a crash interrupted
  count        \* how often each bounded event has happened

origin  == <<base, same>>
columns == <<path, file, ver, held, retired, tries, nextId, origin>>
table   == <<st, columns, holds>>
ram     == <<index, entId, entClosed, used, fault>>
work    == <<job, target, at, buf>>
procs   == <<fin, wr, wpc, work, ns, retrying>>
history == <<saved, limbo, count>>
vars == <<table, disk, data, mirror, mode, ram, lease, procs, history>>

Ids      == 1..MaxRows
Versions == 0..MaxVersion
None     == 0
NoFile   == -1              \* no private file, no backend file
Torn     == -2              \* a backend file truncated and not yet rewritten
Removed  == -1              \* saved: the client removed the name
Moved    == -2              \* saved: the client renamed the name away
EIO      == -3              \* what a refused read returns
Free     == "free"
Poisoned == "poisoned"
Handler  == "handler"

States     == {"none", "writing", "ready", "draining", "done", "failed"}
Requests   == [pc : {"idle", "opening", "open"}, kind : {"create", "write"},
               path : Paths, file : Ids \cup {None}, sawClosed : BOOLEAN]
WorkerPcs  == {"idle", "claimed", "loaded", "opened", "copied", "installed",
               "held", "done"}
Bases      == {"absent", "present", "moved", "claimed", "replace",
               "atomicConflict"}
Targets    == {"stage", "inplace", "replace", "conflict"}
Contents   == Versions \cup {NoFile}
Jobs       == [id : Ids, path : Paths, file : Ids, ver : Contents]
Entries    == {"none", "local", "confirmed"}
NameOps    == [pc : {"idle", "cancelled", "spooled", "migrated"},
               kind : {"remove", "rename"}, old : Paths, new : Paths,
               files : SUBSET Ids, how : {"backend", "spooled", "skip"},
               seen : [Paths -> Entries]]
Events     == {"version", "fail", "name", "crash", "purge"}

SomePath == CHOOSE p \in Paths : TRUE
IdleRequest == [pc |-> "idle", kind |-> "create", path |-> SomePath,
                file |-> None, sawClosed |-> FALSE]
IdleName == [pc |-> "idle", kind |-> "remove", old |-> SomePath,
             new |-> SomePath, files |-> {}, how |-> "backend",
             seen |-> [p \in Paths |-> "none"]]
SomeJob == [id |-> 1, path |-> SomePath, file |-> 1, ver |-> 0]

(* Every variable keeps its type.                                          *)
TypeOK ==
  /\ st \in [Ids -> States]
  /\ path \in [Ids -> Paths] /\ file \in [Ids -> Ids]
  /\ ver \in [Ids -> Contents]
  /\ held \in [Ids -> BOOLEAN] /\ retired \in [Ids -> BOOLEAN]
  /\ tries \in [Ids -> Nat] /\ nextId \in 1..(MaxRows + 1)
  /\ base \in [Ids -> Bases] /\ same \in [Ids -> BOOLEAN]
  /\ holds \subseteq Ids
  /\ disk \in [Ids -> Contents]
  /\ data \in [Paths -> Versions \cup {NoFile, Torn}]
  /\ mirror \in [Paths -> Entries]
  /\ mode \in {"up", "down", "refused"}
  /\ index \in [Paths -> Ids \cup {None}]
  /\ entId \in [Ids -> Ids \cup {None}] /\ entClosed \in [Ids -> BOOLEAN]
  /\ used \in Int /\ fault \in [Paths -> Ids \cup {None}]
  /\ lease \in [Paths -> {Free, Poisoned, Handler} \cup Writers \cup Workers]
  /\ fin \subseteq [id : Ids \cup {None}, ver : Contents]
  /\ wr \in [Writers -> Requests]
  /\ wpc \in [Workers -> WorkerPcs] /\ job \in [Workers -> Jobs]
  /\ target \in [Workers -> Targets] /\ at \in [Workers -> SUBSET Paths]
  /\ buf \in [Workers -> Versions]
  /\ ns \in NameOps /\ retrying \in Ids \cup {None}
  /\ saved \in [Paths -> Versions \cup {Removed, Moved}]
  /\ limbo \subseteq Paths /\ count \in [Events -> Nat]

-----------------------------------------------------------------------------
(* Questions asked of the table and of memory.                             *)

Exists(r) == st[r] # "none"
Active(r) == st[r] \in {"writing", "ready", "draining"} /\ ~retired[r]

\* Mutant: the insert and the migration look for rows being written only.
ActiveAtWriting(p) == {r \in Ids : st[r] = "writing" /\ path[r] = p}

ActiveAt(p) == {r \in Ids : Active(r) /\ path[r] = p}

(* HasNewerRowForPath, and the same subquery in markDraining and           *)
(* ResetForRetry.                                                          *)
HasNewerRowForPath(r) ==
  \E q \in Ids : q > r /\ Exists(q) /\ ~retired[q] /\ path[q] = path[r]

rejectCompletionPath(p) == \E r \in holds : path[r] = p

(* ReadFault: the fault counts unless a younger save shadows the name.     *)
ReadFault(p) ==
  fault[p] # None /\ ~(index[p] # None /\ entId[index[p]] > fault[p])

\* Mutant: an empty file is charged too.
ChargeAny(f) == IF disk[f] # NoFile THEN 1 ELSE 0

(* releaseCapacity and the reservation of WriteAt, in files.               *)
Charge(f) == IF disk[f] > 0 THEN 1 ELSE 0

(* What a READ of name p returns: openFileExpected consults the fault, then *)
(* the spool shadow, then the backend.                                     *)
Read(p) ==
  IF ReadFault(p) THEN EIO
  ELSE IF index[p] # None THEN disk[index[p]]
  ELSE data[p]

\* Mutant: the backend is not asked and the base is left open.
probeMirror(p) == IF mirror[p] # "none" THEN "weak" ELSE "absent"

(* probeBase: what a save finds at its name when it opens.  The backend is  *)
(* asked only about names that the mirror lists.                           *)
probeBase(p) ==
  IF mirror[p] # "none" /\ data[p] # NoFile THEN "present" ELSE "absent"

(* The file at p is rewritten by row `by', or becomes another file: which   *)
(* rows still match their recorded base.  A claimed base is an inode, every *)
(* other one includes the times of the file.                               *)
Rewritten(p, by) == [r \in Ids |->
  r = by \/ (same[r] /\ (path[r] # p \/ base[r] = "claimed"))]
Replaced(p, by) == [r \in Ids |-> r = by \/ (same[r] /\ path[r] # p)]

\* Mutant: the claim of the dispatcher is trusted.
drainClaimTrusted(d) == wpc[d] # "idle"

(* drainStillClaimed: the worker's row is still the one it claimed.        *)
drainStillClaimed(d) ==
  LET r == job[d].id IN
  /\ st[r] = "draining" /\ ~retired[r]
  /\ path[r] = job[d].path /\ file[r] = job[d].file

Tick(e) == count' = [count EXCEPT ![e] = @ + 1]

Init ==
  /\ st = [r \in Ids |-> "none"]
  /\ path = [r \in Ids |-> SomePath] /\ file = [r \in Ids |-> r]
  /\ ver = [r \in Ids |-> 0] /\ tries = [r \in Ids |-> 0]
  /\ held = [r \in Ids |-> FALSE] /\ retired = [r \in Ids |-> FALSE]
  /\ base = [r \in Ids |-> "absent"] /\ same = [r \in Ids |-> FALSE]
  /\ nextId = 1 /\ holds = {}
  /\ disk = [r \in Ids |-> NoFile]
  /\ data = [p \in Paths |-> IF p \in Existing THEN 1 ELSE NoFile]
  /\ mirror = [p \in Paths |-> IF p \in Existing THEN "confirmed" ELSE "none"]
  /\ mode = "up"
  /\ index = [p \in Paths |-> None]
  /\ entId = [f \in Ids |-> None] /\ entClosed = [f \in Ids |-> TRUE]
  /\ used = 0 /\ fault = [p \in Paths |-> None]
  /\ lease = [p \in Paths |-> Free]
  /\ fin = {} /\ wr = [w \in Writers |-> IdleRequest]
  /\ wpc = [d \in Workers |-> "idle"] /\ job = [d \in Workers |-> SomeJob]
  /\ target = [d \in Workers |-> "stage"] /\ at = [d \in Workers |-> {}]
  /\ buf = [d \in Workers |-> 0]
  /\ ns = IdleName /\ retrying = None
  /\ saved = [p \in Paths |-> IF p \in Existing THEN 1 ELSE Removed]
  /\ limbo = {}
  /\ count = [e \in Events |-> IF e = "version" THEN 1 ELSE 0]

-----------------------------------------------------------------------------
(* Clients.  A write-open runs under the name's lease: the fault and index  *)
(* checks of create and openFileExpected first, then SpoolStore.OpenWrite.  *)

openFile(w, p, kind) ==
  /\ mode = "up" /\ wr[w].pc = "idle" /\ lease[p] = Free
  /\ kind \in Opens /\ ~ReadFault(p)
  /\ kind = "write" => index[p] # None
  /\ wr' = [wr EXCEPT ![w] = [pc |-> "opening", kind |-> kind, path |-> p,
                              file |-> None, sawClosed |-> FALSE]]
  /\ lease' = [lease EXCEPT ![p] = w]
  /\ UNCHANGED <<table, disk, data, mirror, mode, ram, fin, wpc, work, ns,
                 retrying, history>>

(* The request gets its handle, or an error, and the lease is released.    *)
Opened(w, f) ==
  /\ wr' = [wr EXCEPT ![w] = IF f = None THEN IdleRequest
                             ELSE [@ EXCEPT !.pc = "open", !.file = f]]
  /\ lease' = [lease EXCEPT ![wr[w].path] = Free]

(* OpenWrite finds a live entry: the handle joins it.                      *)
OpenShared(w) ==
  LET f == index[wr[w].path] IN
  /\ wr[w].pc = "opening" /\ f # None /\ ~entClosed[f]
  /\ Opened(w, f)
  /\ UNCHANGED <<table, disk, data, mirror, mode, ram, fin, wpc, work, ns,
                 retrying, history>>

\* Mutant: the row is taken back from the worker that drains it.
ReopenableDraining(r) == Active(r) /\ r \notin holds

(* The condition of the UPDATE in ReopenReady.                             *)
Reopenable(r) == st[r] = "ready" /\ ~retired[r] /\ r \notin holds

(* OpenWrite finds a finalized entry that has not been claimed: ReopenReady *)
(* takes the row back to writing.                                          *)
ReopenReady(w) ==
  LET f == index[wr[w].path] IN
  /\ wr[w].pc = "opening" /\ f # None /\ entClosed[f] /\ Reopenable(entId[f])
  /\ st' = [st EXCEPT ![entId[f]] = "writing"]
  /\ entClosed' = [entClosed EXCEPT ![f] = FALSE]
  /\ Opened(w, f)
  /\ UNCHANGED <<columns, holds, disk, data, mirror, mode, index, entId, used,
                 fault, fin, wpc, work, ns, retrying, history>>

(* OpenWrite polls while a finalized entry is being drained.               *)
OpenWait(w) ==
  LET f == index[wr[w].path] IN
  /\ wr[w].pc = "opening" /\ ~wr[w].sawClosed
  /\ f # None /\ entClosed[f] /\ ~Reopenable(entId[f])
  /\ wr' = [wr EXCEPT ![w].sawClosed = TRUE]
  /\ UNCHANGED <<table, disk, data, mirror, mode, ram, lease, fin, wpc, work,
                 ns, retrying, history>>

(* ErrSpoolBusy after such a wait; ErrSpoolFull; the table refuses a second *)
(* active row or a name with a retained completion; its INSERT fails (at    *)
(* the latest when the bound on rows is reached).                          *)
OpenRefused(w) ==
  LET p == wr[w].path IN
  /\ wr[w].pc = "opening"
  /\ \/ wr[w].sawClosed
     \/ index[p] = None /\ (used >= Capacity \/ nextId \notin Ids)
     \/ index[p] = None /\ (ActiveAt(p) # {} \/ rejectCompletionPath(p))
  /\ Opened(w, None)
  /\ UNCHANGED <<table, disk, data, mirror, mode, ram, fin, wpc, work, ns,
                 retrying, history>>

(* OpenWrite starts a new save: row, private file, index entry, and the    *)
(* handler's mirror entry, which is marked as existing only locally.       *)
OpenFresh(w) ==
  LET p == wr[w].path  n == nextId IN
  /\ wr[w].pc = "opening" /\ ~wr[w].sawClosed /\ index[p] = None
  /\ used < Capacity /\ n \in Ids
  /\ ActiveAt(p) = {} /\ ~rejectCompletionPath(p)
  /\ st' = [st EXCEPT ![n] = "writing"]
  /\ path' = [path EXCEPT ![n] = p] /\ file' = [file EXCEPT ![n] = n]
  /\ nextId' = n + 1
  /\ base' = [base EXCEPT ![n] = probeBase(p)]
  /\ same' = [same EXCEPT ![n] = probeBase(p) = "present"]
  /\ disk' = [disk EXCEPT ![n] = 0]
  /\ entId' = [entId EXCEPT ![n] = n]
  /\ entClosed' = [entClosed EXCEPT ![n] = FALSE]
  /\ index' = [index EXCEPT ![p] = n]
  /\ Opened(w, n)
  /\ IF wr[w].kind = "create"
     THEN /\ mirror' = [mirror EXCEPT ![p] = "local"]
          /\ saved' = [saved EXCEPT ![p] = 0] /\ limbo' = limbo \ {p}
     ELSE UNCHANGED <<mirror, saved, limbo>>
  /\ UNCHANGED <<ver, held, retired, tries, holds, data, mode, used, fault,
                 fin, wpc, work, ns, retrying, count>>

(* SpoolEntry.WriteAt.  A write to an entry closed meanwhile fails.        *)
WriteAt(w) ==
  LET f == wr[w].file  v == count["version"] + 1 IN
  /\ wr[w].pc = "open" /\ ~entClosed[f] /\ v \in Versions
  /\ used + (1 - Charge(f)) <= Capacity
  /\ disk' = [disk EXCEPT ![f] = v]
  /\ used' = used + (1 - Charge(f))
  /\ saved' = [p \in Paths |-> IF index[p] = f THEN v ELSE saved[p]]
  /\ Tick("version")
  /\ UNCHANGED <<table, data, mirror, mode, index, entId, entClosed, fault,
                 lease, procs, limbo>>

(* spoolWriteFile.Close: ReleaseHandle.                                    *)
ReleaseHandle(w) ==
  /\ wr[w].pc = "open"
  /\ wr' = [wr EXCEPT ![w] = IdleRequest]
  /\ UNCHANGED <<table, disk, data, mirror, mode, ram, lease, fin, wpc, work,
                 ns, retrying, history>>

(* A write to a name without a spool entry goes straight to the backend.   *)
writeBound(w, p) ==
  LET v == count["version"] + 1 IN
  /\ mode = "up" /\ wr[w].pc = "idle" /\ lease[p] = Free /\ "write" \in Opens
  /\ ~ReadFault(p) /\ index[p] = None /\ data[p] # NoFile /\ mirror[p] # "none"
  /\ v \in Versions
  /\ data' = [data EXCEPT ![p] = v] /\ same' = Rewritten(p, None)
  /\ saved' = [saved EXCEPT ![p] = v] /\ limbo' = limbo \ {p}
  /\ Tick("version")
  /\ UNCHANGED <<st, path, file, ver, held, retired, tries, nextId, base,
                 holds, disk, mirror, mode, ram, lease, procs>>

(* finalizeLocked, first half: the sweeper (idle entry, or handles that    *)
(* leaked) closes the entry and captures its row and content.              *)
finalizeLocked(f) ==
  /\ mode = "up" /\ ~entClosed[f] /\ \E p \in Paths : index[p] = f
  /\ entClosed' = [entClosed EXCEPT ![f] = TRUE]
  /\ fin' = fin \cup {[id |-> entId[f], ver |-> disk[f]]}
  /\ UNCHANGED <<table, disk, data, mirror, mode, index, entId, used, fault,
                 lease, wr, wpc, work, ns, retrying, history>>

(* finalizeLocked, second half, off the entry lock.                        *)
MarkReady(x) ==
  /\ x \in fin /\ fin' = fin \ {x}
  /\ IF st[x.id] = "writing" /\ x.id \notin holds
     THEN /\ st' = [st EXCEPT ![x.id] = "ready"]
          /\ ver' = [ver EXCEPT ![x.id] = x.ver]
     ELSE UNCHANGED <<st, ver>>
  /\ UNCHANGED <<path, file, held, retired, tries, nextId, origin, holds, disk,
                 data, mirror, mode, ram, lease, wr, wpc, work, ns, retrying,
                 history>>

-----------------------------------------------------------------------------
(* Drain workers.                                                          *)

At(d, pc) == wpc' = [wpc EXCEPT ![d] = pc]
Goto(d, pc) == At(d, pc) /\ UNCHANGED work
Leave(d) ==
  /\ At(d, "idle") /\ job' = [job EXCEPT ![d] = SomeJob]
  /\ target' = [target EXCEPT ![d] = "stage"]
  /\ at' = [at EXCEPT ![d] = {}] /\ buf' = [buf EXCEPT ![d] = 0]

(* A private file goes while a worker may have it open: buf keeps what the  *)
(* descriptor still reads.                                                 *)
KeepOpen(files) == [d \in Workers |->
  IF wpc[d] = "opened" /\ job[d].file \in files /\ disk[job[d].file] # NoFile
  THEN disk[job[d].file] ELSE buf[d]]

(* A file that an in-place drain has open loses its name.                  *)
Unlinked(p) == [d \in Workers |-> at[d] \ {p}]

\* Mutant: a row can be claimed twice.
ClaimableTwice(r) ==
  /\ st[r] \in {"ready", "draining"} /\ ~held[r] /\ ~retired[r]
  /\ r \notin holds /\ ~HasNewerRowForPath(r)

(* The condition of the UPDATE in markDraining.                            *)
Claimable(r) ==
  /\ st[r] = "ready" /\ ~held[r] /\ ~retired[r] /\ r \notin holds
  /\ ~HasNewerRowForPath(r)

(* dispatchRow: markDraining claims a ready row nobody supersedes.         *)
markDraining(d, r) ==
  /\ mode = "up" /\ wpc[d] = "idle" /\ Claimable(r)
  /\ st' = [st EXCEPT ![r] = "draining"]
  /\ job' = [job EXCEPT ![d] =
       [id |-> r, path |-> SomePath, file |-> 1, ver |-> 0]]
  /\ At(d, "claimed")
  /\ UNCHANGED <<columns, holds, disk, data, mirror, mode, ram, lease, fin, wr,
                 target, at, buf, ns, retrying, history>>

(* dispatchRow reads the claimed row again; it may be gone by then.        *)
Reread(d) ==
  LET r == job[d].id IN
  /\ wpc[d] = "claimed"
  /\ IF Exists(r)
     THEN /\ At(d, "loaded")
          /\ job' = [job EXCEPT ![d] =
               [id |-> r, path |-> path[r], file |-> file[r], ver |-> ver[r]]]
          /\ UNCHANGED <<target, at, buf>>
     ELSE Leave(d)
  /\ UNCHANGED <<table, disk, data, mirror, mode, ram, lease, fin, wr, ns,
                 retrying, history>>

(* A worker that may not go on yet (no lane or FUSE slot, the name's lease  *)
(* is taken, shutdown) gives the row back by id: ResetToReady.             *)
ResetToReady(d) ==
  LET r == job[d].id IN
  /\ \/ wpc[d] \in {"claimed", "loaded"}
     \/ wpc[d] = "copied" /\ lease[job[d].path] # Free
  /\ st' = IF Exists(r) /\ r \notin holds
           THEN [st EXCEPT ![r] = "ready"] ELSE st
  /\ Leave(d)
  /\ UNCHANGED <<columns, holds, disk, data, mirror, mode, ram, lease, fin, wr,
                 ns, retrying, history>>

(* failTransient: the copy failed; the row is requeued with one more try.  *)
failTransient(d) ==
  LET r == job[d].id IN
  /\ wpc[d] \in {"loaded", "opened", "copied"} /\ tries[r] < MaxTries
  /\ count["fail"] < MaxFails /\ Tick("fail")
  /\ IF st[r] = "draining" /\ r \notin holds
     THEN /\ st' = [st EXCEPT ![r] = "ready"]
          /\ tries' = [tries EXCEPT ![r] = @ + 1]
     ELSE UNCHANGED <<st, tries>>
  /\ Leave(d)
  /\ UNCHANGED <<path, file, ver, held, retired, nextId, origin, holds, disk,
                 data, mirror, mode, ram, lease, fin, wr, ns, retrying, saved,
                 limbo>>

\* Mutant: a failure leaves the backend file readable.
blockReadNever(p, r) == fault

(* blockRead, unless a newer save owns the name.                           *)
blockRead(p, r) ==
  IF HasNewerRowForPath(r) \/ fault[p] >= r THEN fault
  ELSE [fault EXCEPT ![p] = r]

(* FailClaimedDrain with afterClaimedFailure: exactly the claimed row      *)
(* becomes failed, its capacity is released, reads of the name are blocked *)
(* unless a newer save owns it, and its entry leaves the index.            *)
FailClaimedDrain(d, integrity) ==
  LET r == job[d].id  p == job[d].path  f == job[d].file IN
  IF drainStillClaimed(d) /\ r \notin holds
  THEN /\ st' = [st EXCEPT ![r] = "failed"]
       /\ held' = [held EXCEPT ![r] = integrity]
       /\ used' = used - Charge(f)
       /\ fault' = blockRead(p, r)
       /\ index' = IF index[p] # None /\ entId[index[p]] = r
                   THEN [index EXCEPT ![p] = None] ELSE index
  ELSE UNCHANGED <<st, held, used, fault, index>>

(* failPermanent: the attempt budget is spent, or the source is missing.   *)
failPermanent(d) ==
  /\ wpc[d] = "loaded"
  /\ tries[job[d].id] >= MaxTries \/ disk[job[d].file] = NoFile
  /\ FailClaimedDrain(d, FALSE)
  /\ Leave(d)
  /\ UNCHANGED <<path, file, ver, retired, tries, nextId, origin, holds, disk,
                 data, mirror, mode, entId, entClosed, lease, fin, wr, ns,
                 retrying, history>>

(* openDrainTarget compares the file at the name with the row's base. A     *)
(* missing name is staged.  A file that the row recognises is rewritten in *)
(* place or, after an atomic save, replaced; any other file stays, and the *)
(* bytes go to a conflict copy.  No active row is older than the claimed   *)
(* one, so olderRowInstalledDest does not apply.                           *)
drainTarget(r, p) ==
  IF data[p] = NoFile THEN "stage"
  ELSE IF ~same[r] THEN "conflict"
  ELSE IF base[r] = "replace" THEN "replace"
  ELSE IF base[r] \in {"present", "moved", "claimed"} THEN "inplace"
  ELSE "conflict"

(* Under the lease, a worker that still owns its row opens its target.  An  *)
(* in-place target is claimed for the row and truncated.                   *)
openDrainTarget(d) ==
  LET r == job[d].id  p == job[d].path  t == drainTarget(r, p) IN
  /\ wpc[d] = "loaded" /\ lease[p] = Free
  /\ tries[r] < MaxTries /\ disk[job[d].file] # NoFile
  /\ IF drainStillClaimed(d)
     THEN /\ At(d, "opened")
          /\ target' = [target EXCEPT ![d] = t] /\ UNCHANGED <<job, buf>>
          /\ at' = [at EXCEPT ![d] = IF t = "inplace" THEN {p} ELSE {}]
          /\ IF t = "inplace"
             THEN /\ data' = [data EXCEPT ![p] = Torn]
                  /\ base' = [base EXCEPT ![r] = "claimed"]
                  /\ same' = Rewritten(p, r)
             ELSE UNCHANGED <<data, origin>>
     ELSE Leave(d) /\ UNCHANGED <<data, origin>>
  /\ UNCHANGED <<st, path, file, ver, held, retired, tries, nextId, holds,
                 disk, mirror, mode, ram, lease, fin, wr, ns, retrying,
                 history>>

(* The copy reads the private file through a descriptor opened before, so  *)
(* an unlinked file still yields its bytes.  A hash that differs from the  *)
(* row's quarantines the row.                                              *)
Source(d) ==
  IF disk[job[d].file] = NoFile THEN buf[d] ELSE disk[job[d].file]

\* Mutant: a staged copy is completed without being installed.
afterCopyUninstalled(d) == "installed"

(* A staged copy still has to be installed.                                *)
afterCopy(d) == IF target[d] = "inplace" THEN "installed" ELSE "copied"

Copy(d) ==
  /\ wpc[d] = "opened"
  /\ data' = [p \in Paths |-> IF p \in at[d] THEN Source(d) ELSE data[p]]
  /\ same' = [r \in Ids |-> (at[d] = {} => same[r])
                            /\ \A p \in at[d] : Rewritten(p, job[d].id)[r]]
  /\ IF Source(d) = job[d].ver
     THEN /\ buf' = [buf EXCEPT ![d] = Source(d)]
          /\ At(d, afterCopy(d)) /\ UNCHANGED <<job, target, at>>
          /\ UNCHANGED <<st, held, used, fault, index>>
     ELSE FailClaimedDrain(d, TRUE) /\ Leave(d)
  /\ UNCHANGED <<path, file, ver, retired, tries, nextId, base, holds, disk,
                 mirror, mode, entId, entClosed, lease, fin, wr, ns, retrying,
                 history>>

(* installNewName: the staged copy takes the name, by an exclusive link if *)
(* the name is free, by a replacing rename if the file there is still the  *)
(* one to replace; the row then claims it.                                 *)
Installable(d) ==
  \/ target[d] \in {"stage", "replace"} /\ data[job[d].path] = NoFile
  \/ target[d] = "replace" /\ same[job[d].id]

installNewName(d) ==
  LET r == job[d].id  p == job[d].path IN
  /\ wpc[d] = "copied" /\ lease[p] = Free
  /\ IF drainStillClaimed(d)
     THEN /\ Installable(d)
          /\ data' = [data EXCEPT ![p] = buf[d]]
          /\ base' = [base EXCEPT ![r] = "claimed"] /\ same' = Replaced(p, r)
          /\ at' = Unlinked(p) /\ At(d, "installed")
          /\ UNCHANGED <<job, target, buf>>
     ELSE Leave(d) /\ UNCHANGED <<data, origin>>
  /\ UNCHANGED <<st, path, file, ver, held, retired, tries, nextId, holds,
                 disk, mirror, mode, ram, lease, fin, wr, ns, retrying,
                 history>>

(* publishConflictCopy, and installNewName when somebody else's file holds *)
(* the name: the bytes go to a copy under another name, and the row fails  *)
(* for good with its private file retained.                                *)
publishConflictCopy(d) ==
  /\ wpc[d] = "copied" /\ lease[job[d].path] = Free /\ drainStillClaimed(d)
  /\ ~Installable(d)
  /\ FailClaimedDrain(d, TRUE) /\ Leave(d)
  /\ UNCHANGED <<path, file, ver, retired, tries, nextId, origin, holds, disk,
                 data, mirror, mode, entId, entClosed, lease, fin, wr, ns,
                 retrying, history>>

\* Mutant: the worker leaves and the row stays claimed.
RequeueForgotten(d) ==
  /\ wpc[d] = "installed" /\ lease[job[d].path] # Free
  /\ Leave(d)
  /\ UNCHANGED <<table, disk, data, mirror, mode, ram, lease, fin, wr, ns,
                 retrying, history>>

(* completeInline / commitExactCohort.  A refused lease requeues the row.   *)
RequeueUnadmittedDrain(d) ==
  /\ wpc[d] = "installed" /\ lease[job[d].path] # Free
  /\ st' = IF drainStillClaimed(d) /\ job[d].id \notin holds
           THEN [st EXCEPT ![job[d].id] = "ready"] ELSE st
  /\ Leave(d)
  /\ UNCHANGED <<columns, holds, disk, data, mirror, mode, ram, lease, fin, wr,
                 ns, retrying, history>>

(* First transaction: a completion hold for the exact claimed row.  A row  *)
(* that was cancelled or moved is rejected and its backend file is left.   *)
prepareDrainCompletions(d) ==
  /\ wpc[d] = "installed" /\ lease[job[d].path] = Free
  /\ IF drainStillClaimed(d) /\ job[d].id \notin holds
     THEN /\ holds' = holds \cup {job[d].id}
          /\ lease' = [lease EXCEPT ![job[d].path] = d]
          /\ Goto(d, "held")
     ELSE Leave(d) /\ UNCHANGED <<holds, lease>>
  /\ UNCHANGED <<st, columns, disk, data, mirror, mode, ram, fin, wr, ns,
                 retrying, history>>

(* Second transaction: the row is done.                                    *)
batchMarkDone(d) ==
  /\ wpc[d] = "held"
  /\ st' = [st EXCEPT ![job[d].id] = "done"]
  /\ Goto(d, "done")
  /\ UNCHANGED <<columns, holds, disk, data, mirror, mode, ram, lease, fin, wr,
                 ns, retrying, history>>

\* Mutant: the lease of a held completion is not released.
holdCompletionLeased(d) ==
  /\ wpc[d] = "held" /\ count["fail"] < MaxFails /\ Tick("fail")
  /\ Leave(d)
  /\ UNCHANGED <<table, disk, data, mirror, mode, ram, lease, fin, wr, ns,
                 retrying, saved, limbo>>

(* holdCompletion: the second transaction's outcome is unknown.  The row   *)
(* and its hold stay as they are until a restart; the lease is released.   *)
holdCompletion(d) ==
  /\ wpc[d] = "held" /\ count["fail"] < MaxFails /\ Tick("fail")
  /\ lease' = [lease EXCEPT ![job[d].path] = Free]
  /\ Leave(d)
  /\ UNCHANGED <<table, disk, data, mirror, mode, ram, fin, wr, ns, retrying,
                 saved, limbo>>

(* finishAcknowledged: effects, then CompleteAcknowledgedDrain evicts the  *)
(* entry, removes the private file, releases its capacity and deletes the  *)
(* hold.  The read fault of the name is not touched.                       *)
CompleteAcknowledgedDrain(d) ==
  LET r == job[d].id  p == job[d].path  f == job[d].file IN
  /\ wpc[d] = "done"
  /\ index' = IF index[p] # None /\ entId[index[p]] = r
              THEN [index EXCEPT ![p] = None] ELSE index
  /\ disk' = [disk EXCEPT ![f] = NoFile]
  /\ used' = used - Charge(f)
  /\ holds' = holds \ {r}
  /\ lease' = [lease EXCEPT ![p] = Free]
  /\ At(d, "idle") /\ job' = [job EXCEPT ![d] = SomeJob]
  /\ target' = [target EXCEPT ![d] = "stage"]
  /\ at' = [at EXCEPT ![d] = {}] /\ buf' = [KeepOpen({f}) EXCEPT ![d] = 0]
  /\ UNCHANGED <<st, columns, data, mirror, mode, entId, entClosed, fault, fin,
                 wr, ns, retrying, history>>

(* Effects or cleanup fail: everything is kept and the name is poisoned.   *)
PoisonCompletion(d) ==
  /\ wpc[d] = "done" /\ count["fail"] < MaxFails /\ Tick("fail")
  /\ lease' = [lease EXCEPT ![job[d].path] = Poisoned]
  /\ Leave(d)
  /\ UNCHANGED <<table, disk, data, mirror, mode, ram, fin, wr, ns, retrying,
                 saved, limbo>>

-----------------------------------------------------------------------------
(* Recovery of failed saves, garbage collection, mirror reconciliation.    *)

Retryable(r) ==
  /\ st[r] = "failed" /\ ~held[r] /\ ~retired[r] /\ ~HasNewerRowForPath(r)

(* retryFailed charges the bytes before it resets the row ...              *)
retryFailed(r) ==
  /\ mode = "up" /\ retrying = None
  /\ Retryable(r) /\ disk[file[r]] # NoFile
  /\ used' = used + Charge(file[r]) /\ retrying' = r
  /\ UNCHANGED <<table, disk, data, mirror, mode, index, entId, entClosed,
                 fault, lease, fin, wr, wpc, work, ns, history>>

(* ... and takes the charge back if ResetForRetry refuses.                 *)
ResetForRetry(r) ==
  /\ retrying = r /\ retrying' = None
  /\ IF Retryable(r) /\ r \notin holds
     THEN /\ st' = [st EXCEPT ![r] = "ready"]
          /\ tries' = [tries EXCEPT ![r] = 0] /\ UNCHANGED used
     ELSE used' = used - Charge(file[r]) /\ UNCHANGED <<st, tries>>
  /\ UNCHANGED <<path, file, ver, held, retired, nextId, origin, holds, disk,
                 data, mirror, mode, index, entId, entClosed, fault, lease,
                 fin, wr, wpc, work, ns, history>>

(* The sweeper's DeleteDone.                                               *)
DeleteDone(r) ==
  /\ mode = "up" /\ st[r] = "done" /\ r \notin holds
  /\ count["purge"] < MaxPurges /\ Tick("purge")
  /\ st' = [st EXCEPT ![r] = "none"]
  /\ UNCHANGED <<columns, holds, disk, data, mirror, mode, ram, lease, procs,
                 saved, limbo>>

(* The reconciler sees the name in the backend's metadata.                 *)
Reconcile(p) ==
  /\ mode = "up" /\ data[p] # NoFile
  /\ mirror[p] # "confirmed" /\ ~rejectCompletionPath(p)
  /\ mirror' = [mirror EXCEPT ![p] = "confirmed"]
  /\ UNCHANGED <<table, disk, data, mode, ram, lease, procs, history>>

-----------------------------------------------------------------------------
(* Removal and rename.  Both hold the leases of their names from the first *)
(* check to the publication in the mirror, and both begin by cancelling    *)
(* the pending save of the name that disappears.                           *)

LatestFailedAt(p) ==
  \E r \in Ids : /\ st[r] = "failed" /\ ~retired[r] /\ path[r] = p
                 /\ ~HasNewerRowForPath(r)

\* Mutant: a row that a worker has claimed is not cancelled.
PendingUnclaimedAt(p) ==
  {r \in Ids : path[r] = p /\ st[r] \in {"writing", "ready"}}

PendingAt(p) ==
  {r \in Ids : path[r] = p /\ st[r] \in {"writing", "ready", "draining"}}

(* The rename or removal in progress is taking what the name held away.    *)
Cancelling(p) ==
  /\ ns.pc # "idle" /\ p = ns.new
  /\ ns.pc = "migrated" => ns.how = "backend"

(* remove and rename up to DeleteActiveByPath: the pending rows of the name *)
(* that disappears are deleted and its older history is retired.           *)
beginName(kind, old, new) ==
  /\ mode = "up" /\ ns.pc = "idle" /\ mirror[old] # "none"
  /\ lease[old] = Free /\ lease[new] = Free
  /\ kind = "remove" <=> old = new
  /\ kind = "rename" => nextId \in Ids
  /\ ~ReadFault(old) /\ ~ReadFault(new)
  /\ ~LatestFailedAt(new) /\ ~rejectCompletionPath(new)
  /\ count["name"] < MaxNames /\ Tick("name")
  /\ lease' = [lease EXCEPT ![old] = Handler, ![new] = Handler]
  /\ st' = [r \in Ids |-> IF r \in PendingAt(new) THEN "none" ELSE st[r]]
  /\ ver' = [r \in Ids |-> IF r \in PendingAt(new) THEN 0 ELSE ver[r]]
  /\ retired' = [r \in Ids |-> retired[r] \/
       (Exists(r) /\ path[r] = new /\ \E q \in PendingAt(new) : r < q)]
  /\ ns' = [pc |-> "cancelled", kind |-> kind, old |-> old, new |-> new,
            files |-> {file[r] : r \in PendingAt(new)}, how |-> "backend",
            seen |-> mirror]
  /\ UNCHANGED <<path, file, held, tries, nextId, origin, holds, disk, data,
                 mirror, mode, ram, fin, wr, wpc, work, retrying, saved,
                 limbo>>

(* cancelForDelete, after the table: the entry leaves the index and is     *)
(* closed, the private files are unlinked and their capacity released.     *)
cancelForDelete ==
  LET p == ns.new  f == index[ns.new] IN
  /\ ns.pc = "cancelled"
  /\ index' = [index EXCEPT ![p] = None]
  /\ entClosed' = IF f = None THEN entClosed
                  ELSE [entClosed EXCEPT ![f] = TRUE]
  /\ used' = used - Cardinality({g \in ns.files : disk[g] > 0})
  /\ disk' = [g \in Ids |-> IF g \in ns.files THEN NoFile ELSE disk[g]]
  /\ fault' = IF ns.files = {} THEN fault ELSE [fault EXCEPT ![p] = None]
  /\ ns' = [ns EXCEPT !.pc = "spooled"] /\ buf' = KeepOpen(ns.files)
  /\ UNCHANGED <<table, data, mirror, mode, entId, lease, fin, wr, wpc, job,
                 target, at, retrying, history>>

(* History: what was stored under a is now stored under b.                 *)
MoveSaved(a, b) ==
  /\ saved' = [saved EXCEPT ![a] = Moved, ![b] = saved[a]]
  /\ limbo' = IF a \in limbo THEN (limbo \ {a}) \cup {b} ELSE limbo \ {b}

(* renamedSpoolBase: the base of a moved row.  A file that comes along is   *)
(* recognised again; a save of a name that was new replaces what it finds  *)
(* at the destination.                                                     *)
renamedSpoolBase(r, b) ==
  IF base[r] = "present" THEN "moved"
  ELSE IF base[r] # "absent" THEN base[r]
  ELSE IF probeBase(b) = "present" THEN "replace" ELSE "atomicConflict"

(* The backend rename is skipped for a name that exists only locally.      *)
skipFUSERename == ns.seen[ns.old] = "local" /\ ns.seen[ns.new] = "none"

(* MigrateForRename of active row r.  A writing or ready row takes the new *)
(* name; a claimed row is replaced by a fresh ready row that shares its    *)
(* private file, so that its worker loses the claim.  History under the    *)
(* new name, and older history under the old one, is retired; the shadow   *)
(* entry moves along.                                                      *)
MigrateRow(r) ==
  LET a == ns.old  b == ns.new
      n == IF st[r] = "draining" THEN nextId ELSE r
      shadowed == index[a] # None /\ entId[index[a]] = r IN
  /\ n \in Ids
  /\ st' = IF n = r THEN st ELSE [st EXCEPT ![r] = "none", ![n] = "ready"]
  /\ nextId' = IF n = r THEN nextId ELSE nextId + 1
  /\ path' = [path EXCEPT ![n] = b] /\ file' = [file EXCEPT ![n] = file[r]]
  /\ ver' = [ver EXCEPT ![n] = ver[r]]
  /\ tries' = [tries EXCEPT ![n] = tries[r]]
  /\ held' = [held EXCEPT ![n] = held[r]]
  /\ base' = [base EXCEPT ![n] = renamedSpoolBase(r, b)]
  /\ same' = [same EXCEPT ![n] = IF base[r] = "absent" THEN data[a] = NoFile
                                 ELSE ~skipFUSERename /\ same[r]]
  /\ retired' = [q \in Ids |-> retired[q] \/
       (Exists(q) /\ (path[q] = b \/ (path[q] = a /\ q < r)))]
  /\ index' = IF shadowed THEN [index EXCEPT ![a] = None, ![b] = index[a]]
              ELSE index
  /\ entId' = IF shadowed THEN [entId EXCEPT ![index[a]] = n] ELSE entId
  /\ fault' = [fault EXCEPT ![a] = IF @ <= r THEN None ELSE @,
                            ![b] = IF @ <= n THEN None ELSE @]
  /\ ns' = [ns EXCEPT !.pc = "migrated",
                      !.how = IF skipFUSERename THEN "skip" ELSE "spooled"]
  /\ MoveSaved(a, b)
  /\ UNCHANGED holds

(* The table refuses to migrate: either name is owned by a failed save or a *)
(* retained completion, or the new name has an active row of its own.      *)
refuseMigration(a, b) ==
  \/ LatestFailedAt(a) \/ LatestFailedAt(b)
  \/ rejectCompletionPath(a) \/ rejectCompletionPath(b)
  \/ ActiveAt(a) # {} /\ ActiveAt(b) # {}

MigrateForRename ==
  LET a == ns.old  b == ns.new IN
  /\ ns.pc = "spooled" /\ ns.kind = "rename" /\ ~refuseMigration(a, b)
  /\ \/ /\ ActiveAt(a) = {}
        /\ ns' = [ns EXCEPT !.pc = "migrated"]
        /\ UNCHANGED <<table, index, entId, fault, saved, limbo>>
     \/ \E r \in ActiveAt(a) : MigrateRow(r)
  /\ UNCHANGED <<disk, data, mirror, mode, entClosed, used, lease, fin, wr,
                 wpc, work, retrying, count>>

(* The rename or removal ends: its leases are released, or kept poisoned.  *)
EndName(to) ==
  /\ ns' = IdleName
  /\ lease' = [lease EXCEPT ![ns.old] = to, ![ns.new] = to]

(* A migration the table refuses poisons both names.                       *)
MigrateRefused ==
  LET a == ns.old  b == ns.new IN
  /\ ns.pc = "spooled" /\ ns.kind = "rename" /\ refuseMigration(a, b)
  /\ EndName(Poisoned)
  /\ saved' = [saved EXCEPT ![b] = Removed] /\ limbo' = limbo \cup {b}
  /\ UNCHANGED <<table, disk, data, mirror, mode, ram, fin, wr, wpc, work,
                 retrying, count>>

(* os.Rename on the backend, then RenameExpected on the mirror.  A source  *)
(* that is only in the spool has nothing to move.  A reconciler that       *)
(* touched an entry meanwhile makes the publication fail.                  *)
rename ==
  LET a == ns.old  b == ns.new
      moves == ns.how # "skip" /\ data[a] # NoFile IN
  /\ ns.pc = "migrated" /\ (ns.how # "backend" \/ data[a] # NoFile)
  /\ data' = IF moves THEN [data EXCEPT ![a] = NoFile, ![b] = data[a]]
             ELSE data
  /\ at' = IF moves THEN [d \in Workers |->
                            IF a \in at[d] THEN {b} ELSE at[d] \ {b}] ELSE at
  /\ IF ns.how = "backend" THEN MoveSaved(a, b) /\ same' = Replaced(b, None)
     ELSE UNCHANGED <<saved, limbo, same>>
  /\ IF mirror[a] = ns.seen[a] /\ mirror[b] = ns.seen[b]
     THEN /\ mirror' = [mirror EXCEPT ![a] = "none", ![b] = mirror[a]]
          /\ EndName(Free)
     ELSE EndName(Poisoned) /\ UNCHANGED mirror
  /\ UNCHANGED <<st, path, file, ver, held, retired, tries, nextId, base,
                 holds, disk, mode, ram, fin, wr, wpc, job, target, buf,
                 retrying, count>>

(* The rows that match their base when the backend rename does not happen: *)
(* a migrated row does not find its file at the new name.                  *)
SameUnmoved ==
  IF ns.pc = "migrated" /\ ns.how = "spooled" /\ data[ns.old] # NoFile
  THEN Replaced(ns.new, None) ELSE same

(* os.Rename or os.Remove fails.  The names are poisoned if the spool was   *)
(* already changed for it.                                                 *)
BackendRefused ==
  LET b == ns.new IN
  /\ \/ /\ ns.pc = "migrated" /\ ns.how = "backend" /\ data[ns.old] = NoFile
        /\ UNCHANGED count
     \/ /\ \/ ns.pc = "migrated" /\ ns.how # "skip"
           \/ ns.pc = "spooled" /\ ns.kind = "remove"
        /\ count["fail"] < MaxFails /\ Tick("fail")
  /\ EndName(IF ns.files = {} /\ ns.how = "backend" THEN Free ELSE Poisoned)
  /\ IF ns.files # {} /\ ns.how = "backend"
     THEN saved' = [saved EXCEPT ![b] = Removed] /\ limbo' = limbo \cup {b}
     ELSE UNCHANGED <<saved, limbo>>
  /\ same' = SameUnmoved
  /\ UNCHANGED <<st, path, file, ver, held, retired, tries, nextId, base,
                 holds, disk, data, mirror, mode, ram, fin, wr, wpc, work,
                 retrying>>

(* os.Remove on the backend, then the mirror.                              *)
remove ==
  LET p == ns.old IN
  /\ ns.pc = "spooled" /\ ns.kind = "remove"
  /\ data' = [data EXCEPT ![p] = NoFile] /\ at' = Unlinked(p)
  /\ same' = Replaced(p, None)
  /\ mirror' = [mirror EXCEPT ![p] = "none"]
  /\ saved' = [saved EXCEPT ![p] = Removed] /\ limbo' = limbo \ {p}
  /\ EndName(Free)
  /\ UNCHANGED <<st, path, file, ver, held, retired, tries, nextId, base,
                 holds, disk, mode, ram, fin, wr, wpc, job, target, buf,
                 retrying, count>>

-----------------------------------------------------------------------------
(* Restart.                                                                *)

(* The process dies: memory is lost, the table, the private files, the     *)
(* mirror's database and the backend survive.                              *)
Crash ==
  /\ mode = "up" /\ count["crash"] < MaxCrashes /\ Tick("crash")
  /\ mode' = "down"
  /\ index' = [p \in Paths |-> None]
  /\ entId' = [f \in Ids |-> None] /\ entClosed' = [f \in Ids |-> TRUE]
  /\ used' = 0 /\ fault' = [p \in Paths |-> None]
  /\ lease' = [p \in Paths |-> Free]
  /\ fin' = {} /\ wr' = [w \in Writers |-> IdleRequest]
  /\ wpc' = [d \in Workers |-> "idle"] /\ job' = [d \in Workers |-> SomeJob]
  /\ target' = [d \in Workers |-> "stage"] /\ at' = [d \in Workers |-> {}]
  /\ buf' = [d \in Workers |-> 0]
  /\ ns' = IdleName /\ retrying' = None
  /\ limbo' = IF ns.pc = "idle" THEN limbo ELSE limbo \cup {ns.old, ns.new}
  /\ saved' = IF Cancelling(ns.new)
              THEN [saved EXCEPT ![ns.new] = Removed] ELSE saved
  /\ same' = SameUnmoved
  /\ UNCHANGED <<st, path, file, ver, held, retired, tries, nextId, base,
                 holds, disk, data, mirror>>

Latest(r) == Exists(r) /\ ~retired[r] /\ ~HasNewerRowForPath(r)

(* The private file has the length and the hash that the row records.      *)
Intact(r) == disk[file[r]] = ver[r]

(* CheckDrainCompletionRecovery and the scan for unindexed files: a        *)
(* completion hold, a claimed row, a done row with its file, or a file     *)
(* without a row stop the boot before anything is changed.                 *)
CheckDrainCompletionRecovery ==
  /\ holds = {}
  /\ \A r \in Ids : /\ st[r] # "draining"
                    /\ st[r] = "done" => disk[file[r]] = NoFile
  /\ \A f \in Ids : disk[f] # NoFile => \E r \in Ids : Exists(r) /\ file[r] = f

(* RecoverOnBoot's row loop: superseded and unfinished saves fail, a failed *)
(* save with an intact file is queued again.                               *)
Recovered(r) ==
  IF retired[r] \/ st[r] \in {"none", "done"} THEN st[r]
  ELSE IF Latest(r) /\ st[r] \in {"ready", "failed"} /\ ~held[r] /\ Intact(r)
       THEN "ready" ELSE "failed"

\* Mutant: the boot scan counts every retained file.
bootUsedAll(ready) == Cardinality({f \in Ids : disk[f] > 0})

(* RecoverOnBoot reserves the files it queues.                             *)
bootUsed(ready) == Cardinality({r \in ready : disk[file[r]] > 0})

\* Mutant: a failed save lets reads through to the backend after a restart.
restoreNoFault(p, failed) == None

(* restoreReadAuthority blocks reads of a name whose last save failed.     *)
restoreFault(p, failed) ==
  IF \E r \in failed : path[r] = p
  THEN CHOOSE r \in failed : path[r] = p ELSE None

RecoverOnBoot ==
  /\ mode = "down"
  /\ IF CheckDrainCompletionRecovery
     THEN LET owner(p) == {r \in Ids : path[r] = p /\ Latest(r)}
              ready == {r \in Ids : Latest(r) /\ Recovered(r) = "ready"}
              failed == {r \in Ids : Latest(r) /\ Recovered(r) = "failed"} IN
          /\ st' = [r \in Ids |-> Recovered(r)]
          /\ held' = [r \in Ids |-> held[r] \/ r \in failed]
          /\ tries' = [r \in Ids |-> IF st[r] = "failed" /\ r \in ready
                                     THEN 0 ELSE tries[r]]
          /\ used' = bootUsed(ready)
          (* restoreReadAuthority *)
          /\ index' = [p \in Paths |->
               IF owner(p) \cap ready = {} THEN None
               ELSE CHOOSE f \in Ids : \E r \in owner(p) \cap ready : f = file[r]]
          /\ entId' = [f \in Ids |->
               IF \E r \in ready : file[r] = f
               THEN CHOOSE r \in ready : file[r] = f ELSE None]
          /\ fault' = [p \in Paths |-> restoreFault(p, failed)]
          /\ mode' = IF \E r \in ready : mirror[path[r]] = "none"
                     THEN "refused" ELSE "up"
     ELSE /\ mode' = "refused"
          /\ UNCHANGED <<st, held, tries, used, index, entId, fault>>
  /\ UNCHANGED <<path, file, ver, retired, nextId, origin, holds, disk, data,
                 mirror, entClosed, lease, procs, history>>

-----------------------------------------------------------------------------
Client ==
  \/ \E w \in Writers :
       \/ \E p \in Paths, kind \in Opens : openFile(w, p, kind)
       \/ OpenShared(w) \/ ReopenReady(w) \/ OpenWait(w) \/ OpenRefused(w)
       \/ OpenFresh(w) \/ WriteAt(w) \/ ReleaseHandle(w)
       \/ \E p \in Paths : writeBound(w, p)

Sweeper ==
  \/ \E f \in Ids : finalizeLocked(f)
  \/ \E x \in fin : MarkReady(x)

Worker(d) ==
  \/ \E r \in Ids : markDraining(d, r)
  \/ Reread(d) \/ ResetToReady(d) \/ failTransient(d) \/ failPermanent(d)
  \/ openDrainTarget(d) \/ Copy(d) \/ installNewName(d)
  \/ publishConflictCopy(d)
  \/ RequeueUnadmittedDrain(d) \/ prepareDrainCompletions(d)
  \/ batchMarkDone(d) \/ holdCompletion(d)
  \/ CompleteAcknowledgedDrain(d) \/ PoisonCompletion(d)

Maintenance ==
  \/ \E r \in Ids : retryFailed(r) \/ ResetForRetry(r) \/ DeleteDone(r)
  \/ \E p \in Paths : Reconcile(p)

NameOp ==
  \/ \E old, new \in Paths, kind \in {"remove", "rename"} :
       beginName(kind, old, new)
  \/ cancelForDelete \/ MigrateForRename \/ MigrateRefused
  \/ rename \/ remove \/ BackendRefused

Next == \/ Client \/ Sweeper \/ Maintenance \/ NameOp \/ Crash \/ RecoverOnBoot
        \/ \E d \in Workers : Worker(d)

Spec == Init /\ [][Next]_vars

-----------------------------------------------------------------------------
(* Properties.                                                             *)

(* The name is not owned by an operation and no crash cut one short on it. *)
Settled(p) == mode = "up" /\ lease[p] = Free /\ p \notin limbo

(* What a client last stored under a name is never lost: a row still keeps  *)
(* it in its private file or a name of the backend holds it.  No step of   *)
(* the drain gives the private file up before the backend has the bytes,   *)
(* whatever renames, removals, failures, retries and restarts do meanwhile. *)
SavedBytesRetained ==
  \A p \in Paths : saved[p] >= 0 /\ ~Cancelling(p) =>
    \/ \E r \in Ids : Exists(r) /\ disk[file[r]] = saved[p]
    \/ \E q \in Paths : data[q] = saved[p]

(* A read of a name returns what was last stored there, or EIO: never an    *)
(* older save, a half-drained backend file or a missing file.  The index   *)
(* entry hands over to the backend only when the backend has the bytes.    *)
FreshReads ==
  \A p \in Paths : Settled(p) /\ saved[p] >= 0 => Read(p) \in {EIO, saved[p]}

(* A removed name does not come back to the backend: a drain whose row was  *)
(* cancelled does not publish it.                                          *)
NoResurrection ==
  \A p \in Paths : Settled(p) /\ saved[p] = Removed => data[p] = NoFile

(* An active row is the youngest of its name, so a name has at most one:    *)
(* what drains last is what was saved last.                                *)
ActiveIsLatest == \A r \in Ids : Active(r) => ~HasNewerRowForPath(r)

(* Two workers never drain the same row at once: a row that was cancelled,  *)
(* requeued or retried is not claimed again while its worker owns it.      *)
ExclusiveDrain ==
  \A d, e \in Workers :
    /\ wpc[d] \notin {"idle", "claimed"} /\ wpc[e] \notin {"idle", "claimed"}
    /\ drainStillClaimed(d) /\ drainStillClaimed(e) /\ job[d].id = job[e].id
    => d = e

(* SpoolStore.used is exactly what the pending private files occupy: each   *)
(* path through failure, retry, cancellation, completion and boot returns  *)
(* a reservation once.                                                     *)
Charged(f) ==
  /\ disk[f] > 0
  /\ \E r \in Ids : /\ file[r] = f
                    /\ st[r] \in {"writing", "ready", "draining", "done"}

UsedExact ==
  mode = "up" => used =
    Cardinality({f \in Ids :
      \/ Charged(f)
      \/ ns.pc = "cancelled" /\ f \in ns.files /\ disk[f] > 0})
    + (IF /\ retrying # None /\ st[retrying] = "failed"
          /\ disk[file[retrying]] > 0 THEN 1 ELSE 0)


-----------------------------------------------------------------------------
(* Progress.  The sweeper ticks for ever and an open request ends.  Workers *)
(* poll the ready rows in order of creation, so a row that stays ready is  *)
(* claimed again and again; a worker that is put off (no FUSE slot, a taken *)
(* lease) comes back to the same step, hence strong fairness there.        *)

Fairness ==
  /\ \A f \in Ids : WF_vars(finalizeLocked(f))
  /\ WF_vars(\E x \in fin : MarkReady(x))
  /\ \A w \in Writers :
       WF_vars(\/ OpenShared(w) \/ ReopenReady(w) \/ OpenFresh(w)
               \/ OpenWait(w) \/ OpenRefused(w))
  /\ \A r \in Ids : SF_vars(\E d \in Workers : markDraining(d, r))
  /\ \A d \in Workers :
       /\ WF_vars(Copy(d)) /\ WF_vars(batchMarkDone(d))
       /\ SF_vars(Reread(d)) /\ SF_vars(openDrainTarget(d) \/ failPermanent(d))
       /\ SF_vars(installNewName(d) \/ publishConflictCopy(d))
       /\ SF_vars(prepareDrainCompletions(d))
       /\ WF_vars(RequeueUnadmittedDrain(d))
       /\ WF_vars(CompleteAcknowledgedDrain(d) \/ PoisonCompletion(d))

FairSpec == Spec /\ Fairness

(* Once clients stop opening files, a finished save does not wait for ever: *)
(* its row is done, failed or cancelled in the end, unless its completion  *)
(* is held or its name poisoned.  No worker drops a row that it claimed.   *)
SavesDrain ==
  <>[](\A w \in Writers : wr[w].pc # "opening") =>
    \A r \in Ids : st[r] = "ready" /\ ~held[r] /\ ~retired[r] ~>
      \/ st[r] \notin {"ready", "draining"}
      \/ r \in holds \/ mode # "up" \/ lease[path[r]] = Poisoned

(* A lease taken for an open or a completion is given back: a name is never *)
(* blocked for ever without being poisoned.                                *)
LeasesReturn ==
  \A p \in Paths : lease[p] \in Writers \cup Workers ~>
    lease[p] \notin Writers \cup Workers
=============================================================================
