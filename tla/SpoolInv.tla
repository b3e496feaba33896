------------------------------ MODULE SpoolInv ------------------------------
(***************************************************************************)
(* The inductive invariants of the spool and its drainer, in the terms that *)
(* their proofs use.                                                       *)
(***************************************************************************)
EXTENDS Spool

-----------------------------------------------------------------------------
(* Rows and their workers.  ActiveIsLatest is not inductive alone: that a  *)
(* worker's ResetToReady, which asks only for the row's id, does not bring *)
(* a finished or superseded row back needs to know what state the row of a *)
(* worker is in, and that the next id is above every row in the table.     *)

RowsIssued == \A r \in Ids : Exists(r) => r < nextId

\* A row is in the state its worker left it in, or cancelled before the hold.
Owned(d) ==
  wpc[d] # "idle" =>
    /\ job[d].id < nextId
    /\ \/ /\ wpc[d] \in {"claimed", "loaded", "opened", "copied", "installed"}
          /\ st[job[d].id] \in {"none", "draining"}
       \/ wpc[d] = "held" /\ st[job[d].id] = "draining" /\ job[d].id \in holds
       \/ wpc[d] = "done" /\ st[job[d].id] = "done" /\ job[d].id \in holds

WorkersOwn ==
  /\ \A d \in Workers : Owned(d)
  /\ \A d, e \in Workers :
       wpc[d] # "idle" /\ wpc[e] # "idle" /\ job[d].id = job[e].id => d = e
  /\ mode # "up" => \A d \in Workers : wpc[d] = "idle"

IInv == TypeOK /\ RowsIssued /\ ActiveIsLatest /\ WorkersOwn

-----------------------------------------------------------------------------
(* What the count depends on.  A private file belongs to one row, so that  *)
(* a row that fails, completes or is cancelled returns its own bytes only. *)
(* An entry that still takes writes belongs to a row that is being written *)
(* or to the removal that is about to close it.  The completion of a drain *)
(* removes the file that its row names, and nobody renames it meanwhile.   *)

Pending == {"writing", "ready", "draining"}
Charging == {"writing", "ready", "draining", "done"}

\* Existing rows have private files of their own.
FilesOwned ==
  /\ \A r \in Ids : Exists(r) => file[r] < nextId
  /\ \A r, q \in Ids : Exists(r) /\ Exists(q) /\ file[r] = file[q] => r = q

\* A request that opens a name has its lease, and an open one has a file.
WriterHolds(w) ==
  /\ wr[w].pc = "opening" => lease[wr[w].path] = w
  /\ wr[w].pc = "open" => wr[w].file # None

\* A rename or removal has the leases of its names.
NameHolds ==
  ns.pc # "idle" =>
    /\ lease[ns.old] = Handler /\ lease[ns.new] = Handler
    /\ ns.kind = "rename" => ns.old # ns.new

\* A worker that completes has the lease of its row's name.
WorkerHolds(d) ==
  wpc[d] \in {"held", "done"} =>
    /\ lease[job[d].path] = d
    /\ job[d].path = path[job[d].id] /\ job[d].file = file[job[d].id]

LeasesHeld ==
  /\ \A w \in Writers : WriterHolds(w)
  /\ NameHolds
  /\ \A d \in Workers : WorkerHolds(d)

\* The index leads to entries whose pending row has that name and file.
Shadow(p) ==
  index[p] # None =>
    /\ index[p] < nextId /\ entId[index[p]] # None
    /\ st[entId[index[p]]] # "failed"
    /\ st[entId[index[p]]] \in Pending =>
         path[entId[index[p]]] = p /\ file[entId[index[p]]] = index[p]

Shadows == (\A f \in Ids : entId[f] < nextId) /\ (\A p \in Paths : Shadow(p))

\* An entry that takes writes is the one of its row, or of a cancelled row
\* whose removal has not closed it yet.
Live(f) ==
  /\ entId[f] # None
  /\ \/ /\ st[entId[f]] = "writing" /\ file[entId[f]] = f
        /\ index[path[entId[f]]] = f
     \/ /\ st[entId[f]] = "none" /\ ns.pc = "cancelled"
        /\ f \in ns.files /\ index[ns.new] = f

OpenLive == \A f \in Ids : ~entClosed[f] => Live(f)

\* A finalization finds its row as it left it, or cancelled.
FinClosed ==
  /\ \A x \in fin : /\ x.id # None /\ x.id < nextId
                    /\ st[x.id] \in {"none", "writing"}
                    /\ \A f \in Ids : entId[f] = x.id => entClosed[f]
  /\ \A x, y \in fin : x.id = y.id => x = y

\* The files that a removal gives up belong to no row, and the name it takes
\* away is not written meanwhile.
NameTaken ==
  /\ ns.pc = "cancelled" => \A f \in ns.files :
       f < nextId /\ \A r \in Ids : Exists(r) => file[r] # f
  /\ ns.pc \in {"cancelled", "spooled"} =>
       \A r \in Ids : path[r] = ns.new => st[r] # "writing"
  /\ ns.pc = "spooled" => index[ns.new] = None

\* A row in retry is a failed one, and a done row without a hold has no file.
Settling ==
  /\ retrying # None => st[retrying] = "failed"
  /\ \A r \in Ids : st[r] = "done" => r \in holds \/ disk[file[r]] = NoFile

\* Nothing is in progress in a process that does not serve.
Quiescent ==
  mode # "up" => /\ ns.pc = "idle" /\ retrying = None /\ fin = {}
                 /\ \A f \in Ids : entClosed[f]
                 /\ \A w \in Writers : wr[w].pc = "idle"

\* History is not pending.
Superseded == \A r \in Ids : retired[r] => r < nextId /\ st[r] \notin Pending

Structure ==
  /\ FilesOwned /\ LeasesHeld /\ Shadows /\ OpenLive /\ FinClosed /\ NameTaken
  /\ Settling /\ Quiescent /\ Superseded

CapInv == IInv /\ Structure

-----------------------------------------------------------------------------
(* The count.                                                              *)

InUse(f) ==
  \/ Charged(f)
  \/ ns.pc = "cancelled" /\ f \in ns.files /\ disk[f] > 0

Occupied == {f \in Ids : InUse(f)}

Retried ==
  IF retrying # None /\ st[retrying] = "failed" /\ disk[file[retrying]] > 0
  THEN 1 ELSE 0

\* What a step does to the files in use, and to used along with them.
SameFiles == \A f \in Ids : InUse(f)' <=> InUse(f)

Taken(g) ==
  /\ ~InUse(g) /\ InUse(g)'
  /\ \A f \in Ids \ {g} : InUse(f)' <=> InUse(f)
  /\ used' = used + 1 + (Retried' - Retried)

GivenUp(g) ==
  /\ InUse(g) /\ ~InUse(g)'
  /\ \A f \in Ids \ {g} : InUse(f)' <=> InUse(f)
  /\ used' = used - 1 /\ Retried' = Retried

AllGivenUp(G) ==
  /\ G \subseteq Occupied /\ \A f \in Ids : InUse(f)' <=> InUse(f) /\ f \notin G
  /\ used' = used - Cardinality(G) /\ Retried' = Retried

\* A step that is accounted for, in a process that serves before and after.
Accounted ==
  \/ mode' # "up"
  \/ /\ mode' = mode
     /\ \/ SameFiles /\ used' = used /\ Retried' = Retried
        \/ SameFiles /\ used' = used + (Retried' - Retried)
        \/ \E g \in Ids : Taken(g) \/ GivenUp(g)
        \/ \E G \in SUBSET Ids : AllGivenUp(G)

CapStep == CapInv' /\ Accounted

\* The private files are finitely many.
FinitelyMany == \A F \in SUBSET Ids : IsFiniteSet(F) /\ Cardinality(F) \in Int
-----------------------------------------------------------------------------
(* Removed names.  A name is removed for good once its removal is through;  *)
(* a crash or a refused backend call leaves the name in limbo.             *)

Present(p) == saved[p] # Removed \/ p \in limbo

\* A row that drains, or that a retry or a boot can make drain again.
Revivable(r) == Latest(r) /\ st[r] # "done"

\* The sweeper collects the done row that kept an older failed save of the
\* name from being retried (DeleteDone does not look for one).
StaleCollection ==
  \E r, q \in Ids : /\ DeleteDone(r) /\ q < r
                    /\ st[q] = "failed" /\ ~retired[q] /\ path[q] = path[r]

RowsPresent == \A r \in Ids : Revivable(r) => Present(path[r])

\* Nothing is left to drain under the name that a removal or a rename takes
\* away, from the cancellation of its rows on.
NameCleared ==
  Cancelling(ns.new) => \A r \in Ids : Revivable(r) => path[r] # ns.new

OpensPresent ==
  \A w \in Writers :
    wr[w].pc = "opening" /\ wr[w].kind = "write" => Present(wr[w].path)

IndexPresent == \A p \in Paths : index[p] # None => Present(p)

BackendPresent == \A p \in Paths : data[p] # NoFile => Present(p)

\* The file that an in-place drain has open is in the backend.
DrainsPresent == \A d \in Workers : \A p \in at[d] : data[p] # NoFile

\* What a removal or rename is, and what it has moved already.
NamePhase ==
  /\ ns.pc # "idle" /\ ns.kind = "remove" => ns.old = ns.new
  /\ ns.pc = "migrated" => ns.kind = "rename"
  /\ ns.pc \in {"cancelled", "spooled"} => ns.how = "backend"
  /\ ns.pc = "migrated" /\ ns.how # "backend" => Present(ns.new)

RemovalInv ==
  /\ RowsPresent /\ NameCleared /\ OpensPresent /\ IndexPresent
  /\ BackendPresent /\ DrainsPresent /\ NamePhase

-----------------------------------------------------------------------------
(* Stored bytes.  Three more steps besides StaleCollection separate a name  *)
(* from what was stored under it.                                          *)

\* A worker whose row was replaced by a rename rewrites the renamed file, which
\* may have been drained and written again meanwhile.
LateCopy == \E d \in Workers : Copy(d) /\ at[d] # {} /\ ~drainStillClaimed(d)

\* The index entry of the row's name is the row's own.
Shadowed(r) == index[path[r]] = file[r] /\ entId[file[r]] = r

\* A rename moves a row that failed and was retried under it: the read fault is
\* cleared although no index entry shadows the name.
BlindMigration == MigrateForRename /\ \E r \in ActiveAt(ns.old) : ~Shadowed(r)

\* A write that was to join a pending save finds it failed, and starts an empty
\* save of the name.
BlindOpen == \E w \in Writers : OpenFresh(w) /\ wr[w].kind = "write"

Exceptional == StaleCollection \/ LateCopy \/ BlindMigration \/ BlindOpen

\* Nothing is left to drain under the name.
Unpending(p) == \A r \in Ids : Revivable(r) => path[r] # p

\* A save that can still drain holds what was last stored under its name ...
RowsStored ==
  \A r \in Ids : Revivable(r) /\ saved[path[r]] >= 0 =>
    disk[file[r]] = saved[path[r]]

\* ... and if there is none, the backend does, unless a removal or rename has
\* already given up the save.
BackendStored ==
  \A p \in Paths :
    saved[p] >= 0 /\ Unpending(p) /\ ~(Cancelling(p) /\ ns.files # {}) =>
      data[p] = saved[p]

\* A row that has not drained has its private file.
HasFile == \A r \in Ids : Exists(r) /\ st[r] # "done" => disk[file[r]] # NoFile

\* A rename has left nothing to drain under the old name, and has the save that
\* it moved, if any, under the new one.
NameMoved ==
  ns.pc = "migrated" =>
    /\ Unpending(ns.old)
    /\ ns.how # "backend" => ~(saved[ns.old] >= 0) /\ ~Unpending(ns.new)

\* Reads of a name with a save to drain see that save or fail.
RowsShadowed ==
  mode = "up" =>
    \A r \in Ids : Revivable(r) => Shadowed(r) \/ ReadFault(path[r])

\* A worker completes the row under its name.
Completing(r, p) ==
  \E d \in Workers : wpc[d] = "done" /\ job[d].id = r /\ job[d].path = p

\* A row is done, and its completion has the lease or lost it for good.
Retained(r, p) ==
  /\ st[r] = "done" /\ r \in holds /\ path[r] = p
  /\ lease[p] = Poisoned \/ Completing(r, p)

\* An index entry is of a pending row, of one whose completion is not through,
\* or of one just cancelled.
IndexOwned ==
  \A p \in Paths : index[p] # None =>
    \/ st[entId[index[p]]] \in Pending
    \/ Retained(entId[index[p]], p)
    \/ ns.pc = "cancelled" /\ p = ns.new

\* What a worker that still owns its row has copied is the row's file, and no
\* rename or removal takes the name that it is copying to.
Copying(d) ==
  drainStillClaimed(d) =>
    /\ wpc[d] = "opened" =>
         at[d] = IF target[d] = "inplace" THEN {job[d].path} ELSE {}
    /\ wpc[d] = "copied" => buf[d] = disk[job[d].file]
    /\ wpc[d] \in {"installed", "held"} => data[job[d].path] = disk[job[d].file]
    /\ wpc[d] \in {"opened", "copied", "installed"} /\ ns.pc # "idle" =>
         job[d].path # ns.new

Drains == \A d \in Workers : Copying(d)

StoredInv ==
  /\ RowsStored /\ BackendStored /\ HasFile /\ NameMoved
  /\ RowsShadowed /\ IndexOwned /\ Drains
=============================================================================
