# JuiceMount: TLA+ models and proofs

JuiceMount is a userspace NFSv3 server that runs on a Mac beside a JuiceFS FUSE
mount. It answers metadata from a local mirror (SQLite and RAM, fed from Redis),
takes saves into a *spool* on the local SSD and uploads them later through the
FUSE mount. A proxy in front of Redis lets one Mac at a time write to a project,
and a farm of workers, fed from the same Redis, renders previews. This directory
models the parts whose correctness depends on interleavings, failures, retries
and restarts, checks them with TLC and proves the central invariants with TLAPS.

## The system

| Part | Source | State | Operations |
|---|---|---|---|
| Namespace coordinator | `nfs/namespace_operations.go` | active operations with their names and flags, read epochs, `stopping` | begin, finish, admitRead, check, release, stop |
| Write spool | `nfs/spool.go`, `metadata/spool_store.go` | table `spool_entries`, private files, index, `used`, read faults | OpenWrite, WriteAt, finalize, fail, retry, cancel, migrate, collect |
| Drainer | `nfs/drainer*.go` | claimed rows, open targets, stages | claim, re-read, open target, copy, install, conflict copy, requeue |
| Completion | `metadata/spool_completion.go`, `metadata/spool_batch.go` | completion holds | prepare, mark done, clean up, hold |
| Boot recovery | `nfs/spool.go`, `metadata/spool_completion.go` | the surviving rows and files | check, reconcile rows, restore read authority |
| File operations | `nfs/handler.go`, `nfs/write_binding.go` | mirror entries, the backend | create, write, rename, remove |
| Resent mutations | `nfs/mutation_retry.go` | remembered outcomes | record, take, replay |
| In-place holes | `nfs/inplace_contig.go` | contiguous end and extents by name | noteWrite, noteTruncate, routing, read bound |
| Mirror and sync | `metadata/store.go`, `metadata/redis.go`, `metadata/keyspace.go` | entries with versions, scan epochs | insert, rename, scan, prune, publish |
| Streaming | `nfs/spool_stream*.go` | punched prefix | stream, punch, resume |
| Replacement publication | `nfs/replacement_*.go` | a journal of phases | publish, settle, clean up, resume |
| Project leases | `nfs/project_lease.go`, `nfs/drain_refusal.go`, `internal/respproxy/` | leases, epochs, waiting rows, admitted write units | acquire, heartbeat, release, expire, break, decide |
| Farm queue | `internal/farmqueue/`, `cmd/jmfarm/` | ready lane, receipts, job records, workers | claim, start, renew, complete, acknowledge, requeue, hold, recover |
| Descriptor pool, caches | `nfs/fdpool.go`, `cache/`, `nfs/membuf.go` | pooled descriptors, cached blocks | get, release, evict, invalidate |
| Pins | `internal/cache/pin/` | pinned paths | pin, unpin, prefetch |
| Supervision | `health/` | mount generation, component status | probe, restart, take custody |
| Mount custody | `internal/nfscustody/`, `internal/unmountd/`, `bridge/volume_owner.go` | custody journal | begin, settle, refuse |
| Mutation authority | `internal/mutationauthority/` | ownership epochs, prepared effects | acquire, prepare, settle |

How they interact: every mutation of a name first gets its *lease* from the
coordinator and keeps it until the backend and the mirror agree again, even if
the RPC that asked has timed out. A create or a write to a pending save goes to
the spool; the sweeper closes idle saves; the drainer claims closed ones,
writes the backend under the same leases and completes them in two
transactions. Renames and removals first change the spool, then the backend,
then the mirror. Readers ask the read faults, then the spool index, then the
backend. A restart rebuilds the in-memory half from the table and the files.
Before a drain writes into a project its Mac asks the proxy for the project's
lease; the proxy decides again for every write unit that passes through it. The
farm is apart from all of that: producers and workers meet in Redis only.

What is hard about it: operations that outlive their RPC; a drain that is under
way while its name is renamed, removed or saved again; a read fault or an index
entry that goes one step too early; transactions with unknown outcome; a crash
between any two of table, private file, backend and mirror; a counter that many
paths adjust; requests to Redis that are sent twice or run after their sender
gave up; a lease that ends between a check and the write it was made for.
`PROJECT.json` lists these hazards at their lines.

## Modules

| Module | What it is |
|---|---|
| `Namespace` | the coordinator, with the operations and reads it serialises |
| `MCNamespace` | its instance for TLC: a folder, a file in it, a file beside it |
| `NamespaceProofs` | proofs of its safety properties |
| `Spool` | the spool, the drainer, the completion, the boot scan and the file operations that meet there |
| `MCSpool` | its instance for TLC |
| `SpoolInv` | the inductive invariants of `Spool`, and what a step may do to the files that are counted |
| `SpoolTypes` | lemmas: every step of `Spool` keeps the types, and who owns which row |
| `SpoolCapacity` | lemmas: what each step does to the counted files and to `used` |
| `SpoolRemovals` | lemmas: which steps keep removed names away, and how clients and the sweeper keep stored bytes |
| `SpoolKept` | lemmas: how the drainer, renames, removals and restarts keep stored bytes and what reads return |
| `SpoolProofs` | theorems: types, "the active row is the latest", exclusive drains, exact capacity, removed names, stored bytes, fresh reads |
| `FarmDelivery` | the farm's queue scripts, the workers' loop around them and both recovery scans |
| `FarmContract` | what the farm promises about the delivery of a job, without Redis |
| `MCFarm` | the instance for TLC: one job, two workers |
| `FarmProofs` | proofs of its types and safety properties, and that `FarmDelivery` implements `FarmContract` |
| `ProjectLease` | the lease table of one project, the proxy's decisions and the Macs' lease clients and drains |
| `MCLease` | its instance for TLC: two Macs |
| `LeaseProofs` | proofs of its types, that the table is coherent, that writes stay inside their tenure, and that a drain that was told of foreign tenures overwrites nobody's work |

### Namespace

`op[o]` is an entry of the map `active` with its names and its flags `mutated`,
`poison`, `failed`; `rpc[o]` is the waiting RPC; `reads` holds the read epochs
with generation and reference count, `ticket` the admissions of readers.
`backing` and `mirror` are version counters for what a work function changes,
`Mutate`, `Poison` and `Publish` are its steps. A name is the sequence of its
components; `cleanNamespaceName` folds `.` and `..` as `path.Clean` does, and
`namespaceOverlap` is the prefix relation. `begin`, `finish`, `admitRead`,
`check`, `release` are the critical sections under `mu`; `RPCTimeout`,
`Deliver` and `Abandon` are the two sides of the select in
`runNamespaceOperationUntil`.

### Spool

| Variable | Code |
|---|---|
| `st path file ver held retired tries base nextId` | columns of `spool_entries`; `held` is the qualification hold, `retired` is `retired_by`, `base` the recorded identity of the file that the save replaces |
| `same` | whether that identity still matches the file at the row's name (device, inode, times) |
| `holds` | `spool_completion_holds` |
| `disk`, `data`, `mirror` | private files, backend files, mirror entries |
| `index entId entClosed used fault` | `SpoolIndex`, fields of `SpoolEntry`, `SpoolStore.used`, `readFaults` |
| `lease` | who holds a name in the coordinator; `Poisoned` is an operation that failed after it changed something |
| `fin` | finalizations that have closed the entry and not yet marked the row |
| `wr`, `wpc job target at buf`, `ns`, `retrying` | client requests, drain workers, the rename or removal in progress, a retry between charging and resetting |
| `saved`, `limbo`, `count` | history: what the client last stored under a name, names of an interrupted rename or removal, counts of bounded events |

The content of a file is the number of the write that produced it (0 is an empty
file), and a written file occupies one unit of capacity. A step of the model is
one critical section: one SQLite write under `writeMu`, one section under an
entry's or a shard's lock, or one system call on the backend. A drain worker
goes through `claimed`, `loaded`, `opened`, `copied`, `installed`, `held` and
`done`; a rename or removal through `cancelled`, `spooled` and `migrated`. All
other actors run between those steps. The leases of `Namespace` appear as one
owner per name, since regular files do not overlap; that exclusion is what
`Namespace` proves of the coordinator.

### FarmDelivery

| Variable | Code |
|---|---|
| `lane`, `proc`, `index` | the ready LIST, the processing LIST of each worker, the SET of workers that have one |
| `status token owner lease waited mark held` | fields of the job's HASH: `status`, `delivery_token`, `lease_owner`, whether `delivery_expires_unix` is in the future, whether the claim is older than the start's grace, `requeued_by`, `held_token` |
| `beat`, `paused` | heartbeat keys with the job they name, the operator's pause |
| `pc cur tok victim kept unconf auth plan` | a worker's place in `runQueue` or in its scan, its claim, the token its next claim sends, `unconfirmed`, whether the guard's deadline is ahead, the outcome it publishes |
| `late` | requests that reach Redis after their sender gave them up |
| `fresh settled cleared strayed count` | jobs not enqueued yet; history: outcomes committed, records cleared, jobs whose start or release was sent again; counts of bounded events |

Each Lua script is one operator for what it tests (`RequeueFence`, `AckFence`,
`HoldFence`, ...) and one for what it writes (`requeueScript`, `ackScript`, ...);
it is atomic, as in Redis. A request can be lost, run with its reply lost and be
sent again (`Faulty`, `Resend`), or run late (`Postpone`, `Deliver`). The scan
reads token, lease and status in separate requests and writes last, as the code
does, and two scans may treat the same receipt. There is no clock. The one fact
about time the model uses is that a worker's own deadline (43 s after it sent the
request) is before Redis' (45 s after it ran it), see `LeaseExpires`.

`FarmContract` has jobs that wait, are delivered to one worker at a time, are
returned, committed and retired, or parked. `FarmDelivery` implements it with the
mapping: ready is the lane, the holder of a job is the worker whose processing
list has it, parked is `held_token`.

### ProjectLease

| Variable | Code |
|---|---|
| `rec`, `mem`, `unresolved` | the lease hash with its epoch counter and history in Redis, the proxy's copy, and its quarantine after a transition with unknown outcome |
| `pending` | what the last heartbeat since the last write said of pending rows, which decides idle expiry |
| `unit`, `stray` | the write unit each Mac has in flight, and one whose connection died and is not yet killed; together they are the read side of the project's fence |
| `cl`, `loop`, `call` | `projectLeaseState`, the loop goroutine, the reply each of loop and drain waits for |
| `row`, `file` | the Mac's pending save (its accepted epoch, base and the drain's decision), the file it replaces |
| `late`, `untold`, `count` | requests whose sender gave up; history: grants since the save the Mac has not been told of; counts of bounded events |

A grant, an end and a flush need the fence, as `fence.Lock` does. The reply to an
acquire is acted on in a later step (`LoopAnswered`, `GateAnswered`), so loop and
drain can overtake each other.

## Runs

The spool instances have two names (one that already exists in the backend, unless
noted), one client request, one worker, two rows, capacity for two files and
two versions. That is the least with which a save can be superseded, moved onto
another one, and drained while it is. A dimension is raised in the run that is
about it. Where no file exists at first the two names are interchangeable until
the first save, and the constraint `FirstName` fixes which of them it is for.
Deadlock is not checked in the spool's runs: a system whose clients are idle
stops, and the bounds stop it too. The farm's workers and the Macs never stop,
and there it is checked.

| Run | Raised | Checks |
|---|---|---|
| `namespace` | two operations, a reader, shutdown | types, exclusion, divergence only under an owner, isolated reads, remembered outcomes are settled, quiet after stop |
| `namespace_live` | fair workers and timers | RPCs are answered, finished workers retire |
| `spool_restart` | a rename or removal and a crash; saves stay empty (one version) | files and read authority survive, nothing is resurrected |
| `spool_writes` | two workers, direct writes, collection, a crash | types, no loss, fresh reads, exact capacity, exclusive drains |
| `spool_failures` | one name, two failures, retries, fairness | no loss, fresh reads, the active row is the latest, exact capacity; saves drain, leases return |
| `spool_refusals` | a failure and a rename or removal, no existing file | no loss, no resurrection, exact capacity |
| `farm` | a fault, a requeue, a pause, a cleared record | types, one copy, nothing lost, no rerun, held jobs stay held, authority is backed, the contract |
| `farm_live` | one fault, a requeue, a pause, fairness | jobs settle |
| `lease` | three epochs, two saves, one fault, break or "Done editing"; the weakest base | types, coherent table, fenced writes, told foreign work is kept |

One job is enough for the farm's invariants, because each script touches one
job; what two jobs share, the worker, is idle or at one job. Two workers are the
least for a reaper and a victim. `farm_live` has half the tokens, since TLC's
liveness check is the slower one. The proofs below are for any number of jobs, workers and faults. Three
epochs let each Mac hold the project around the other's tenure (every end of a
tenure also takes an epoch), and two saves let both edit. Only the base `weak`
(length and second) leaves the decision to the lease; an exact base is added in
`lease_race`.

The properties, in words: `SavedBytesRetained` (what was last stored under a name
is in a row's private file or in the backend), `FreshReads` (a read returns what
was last stored, or EIO), `NoResurrection` (a removed name stays away),
`ActiveIsLatest` (a row that can drain is the youngest of its name),
`ExclusiveDrain` (no two workers own one row), `UsedExact` (the capacity counter
is what the pending files occupy), `SavesDrain` and `LeasesReturn`. These speak
of names that no operation owns and that no crash left half renamed: during an
operation the coordinator keeps readers out, and after such a crash the code
promises only that both files are kept.

For the farm: `SingleCopy` (a job is in the lane or on one processing list),
`NothingLost` (a job without outcome is where somebody looks for it), `NoRerun` (a
committed outcome is final), `HeldIsKept` (no late request revives a held job),
`AuthorityBacked` (a worker that may publish owns the job in Redis),
`KeepsPromise` (`FarmContract`), `JobsSettle`. `NoRerun` and `AuthorityBacked`
except jobs whose start or release was sent twice: both scripts test the token
only, and the late copy carries the token of the delivery it disturbs. They also
except jobs whose record was cleared, see `farm_rerun`. For the leases:
`Coherent` (the proxy decides for no holder that Redis does not have), `Fenced` (a
unit that Redis may still apply belongs to the present tenure) and
`ForeignWorkKept` (a drain whose Mac was told of its grants overwrites nobody's
work). The last is about units written under the tenure the drain asked for; a
unit that is granted the lease implicitly, in the middle of a drain, is not
checked by the code against foreign tenures at all (hazard at
`internal/respproxy/decide.go:613`).

`FreshReads` and `SavedBytesRetained` do not hold in every configuration: there
are counterexamples that need a failure together with a rename (the third of the
list below), a failure together with the collection of done rows
(`spool_stale`), or two workers and a rename during a drain that rewrites in
place (hazard at `nfs/drainer_publish.go:612`). The passing runs therefore do
not combine these: `spool_restart` and `spool_writes` have no failures, two
workers (`spool_writes`) come without renames, `spool_failures` has no renames
and no collection, and `spool_refusals` combines failures and renames without
collection and does not ask for `FreshReads`. Nor do they combine write-opens
with failures: a write-open whose entry fails after it was routed to the spool
starts an empty save (hazard at `nfs/handler.go:4255`).

### Where the code and its comments disagree

Each of these runs checks one sentence of the repository and finds a
counterexample.

| Run | The sentence | What happens |
|---|---|---|
| `spool_stale` | a retry must not clobber newer bytes (`nfs/spool.go:2561`) | collecting the newer row makes the older one retryable |
| `farm_rerun` | a committed status is the proof that the receipt is not to be requeued (`internal/farmqueue/claim.go:2266`) | "Clear finished" deletes the record between the outcome and its acknowledgement, the worker dies, and the scan requeues the finished job |
| `lease_race` | the boundary of a foreign tenure is remembered for the lifetime of the grant (`nfs/project_lease.go:384`) | a drain that asks between the grant and its record in the loop is told RENEWED without the boundary, and rewrites the other Mac's work |

Three more were met in the spool; no run of this project shows them now:

* an interrupted drain is reset to ready at boot (`nfs/spool.go:1341`,
  `ARCHITECTURE_juicemount.md:1412`): the completion check that runs first
  refuses to start;
* "There is no source inode in FUSE to move" (`nfs/handler.go:4884`): a drain may
  just have installed it, and the old name stays in the backend;
* a failed save must not fall through to an older version (`nfs/spool.go:90`): a
  rename clears the fault of a retried save that has no shadow.

### Fairness

`namespace_live`: a worker's function returns and the goroutine goes on, the
RPC's timer fires; nothing makes a work function succeed. `spool_failures`: the
sweeper ticks for ever, so an open entry is closed and a closed one marked. An
open request ends. The dispatcher lists the ready rows in order of creation
whenever it is woken or its ticker fires, so a row that is ready again and again
is claimed (strong fairness). A worker that is put off because a lane, a FUSE
slot or a lease is taken gives the row back and comes to the same step again;
since those are released, it gets past it in the end (strong fairness on
re-read, open, install and prepare). Copying and the transactions end, with
success or with one of the bounded failures. Clients and failures have no
fairness.

`farm_live`: every worker's loop goes on, its scan included (weak fairness). A
claim that is possible again and again is made, and a receipt that is listed
again and again is visited: the loop claims and scans on timers of its own
(strong fairness). A lease, a grace period and a dead worker's heartbeat end.
Dead workers are replaced, as the farm's service manager does. A late
request runs or does not, but does not stay late. Faults, renewals, pauses and
producers have no fairness.

## Proofs

For every value of the constants that the named assumptions allow (finite,
non-empty sets of names; natural bounds):

* `NamespaceProofs`: `TypeCorrect`, `Exclusive`, `DivergenceStaysOwned`,
  `ReadsIsolated`, `RememberedSettled`, `StopIsQuiet`, that is, each safety
  property of the run `namespace`. The inductive invariant adds that each epoch
  counts its tickets, that an epoch's generation is ahead of every ticket that a
  mutation overtook, that a read whose ticket is current has seen only what is
  there now, and what the flags of an operation say about its stage. Reads are
  isolated only because both checks of a ticket (owner and generation) and the
  count that keeps an epoch alive work together, hence the strengthening.
* `SpoolProofs`: `TypeCorrect`, `LatestOnly` (`ActiveIsLatest`) and `Exclusive`
  (`ExclusiveDrain`), from the invariant `IInv` of `SpoolInv`: `TypeOK`,
  `RowsIssued` (a row's id is below `nextId`), `ActiveIsLatest` and `WorkersOwn`:
  no two workers have the same row; a worker's row is `draining` or cancelled
  until its completion hold exists, `draining` and held until it is `done`; there
  are no workers while the process is down. `ActiveIsLatest` alone is not
  inductive: a fresh row must be above all others, and `ResetToReady`, which asks
  only for the id, must not bring a finished or superseded row back, which needs
  the state of a worker's row. `ExclusiveDrain` alone is not either: a requeued
  row could be claimed again while its first worker has not left. Each action has
  a step in `SpoolTypes`; what an action does to the four table columns that
  matter is stated first and a lemma (`OwnStep`, `QuietStep`, `LeaveStep`,
  `FailStep`) carries the invariant over.
* `SpoolProofs`: `CapacityExact` (`UsedExact`), with renames, failures, retries,
  collection and crashes all together. The invariant is `CapInv`, that is `IInv`
  and `Structure`. The count goes wrong when two paths return one reservation or
  none does, so `Structure` says who may return it: rows have private files of
  their own; whoever opens, renames or completes a name holds its lease; the
  index leads to the entry of the pending row; an entry that still takes writes
  belongs to a row that is being written or to the removal about to close it; a
  finalization finds its row as it left it or cancelled; a retried row is a
  failed one; a done row without a hold has no file. Each action is then shown
  to be `Accounted`: it leaves the counted files and `used` alone, or changes both
  by the same file or by the same set of files. `SpoolCapacity` does
  that action by action without counting; `SpoolProofs` turns it into
  cardinalities, and shows that the boot scan counts what it finds.
* `SpoolProofs`: `RemovedStaysRemoved` (`NoResurrection`), unless the sweeper
  collects a done row over an older failed one (`StaleCollection`). The invariant
  is `RemovalInv`. A removed name comes back through whatever still leads to it:
  a row that drains or that a retry or boot revives, the request of a write that
  was routed to the spool before, the index, the descriptor of a drain that
  rewrites in place. `RemovalInv` says that each of these leads to a name that
  is present, and that from the cancellation on nothing is left to drain under
  the name that is being taken away (`NameCleared`).
* `SpoolProofs`: `SavedBytesKept` (`SavedBytesRetained`) and `ReadsAreFresh`
  (`FreshReads`), with crashes, failures, retries, refusals, renames, removals and
  collection all together, unless one of four steps is taken (`Exceptional`, see
  below). The invariant is `StoredInv` of `SpoolInv`: a row that can still drain
  holds what was last stored under its name (`RowsStored`), and where there is no
  such row the backend does (`BackendStored`); while the process serves, such a
  row has the index entry of its name, or the name has a read fault
  (`RowsShadowed`); an entry is of a pending row, or of one whose completion has
  the lease or lost it for good, or of one just cancelled (`IndexOwned`); a worker
  that still owns its row has copied the row's file, to a name that no rename or
  removal is taking away (`Drains`). `BackendStored` alone does not survive a
  completion, and `RowsStored` not a rename, which replaces the row of a drain
  that goes on: hence `Drains` and `NameMoved`. The proofs use `CapInv` (a private
  file belongs to one row) and `RemovalInv` throughout. `SpoolRemovals`
  has the lemmas for clients and the sweeper, `SpoolKept` those for the other
  actions.
* `FarmProofs`: `FarmTypeCorrect`. It also sorts the steps: every step of `Next` is
  one of a few effects on one job's record (a claim, a start, a requeue, ...)
  under the fence of its script, or leaves all records alone; the later proofs go
  through effects and not through actions. `OneCopy` (`SingleCopy`), `NoJobLost`
  (`NothingLost`) and `HeldStays` (`HeldIsKept`) are inductive together once the
  index is known to name every worker that has a receipt (`Custody`).
  `NoJobRerun` (`NoRerun`) and `AuthorityIsBacked` (`AuthorityBacked`) need what a
  token in somebody's hands proves about the record it was read from
  (`Authority`): a job in the lane has no outcome, a worker that has not started
  a job still finds it queued, and a token that was spent is never issued again.
  `FarmKeepsPromise` (`KeepsPromise`): each effect is one step of `FarmContract` or
  none of its steps.
* `LeaseProofs`: `LeaseTypeCorrect`, `TableCoherent` (`Coherent`) and `WritesFenced`
  (`Fenced`), for any number of Macs, epochs, saves and faults. The last two need
  each other (`LeaseInv`): a unit is admitted on the strength of the proxy's table,
  so the fence protects the tenure in Redis only because the table is coherent.
* `LeaseProofs`: `ForeignWorkIsKept` (`ForeignWorkKept`). The invariant `KeptInv` says
  that a Mac that has missed a foreign write is warned of it (`Warned`): the next
  grant will say so, or a grant whose reply is under way does, or the boundary has
  been recorded; and that the decision of a drain to rewrite in place stands for
  as long as its tenure lasts (`Decides`). The history of tenures (`HistOK`) links
  the two, since `foreign_since` is computed from it. `WritesFenced` is what
  brings the decision forward to the moment the unit is applied.

The four steps that `SavedBytesKept` and `ReadsAreFresh` except are steps that the
code takes and that do separate a name from its bytes: if any one of them is
admitted, at least one of the two statements is false.

| Step | Where | What it does |
|---|---|---|
| `StaleCollection` | `nfs/spool.go:1145` | collects a done row although an older failed row of the name exists, which can then be retried over newer bytes (run `spool_stale`) |
| `BlindMigration` | `nfs/spool.go:2110` | a rename moves a retried row that no index entry shadows, and clears the read fault |
| `BlindOpen` | `nfs/handler.go:4255` | a write routed to a pending save finds it failed, and starts an empty save of the name |
| `LateCopy` | `nfs/drainer_publish.go:612` | a worker whose row was replaced by a rename rewrites the renamed file, which may have been drained and saved again meanwhile |

Each is a condition on one step, read off the code, and not an assumption about
the outcome: a failure alone, a rename alone, a collection alone, and any of them
together outside these conditions are covered.

Only model-checked: liveness, which is out of the prover's reach. Nothing is proved of
`cleanNamespaceName` as a function of its input, since that is induction over a
sequence; the proofs use only that names are sequences of components
(`NameAssumption`), whatever the cleaning does to them.

## Not modelled

* In `Namespace`: `blocksReads`/`servingError`, used by replacement publication.
* In `Spool`: the wait for capacity (a full spool refuses at once), extents and
  holes inside one file, bound continuations and births, clone holds, cohorts of
  several rows in one transaction, pause and backoff clocks, offline parking,
  other writers on the backend (`ProjectLease` has them), directories,
  `ClearFailed`.
* In `FarmDelivery`: watch jobs with their coverage ledger and their chunk claims
  (`Tracked...`), which have scripts of their own; the choice of a lane, a worker
  and a position in the lane, so a claim may take any ready job; the recovery of
  ready jobs that no worker can serve; malformed receipts; how a job is rendered.
* In `ProjectLease`: checkouts, units that touch several projects and their
  rollback, the administrator's bypass, a proxy without leases, failures of
  `STATUS`, and the bases `unknown`, `absent` and `moved` with the atomic
  replacement, which do not look at the lease. A heartbeat is answered in one
  step.
* Everything marked `not_modelled` in `PROJECT.json`, with the reason.

The larger part of the repository's lines is not modelled: the Manager's and the
Mac app's user interfaces, rendering and media probing, installers, the NFS and
RESP wire formats, tests. They have little state that more than one actor
changes. The parts that have some, and would come next, in this order:

1. `MutationRetry`: remembered outcomes of abandoned mutations over the
   operations of `Namespace`; at most one replay, none after a newer mutation.
2. `Extents`: `advanceContig`, `insertExtent`, `clipExtents`, `clampExtents`
   against the set of written bytes, for the spool and for in-place writes.
3. `CapacityWait`: reservations, wakeups and the backstop of `waitForCapacity`.
4. `DrainRetry`: attempts, pause, backoff and offline parking with a clock.
5. `Reconcile`: scans, epochs and pruning of the mirror against local names.
6. `Streaming`, then `Replacement`: punched prefixes and the journal of phases.
7. Tracked farm jobs, the descriptor pool, the mutation authority's journal,
   mount custody.
8. An abstract file store that `Spool` refines as far as the findings allow.
