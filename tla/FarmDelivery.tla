---------------------------- MODULE FarmDelivery ----------------------------
(***************************************************************************)
(* Delivery of the render farm's ordinary ("legacy") jobs.                 *)
(*                                                                         *)
(* internal/farmqueue keeps every job in Redis: a ready lane (LIST), one   *)
(* processing LIST per worker, the SET of workers that have one, and a     *)
(* status HASH per job.  Every queue operation is one Lua script, so it is *)
(* atomic in Redis; nothing is atomic between two of them.  The workers    *)
(* (cmd/jmfarm/main.go, the loop of runQueue) claim a job, start it, renew *)
(* its lease while it runs, publish the outcome and acknowledge it.  Each  *)
(* worker also reaps: it returns to the lane the receipts of dead workers, *)
(* and the ones that a live worker never started.                          *)
(*                                                                         *)
(* A request may fail in three ways.  It may never run; it may run and its *)
(* reply be lost, after which it is sent again; or it may run after its    *)
(* sender gave it up (late).  There is no clock: a lease, a heartbeat or a *)
(* grace period ends at any moment the code's margins allow (see           *)
(* LeaseExpires), and an ending that a healthy worker prevents counts as a *)
(* fault.                                                                  *)
(***************************************************************************)
EXTENDS Naturals, FiniteSets

CONSTANTS
  Jobs,        \* ids of the jobs that producers enqueue
  Workers,     \* worker processes
  MaxTokens,   \* bound: claim tokens (NewID) some record or process holds
  NoJob,       \* no job
  NoWorker,    \* no worker
  MaxFaults,   \* bound: lost and late requests, missed deadlines, deaths
  MaxRequeues, \* bound: times a worker returns a job instead of settling it
  MaxClears,   \* bound: jobs the Manager's "Clear finished" removes
  MaxPauses    \* bound: times the operator pauses the farm

ASSUME NoneIsNoMember == NoJob \notin Jobs /\ NoWorker \notin Workers

ASSUME BoundsAreNat ==
  /\ MaxTokens \in Nat /\ MaxFaults \in Nat /\ MaxRequeues \in Nat
  /\ MaxClears \in Nat /\ MaxPauses \in Nat

NoToken == 0
Tokens == 1..MaxTokens
\* "done" stands for done, failed and canceled, which delivery treats alike.
Outcomes == {"done", "dispatched"}
Statuses == {"none", "queued", "running", "blocked"} \cup Outcomes
Modes == {"own", "expired", "unstarted"}
NoMark == [token |-> NoToken, mode |-> "own"]
Pcs == {"top", "idle", "scanned", "claimed", "starting", "running", "publish",
        "ack", "requeue", "hold", "release", "listed", "read", "lapsed",
        "reack", "rehold", "reap", "unread", "unstarted", "stopped"}
Ops == {"claim", "start", "renew", "complete", "ack", "requeue", "hold"}

VARIABLES
  lane,     \* the ready lane: jobs a worker may claim
  proc,     \* processing list of each worker: its receipts
  index,    \* juicefarm:processing: the workers the reaper looks at
  status,   \* status HASH of each job, "none" when it has no record
  token,    \* delivery_token
  owner,    \* lease_owner
  lease,    \* delivery_expires_unix is set and in the future
  waited,   \* jobs whose delivery_claimed is older than the grace period
  mark,     \* requeued_by: the token and the caller of the last requeue
  held,     \* held_token
  beat,     \* heartbeat key of each worker and the job it names
  paused,   \* FarmControl.Paused
  late,     \* requests that reach Redis after their sender gave them up
  pc,       \* where each worker's loop is
  cur,      \* the job of the claim it holds, or of the receipt it reaps
  tok,      \* that claim's token, or the token the reaper read
  victim,   \* the worker whose list it reaps
  kept,     \* claimScanState.token: the token its next claim sends
  unconf,   \* claimScanState.unconfirmed
  auth,     \* its last confirmed lease deadline has not passed
  plan,     \* the outcome it publishes
  fresh,    \* jobs not enqueued yet
  settled,  \* history: jobs whose outcome a worker has committed
  cleared,  \* history: jobs whose record "Clear finished" deleted
  strayed,  \* history: jobs whose start or release was sent again
  count     \* counters against the bounds

records == <<status, token, owner, lease, waited, mark, held>>
redis == <<lane, proc, index, records, settled>>
local == <<pc, cur, tok, victim, kept, unconf, auth, plan>>
environment == <<beat, paused, late>>
history == <<fresh, cleared, strayed>>
vars == <<redis, local, environment, history, count>>

Bounds == [fault |-> MaxFaults, requeue |-> MaxRequeues, clear |-> MaxClears,
           pause |-> MaxPauses]

\* A step of kind k happens at most Bounds[k] times.
Tick(k) == /\ count[k] < Bounds[k]
           /\ count' = [count EXCEPT ![k] = @ + 1]

Requests == [op : Ops, w : Workers, j : Jobs \cup {NoJob},
             t : Tokens \cup {NoToken}, x : Modes \cup Outcomes]

\* Every variable keeps its type.
TypeOK ==
  /\ lane \subseteq Jobs /\ proc \in [Workers -> SUBSET Jobs]
  /\ index \subseteq Workers /\ status \in [Jobs -> Statuses]
  /\ token \in [Jobs -> Tokens \cup {NoToken}]
  /\ owner \in [Jobs -> Workers \cup {NoWorker}]
  /\ lease \in [Jobs -> BOOLEAN] /\ waited \subseteq Jobs
  /\ mark \in [Jobs -> [token : Tokens \cup {NoToken}, mode : Modes]]
  /\ held \in [Jobs -> Tokens \cup {NoToken}]
  /\ beat \in [Workers -> {"absent", "idle"} \cup Jobs] /\ paused \in BOOLEAN
  /\ late \subseteq Requests
  /\ pc \in [Workers -> Pcs] /\ cur \in [Workers -> Jobs \cup {NoJob}]
  /\ tok \in [Workers -> Tokens \cup {NoToken}]
  /\ victim \in [Workers -> Workers \cup {NoWorker}]
  /\ kept \in [Workers -> Tokens \cup {NoToken}] /\ unconf \subseteq Workers
  /\ auth \in [Workers -> BOOLEAN] /\ plan \in [Workers -> Outcomes]
  /\ fresh \subseteq Jobs /\ settled \subseteq Jobs /\ cleared \subseteq Jobs
  /\ strayed \subseteq Jobs
  /\ count \in [DOMAIN Bounds -> Nat]

Init ==
  /\ lane = {} /\ proc = [w \in Workers |-> {}] /\ index = {}
  /\ status = [j \in Jobs |-> "none"] /\ token = [j \in Jobs |-> NoToken]
  /\ owner = [j \in Jobs |-> NoWorker] /\ lease = [j \in Jobs |-> FALSE]
  /\ waited = {} /\ mark = [j \in Jobs |-> NoMark]
  /\ held = [j \in Jobs |-> NoToken]
  /\ beat = [w \in Workers |-> "absent"] /\ paused = FALSE /\ late = {}
  /\ pc = [w \in Workers |-> "top"] /\ cur = [w \in Workers |-> NoJob]
  /\ tok = [w \in Workers |-> NoToken]
  /\ victim = [w \in Workers |-> NoWorker]
  /\ kept = [w \in Workers |-> NoToken] /\ unconf = {}
  /\ auth = [w \in Workers |-> FALSE] /\ plan = [w \in Workers |-> "done"]
  /\ fresh = Jobs /\ settled = {} /\ cleared = {} /\ strayed = {}
  /\ count = [k \in DOMAIN Bounds |-> 0]

-----------------------------------------------------------------------------
(* The scripts: for each, the fence its caller must pass and the writes     *)
(* that follow.  A script whose fence fails writes nothing.                 *)

\* The receipt leaves the list, and an empty list leaves the index.
Drop(w, j) ==
  /\ proc' = [proc EXCEPT ![w] = @ \ {j}]
  /\ index' = IF proc[w] \subseteq {j} THEN index \ {w} ELSE index

\* HDEL of the delivery's token, owner, lease and claim time.
Release(j) ==
  /\ token' = [token EXCEPT ![j] = NoToken]
  /\ owner' = [owner EXCEPT ![j] = NoWorker]
  /\ lease' = [lease EXCEPT ![j] = FALSE]
  /\ waited' = waited \ {j}

\* A receipt of w that an earlier run of the claim with token t took.
Replayed(w, t) == {j \in proc[w] : token[j] = t}

\* Mutant: the SADD of the processing index is forgotten.
claimUnindexedScript(w, t, j) ==
  \/ /\ j \in Replayed(w, t)
     /\ waited' = waited \ {j}
     /\ UNCHANGED <<lane, proc, index, status, token, owner, lease, mark, held, settled>>
  \/ /\ Replayed(w, t) = {} /\ ~paused
     /\ j \in lane /\ held[j] = NoToken
     /\ lane' = lane \ {j} /\ proc' = [proc EXCEPT ![w] = @ \cup {j}]
     /\ status' = [status EXCEPT ![j] = IF @ = "none" THEN "queued" ELSE @]
     /\ token' = [token EXCEPT ![j] = t] /\ waited' = waited \ {j}
     /\ mark' = [mark EXCEPT ![j] = NoMark]
     /\ UNCHANGED <<index, owner, lease, held, settled>>

claimForWorkerScript(w, t, j) ==
  \/ /\ j \in Replayed(w, t)
     /\ waited' = waited \ {j}
     /\ UNCHANGED <<lane, proc, index, status, token, owner, lease, mark, held, settled>>
  \/ /\ Replayed(w, t) = {} /\ ~paused
     /\ j \in lane /\ held[j] = NoToken
     /\ lane' = lane \ {j}
     /\ proc' = [proc EXCEPT ![w] = @ \cup {j}] /\ index' = index \cup {w}
     /\ status' = [status EXCEPT ![j] = IF @ = "none" THEN "queued" ELSE @]
     /\ token' = [token EXCEPT ![j] = t] /\ waited' = waited \ {j}
     /\ mark' = [mark EXCEPT ![j] = NoMark]
     /\ UNCHANGED <<owner, lease, held, settled>>

\* The delivery is still the caller's: its token, not held, its receipt.
Delivered(w, j, t) ==
  held[j] = NoToken /\ token[j] = t /\ j \in proc[w]

markRunningScript(w, j) ==
  /\ status' = [status EXCEPT ![j] = "running"]
  /\ owner' = [owner EXCEPT ![j] = w] /\ lease' = [lease EXCEPT ![j] = TRUE]
  /\ UNCHANGED <<lane, proc, index, token, waited, mark, held, settled>>

RenewFence(w, j, t) ==
  Delivered(w, j, t) /\ owner[j] = w /\ status[j] = "running"

renewScript(j) ==
  /\ lease' = [lease EXCEPT ![j] = TRUE]
  /\ UNCHANGED <<lane, proc, index, status, token, owner, waited, mark, held, settled>>

TerminalFence(w, j, t, x) ==
  Delivered(w, j, t) /\ owner[j] = w /\ status[j] \in {"running", x}

\* Mutant: the terminal script removes the receipt as well.
terminalDropsScript(j, x) ==
  /\ status' = [status EXCEPT ![j] = x] /\ settled' = settled \cup {j}
  /\ proc' = [w \in Workers |-> proc[w] \ {j}]
  /\ UNCHANGED <<lane, index, token, owner, lease, waited, mark, held>>

legacyTerminalScript(j, x) ==
  /\ status' = [status EXCEPT ![j] = x] /\ settled' = settled \cup {j}
  /\ UNCHANGED <<lane, proc, index, token, owner, lease, waited, mark, held>>

\* The acknowledgement answers success: its own delivery, or one it already
\* released, or a held job.
AckAnswers(j, t) == held[j] # NoToken \/ token[j] \in {t, NoToken}

AckFence(w, j, t) ==
  /\ held[j] = NoToken
  /\ token[j] = t \/ (token[j] = NoToken /\ j \in proc[w])

ackScript(w, j) ==
  Drop(w, j) /\ Release(j) /\ UNCHANGED <<lane, status, mark, held, settled>>

\* A resend of a requeue that has already landed.
RequeueLanded(j, t, m) ==
  t # NoToken /\ token[j] # t /\ mark[j] = [token |-> t, mode |-> m]

\* Mutant: a finished job passes the fence.
RequeueFenceAnyStatus(w, j, t, m) ==
  /\ held[j] = NoToken /\ token[j] = t /\ j \in proc[w]
  /\ m = "expired" => ~lease[j]
  /\ m = "unstarted" => /\ t # NoToken /\ status[j] = "queued"
                        /\ j \in waited /\ beat[w] \notin {"absent", j}

\* Mutant: the script does not read the lease again.
RequeueFenceStaleLease(w, j, t, m) ==
  /\ held[j] = NoToken /\ token[j] = t /\ status[j] \notin Outcomes
  /\ j \in proc[w]
  /\ m = "unstarted" => /\ t # NoToken /\ status[j] = "queued"
                        /\ j \in waited /\ beat[w] \notin {"absent", j}

RequeueFence(w, j, t, m) ==
  /\ held[j] = NoToken /\ token[j] = t /\ status[j] \notin Outcomes
  /\ j \in proc[w]
  /\ m = "expired" => ~lease[j]
  /\ m = "unstarted" => /\ t # NoToken /\ status[j] = "queued"
                        /\ j \in waited /\ beat[w] \notin {"absent", j}

\* Mutant: the LREM of the receipt is forgotten.
requeueKeepsReceiptScript(w, j, t, m) ==
  /\ Release(j) /\ lane' = lane \cup {j}
  /\ status' = [status EXCEPT ![j] = "queued"]
  /\ mark' = [mark EXCEPT ![j] = IF t = NoToken THEN NoMark
                                 ELSE [token |-> t, mode |-> m]]
  /\ UNCHANGED <<proc, index, held, settled>>

requeueScript(w, j, t, m) ==
  /\ Drop(w, j) /\ Release(j) /\ lane' = lane \cup {j}
  /\ status' = [status EXCEPT ![j] = "queued"]
  /\ mark' = [mark EXCEPT ![j] = IF t = NoToken THEN NoMark
                                 ELSE [token |-> t, mode |-> m]]
  /\ UNCHANGED <<held, settled>>

HoldFence(w, j, t) ==
  IF held[j] # NoToken THEN held[j] = t
  ELSE RenewFence(w, j, t) /\ lease[j]

\* Mutant: the held job stays in the processing list.
holdKeepsReceiptScript(w, j, t) ==
  /\ held' = [held EXCEPT ![j] = t]
  /\ status' = [status EXCEPT ![j] = "blocked"]
  /\ Release(j) /\ UNCHANGED <<lane, proc, index, mark, settled>>

holdClaimScript(w, j, t) ==
  /\ held' = [held EXCEPT ![j] = t]
  /\ status' = [status EXCEPT ![j] = "blocked"]
  /\ Drop(w, j) /\ Release(j) /\ UNCHANGED <<lane, mark, settled>>

-----------------------------------------------------------------------------
(* A worker's loop.  Stop and Loop are what every way out of an iteration   *)
(* does: the process ends, or the loop starts over.                         *)

Forget(w, p) ==
  /\ pc' = [pc EXCEPT ![w] = p] /\ cur' = [cur EXCEPT ![w] = NoJob]
  /\ tok' = [tok EXCEPT ![w] = NoToken]
  /\ victim' = [victim EXCEPT ![w] = NoWorker]
  /\ auth' = [auth EXCEPT ![w] = FALSE] /\ plan' = [plan EXCEPT ![w] = "done"]

Loop(w) == Forget(w, "top") /\ UNCHANGED <<kept, unconf>>

Stop(w) == /\ Forget(w, "stopped") /\ kept' = [kept EXCEPT ![w] = NoToken]
           /\ unconf' = unconf \ {w}

Goto(w, p) == /\ pc' = [pc EXCEPT ![w] = p]
              /\ UNCHANGED <<cur, tok, victim, kept, unconf, auth, plan>>

\* The worker gives its request up; it reaches Redis later.
Postpone(o, w, j, t, x) ==
  /\ Tick("fault")
  /\ late' = late \cup {[op |-> o, w |-> w, j |-> j, t |-> t, x |-> x]}

\* The request of w fails in its eyes: it ran and the reply is lost, or it
\* runs late, or never.
Faulty(o, w, j, t, x, Script) ==
  \/ Tick("fault") /\ Script /\ UNCHANGED late
  \/ Postpone(o, w, j, t, x) /\ UNCHANGED redis

\* After a failure the request is sent again, or the worker stops.
Resend(w) == Goto(w, pc[w]) \/ Stop(w)

\* Mutant: the idle heartbeat names the job of the claim, which is none.
HeartbeatNamesClaim(w) ==
  /\ pc[w] = "top" /\ beat' = [beat EXCEPT ![w] = cur[w]] /\ Goto(w, "idle")
  /\ UNCHANGED <<redis, paused, late, history, count>>

Heartbeat(w) ==
  /\ pc[w] = "top" /\ beat' = [beat EXCEPT ![w] = "idle"] /\ Goto(w, "idle")
  /\ UNCHANGED <<redis, paused, late, history, count>>

\* A token is fresh when no record, process or request holds it (NewID).
Unused == {t \in Tokens :
  /\ \A j \in Jobs : t \notin {token[j], mark[j].token, held[j]}
  /\ \A w \in Workers : t \notin {kept[w], tok[w]}
  /\ \A r \in late : r.t # t}

NextToken(w) == IF kept[w] # NoToken THEN {kept[w]}
                ELSE {t \in Unused : \A u \in Unused : t <= u}

AtClaim(w) == pc[w] \in {"idle", "scanned"}

ClaimForWorker(w) ==
  /\ AtClaim(w)
  /\ \E t \in NextToken(w), j \in Jobs :
       /\ claimForWorkerScript(w, t, j)
       /\ cur' = [cur EXCEPT ![w] = j] /\ tok' = [tok EXCEPT ![w] = t]
  /\ pc' = [pc EXCEPT ![w] = "claimed"]
  /\ kept' = [kept EXCEPT ![w] = NoToken] /\ unconf' = unconf \ {w}
  /\ UNCHANGED <<victim, auth, plan, environment, history, count>>

\* Nothing to claim: the token is kept, and nothing is unconfirmed any more.
ClaimEmpty(w) ==
  /\ AtClaim(w)
  /\ kept[w] = NoToken \/ Replayed(w, kept[w]) = {}
  /\ paused \/ \A j \in lane : held[j] # NoToken
  /\ unconf' = unconf \ {w} /\ pc' = [pc EXCEPT ![w] = "top"]
  /\ UNCHANGED <<redis, cur, tok, victim, kept, auth, plan, environment, history, count>>

\* The claim fails: its token is kept, and what it took is unconfirmed.
ClaimFails(w) ==
  /\ AtClaim(w)
  /\ \E t \in NextToken(w) :
       /\ kept' = [kept EXCEPT ![w] = t]
       /\ Faulty("claim", w, NoJob, t, "own",
                 \E j \in Jobs : claimForWorkerScript(w, t, j))
  /\ unconf' = unconf \cup {w} /\ pc' = [pc EXCEPT ![w] = "top"]
  /\ UNCHANGED <<cur, tok, victim, auth, plan, beat, paused, history>>

\* ReleaseUnconfirmedClaim, its lookup: a worker that stops claiming gives
\* back what a failed claim may have taken.
ReleaseUnconfirmedClaim(w) ==
  /\ AtClaim(w) /\ w \in unconf /\ unconf' = unconf \ {w}
  /\ \/ /\ Replayed(w, kept[w]) = {} /\ pc' = [pc EXCEPT ![w] = "top"]
        /\ UNCHANGED <<cur, tok, kept>>
     \/ \E j \in Replayed(w, kept[w]) :
          /\ cur' = [cur EXCEPT ![w] = j] /\ tok' = [tok EXCEPT ![w] = kept[w]]
          /\ kept' = [kept EXCEPT ![w] = NoToken]
          /\ pc' = [pc EXCEPT ![w] = "release"]
  /\ UNCHANGED <<redis, victim, auth, plan, environment, history, count>>

RequeueAs(w, v, m) ==
  \/ RequeueFence(v, cur[w], tok[w], m) /\ requeueScript(v, cur[w], tok[w], m)
  \/ ~RequeueFence(v, cur[w], tok[w], m) /\ UNCHANGED redis

\* Its requeue.  The token stays with the worker, unconfirmed on an error.
ReleaseRequeue(w) ==
  /\ pc[w] = "release" /\ Forget(w, "top")
  /\ kept' = [kept EXCEPT ![w] = tok[w]]
  /\ \/ RequeueAs(w, w, "own") /\ UNCHANGED <<unconf, strayed, late, count>>
     \/ /\ Faulty("requeue", w, cur[w], tok[w], "own", RequeueAs(w, w, "own"))
        /\ unconf' = unconf \cup {w} /\ strayed' = strayed \cup {cur[w]}
  /\ UNCHANGED <<beat, paused, fresh, cleared>>

\* The claim does not fit this worker after all: it goes back (reroute).
Reroute(w) ==
  /\ pc[w] = "claimed" /\ Tick("requeue") /\ Goto(w, "requeue")
  /\ UNCHANGED <<redis, environment, history>>

\* The heartbeat that names the job, best effort, before the start.
Announce(w) ==
  /\ pc[w] = "claimed" /\ Goto(w, "starting")
  /\ \/ beat' = [beat EXCEPT ![w] = cur[w]] /\ UNCHANGED count
     \/ Tick("fault") /\ UNCHANGED beat
  /\ UNCHANGED <<redis, paused, late, history>>

StartAs(w) ==
  \/ Delivered(w, cur[w], tok[w]) /\ markRunningScript(w, cur[w])
  \/ ~Delivered(w, cur[w], tok[w]) /\ UNCHANGED redis

MarkClaimRunning(w) ==
  /\ pc[w] = "starting"
  /\ \/ /\ StartAs(w) /\ UNCHANGED <<late, count, strayed>>
        /\ IF Delivered(w, cur[w], tok[w])
           THEN /\ pc' = [pc EXCEPT ![w] = "running"]
                /\ auth' = [auth EXCEPT ![w] = TRUE]
                /\ UNCHANGED <<cur, tok, victim, kept, unconf, plan>>
           ELSE Stop(w)
     \/ /\ Faulty("start", w, cur[w], tok[w], "own", StartAs(w)) /\ Resend(w)
        /\ strayed' = strayed \cup {cur[w]}
  /\ UNCHANGED <<beat, paused, fresh, cleared>>

Guarded(w) == auth[w] /\ pc[w] \in {"running", "publish", "ack", "requeue"}

\* claim_lease.go: the guard renews the lease, and gives up the claim when
\* Redis says that it is lost.
RenewClaim(w) ==
  /\ Guarded(w)
  /\ \/ /\ RenewFence(w, cur[w], tok[w]) /\ renewScript(cur[w])
        /\ UNCHANGED <<auth, late, count>>
     \/ /\ ~RenewFence(w, cur[w], tok[w]) /\ UNCHANGED <<redis, late, count>>
        /\ auth' = [auth EXCEPT ![w] = FALSE]
     \/ /\ Postpone("renew", w, cur[w], tok[w], "own") /\ UNCHANGED <<redis, auth>>
  /\ UNCHANGED <<pc, cur, tok, victim, kept, unconf, plan, beat, paused, history>>

Pulse(w) ==
  /\ Guarded(w) /\ beat[w] # cur[w] /\ beat' = [beat EXCEPT ![w] = cur[w]]
  /\ UNCHANGED <<redis, local, paused, late, history, count>>

\* runJob returned under an intact claim: publish, return or hold the job.
Finish(w) ==
  /\ pc[w] = "running" /\ auth[w]
  /\ \/ \E x \in Outcomes : plan' = [plan EXCEPT ![w] = x]
        /\ pc' = [pc EXCEPT ![w] = "publish"] /\ UNCHANGED count
     \/ Tick("requeue") /\ pc' = [pc EXCEPT ![w] = "requeue"] /\ UNCHANGED plan
     \/ pc' = [pc EXCEPT ![w] = "hold"] /\ UNCHANGED <<plan, count>>
  /\ UNCHANGED <<redis, cur, tok, victim, kept, unconf, auth, environment, history>>

\* Mutant: a worker that lost its claim waits for the guard instead of ending.
AbandonRunWaits(w) ==
  /\ pc[w] = "running" /\ ~auth[w] /\ Goto(w, "running")
  /\ UNCHANGED <<redis, environment, history, count>>

\* The guard reports the claim lost: the worker publishes nothing.
AbandonRun(w) ==
  /\ pc[w] = "running" /\ ~auth[w] /\ Stop(w)
  /\ UNCHANGED <<redis, environment, history, count>>

CompleteAs(w) ==
  LET ok == TerminalFence(w, cur[w], tok[w], plan[w]) IN
  \/ ok /\ legacyTerminalScript(cur[w], plan[w])
  \/ ~ok /\ UNCHANGED redis

CompleteClaim(w) ==
  /\ pc[w] = "publish"
  /\ \/ /\ CompleteAs(w) /\ UNCHANGED <<late, count>>
        /\ IF TerminalFence(w, cur[w], tok[w], plan[w])
           THEN Goto(w, "ack") ELSE Stop(w)
     \/ /\ Faulty("complete", w, cur[w], tok[w], plan[w], CompleteAs(w))
        /\ Resend(w)
  /\ UNCHANGED <<beat, paused, history>>

AckAs(w, v) ==
  \/ AckFence(v, cur[w], tok[w]) /\ ackScript(v, cur[w])
  \/ ~AckFence(v, cur[w], tok[w]) /\ UNCHANGED redis

AckClaim(w) ==
  /\ pc[w] = "ack"
  /\ \/ /\ AckAs(w, w) /\ UNCHANGED <<late, count>>
        /\ IF AckAnswers(cur[w], tok[w]) THEN Loop(w) ELSE Stop(w)
     \/ Faulty("ack", w, cur[w], tok[w], "own", AckAs(w, w)) /\ Resend(w)
  /\ UNCHANGED <<beat, paused, history>>

RequeueClaim(w) ==
  /\ pc[w] = "requeue"
  /\ \/ /\ RequeueAs(w, w, "own") /\ UNCHANGED <<late, count>>
        /\ IF \/ RequeueFence(w, cur[w], tok[w], "own")
              \/ RequeueLanded(cur[w], tok[w], "own")
           THEN Loop(w) ELSE Stop(w)
     \/ /\ Faulty("requeue", w, cur[w], tok[w], "own", RequeueAs(w, w, "own"))
        /\ Resend(w)
  /\ UNCHANGED <<beat, paused, history>>

HoldAs(w, v) ==
  \/ HoldFence(v, cur[w], tok[w]) /\ holdClaimScript(v, cur[w], tok[w])
  \/ ~HoldFence(v, cur[w], tok[w]) /\ UNCHANGED redis

HoldClaim(w) ==
  /\ pc[w] = "hold"
  /\ \/ /\ HoldAs(w, w) /\ UNCHANGED <<late, count>>
        /\ IF HoldFence(w, cur[w], tok[w]) THEN Loop(w) ELSE Stop(w)
     \/ Faulty("hold", w, cur[w], tok[w], "own", HoldAs(w, w)) /\ Resend(w)
  /\ UNCHANGED <<beat, paused, history>>

-----------------------------------------------------------------------------
(* RecoverAbandonedWorkers, run by the worker loops.  It goes through the   *)
(* receipts of every indexed worker; one receipt is one pass here.  Its     *)
(* reads and its write are separate requests, and its 15 s lock may expire  *)
(* between any two, so reapers are not kept apart.                          *)

ReapList(w, v, j) ==
  /\ pc[w] = "idle" /\ v \in index /\ j \in proc[v]
  /\ pc' = [pc EXCEPT ![w] = IF beat[v] = "absent" THEN "listed" ELSE "unread"]
  /\ cur' = [cur EXCEPT ![w] = j] /\ victim' = [victim EXCEPT ![w] = v]
  /\ UNCHANGED <<redis, tok, kept, unconf, auth, plan, environment, history, count>>

\* The HGETALL: a held job has its custody finished; else the token read
\* here fences the write to come.
ReapRead(w) ==
  /\ pc[w] = "listed"
  /\ IF held[cur[w]] # NoToken
     THEN /\ pc' = [pc EXCEPT ![w] = "rehold"]
          /\ tok' = [tok EXCEPT ![w] = held[cur[w]]]
     ELSE /\ pc' = [pc EXCEPT ![w] = "read"]
          /\ tok' = [tok EXCEPT ![w] = token[cur[w]]]
  /\ UNCHANGED <<redis, cur, victim, kept, unconf, auth, plan, environment, history, count>>

\* A receipt whose lease is live stays with its worker.
ReapExpiry(w) ==
  /\ pc[w] = "read"
  /\ IF lease[cur[w]]
     THEN Forget(w, "scanned") /\ UNCHANGED <<kept, unconf>>
     ELSE Goto(w, "lapsed")
  /\ UNCHANGED <<redis, environment, history, count>>

ReapStatus(w) ==
  /\ pc[w] = "lapsed"
  /\ Goto(w, IF status[cur[w]] \in Outcomes THEN "reack" ELSE "reap")
  /\ UNCHANGED <<redis, environment, history, count>>

\* The write, or its failure: an error ends the scan.
Reap(w, p, o, m, Write) ==
  /\ pc[w] = p /\ Forget(w, "scanned") /\ UNCHANGED <<kept, unconf>>
  /\ \/ Write /\ UNCHANGED <<late, count>>
     \/ Postpone(o, victim[w], cur[w], tok[w], m) /\ UNCHANGED redis
  /\ UNCHANGED <<beat, paused, history>>

ReapAck(w) == Reap(w, "reack", "ack", "expired", AckAs(w, victim[w]))
ReapHold(w) == Reap(w, "rehold", "hold", "expired", HoldAs(w, victim[w]))
ReapRequeue(w) ==
  Reap(w, "reap", "requeue", "expired", RequeueAs(w, victim[w], "expired"))

\* recoverUnstartedLegacyClaims: what a live worker holds and never started.
UnstartedRead(w) ==
  /\ pc[w] = "unread"
  /\ LET j == cur[w] IN
     IF status[j] = "queued" /\ token[j] # NoToken /\ held[j] = NoToken
     THEN /\ pc' = [pc EXCEPT ![w] = "unstarted"]
          /\ tok' = [tok EXCEPT ![w] = token[j]]
          /\ UNCHANGED <<cur, victim, auth, plan>>
     ELSE Forget(w, "scanned")
  /\ UNCHANGED <<redis, kept, unconf, environment, history, count>>

UnstartedRequeue(w) ==
  Reap(w, "unstarted", "requeue", "unstarted", RequeueAs(w, victim[w], "unstarted"))

-----------------------------------------------------------------------------
(* Producers, the operator, the passage of time and faults.                 *)

Enqueue(j) ==
  /\ j \in fresh /\ fresh' = fresh \ {j} /\ lane' = lane \cup {j}
  /\ status' = [status EXCEPT ![j] = "queued"]
  /\ UNCHANGED <<proc, index, token, owner, lease, waited, mark, held,
                 settled, local, environment, cleared, strayed, count>>

DeleteRecord(j) ==
  /\ status' = [status EXCEPT ![j] = "none"] /\ Release(j)
  /\ mark' = [mark EXCEPT ![j] = NoMark]
  /\ UNCHANGED <<lane, proc, index, held, settled>>

\* "Clear finished": the record goes, wherever the receipt is.
ClearFinished(j) ==
  /\ held[j] = NoToken /\ status[j] = "done"
  /\ Tick("clear") /\ DeleteRecord(j) /\ cleared' = cleared \cup {j}
  /\ UNCHANGED <<local, environment, fresh, strayed>>

\* A record reaches its JobTTL while its job waits in a long backlog.
RecordExpires(j) ==
  /\ j \in lane /\ status[j] = "queued" /\ Tick("clear") /\ DeleteRecord(j)
  /\ UNCHANGED <<local, environment, history>>

SetPaused ==
  /\ paused' = ~paused
  /\ IF paused THEN UNCHANGED count ELSE Tick("pause")
  /\ UNCHANGED <<redis, local, beat, late, history>>

\* Worker w is confirmed to own job j under the token of its record.
Holds(w, j) == auth[w] /\ cur[w] = j /\ tok[w] = token[j]

\* Redis ends a lease 45 s after the request that set it ran.  The worker's
\* own deadline is 43 s after it sent that request, so it passes first.
LeaseExpires(j) ==
  /\ lease[j] /\ \A w \in Workers : ~Holds(w, j)
  /\ lease' = [lease EXCEPT ![j] = FALSE]
  /\ UNCHANGED <<lane, proc, index, status, token, owner, waited, mark, held,
                 settled, local, environment, history, count>>

\* A step of time that a healthy worker prevents is a fault.
Prevented(healthy) == IF healthy THEN Tick("fault") ELSE UNCHANGED count

\* The grace for starting a claim passes.
GracePasses(j) ==
  /\ token[j] # NoToken /\ j \notin waited /\ waited' = waited \cup {j}
  /\ Prevented(\E w \in Workers : /\ cur[w] = j /\ tok[w] = token[j]
                                  /\ pc[w] \in {"claimed", "starting"})
  /\ UNCHANGED <<lane, proc, index, status, token, owner, lease, mark, held,
                 settled, local, environment, history>>

\* The heartbeat key of a worker expires.
BeatExpires(w) ==
  /\ beat[w] # "absent" /\ beat' = [beat EXCEPT ![w] = "absent"]
  /\ Prevented(pc[w] # "stopped")
  /\ UNCHANGED <<redis, local, paused, late, history>>

\* The local deadline of a claim passes without a renewal.
DeadlinePasses(w) ==
  /\ auth[w] /\ auth' = [auth EXCEPT ![w] = FALSE] /\ Tick("fault")
  /\ UNCHANGED <<redis, pc, cur, tok, victim, kept, unconf, plan, environment, history>>

\* The process dies, or a signal stops it: its receipts stay.
Die(w) ==
  /\ pc[w] # "stopped" /\ Tick("fault") /\ Stop(w)
  /\ UNCHANGED <<redis, environment, history>>

\* A restarted process has an id of its own; the id of a dead worker that
\* nothing refers to any more stands for it.
Restart(w) ==
  /\ pc[w] = "stopped" /\ beat[w] = "absent" /\ w \notin index
  /\ \A r \in late : r.w # w
  /\ \A v \in Workers : victim[v] # w
  /\ Goto(w, "top")
  /\ UNCHANGED <<redis, environment, history, count>>

\* A late request runs, under the fence of its script.
Deliver(r) ==
  /\ late' = late \ {r}
  /\ \/ r.op = "claim" /\ \E j \in Jobs : claimForWorkerScript(r.w, r.t, j)
     \/ /\ r.op = "start" /\ Delivered(r.w, r.j, r.t)
        /\ markRunningScript(r.w, r.j)
     \/ r.op = "renew" /\ RenewFence(r.w, r.j, r.t) /\ renewScript(r.j)
     \/ /\ r.op = "complete" /\ TerminalFence(r.w, r.j, r.t, r.x)
        /\ legacyTerminalScript(r.j, r.x)
     \/ r.op = "ack" /\ AckFence(r.w, r.j, r.t) /\ ackScript(r.w, r.j)
     \/ /\ r.op = "requeue" /\ RequeueFence(r.w, r.j, r.t, r.x)
        /\ requeueScript(r.w, r.j, r.t, r.x)
     \/ r.op = "hold" /\ HoldFence(r.w, r.j, r.t) /\ holdClaimScript(r.w, r.j, r.t)
  /\ UNCHANGED <<local, beat, paused, history, count>>

\* A late request never runs, or its fence turns it away.
Discard(r) ==
  /\ late' = late \ {r}
  /\ UNCHANGED <<redis, local, beat, paused, history, count>>

Work(w) ==
  \/ Heartbeat(w) \/ ClaimForWorker(w) \/ ClaimEmpty(w)
  \/ ReleaseUnconfirmedClaim(w) \/ ReleaseRequeue(w) \/ Reroute(w) \/ Announce(w)
  \/ MarkClaimRunning(w) \/ Finish(w) \/ AbandonRun(w) \/ CompleteClaim(w)
  \/ AckClaim(w) \/ RequeueClaim(w) \/ HoldClaim(w)

Recover(w) ==
  \/ \E v \in Workers, j \in Jobs : ReapList(w, v, j)
  \/ ReapRead(w) \/ ReapExpiry(w) \/ ReapStatus(w) \/ ReapAck(w) \/ ReapHold(w)
  \/ ReapRequeue(w) \/ UnstartedRead(w) \/ UnstartedRequeue(w)

Next ==
  \/ \E w \in Workers :
       \/ Work(w) \/ Recover(w) \/ ClaimFails(w) \/ RenewClaim(w) \/ Pulse(w)
       \/ BeatExpires(w) \/ DeadlinePasses(w) \/ Die(w) \/ Restart(w)
  \/ \E j \in Jobs : \/ Enqueue(j) \/ ClearFinished(j) \/ RecordExpires(j)
                     \/ LeaseExpires(j) \/ GracePasses(j)
  \/ \E r \in late : Deliver(r) \/ Discard(r)
  \/ SetPaused

Spec == Init /\ [][Next]_vars

\* Every loop goes on, time passes, every receipt is visited by the scans,
\* dead workers are replaced and late requests do not stay late.
Fairness ==
  /\ \A w \in Workers : /\ WF_vars(Work(w) \/ Recover(w)) /\ WF_vars(Restart(w))
                        /\ WF_vars(pc[w] = "stopped" /\ BeatExpires(w))
  /\ SF_vars(\E w \in Workers : ClaimForWorker(w))
  /\ \A v \in Workers, j \in Jobs : SF_vars(\E w \in Workers : ReapList(w, v, j))
  /\ \A j \in Jobs : WF_vars(LeaseExpires(j)) /\ WF_vars(GracePasses(j))
  /\ WF_vars(\E r \in late : Deliver(r) \/ Discard(r))

FairSpec == Spec /\ Fairness

-----------------------------------------------------------------------------
Copies(j) == {w \in Workers : j \in proc[w]}

(***************************************************************************)
(* A job is in one place: a job in the ready lane is on no processing list *)
(* and no job is on two.  The claim script moves it with LREM and LPUSH,   *)
(* the requeue script back; replays, late claims and two reapers of one    *)
(* receipt must not copy it, or two workers would run it.                  *)
(***************************************************************************)
SingleCopy == \A j \in Jobs :
  /\ j \in lane => Copies(j) = {}
  /\ \A v, w \in Copies(j) : v = w

(***************************************************************************)
(* A job that was enqueued and has no outcome can still be delivered: it   *)
(* is in the lane, held for an operator, or on the processing list of a    *)
(* worker that the reaper's index names (RecoverAbandonedWorkers visits    *)
(* nothing else).                                                          *)
(***************************************************************************)
NothingLost == \A j \in Jobs \ (fresh \cup settled) :
  \/ j \in lane
  \/ held[j] # NoToken
  \/ \E w \in index : j \in proc[w]

(***************************************************************************)
(* A job whose outcome is committed never becomes claimable again and its  *)
(* outcome is never overwritten, whoever reaps its receipt and whatever    *)
(* resend arrives late.  Two kinds of job are excepted, with reason: one   *)
(* whose record "Clear finished" deleted (FinishedStaysFinished shows what *)
(* happens to it), and one whose start was sent twice, since the start     *)
(* script does not look at the status and a late copy of it reopens the    *)
(* job.                                                                    *)
(***************************************************************************)
NoRerun == \A j \in settled \ (cleared \cup strayed) :
  j \notin lane /\ status[j] \in Outcomes

(***************************************************************************)
(* claim.go, where the reaper finds a committed status: "requeueing this   *)
(* receipt would run or recount already-completed work".  So no job with a *)
(* committed outcome is in the lane.  It does not hold: "Clear finished"   *)
(* may delete the record between the outcome and its acknowledgement.      *)
(***************************************************************************)
FinishedStaysFinished == \A j \in settled \ strayed : j \notin lane

(***************************************************************************)
(* hold.go: a held job waits for an operator.  It is neither claimable nor *)
(* on a processing list, whichever requests about its delivery were still  *)
(* on their way when it was held, and a late start does not unblock it.    *)
(***************************************************************************)
HeldIsKept == \A j \in Jobs : held[j] # NoToken =>
  j \notin lane /\ Copies(j) = {} /\ status[j] = "blocked"

(***************************************************************************)
(* A worker whose guard still vouches for its claim runs a job that Redis  *)
(* says is its own: token, owner, receipt, status and a live lease.  So no *)
(* reaper takes a job from a worker that may still publish it, and no two  *)
(* workers with authority run one job.  Excepted are a job whose start or  *)
(* release was sent twice, since the late copy carries the same token, and *)
(* a finished job that runs again because its record was cleared.          *)
(***************************************************************************)
AuthorityBacked == \A w \in Workers :
  auth[w] /\ pc[w] = "running" /\ cur[w] \notin strayed \cup cleared =>
  /\ token[cur[w]] = tok[w] /\ owner[cur[w]] = w /\ cur[w] \in proc[w]
  /\ status[cur[w]] = "running" /\ lease[cur[w]]

(***************************************************************************)
(* Every enqueued job gets an outcome or is held for an operator, provided *)
(* the farm does not stay paused: whichever worker dies, whichever reply   *)
(* is lost, some reaper returns the receipt and some worker finishes it.   *)
(***************************************************************************)
JobsSettle == <>[]~paused =>
  \A j \in Jobs : j \notin fresh ~> (j \in settled \/ held[j] # NoToken)

Parked == {j \in Jobs : held[j] # NoToken}

Holder(j) == IF Copies(j) = {} THEN NoWorker ELSE CHOOSE w \in Workers : j \in proc[w]

Promise == INSTANCE FarmContract WITH
  new <- fresh, ready <- lane, holder <- [j \in Jobs |-> Holder(j)],
  parked <- Parked, committed <- settled, excused <- cleared \cup strayed

(***************************************************************************)
(* The scripts keep the contract: whatever requests are lost, repeated or  *)
(* late, each step of the farm moves one job at most and as FarmContract   *)
(* allows.  A job is taken only from the lane, by one worker; a committed  *)
(* one is only retired, unless it is excused as in NoRerun.                *)
(***************************************************************************)
KeepsPromise == Promise!Spec
=============================================================================
