----------------------------- MODULE FarmProofs -----------------------------
(***************************************************************************)
(* Proofs about FarmDelivery: types, custody of every job, authority over  *)
(* it, and that FarmDelivery implements FarmContract.                      *)
(*                                                                         *)
(* A step of the farm does one of a dozen things to Redis (RedisEffect).   *)
(* The proofs show first that every action has such an effect, then that   *)
(* each effect keeps the records well formed (RedisOK).  What a worker, a  *)
(* reaper or a late request carries is in WorkersOK and LateOK: an         *)
(* acknowledgement is only ever sent for a settled job, a hold only with a *)
(* token.  Evidence and LateEvidence say what a step may do to a claim.    *)
(* Custody and authority are argued from these effects alone.              *)
(***************************************************************************)
EXTENDS FarmDelivery, TLAPS

AnyToken == Tokens \cup {NoToken}

RedisOK ==
  /\ lane \subseteq Jobs /\ proc \in [Workers -> SUBSET Jobs]
  /\ index \subseteq Workers /\ status \in [Jobs -> Statuses]
  /\ token \in [Jobs -> AnyToken]
  /\ owner \in [Jobs -> Workers \cup {NoWorker}]
  /\ lease \in [Jobs -> BOOLEAN] /\ waited \subseteq Jobs
  /\ mark \in [Jobs -> [token : AnyToken, mode : Modes]]
  /\ held \in [Jobs -> AnyToken] /\ settled \subseteq Jobs

LocalOK ==
  /\ pc \in [Workers -> Pcs] /\ cur \in [Workers -> Jobs \cup {NoJob}]
  /\ tok \in [Workers -> AnyToken]
  /\ victim \in [Workers -> Workers \cup {NoWorker}]
  /\ kept \in [Workers -> AnyToken] /\ unconf \subseteq Workers
  /\ auth \in [Workers -> BOOLEAN] /\ plan \in [Workers -> Outcomes]

OtherOK ==
  /\ beat \in [Workers -> {"absent", "idle"} \cup Jobs] /\ paused \in BOOLEAN
  /\ late \subseteq Requests
  /\ fresh \subseteq Jobs /\ cleared \subseteq Jobs /\ strayed \subseteq Jobs
  /\ count \in [DOMAIN Bounds -> Nat]

LEMMA TypeParts == TypeOK <=> RedisOK /\ LocalOK /\ OtherOK
BY Zenon DEF TypeOK, RedisOK, LocalOK, OtherOK, AnyToken

LEMMA TokenFacts == NoToken \notin Tokens /\ Tokens \subseteq AnyToken /\ NoToken \in AnyToken
BY BoundsAreNat, SMT DEF NoToken, Tokens, AnyToken

-----------------------------------------------------------------------------
(* The effects of a step on Redis.  An outcome, a return or a hold comes    *)
(* with its sender: a worker that is past running the claim, or a request   *)
(* that such a worker sent and gave up (SentBy).                            *)

Early == {"claimed", "starting", "release"}
Past == {"publish", "ack", "requeue", "hold"}
Owning == Early \cup Past \cup {"running"}
Reaping == {"listed", "read", "lapsed", "reack", "rehold", "reap", "unread",
            "unstarted"}

SpentBy(r) == r.op = "complete" \/ (r.op \in {"requeue", "hold"} /\ r.x = "own")

SentBy(w, j, t) ==
  \/ pc[w] \in Past \cup {"release"} /\ cur[w] = j /\ tok[w] = t
  \/ \E r \in late : SpentBy(r) /\ r.w = w /\ r.j = j /\ r.t = t

\* The start is the one that lets the worker run, or its job has strayed.
StartedBy(w, j, t) ==
  \/ j \in strayed'
  \/ pc[w] = "starting" /\ tok[w] = t /\ pc'[w] = "running" /\ kept'[w] = NoToken

ClaimEffect ==
  \E w \in Workers, t \in Tokens, j \in Jobs : claimForWorkerScript(w, t, j)
StartEffect ==
  \E w \in Workers, t \in AnyToken, j \in Jobs :
    Delivered(w, j, t) /\ StartedBy(w, j, t) /\ markRunningScript(w, j)
RenewEffect ==
  \E w \in Workers, t \in AnyToken, j \in Jobs :
    RenewFence(w, j, t) /\ renewScript(j)
OutcomeEffect ==
  \E w \in Workers, t \in AnyToken, j \in Jobs, x \in Outcomes :
    TerminalFence(w, j, t, x) /\ SentBy(w, j, t) /\ legacyTerminalScript(j, x)
AckEffect ==
  \E w \in Workers, t \in AnyToken, j \in settled :
    AckFence(w, j, t) /\ ackScript(w, j)
RequeueEffect ==
  \E w \in Workers, t \in AnyToken, j \in Jobs, m \in Modes :
    /\ RequeueFence(w, j, t, m) /\ (m = "own" => SentBy(w, j, t))
    /\ requeueScript(w, j, t, m)
HoldEffect ==
  \E w \in Workers, t \in Tokens, j \in Jobs :
    /\ HoldFence(w, j, t) /\ (held[j] # NoToken \/ SentBy(w, j, t))
    /\ holdClaimScript(w, j, t)
ClearEffect ==
  \E j \in Jobs : /\ held[j] = NoToken /\ status[j] = "done" /\ j \in cleared'
                  /\ DeleteRecord(j)
ExpiryEffect ==
  \E j \in lane : status[j] = "queued" /\ DeleteRecord(j)
LapseEffect ==
  \E j \in Jobs : /\ \A w \in Workers : ~Holds(w, j)
                  /\ lease' = [lease EXCEPT ![j] = FALSE]
                  /\ UNCHANGED <<lane, proc, index, status, token, owner,
                                 waited, mark, held, settled>>
GraceEffect ==
  \E j \in Jobs : /\ waited' = waited \cup {j}
                  /\ UNCHANGED <<lane, proc, index, status, token, owner,
                                 lease, mark, held, settled>>

RedisEffect ==
  \/ UNCHANGED redis
  \/ ClaimEffect \/ StartEffect \/ RenewEffect \/ OutcomeEffect \/ AckEffect
  \/ RequeueEffect \/ HoldEffect \/ ClearEffect \/ ExpiryEffect \/ LapseEffect
  \/ GraceEffect

-----------------------------------------------------------------------------
(* What the processes and the late requests carry.                          *)

WorkerOK(w) ==
  /\ pc[w] \in Owning => cur[w] \in Jobs /\ tok[w] \in Tokens /\ kept[w] = NoToken
  /\ pc[w] \in Reaping => cur[w] \in Jobs /\ victim[w] \in Workers
  /\ pc[w] = "rehold" => tok[w] \in Tokens /\ held[cur[w]] # NoToken
  /\ pc[w] \in {"ack", "reack"} => cur[w] \in settled
  /\ w \in unconf => kept[w] # NoToken

RequestOK(r) ==
  /\ r.op = "claim" => r.t \in Tokens
  /\ r.op # "claim" => r.j \in Jobs
  /\ r.op = "complete" => r.x \in Outcomes
  /\ r.op = "requeue" => r.x \in Modes
  /\ r.op = "ack" => r.j \in settled
  /\ r.op = "hold" => r.t \in Tokens /\ (r.x = "own" \/ held[r.j] # NoToken)
  /\ r.op = "start" => r.j \in strayed

Outcome(j) == status[j] \in Outcomes => j \in settled

WorkersOK == \A w \in Workers : WorkerOK(w)
LateOK == \A r \in late : RequestOK(r)
OutcomesOK == \A j \in Jobs : Outcome(j)

Base == TypeOK /\ WorkersOK /\ LateOK /\ OutcomesOK
-----------------------------------------------------------------------------
(* Every action has one of the effects.                                     *)

LEMMA Tokened ==
  ASSUME TypeOK, NEW w \in Workers, NEW t \in NextToken(w)
  PROVE  t \in Tokens
BY Zenon, TokenFacts DEF TypeOK, NextToken, Unused

LEMMA LocalTypes ==
  ASSUME TypeOK, NEW w \in Workers
  PROVE  /\ pc[w] \in Pcs /\ cur[w] \in Jobs \cup {NoJob} /\ tok[w] \in AnyToken
         /\ victim[w] \in Workers \cup {NoWorker} /\ kept[w] \in AnyToken
         /\ auth[w] \in BOOLEAN /\ plan[w] \in Outcomes
BY Zenon DEF TypeOK, AnyToken

\* A worker that owns a claim or reaps a receipt carries typed values.
LEMMA Carried ==
  ASSUME Base, NEW w \in Workers
  PROVE  /\ pc[w] \in Owning => cur[w] \in Jobs /\ tok[w] \in Tokens /\ kept[w] = NoToken
         /\ pc[w] \in Reaping => cur[w] \in Jobs /\ victim[w] \in Workers
         /\ pc[w] = "rehold" => tok[w] \in Tokens /\ held[cur[w]] # NoToken
         /\ pc[w] \in {"ack", "reack"} => cur[w] \in settled
         /\ w \in unconf => kept[w] # NoToken
         /\ tok[w] \in AnyToken /\ plan[w] \in Outcomes
BY Zenon, LocalTypes DEF Base, WorkersOK, WorkerOK

\* A step that is not an enqueue keeps the set of jobs still to come, and no
\* step forgets which jobs were cleared or strayed.
Remembers == fresh' = fresh /\ strayed \subseteq strayed' /\ cleared \subseteq cleared'

LEMMA NextEffect ==
  Base /\ [Next]_vars =>
    (\E j \in Jobs : Enqueue(j)) \/ (RedisEffect /\ Remembers)
<1>AsRequeue.
  ASSUME NEW w \in Workers, NEW v \in Workers, NEW m \in Modes,
         cur[w] \in Jobs, tok[w] \in AnyToken, RequeueAs(w, v, m),
         m = "own" => v = w /\ pc[w] \in Past \cup {"release"}
  PROVE  RedisEffect
  <2> USE <1>AsRequeue
  <2>1. m = "own" => SentBy(v, cur[w], tok[w]) BY Zenon DEF SentBy
  <2> QED BY Zenon, <2>1 DEF RequeueAs, RedisEffect, RequeueEffect

<1>AsAck.
  ASSUME NEW w \in Workers, NEW v \in Workers,
         cur[w] \in settled, tok[w] \in AnyToken, AckAs(w, v)
  PROVE  RedisEffect
  BY <1>AsAck, Zenon DEF AckAs, RedisEffect, AckEffect

<1>AsHold.
  ASSUME NEW w \in Workers, NEW v \in Workers,
         cur[w] \in Jobs, tok[w] \in Tokens, HoldAs(w, v),
         held[cur[w]] # NoToken \/ (v = w /\ pc[w] \in Past)
  PROVE  RedisEffect
  <2> USE <1>AsHold
  <2>1. held[cur[w]] # NoToken \/ SentBy(v, cur[w], tok[w]) BY Zenon DEF SentBy
  <2> QED BY Zenon, <2>1 DEF HoldAs, RedisEffect, HoldEffect

<1>AsStart.
  ASSUME NEW w \in Workers, cur[w] \in Jobs, tok[w] \in AnyToken, StartAs(w),
         Delivered(w, cur[w], tok[w]) => StartedBy(w, cur[w], tok[w])
  PROVE  RedisEffect
  BY <1>AsStart, Zenon DEF StartAs, RedisEffect, StartEffect

<1>AsComplete.
  ASSUME NEW w \in Workers, cur[w] \in Jobs, tok[w] \in AnyToken,
         plan[w] \in Outcomes, CompleteAs(w), pc[w] \in Past
  PROVE  RedisEffect
  <2> USE <1>AsComplete
  <2>1. SentBy(w, cur[w], tok[w]) BY Zenon DEF SentBy
  <2> QED BY Zenon, <2>1 DEF CompleteAs, RedisEffect, OutcomeEffect

<1>WorkEffect.
  ASSUME Base, NEW w \in Workers, Work(w)
  PROVE  RedisEffect
  <2> USE <1>WorkEffect
  <2>c. /\ pc[w] \in Owning => cur[w] \in Jobs /\ tok[w] \in Tokens
        /\ pc[w] = "ack" => cur[w] \in settled
        /\ tok[w] \in AnyToken /\ plan[w] \in Outcomes
    BY Zenon, Carried
  <2>o. /\ "release" \in Owning /\ "starting" \in Owning /\ "publish" \in Owning
        /\ "ack" \in Owning /\ "requeue" \in Owning /\ "hold" \in Owning
        /\ "own" \in Modes /\ "publish" \in Past /\ "requeue" \in Past /\ "hold" \in Past
    BY Zenon DEF Owning, Early, Past, Modes
  <2>0. UNCHANGED redis => RedisEffect BY Zenon DEF RedisEffect
  <2>1. CASE Heartbeat(w) BY Zenon, <2>0, <2>1 DEF Heartbeat
  <2>2. CASE ClaimForWorker(w)
    BY Zenon, <2>2, Tokened DEF Base, ClaimForWorker, RedisEffect, ClaimEffect
  <2>3. CASE ClaimEmpty(w) BY Zenon, <2>0, <2>3 DEF ClaimEmpty
  <2>4. CASE ReleaseUnconfirmedClaim(w)
    BY Zenon, <2>0, <2>4 DEF ReleaseUnconfirmedClaim
  <2>5. CASE ReleaseRequeue(w)
    <3>1. pc[w] = "release" /\ (RequeueAs(w, w, "own") \/ UNCHANGED redis)
      BY Zenon, <2>5 DEF ReleaseRequeue, Faulty
    <3> QED BY Zenon, <3>1, <2>0, <2>c, <2>o, <1>AsRequeue
  <2>6. CASE Reroute(w) BY Zenon, <2>0, <2>6 DEF Reroute
  <2>7. CASE Announce(w) BY Zenon, <2>0, <2>7 DEF Announce
  <2>8. CASE MarkClaimRunning(w)
    <3>0. pc[w] = "starting" BY Zenon, <2>8 DEF MarkClaimRunning
    <3>k. kept[w] = NoToken /\ pc \in [Workers -> Pcs]
      BY Zenon, <3>0, <2>o, Carried DEF Base, TypeOK
    <3>1. CASE cur[w] \in strayed' /\ (StartAs(w) \/ UNCHANGED redis)
      BY Zenon, <3>0, <3>1, <2>0, <2>c, <2>o, <1>AsStart DEF StartedBy
    <3>2. CASE /\ StartAs(w)
               /\ IF Delivered(w, cur[w], tok[w])
                  THEN /\ pc' = [pc EXCEPT ![w] = "running"]
                       /\ auth' = [auth EXCEPT ![w] = TRUE]
                       /\ UNCHANGED <<cur, tok, victim, kept, unconf, plan>>
                  ELSE Stop(w)
      <4>1. Delivered(w, cur[w], tok[w]) => pc'[w] = "running" /\ kept'[w] = NoToken
        BY Zenon, <3>2, <3>k
      <4> QED BY Zenon, <3>0, <3>2, <4>1, <2>c, <2>o, <1>AsStart DEF StartedBy
    <3> QED BY Zenon, <2>8, <3>1, <3>2 DEF MarkClaimRunning, Faulty
  <2>9. CASE Finish(w) BY Zenon, <2>0, <2>9 DEF Finish
  <2>10. CASE AbandonRun(w) BY Zenon, <2>0, <2>10 DEF AbandonRun
  <2>11. CASE CompleteClaim(w)
    <3>1. pc[w] = "publish" /\ (CompleteAs(w) \/ UNCHANGED redis)
      BY Zenon, <2>11 DEF CompleteClaim, Faulty
    <3> QED BY Zenon, <3>1, <2>0, <2>c, <2>o, <1>AsComplete
  <2>12. CASE AckClaim(w)
    <3>1. pc[w] = "ack" /\ (AckAs(w, w) \/ UNCHANGED redis)
      BY Zenon, <2>12 DEF AckClaim, Faulty
    <3> QED BY Zenon, <3>1, <2>0, <2>c, <2>o, <1>AsAck
  <2>13. CASE RequeueClaim(w)
    <3>1. pc[w] = "requeue" /\ (RequeueAs(w, w, "own") \/ UNCHANGED redis)
      BY Zenon, <2>13 DEF RequeueClaim, Faulty
    <3> QED BY Zenon, <3>1, <2>0, <2>c, <2>o, <1>AsRequeue
  <2>14. CASE HoldClaim(w)
    <3>1. pc[w] = "hold" /\ (HoldAs(w, w) \/ UNCHANGED redis)
      BY Zenon, <2>14 DEF HoldClaim, Faulty
    <3> QED BY Zenon, <3>1, <2>0, <2>c, <2>o, <1>AsHold
  <2> QED
    BY Zenon, <2>1, <2>2, <2>3, <2>4, <2>5, <2>6, <2>7, <2>8, <2>9, <2>10,
       <2>11,
       <2>12, <2>13, <2>14 DEF Work

<1>RecoverEffect.
  ASSUME Base, NEW w \in Workers, Recover(w)
  PROVE  RedisEffect
  <2> USE <1>RecoverEffect
  <2>c. /\ pc[w] \in Reaping => cur[w] \in Jobs /\ victim[w] \in Workers
        /\ pc[w] = "rehold" => tok[w] \in Tokens /\ held[cur[w]] # NoToken
        /\ pc[w] = "reack" => cur[w] \in settled
        /\ tok[w] \in AnyToken
    BY Zenon, Carried
  <2>o. /\ "reack" \in Reaping /\ "rehold" \in Reaping /\ "reap" \in Reaping
        /\ "unstarted" \in Reaping /\ "expired" \in Modes /\ "unstarted" \in Modes
        /\ "expired" # "own" /\ "unstarted" # "own"
    BY Zenon DEF Reaping, Modes
  <2>0. UNCHANGED redis => RedisEffect BY Zenon DEF RedisEffect
  <2>1. ASSUME NEW v \in Workers, NEW j \in Jobs, ReapList(w, v, j) PROVE RedisEffect
    BY Zenon, <2>0, <2>1 DEF ReapList
  <2>2. CASE ReapRead(w) BY Zenon, <2>0, <2>2 DEF ReapRead
  <2>3. CASE ReapExpiry(w) BY Zenon, <2>0, <2>3 DEF ReapExpiry
  <2>4. CASE ReapStatus(w) BY Zenon, <2>0, <2>4 DEF ReapStatus
  <2>5. CASE ReapAck(w)
    <3>1. pc[w] = "reack" /\ (AckAs(w, victim[w]) \/ UNCHANGED redis)
      BY Zenon, <2>5 DEF ReapAck, Reap
    <3> QED BY Zenon, <3>1, <2>0, <2>c, <2>o, <1>AsAck
  <2>6. CASE ReapHold(w)
    <3>1. pc[w] = "rehold" /\ (HoldAs(w, victim[w]) \/ UNCHANGED redis)
      BY Zenon, <2>6 DEF ReapHold, Reap
    <3> QED BY Zenon, <3>1, <2>0, <2>c, <2>o, <1>AsHold
  <2>7. CASE ReapRequeue(w)
    <3>1. pc[w] = "reap" /\ (RequeueAs(w, victim[w], "expired") \/ UNCHANGED redis)
      BY Zenon, <2>7 DEF ReapRequeue, Reap
    <3> QED BY Zenon, <3>1, <2>0, <2>c, <2>o, <1>AsRequeue
  <2>8. CASE UnstartedRead(w) BY Zenon, <2>0, <2>8 DEF UnstartedRead
  <2>9. CASE UnstartedRequeue(w)
    <3>1. pc[w] = "unstarted" /\ (RequeueAs(w, victim[w], "unstarted") \/ UNCHANGED redis)
      BY Zenon, <2>9 DEF UnstartedRequeue, Reap
    <3> QED BY Zenon, <3>1, <2>0, <2>c, <2>o, <1>AsRequeue
  <2> QED
    BY Zenon, <2>1, <2>2, <2>3, <2>4, <2>5, <2>6, <2>7, <2>8, <2>9 DEF Recover

<1>DeliverEffect.
  ASSUME Base, NEW r \in late, Deliver(r)
  PROVE  RedisEffect
  <2> USE <1>DeliverEffect
  <2>1. RequestOK(r) BY Zenon DEF Base, LateOK
  <2>2. r.w \in Workers /\ r.t \in AnyToken
    BY SMT DEF Base, TypeOK, Requests, AnyToken
  <2>3. r.op # "claim" => r.j \in Jobs BY Zenon, <2>1 DEF RequestOK
  <2>4. CASE r.op = "claim" /\ \E j \in Jobs : claimForWorkerScript(r.w, r.t, j)
    BY Zenon, <2>1, <2>2, <2>4 DEF RequestOK, RedisEffect, ClaimEffect
  <2>5. CASE r.op = "start" /\ Delivered(r.w, r.j, r.t) /\ markRunningScript(r.w, r.j)
    <3>1. r.j \in Jobs BY Zenon, <2>3, <2>5
    <3>2. r.j \in strayed' BY Zenon, <2>1, <2>5 DEF RequestOK, Deliver, history
    <3> QED BY Zenon, <3>1, <3>2, <2>2, <2>5 DEF RedisEffect, StartEffect,
    StartedBy
  <2>6. CASE r.op = "renew" /\ RenewFence(r.w, r.j, r.t) /\ renewScript(r.j)
    <3>1. r.j \in Jobs BY Zenon, <2>3, <2>6
    <3> QED BY Zenon, <3>1, <2>2, <2>6 DEF RedisEffect, RenewEffect
  <2>7. CASE r.op = "complete" /\ TerminalFence(r.w, r.j, r.t, r.x) /\ legacyTerminalScript(r.j, r.x)
    <3>1. r.j \in Jobs /\ r.x \in Outcomes BY Zenon, <2>1, <2>3, <2>7
    DEF RequestOK
    <3>2. SentBy(r.w, r.j, r.t) BY Zenon, <2>7 DEF SentBy, SpentBy
    <3> QED BY Zenon, <3>1, <3>2, <2>2, <2>7 DEF RedisEffect, OutcomeEffect
  <2>8. CASE r.op = "ack" /\ AckFence(r.w, r.j, r.t) /\ ackScript(r.w, r.j)
    <3>1. r.j \in settled BY Zenon, <2>1, <2>8 DEF RequestOK
    <3> QED BY Zenon, <3>1, <2>2, <2>8 DEF RedisEffect, AckEffect
  <2>9. CASE r.op = "requeue" /\ RequeueFence(r.w, r.j, r.t, r.x) /\ requeueScript(r.w, r.j, r.t, r.x)
    <3>1. r.j \in Jobs /\ r.x \in Modes BY Zenon, <2>1, <2>3, <2>9 DEF RequestOK
    <3>2. r.x = "own" => SentBy(r.w, r.j, r.t) BY Zenon, <2>9 DEF SentBy,
    SpentBy
    <3> QED BY Zenon, <3>1, <3>2, <2>2, <2>9 DEF RedisEffect, RequeueEffect
  <2>10. CASE r.op = "hold" /\ HoldFence(r.w, r.j, r.t) /\ holdClaimScript(r.w, r.j, r.t)
    <3>1. r.j \in Jobs /\ r.t \in Tokens BY Zenon, <2>1, <2>3, <2>10
    DEF RequestOK
    <3>2. held[r.j] # NoToken \/ SentBy(r.w, r.j, r.t)
      BY Zenon, <2>1, <2>10 DEF RequestOK, SentBy, SpentBy
    <3> QED BY Zenon, <3>1, <3>2, <2>2, <2>10 DEF RedisEffect, HoldEffect
  <2> QED BY Zenon, <2>4, <2>5, <2>6, <2>7, <2>8, <2>9, <2>10 DEF Deliver

<1> SUFFICES ASSUME Base, [Next]_vars
             PROVE  (\E j \in Jobs : Enqueue(j)) \/ (RedisEffect /\ Remembers)
  BY Zenon
<1>0. UNCHANGED redis => RedisEffect BY Zenon DEF RedisEffect
<1>1. ASSUME NEW w \in Workers, Work(w) PROVE RedisEffect /\ Remembers
  <2>1. Remembers
    BY Zenon, <1>1 DEF Remembers, Work, Heartbeat, ClaimForWorker, ClaimEmpty,
       ReleaseUnconfirmedClaim, ReleaseRequeue, Reroute, Announce,
       MarkClaimRunning, Finish, AbandonRun, CompleteClaim, AckClaim,
       RequeueClaim, HoldClaim, history
  <2> QED BY Zenon, <2>1, <1>1, <1>WorkEffect
<1>2. ASSUME NEW w \in Workers, Recover(w) PROVE RedisEffect /\ Remembers
  <2>1. Remembers
    BY Zenon, <1>2 DEF Remembers, Recover, ReapList, ReapRead, ReapExpiry,
       ReapStatus,
       ReapAck, ReapHold, ReapRequeue, UnstartedRead, UnstartedRequeue, Reap,
       history
  <2> QED BY Zenon, <2>1, <1>2, <1>RecoverEffect
<1>3. ASSUME NEW w \in Workers, ClaimFails(w) PROVE RedisEffect /\ Remembers
  BY Zenon, <1>3, Tokened
  DEF Remembers, Base, ClaimFails, Faulty, history, RedisEffect, ClaimEffect
<1>4. ASSUME NEW w \in Workers, RenewClaim(w) PROVE RedisEffect /\ Remembers
  <2>1. pc[w] \in Owning
    BY Zenon, <1>4 DEF RenewClaim, Guarded, Owning, Past, Early
  <2>2. cur[w] \in Jobs /\ tok[w] \in AnyToken BY Zenon, <2>1, Carried
  <2>3. Remembers BY Zenon, <1>4 DEF Remembers, RenewClaim, history
  <2>4. UNCHANGED redis \/ (RenewFence(w, cur[w], tok[w]) /\ renewScript(cur[w]))
    BY Zenon, <1>4 DEF RenewClaim
  <2> QED BY Zenon, <2>2, <2>3, <2>4 DEF RedisEffect, RenewEffect
<1>5. ASSUME NEW w \in Workers,
             Pulse(w) \/ BeatExpires(w) \/ DeadlinePasses(w) \/ Die(w) \/ Restart(w)
      PROVE  RedisEffect /\ Remembers
  BY Zenon, <1>0, <1>5
  DEF Remembers, Pulse, BeatExpires, DeadlinePasses, Die, Restart, history
<1>6. ASSUME NEW j \in Jobs, ClearFinished(j) PROVE RedisEffect /\ Remembers
  BY Zenon, <1>6 DEF Remembers, ClearFinished, RedisEffect, ClearEffect
<1>7. ASSUME NEW j \in Jobs, RecordExpires(j) PROVE RedisEffect /\ Remembers
  BY Zenon, <1>7 DEF Remembers, RecordExpires, RedisEffect, ExpiryEffect,
     history
<1>8. ASSUME NEW j \in Jobs, LeaseExpires(j) PROVE RedisEffect /\ Remembers
  BY Zenon, <1>8 DEF Remembers, LeaseExpires, RedisEffect, LapseEffect, history
<1>9. ASSUME NEW j \in Jobs, GracePasses(j) PROVE RedisEffect /\ Remembers
  BY Zenon, <1>9 DEF Remembers, GracePasses, RedisEffect, GraceEffect, history
<1>10. ASSUME NEW r \in late, Deliver(r) \/ Discard(r) PROVE RedisEffect /\ Remembers
  BY Zenon, <1>10, <1>0, <1>DeliverEffect DEF Remembers, Deliver, Discard,
     history
<1>11. CASE SetPaused BY Zenon, <1>0, <1>11 DEF Remembers, SetPaused, history
<1>12. CASE UNCHANGED vars BY Zenon, <1>0, <1>12 DEF Remembers, vars, history
<1> QED
  BY Zenon, <1>1, <1>2, <1>3, <1>4, <1>5, <1>6, <1>7, <1>8, <1>9, <1>10, <1>11,
     <1>12
  DEF Next
-----------------------------------------------------------------------------
(* The effects keep the records well formed, settled jobs settled and held  *)
(* jobs held, and only a settled job shows an outcome.                      *)

RecordsOK == RedisOK /\ OutcomesOK

Grows ==
  /\ settled \subseteq settled' /\ strayed \subseteq strayed'
  /\ \A j \in Jobs : held[j] # NoToken => held'[j] # NoToken

LEMMA Constants ==
  /\ {"none", "queued", "running", "blocked"} \subseteq Statuses
  /\ Outcomes \subseteq Statuses
  /\ "none" \notin Outcomes /\ "queued" \notin Outcomes
  /\ "running" \notin Outcomes /\ "blocked" \notin Outcomes
  /\ NoMark \in [token : AnyToken, mode : Modes]
BY SMT, TokenFacts DEF Statuses, Outcomes, NoMark, Modes

LEMMA DropTypes ==
  ASSUME RedisOK, NEW w \in Workers, NEW j \in Jobs, Drop(w, j)
  PROVE  proc' \in [Workers -> SUBSET Jobs] /\ index' \subseteq Workers
BY SMT DEF RedisOK, Drop

LEMMA ReleaseTypes ==
  ASSUME RedisOK, NEW j \in Jobs, Release(j)
  PROVE  /\ token' \in [Jobs -> AnyToken] /\ owner' \in [Jobs -> Workers \cup {NoWorker}]
         /\ lease' \in [Jobs -> BOOLEAN] /\ waited' \subseteq Jobs
BY Zenon, TokenFacts DEF RedisOK, Release

\* What a step does to the statuses, the outcomes and the holds.
LEMMA StatusKept ==
  ASSUME RecordsOK, NEW j \in Jobs, NEW x \in Statuses,
         status' = [status EXCEPT ![j] = x], settled \subseteq settled',
         x \in Outcomes => j \in settled'
  PROVE  status' \in [Jobs -> Statuses] /\ OutcomesOK'
<1>1. status' \in [Jobs -> Statuses] BY Zenon DEF RecordsOK, RedisOK
<1>2. ASSUME NEW i \in Jobs PROVE Outcome(i)'
  <2>1. CASE i = j
    <3>1. status'[i] = x BY Zenon, <2>1 DEF RecordsOK, RedisOK
    <3> QED BY Zenon, <3>1, <2>1 DEF Outcome
  <2>2. CASE i # j
    <3>1. status'[i] = status[i] BY Zenon, <2>2 DEF RecordsOK, RedisOK
    <3> QED BY Zenon, <3>1 DEF Outcome, RecordsOK, OutcomesOK
  <2> QED BY Zenon, <2>1, <2>2
<1> QED BY Zenon, <1>1, <1>2 DEF OutcomesOK

LEMMA StatusSame ==
  ASSUME RecordsOK, status' = status, settled \subseteq settled'
  PROVE  OutcomesOK'
BY Zenon DEF RecordsOK, OutcomesOK, Outcome

LEMMA EffectRecords ==
  ASSUME RecordsOK, RedisEffect, strayed \subseteq strayed'
  PROVE  RecordsOK' /\ Grows
<1> USE DEF RecordsOK
<1>s. settled' = settled => settled \subseteq settled' OBVIOUS
<1>h. held' = held => \A j \in Jobs : held[j] # NoToken => held'[j] # NoToken OBVIOUS
<1>1. CASE UNCHANGED redis
  <2>1. /\ status' = status /\ settled' = settled /\ held' = held
        /\ RedisOK'
    BY Zenon, <1>1 DEF redis, records, RedisOK
  <2> QED BY Zenon, <2>1, <1>s, <1>h, StatusSame DEF Grows
<1>2. CASE ClaimEffect
  <2> PICK w \in Workers, t \in Tokens, j \in Jobs : claimForWorkerScript(w, t, j)
    BY Zenon, <1>2 DEF ClaimEffect
  <2>1. CASE /\ j \in Replayed(w, t) /\ waited' = waited \ {j}
             /\ UNCHANGED <<lane, proc, index, status, token, owner, lease, mark, held, settled>>
    <3>1. RedisOK' BY Zenon, <2>1 DEF RedisOK
    <3> QED BY Zenon, <3>1, <2>1, <1>s, <1>h, StatusSame DEF Grows
  <2>2. CASE /\ lane' = lane \ {j}
             /\ proc' = [proc EXCEPT ![w] = @ \cup {j}] /\ index' = index \cup {w}
             /\ status' = [status EXCEPT ![j] = IF @ = "none" THEN "queued" ELSE @]
             /\ token' = [token EXCEPT ![j] = t] /\ waited' = waited \ {j}
             /\ mark' = [mark EXCEPT ![j] = NoMark]
             /\ UNCHANGED <<owner, lease, held, settled>>
    <3> DEFINE x == IF status[j] = "none" THEN "queued" ELSE status[j]
    <3>1. x \in Statuses /\ (x \in Outcomes => j \in settled')
      BY Zenon, <2>2, Constants DEF RedisOK, OutcomesOK, Outcome
    <3>2. status' = [status EXCEPT ![j] = x] BY Zenon, <2>2
    <3> HIDE DEF x
    <3>3. status' \in [Jobs -> Statuses] /\ OutcomesOK'
      BY Zenon, <3>1, <3>2, <2>2, <1>s, StatusKept
    <3>4. proc' \in [Workers -> SUBSET Jobs] BY SMT, <2>2 DEF RedisOK
    <3>5. token' \in [Jobs -> AnyToken] BY Zenon, <2>2, TokenFacts DEF RedisOK
    <3>6. mark' \in [Jobs -> [token : AnyToken, mode : Modes]]
      BY Zenon, <2>2, Constants DEF RedisOK
    <3>7. lane' \subseteq Jobs /\ index' \subseteq Workers /\ waited' \subseteq Jobs
      BY Zenon, <2>2 DEF RedisOK
    <3>8. RedisOK' BY Zenon, <3>3, <3>4, <3>5, <3>6, <3>7, <2>2 DEF RedisOK
    <3> QED BY Zenon, <3>3, <3>8, <2>2, <1>s, <1>h DEF Grows
  <2> QED BY Zenon, <2>1, <2>2 DEF claimForWorkerScript
<1>3. CASE StartEffect
  <2> PICK w \in Workers, t \in AnyToken, j \in Jobs : markRunningScript(w, j)
    BY Zenon, <1>3 DEF StartEffect
  <2>0. /\ status' = [status EXCEPT ![j] = "running"]
        /\ owner' = [owner EXCEPT ![j] = w] /\ lease' = [lease EXCEPT ![j] = TRUE]
        /\ UNCHANGED <<lane, proc, index, token, waited, mark, held, settled>>
    BY Zenon DEF markRunningScript
  <2>1. status' \in [Jobs -> Statuses] /\ OutcomesOK'
    BY Zenon, <2>0, <1>s, StatusKept, Constants
  <2>2. RedisOK' BY Zenon, <2>0, <2>1 DEF RedisOK
  <2> QED BY Zenon, <2>0, <2>1, <2>2, <1>s, <1>h DEF Grows
<1>4. CASE RenewEffect
  <2> PICK j \in Jobs : renewScript(j) BY Zenon, <1>4 DEF RenewEffect
  <2>0. /\ lease' = [lease EXCEPT ![j] = TRUE]
        /\ UNCHANGED <<lane, proc, index, status, token, owner, waited, mark, held, settled>>
    BY Zenon DEF renewScript
  <2>2. RedisOK' BY Zenon, <2>0 DEF RedisOK
  <2> QED BY Zenon, <2>0, <2>2, <1>s, <1>h, StatusSame DEF Grows
<1>5. CASE OutcomeEffect
  <2> PICK j \in Jobs, x \in Outcomes : legacyTerminalScript(j, x)
    BY Zenon, <1>5 DEF OutcomeEffect
  <2>0. /\ status' = [status EXCEPT ![j] = x] /\ settled' = settled \cup {j}
        /\ UNCHANGED <<lane, proc, index, token, owner, lease, waited, mark, held>>
    BY Zenon DEF legacyTerminalScript
  <2>3. settled \subseteq settled' /\ j \in settled' /\ settled' \subseteq Jobs
    BY Zenon, <2>0 DEF RedisOK
  <2>1. status' \in [Jobs -> Statuses] /\ OutcomesOK'
    BY Zenon, <2>0, <2>3, StatusKept, Constants
  <2>2. RedisOK' BY Zenon, <2>0, <2>1, <2>3 DEF RedisOK
  <2> QED BY Zenon, <2>0, <2>1, <2>2, <2>3, <1>h DEF Grows
<1>6. CASE AckEffect
  <2> PICK w \in Workers, j \in settled : ackScript(w, j) BY Zenon, <1>6
  DEF AckEffect
  <2>0. Drop(w, j) /\ Release(j) /\ UNCHANGED <<lane, status, mark, held, settled>>
    BY Zenon DEF ackScript
  <2>j. j \in Jobs BY Zenon DEF RedisOK
  <2>1. proc' \in [Workers -> SUBSET Jobs] /\ index' \subseteq Workers
    BY Zenon, <2>0, <2>j, DropTypes
  <2>2. /\ token' \in [Jobs -> AnyToken] /\ owner' \in [Jobs -> Workers \cup {NoWorker}]
        /\ lease' \in [Jobs -> BOOLEAN] /\ waited' \subseteq Jobs
    BY Zenon, <2>0, <2>j, ReleaseTypes
  <2>3. RedisOK' BY Zenon, <2>0, <2>1, <2>2 DEF RedisOK
  <2> QED BY Zenon, <2>0, <2>3, <1>s, <1>h, StatusSame DEF Grows
<1>7. CASE RequeueEffect
  <2> PICK w \in Workers, t \in AnyToken, j \in Jobs, m \in Modes : requeueScript(w, j, t, m)
    BY Zenon, <1>7 DEF RequeueEffect
  <2>0. /\ Drop(w, j) /\ Release(j) /\ lane' = lane \cup {j}
        /\ status' = [status EXCEPT ![j] = "queued"]
        /\ mark' = [mark EXCEPT ![j] = IF t = NoToken THEN NoMark
                                       ELSE [token |-> t, mode |-> m]]
        /\ UNCHANGED <<held, settled>>
    BY Zenon DEF requeueScript
  <2>1. proc' \in [Workers -> SUBSET Jobs] /\ index' \subseteq Workers
    BY Zenon, <2>0, DropTypes
  <2>2. /\ token' \in [Jobs -> AnyToken] /\ owner' \in [Jobs -> Workers \cup {NoWorker}]
        /\ lease' \in [Jobs -> BOOLEAN] /\ waited' \subseteq Jobs
    BY Zenon, <2>0, ReleaseTypes
  <2>3. mark' \in [Jobs -> [token : AnyToken, mode : Modes]]
    <3>1. (IF t = NoToken THEN NoMark ELSE [token |-> t, mode |-> m])
            \in [token : AnyToken, mode : Modes]
      BY SMT, Constants
    <3> QED BY Zenon, <3>1, <2>0 DEF RedisOK
  <2>4. status' \in [Jobs -> Statuses] /\ OutcomesOK'
    BY Zenon, <2>0, <1>s, StatusKept, Constants
  <2>5. lane' \subseteq Jobs BY Zenon, <2>0 DEF RedisOK
  <2>6. RedisOK' BY Zenon, <2>0, <2>1, <2>2, <2>3, <2>4, <2>5 DEF RedisOK
  <2> QED BY Zenon, <2>0, <2>4, <2>6, <1>s, <1>h DEF Grows
<1>8. CASE HoldEffect
  <2> PICK w \in Workers, t \in Tokens, j \in Jobs : holdClaimScript(w, j, t)
    BY Zenon, <1>8 DEF HoldEffect
  <2>0. /\ held' = [held EXCEPT ![j] = t] /\ status' = [status EXCEPT ![j] = "blocked"]
        /\ Drop(w, j) /\ Release(j) /\ UNCHANGED <<lane, mark, settled>>
    BY Zenon DEF holdClaimScript
  <2>1. proc' \in [Workers -> SUBSET Jobs] /\ index' \subseteq Workers
    BY Zenon, <2>0, DropTypes
  <2>2. /\ token' \in [Jobs -> AnyToken] /\ owner' \in [Jobs -> Workers \cup {NoWorker}]
        /\ lease' \in [Jobs -> BOOLEAN] /\ waited' \subseteq Jobs
    BY Zenon, <2>0, ReleaseTypes
  <2>3. held' \in [Jobs -> AnyToken] BY Zenon, <2>0, TokenFacts DEF RedisOK
  <2>4. status' \in [Jobs -> Statuses] /\ OutcomesOK'
    BY Zenon, <2>0, <1>s, StatusKept, Constants
  <2>5. \A i \in Jobs : held[i] # NoToken => held'[i] # NoToken
    BY Zenon, <2>0, TokenFacts DEF RedisOK
  <2>6. RedisOK' BY Zenon, <2>0, <2>1, <2>2, <2>3, <2>4 DEF RedisOK
  <2> QED BY Zenon, <2>0, <2>4, <2>5, <2>6, <1>s DEF Grows
<1>9. ASSUME NEW j \in Jobs, DeleteRecord(j) PROVE RecordsOK' /\ Grows
  <2>0. /\ status' = [status EXCEPT ![j] = "none"] /\ Release(j)
        /\ mark' = [mark EXCEPT ![j] = NoMark]
        /\ UNCHANGED <<lane, proc, index, held, settled>>
    BY Zenon, <1>9 DEF DeleteRecord
  <2>1. /\ token' \in [Jobs -> AnyToken] /\ owner' \in [Jobs -> Workers \cup {NoWorker}]
        /\ lease' \in [Jobs -> BOOLEAN] /\ waited' \subseteq Jobs
    BY Zenon, <2>0, ReleaseTypes
  <2>2. status' \in [Jobs -> Statuses] /\ OutcomesOK'
    BY Zenon, <2>0, <1>s, StatusKept, Constants
  <2>3. mark' \in [Jobs -> [token : AnyToken, mode : Modes]]
    BY Zenon, <2>0, Constants DEF RedisOK
  <2>4. RedisOK' BY Zenon, <2>0, <2>1, <2>2, <2>3 DEF RedisOK
  <2> QED BY Zenon, <2>0, <2>2, <2>4, <1>s, <1>h DEF Grows
<1>10. CASE ClearEffect BY Zenon, <1>9, <1>10 DEF ClearEffect
<1>11. CASE ExpiryEffect BY Zenon, <1>9, <1>11 DEF ExpiryEffect, RedisOK
<1>12. CASE LapseEffect
  <2>1. /\ RedisOK' /\ status' = status /\ settled' = settled /\ held' = held
    BY Zenon, <1>12 DEF LapseEffect, RedisOK
  <2> QED BY Zenon, <2>1, <1>s, <1>h, StatusSame DEF Grows
<1>13. CASE GraceEffect
  <2>1. /\ RedisOK' /\ status' = status /\ settled' = settled /\ held' = held
    BY Zenon, <1>13 DEF GraceEffect, RedisOK
  <2> QED BY Zenon, <2>1, <1>s, <1>h, StatusSame DEF Grows
<1> QED
  BY Zenon, <1>1, <1>2, <1>3, <1>4, <1>5, <1>6, <1>7, <1>8, <1>10, <1>11,
     <1>12, <1>13
  DEF RedisEffect

LEMMA EnqueueRecords ==
  ASSUME RecordsOK, NEW j \in Jobs, Enqueue(j)
  PROVE  RecordsOK' /\ Grows
<1>0. /\ lane' = lane \cup {j} /\ status' = [status EXCEPT ![j] = "queued"]
      /\ UNCHANGED <<proc, index, token, owner, lease, waited, mark, held, settled>>
      /\ strayed' = strayed
  BY Zenon DEF Enqueue
<1>1. status' \in [Jobs -> Statuses] /\ OutcomesOK'
  BY Zenon, <1>0, StatusKept, Constants
<1>2. RedisOK' BY Zenon, <1>0, <1>1 DEF RecordsOK, RedisOK
<1> QED BY Zenon, <1>0, <1>1, <1>2 DEF Grows, RecordsOK
-----------------------------------------------------------------------------
(* The processes and the late requests keep carrying typed values.          *)

Backed(w) ==
  /\ token[cur[w]] = tok[w] /\ owner[cur[w]] = w /\ cur[w] \in proc[w]
  /\ status[cur[w]] = "running" /\ lease[cur[w]]

\* Tokens with which w may hold a claim that it has not started.
Vouched(w, t) ==
  t = kept[w] \/ (pc[w] \in Early /\ tok[w] = t) \/ t \in Unused

\* What a step may do to the claim of w: take or keep one that it has not
\* started, start it, or go on with the one it has, never back from past it.
EvidenceOf(w) ==
  /\ kept'[w] # NoToken => Vouched(w, kept'[w])
  /\ pc'[w] \in Early => Vouched(w, tok'[w])
  /\ pc'[w] \in Owning \ Early => /\ tok'[w] = tok[w] /\ pc[w] \in Owning
                                  /\ pc[w] \in Past => pc'[w] \in Past
  /\ auth'[w] /\ pc'[w] = "running" =>
       \/ auth[w] /\ pc[w] = "running" /\ cur'[w] = cur[w] /\ tok'[w] = tok[w]
       \/ Backed(w)'

Evidence == \A w \in Workers : EvidenceOf(w)

LocalStep == LocalOK' /\ WorkersOK' /\ Evidence

\* A new late request that ends a claim was sent by a worker past it.
LateEvidence == \A r \in late' : r \in late \/
  (SpentBy(r) /\ r.j \notin strayed' => pc[r.w] \in Past /\ tok[r.w] = r.t)

PostalOK == late \subseteq Requests /\ LateOK /\ count \in [DOMAIN Bounds -> Nat]

PostalStep == PostalOK' /\ LateEvidence

RestOK ==
  /\ beat \in [Workers -> {"absent", "idle"} \cup Jobs] /\ paused \in BOOLEAN
  /\ fresh \subseteq Jobs /\ cleared \subseteq Jobs /\ strayed \subseteq Jobs

LEMMA BaseParts ==
  Base <=> RecordsOK /\ LocalOK /\ WorkersOK /\ PostalOK /\ RestOK
BY Zenon, TypeParts DEF Base, RecordsOK, PostalOK, RestOK, OtherOK

Elsewhere(w) == \A u \in Workers \ {w} :
  /\ pc'[u] = pc[u] /\ cur'[u] = cur[u] /\ tok'[u] = tok[u]
  /\ victim'[u] = victim[u] /\ kept'[u] = kept[u]
  /\ u \in unconf' => u \in unconf
  /\ auth'[u] => auth[u]

-----------------------------------------------------------------------------
(* Requests that are sent, lost or late.                                    *)

-----------------------------------------------------------------------------
(* One lemma per group of actions: LocalStep, PostalStep and RestOK'.          *)

StepOK == LocalStep /\ PostalStep /\ RestOK'

LEMMA Sets ==
  /\ {"claimed", "starting", "release", "publish", "ack", "requeue", "hold",
      "running"} \subseteq Owning
  /\ {"listed", "read", "lapsed", "reack", "rehold", "reap", "unread",
      "unstarted"} \subseteq Reaping
  /\ {"top", "idle", "scanned", "stopped"} \cap (Owning \cup Reaping) = {}
  /\ Owning \cap Reaping = {} /\ Owning \subseteq Pcs /\ Reaping \subseteq Pcs
  /\ {"top", "idle", "scanned", "stopped"} \subseteq Pcs
  /\ {"claim", "start", "renew", "complete", "ack", "requeue", "hold"} \subseteq Ops
  /\ {"own", "expired", "unstarted"} \subseteq Modes
  /\ Early = {"claimed", "starting", "release"}
  /\ Past = {"publish", "ack", "requeue", "hold"}
BY SMT DEF Owning, Early, Past, Reaping, Pcs, Ops, Modes

LEMMA NextStep ==
  Base /\ [Next]_vars => Base' /\ Grows /\ Evidence /\ LateEvidence
\* A worker is unaffected by the steps of the others.
<1>Unaffected.
  ASSUME Base, Grows, NEW u \in Workers,
         pc'[u] = pc[u], cur'[u] = cur[u], tok'[u] = tok[u],
         victim'[u] = victim[u], kept'[u] = kept[u],
         u \in unconf' => u \in unconf, auth'[u] => auth[u]
  PROVE  WorkerOK(u)' /\ EvidenceOf(u)
  <2> USE <1>Unaffected
  <2>1. WorkerOK(u) BY Zenon DEF Base, WorkersOK
  <2>2. pc[u] = "rehold" => held'[cur[u]] # NoToken
    <3>1. "rehold" \in Reaping BY Zenon DEF Reaping
    <3> QED BY Zenon, <2>1, <3>1 DEF WorkerOK, Grows
  <2>3. WorkerOK(u)' BY Zenon, <2>1, <2>2 DEF WorkerOK, Grows
  <2>4. EvidenceOf(u) BY Zenon DEF EvidenceOf, Vouched
  <2> QED BY Zenon, <2>3, <2>4

<1>WorkersStep.
  ASSUME Base, Grows, NEW w \in Workers, Elsewhere(w), WorkerOK(w)', EvidenceOf(w)
  PROVE  WorkersOK' /\ Evidence
  <2> USE <1>WorkersStep
  <2>1. ASSUME NEW u \in Workers PROVE WorkerOK(u)' /\ EvidenceOf(u)
    <3>1. CASE u = w BY Zenon, <3>1
    <3>2. CASE u # w BY Zenon, <3>2, <1>Unaffected DEF Elsewhere
    <3> QED BY Zenon, <3>1, <3>2
  <2> QED BY Zenon, <2>1 DEF WorkersOK, Evidence

<1>Quiet.
  ASSUME Base, Grows, UNCHANGED <<pc, cur, tok, victim, kept, unconf, plan>>,
         auth' \in [Workers -> BOOLEAN], \A u \in Workers : auth'[u] => auth[u]
  PROVE  LocalStep
  <2> USE <1>Quiet
  <2>1. LocalOK' BY Zenon, BaseParts DEF LocalOK
  <2>2. ASSUME NEW u \in Workers PROVE WorkerOK(u)' /\ EvidenceOf(u) BY Zenon,
  <1>Unaffected
  <2> QED BY Zenon, <2>1, <2>2 DEF LocalStep, WorkersOK, Evidence

\* A worker that is between claims and scans carries nothing.
<1>Idle.
  ASSUME NEW w \in Workers, pc'[w] \in {"top", "idle", "scanned", "stopped"},
         w \in unconf' => kept'[w] # NoToken,
         kept'[w] # NoToken => Vouched(w, kept'[w])
  PROVE  WorkerOK(w)' /\ EvidenceOf(w)
  <2> USE <1>Idle
  <2>1. pc'[w] \notin Owning /\ pc'[w] \notin Early /\ pc'[w] \notin Reaping
    BY Zenon DEF Owning, Early, Past, Reaping
  <2> QED BY Zenon, <2>1 DEF WorkerOK, EvidenceOf

<1>Rested.
  ASSUME Base, Grows, NEW w \in Workers, NEW p \in {"top", "scanned", "stopped"},
         Forget(w, p), kept' \in [Workers -> AnyToken],
         \A u \in Workers \ {w} : kept'[u] = kept[u], unconf' \subseteq unconf \cup {w},
         w \in unconf' => kept'[w] # NoToken,
         kept'[w] # NoToken => Vouched(w, kept'[w])
  PROVE  LocalStep
  <2> USE <1>Rested
  <2>0. LocalOK BY Zenon, BaseParts
  <2>p. p \in Pcs BY Zenon DEF Pcs
  <2>e. /\ pc' = [pc EXCEPT ![w] = p] /\ cur' = [cur EXCEPT ![w] = NoJob]
        /\ tok' = [tok EXCEPT ![w] = NoToken]
        /\ victim' = [victim EXCEPT ![w] = NoWorker]
        /\ auth' = [auth EXCEPT ![w] = FALSE] /\ plan' = [plan EXCEPT ![w] = "done"]
    BY Zenon DEF Forget
  <2>d. "done" \in Outcomes BY Zenon DEF Outcomes
  <2>f. unconf' \subseteq Workers BY Zenon, <2>0 DEF LocalOK
  <2>1. LocalOK' BY Zenon, <2>0, <2>p, <2>e, <2>d, <2>f, TokenFacts DEF LocalOK
  <2>2. Elsewhere(w) BY Zenon, <2>0, <2>e DEF LocalOK, Elsewhere
  <2>3. pc'[w] = p BY Zenon, <2>0, <2>e DEF LocalOK
  <2>4. WorkerOK(w)' /\ EvidenceOf(w) BY Zenon, <2>3, <1>Idle
  <2> QED BY Zenon, <2>1, <2>2, <2>4, <1>WorkersStep DEF LocalStep

<1>Looped.
  ASSUME Base, Grows, NEW w \in Workers, NEW p \in {"top", "scanned"},
         Forget(w, p), UNCHANGED <<kept, unconf>>
  PROVE  LocalStep
  <2> USE <1>Looped
  <2>1. kept' \in [Workers -> AnyToken] /\ unconf' \subseteq unconf \cup {w}
    BY Zenon, BaseParts DEF LocalOK
  <2>2. \A u \in Workers \ {w} : kept'[u] = kept[u] OBVIOUS
  <2>3. Vouched(w, kept'[w]) BY Zenon DEF Vouched
  <2> QED BY Zenon, <2>1, <2>2, <2>3, <1>Rested, Carried

<1>Stopped.
  ASSUME Base, Grows, NEW w \in Workers, Stop(w)
  PROVE  LocalStep
  <2> USE <1>Stopped
  <2>0. LocalOK BY Zenon, BaseParts
  <2>1. /\ Forget(w, "stopped") /\ kept' = [kept EXCEPT ![w] = NoToken]
        /\ unconf' = unconf \ {w}
    BY Zenon DEF Stop
  <2>2. /\ kept' \in [Workers -> AnyToken] /\ unconf' \subseteq unconf \cup {w}
        /\ w \notin unconf' /\ kept'[w] = NoToken
    BY Zenon, <2>0, <2>1, TokenFacts DEF LocalOK
  <2>3. \A u \in Workers \ {w} : kept'[u] = kept[u] BY Zenon, <2>0, <2>1
  DEF LocalOK
  <2> QED BY Zenon, <2>1, <2>2, <2>3, <1>Rested

<1>Moved.
  ASSUME Base, Grows, NEW w \in Workers, NEW p \in Pcs, Goto(w, p),
         p \in Owning => pc[w] \in Owning, p \in Reaping => pc[w] \in Reaping,
         p = "rehold" => pc[w] = "rehold", p \in Early => pc[w] \in Early,
         p \in Owning /\ pc[w] \in Past => p \in Past, p = "running" => pc[w] = "running",
         p \in {"ack", "reack"} => cur[w] \in settled'
  PROVE  LocalStep
  <2> USE <1>Moved
  <2>0. LocalOK BY Zenon, BaseParts
  <2>e. /\ pc' = [pc EXCEPT ![w] = p]
        /\ UNCHANGED <<cur, tok, victim, kept, unconf, auth, plan>>
    BY Zenon DEF Goto
  <2>1. LocalOK' BY Zenon, <2>0, <2>e DEF LocalOK
  <2>2. Elsewhere(w) BY Zenon, <2>0, <2>e DEF LocalOK, Elsewhere
  <2>3. pc'[w] = p BY Zenon, <2>0, <2>e DEF LocalOK
  <2>4. p = "rehold" => held'[cur[w]] # NoToken /\ tok[w] \in Tokens
    <3>1. "rehold" \in Reaping BY Zenon DEF Reaping
    <3> QED BY Zenon, <3>1, Carried DEF Grows
  <2>5. WorkerOK(w)' BY Zenon, <2>3, <2>4, <2>e, Carried DEF WorkerOK
  <2>6. EvidenceOf(w) BY Zenon, <2>3, <2>e DEF EvidenceOf, Vouched
  <2> QED BY Zenon, <2>1, <2>2, <2>5, <2>6, <1>WorkersStep DEF LocalStep

<1>Resent.
  ASSUME Base, Grows, NEW w \in Workers, Resend(w)
  PROVE  LocalStep
  <2> USE <1>Resent
  <2>1. CASE Stop(w) BY Zenon, <2>1, <1>Stopped
  <2>2. CASE Goto(w, pc[w])
    <3>1. pc[w] \in Pcs BY Zenon, LocalTypes DEF Base
    <3>2. pc[w] \in {"ack", "reack"} => cur[w] \in settled' BY Zenon,
    Carried DEF Grows
    <3> QED BY Zenon, <2>2, <3>1, <3>2, <1>Moved
  <2> QED BY Zenon, <2>1, <2>2 DEF Resend

\* The worker takes new values of pc, cur, tok, victim and kept.
<1>Taken.
  ASSUME Base, Grows, NEW w \in Workers, LocalOK', Elsewhere(w),
         w \in unconf' => kept'[w] # NoToken,
         kept'[w] # NoToken => Vouched(w, kept'[w]),
         pc'[w] \in Owning => /\ cur'[w] \in Jobs /\ tok'[w] \in Tokens
                              /\ kept'[w] = NoToken /\ pc'[w] \in Early
                              /\ Vouched(w, tok'[w]),
         pc'[w] \in Reaping => cur'[w] \in Jobs /\ victim'[w] \in Workers,
         pc'[w] = "rehold" => tok'[w] \in Tokens /\ held'[cur'[w]] # NoToken,
         pc'[w] \notin {"ack", "reack", "running"}
  PROVE  LocalStep
  <2> USE <1>Taken
  <2>1. WorkerOK(w)' BY Zenon DEF WorkerOK
  <2>2. pc'[w] \in Early => pc'[w] \in Owning BY Zenon DEF Owning
  <2>3. EvidenceOf(w) BY Zenon, <2>2 DEF EvidenceOf
  <2> QED BY Zenon, <2>1, <2>3, <1>WorkersStep DEF LocalStep

<1>Ticked.
  ASSUME PostalOK, NEW k \in DOMAIN Bounds, Tick(k)
  PROVE  count' \in [DOMAIN Bounds -> Nat]
  <2> USE <1>Ticked
  <2> DEFINE D == DOMAIN Bounds
  <2>1. count \in [D -> Nat] BY Zenon DEF PostalOK
  <2>2. count' = [count EXCEPT ![k] = @ + 1] BY Zenon DEF Tick
  <2>3. k \in D OBVIOUS
  <2> HIDE DEF D
  <2>4. count' \in [D -> Nat] BY SMT, <2>1, <2>2, <2>3
  <2> QED BY Zenon, <2>4 DEF D

<1>Kinds.
  /\ "fault" \in DOMAIN Bounds /\ "requeue" \in DOMAIN Bounds
  /\ "clear" \in DOMAIN Bounds /\ "pause" \in DOMAIN Bounds
  BY SMT DEF Bounds

\* Requests that were late before stay well formed.
<1>LateKept.
  ASSUME LateOK, Grows, NEW r \in late
  PROVE  RequestOK(r)'
  BY <1>LateKept, Zenon DEF LateOK, RequestOK, Grows

<1>NoneSent.
  ASSUME PostalOK, Grows, late' \subseteq late, count' \in [DOMAIN Bounds -> Nat]
  PROVE  PostalStep
  <2> USE <1>NoneSent
  <2>1. LateOK' BY Zenon, <1>LateKept DEF PostalOK, LateOK
  <2> QED BY Zenon, <2>1 DEF PostalOK, PostalStep, LateEvidence

<1>PostponedOK.
  ASSUME PostalOK, Grows, NEW o \in Ops, NEW w \in Workers, NEW j \in Jobs \cup {NoJob},
         NEW t \in AnyToken, NEW x \in Modes \cup Outcomes, Postpone(o, w, j, t, x),
         o = "claim" => t \in Tokens, o # "claim" => j \in Jobs,
         o = "complete" => x \in Outcomes, o = "requeue" => x \in Modes,
         o = "ack" => j \in settled, o = "start" => j \in strayed',
         o = "hold" => t \in Tokens /\ (x = "own" \/ held[j] # NoToken),
         o = "complete" \/ (o \in {"requeue", "hold"} /\ x = "own") =>
           j \in strayed' \/ (pc[w] \in Past /\ tok[w] = t)
  PROVE  PostalStep
  <2> USE <1>PostponedOK
  <2> DEFINE r == [op |-> o, w |-> w, j |-> j, t |-> t, x |-> x]
  <2>1. r \in Requests BY SMT DEF Requests, AnyToken
  <2>2. r.op = o /\ r.w = w /\ r.j = j /\ r.t = t /\ r.x = x OBVIOUS
  <2>3. late' = late \cup {r} /\ Tick("fault") BY Zenon DEF Postpone
  <2> HIDE DEF r
  <2>4. RequestOK(r)' BY Zenon, <2>2 DEF RequestOK, Grows
  <2>5. count' \in [DOMAIN Bounds -> Nat] BY Zenon, <2>3, <1>Ticked, <1>Kinds
  <2>6. LateOK' BY Zenon, <2>3, <2>4, <1>LateKept DEF PostalOK, LateOK
  <2>7. LateEvidence BY Zenon, <2>2, <2>3 DEF LateEvidence, SpentBy
  <2> QED BY Zenon, <2>1, <2>3, <2>5, <2>6, <2>7 DEF PostalOK, PostalStep

<1>CountSame.
  ASSUME PostalOK, Grows, UNCHANGED <<late, count>>
  PROVE  PostalStep
  BY <1>CountSame, Zenon, <1>NoneSent DEF PostalOK

<1>RestSame.
  ASSUME Base, UNCHANGED <<beat, paused, fresh, cleared, strayed>>
  PROVE  RestOK'
  BY <1>RestSame, Zenon, BaseParts DEF RestOK

<1>RestBeat.
  ASSUME Base, NEW w \in Workers, NEW b \in {"absent", "idle"} \cup Jobs,
         beat' = [beat EXCEPT ![w] = b], UNCHANGED <<paused, fresh, cleared, strayed>>
  PROVE  RestOK'
  BY <1>RestBeat, Zenon, BaseParts DEF RestOK

<1>RestStrayed.
  ASSUME Base, NEW j \in Jobs, strayed' = strayed \cup {j},
         UNCHANGED <<beat, paused, fresh, cleared>>
  PROVE  RestOK'
  BY <1>RestStrayed, Zenon, BaseParts DEF RestOK

\* A request of the claim that w owns, or of the receipt that it reaps.
<1>SentOwn.
  ASSUME Base, Grows, NEW w \in Workers, pc[w] \in Owning,
         NEW o \in {"start", "renew", "complete", "ack", "requeue", "hold"},
         NEW x \in Modes \cup Outcomes, Postpone(o, w, cur[w], tok[w], x),
         o = "complete" => x \in Outcomes, o = "requeue" => x \in Modes,
         o = "ack" => pc[w] = "ack", o = "start" => cur[w] \in strayed',
         o = "hold" => x = "own",
         o \in {"complete", "requeue", "hold"} => pc[w] \in Past \/ cur[w] \in strayed'
  PROVE  PostalStep
  <2> USE <1>SentOwn
  <2>1. o \in Ops /\ o # "claim" BY Zenon, Sets
  <2>2. cur[w] \in Jobs /\ tok[w] \in Tokens /\ tok[w] \in AnyToken BY Zenon,
  Carried
  <2>3. o = "ack" => cur[w] \in settled BY Zenon, Carried
  <2> QED BY Zenon, <2>1, <2>2, <2>3, <1>PostponedOK, BaseParts

<1>SentReap.
  ASSUME Base, Grows, NEW w \in Workers, pc[w] \in Reaping,
         NEW o \in {"ack", "requeue", "hold"},
         NEW x \in Modes \ {"own"}, Postpone(o, victim[w], cur[w], tok[w], x),
         o = "ack" => pc[w] = "reack", o = "hold" => pc[w] = "rehold"
  PROVE  PostalStep
  <2> USE <1>SentReap
  <2>1. o \in Ops /\ o # "claim" /\ o # "complete" BY Zenon, Sets
  <2>2. cur[w] \in Jobs /\ victim[w] \in Workers /\ tok[w] \in AnyToken BY Zenon, Carried
  <2>3. /\ o = "ack" => cur[w] \in settled
        /\ o = "hold" => tok[w] \in Tokens /\ held[cur[w]] # NoToken
    BY Zenon, Carried
  <2> QED BY Zenon, <2>1, <2>2, <2>3, <1>PostponedOK, BaseParts

<1>TickOnly.
  ASSUME Base, Grows, late' \subseteq late, NEW k \in DOMAIN Bounds,
         Tick(k) \/ UNCHANGED count
  PROVE  PostalStep
  <2> USE <1>TickOnly
  <2>1. count' \in [DOMAIN Bounds -> Nat] BY Zenon, <1>Ticked, BaseParts
  DEF PostalOK
  <2> QED BY Zenon, <2>1, <1>NoneSent, BaseParts

<1>ClaimSteps.
  ASSUME Base, Grows, NEW w \in Workers,
         \/ Heartbeat(w) \/ ClaimForWorker(w) \/ ClaimEmpty(w) \/ ClaimFails(w)
         \/ ReleaseUnconfirmedClaim(w)
  PROVE  StepOK
  <2> USE <1>ClaimSteps
  <2>k. LocalOK /\ PostalOK /\ RestOK BY Zenon, BaseParts
  <2>t. /\ cur[w] \in Jobs \cup {NoJob} /\ tok[w] \in AnyToken
        /\ victim[w] \in Workers \cup {NoWorker} /\ kept[w] \in AnyToken
    BY Zenon, LocalTypes DEF Base
  <2>v. Vouched(w, kept[w]) BY Zenon DEF Vouched
  <2>1. CASE Heartbeat(w)
    <3>1. /\ Goto(w, "idle") /\ UNCHANGED <<paused, late, count>>
          /\ beat' = [beat EXCEPT ![w] = "idle"] /\ UNCHANGED <<fresh, cleared, strayed>>
      BY Zenon, <2>1 DEF Heartbeat, history
    <3>2. LocalStep BY Zenon, <3>1, <1>Moved, Sets
    <3>3. RestOK' BY Zenon, <3>1, <1>RestBeat
    <3> QED BY Zenon, <3>1, <3>2, <3>3, <2>k, <1>CountSame DEF StepOK
  <2>2. CASE ClaimForWorker(w)
    <3> PICK t \in NextToken(w), j \in Jobs :
          cur' = [cur EXCEPT ![w] = j] /\ tok' = [tok EXCEPT ![w] = t]
      BY Zenon, <2>2 DEF ClaimForWorker
    <3>1. /\ pc' = [pc EXCEPT ![w] = "claimed"] /\ kept' = [kept EXCEPT ![w] = NoToken]
          /\ unconf' = unconf \ {w} /\ UNCHANGED <<victim, auth, plan>>
          /\ UNCHANGED <<late, count>> /\ UNCHANGED <<beat, paused, fresh, cleared, strayed>>
      BY Zenon, <2>2 DEF ClaimForWorker, environment, history
    <3>2. t \in Tokens /\ t \in AnyToken BY Zenon, Tokened, TokenFacts DEF Base
    <3>3. "claimed" \in Pcs /\ "claimed" \notin Reaping BY Zenon, Sets
    <3>4. unconf' \subseteq unconf \cup {w} /\ w \notin unconf' BY Zenon, <3>1
    <3>6. Vouched(w, t) BY Zenon DEF NextToken, Vouched
    <3>7. "claimed" \in Early BY Zenon, Sets
    <3>8. LocalOK' BY Zenon, <3>1, <3>2, <3>3, <2>k, TokenFacts DEF LocalOK
    <3>9. Elsewhere(w) BY Zenon, <3>1, <2>k DEF LocalOK, Elsewhere
    <3>10. pc'[w] = "claimed" /\ cur'[w] = j /\ tok'[w] = t /\ kept'[w] = NoToken
      BY Zenon, <3>1, <2>k DEF LocalOK
    <3>5. LocalStep
      BY Zenon, <3>2, <3>3, <3>4, <3>6, <3>7, <3>8, <3>9, <3>10, <1>Taken
    <3> QED BY Zenon, <3>1, <3>5, <2>k, <1>CountSame, <1>RestSame DEF StepOK
  <2>3. CASE ClaimEmpty(w)
    <3>1. /\ pc' = [pc EXCEPT ![w] = "top"] /\ unconf' = unconf \ {w}
          /\ UNCHANGED <<cur, tok, victim, kept, auth, plan>>
          /\ UNCHANGED <<late, count>> /\ UNCHANGED <<beat, paused, fresh, cleared, strayed>>
      BY Zenon, <2>3 DEF ClaimEmpty, environment, history
    <3>3. "top" \in Pcs /\ "top" \notin Reaping /\ "top" \notin Owning BY Zenon, Sets
    <3>4. unconf' \subseteq unconf \cup {w} /\ w \notin unconf' BY Zenon, <3>1
    <3>8. LocalOK' BY Zenon, <3>1, <3>3, <2>k DEF LocalOK
    <3>9. Elsewhere(w) BY Zenon, <3>1, <2>k DEF LocalOK, Elsewhere
    <3>10. pc'[w] = "top" /\ kept'[w] = kept[w] BY Zenon, <3>1, <2>k DEF LocalOK
    <3>5. LocalStep BY Zenon, <3>3, <3>4, <3>8, <3>9, <3>10, <2>v, <1>Taken
    <3> QED BY Zenon, <3>1, <3>5, <2>k, <1>CountSame, <1>RestSame DEF StepOK
  <2>4. CASE ClaimFails(w)
    <3> PICK t \in NextToken(w) :
          /\ kept' = [kept EXCEPT ![w] = t]
          /\ Faulty("claim", w, NoJob, t, "own", \E j \in Jobs : claimForWorkerScript(w, t, j))
      BY Zenon, <2>4 DEF ClaimFails
    <3>1. /\ pc' = [pc EXCEPT ![w] = "top"] /\ unconf' = unconf \cup {w}
          /\ UNCHANGED <<cur, tok, victim, auth, plan>>
          /\ UNCHANGED <<beat, paused, fresh, cleared, strayed>>
      BY Zenon, <2>4 DEF ClaimFails, history
    <3>2. t \in Tokens /\ t \in AnyToken BY Zenon, Tokened, TokenFacts DEF Base
    <3>3. "top" \in Pcs /\ "top" \notin Reaping /\ "top" \notin Owning BY Zenon, Sets
    <3>4. unconf' \subseteq unconf \cup {w} BY Zenon, <3>1
    <3>7. Vouched(w, t) BY Zenon DEF NextToken, Vouched
    <3>8. unconf' \subseteq Workers /\ t # NoToken BY Zenon, <3>1, <3>2, <2>k,
    TokenFacts DEF LocalOK
    <3>9. LocalOK' BY Zenon, <3>1, <3>2, <3>3, <3>8, <2>k DEF LocalOK
    <3>10. Elsewhere(w) BY Zenon, <3>1, <2>k DEF LocalOK, Elsewhere
    <3>11. pc'[w] = "top" /\ kept'[w] = t BY Zenon, <3>1, <2>k DEF LocalOK
    <3>5. LocalStep BY Zenon, <3>3, <3>7, <3>8, <3>9, <3>10, <3>11, <1>Taken
    <3>6. PostalStep
      <4>1. (Tick("fault") /\ UNCHANGED late) \/ Postpone("claim", w, NoJob, t, "own")
        BY Zenon DEF Faulty
      <4>2. CASE Tick("fault") /\ UNCHANGED late BY Zenon, <4>2, <1>TickOnly,
      <1>Kinds
      <4>3. CASE Postpone("claim", w, NoJob, t, "own")
        <5>1. "claim" \in Ops /\ "own" \in Modes \cup Outcomes BY Zenon, Sets
        <5> QED BY Zenon, <4>3, <5>1, <3>2, <2>k, <1>PostponedOK
      <4> QED BY Zenon, <4>1, <4>2, <4>3
    <3> QED BY Zenon, <3>1, <3>5, <3>6, <1>RestSame DEF StepOK
  <2>5. CASE ReleaseUnconfirmedClaim(w)
    <3>1. /\ unconf' = unconf \ {w} /\ UNCHANGED <<victim, auth, plan>>
          /\ UNCHANGED <<late, count>> /\ UNCHANGED <<beat, paused, fresh, cleared, strayed>>
      BY Zenon, <2>5 DEF ReleaseUnconfirmedClaim, environment, history
    <3>4. unconf' \subseteq unconf \cup {w} /\ w \notin unconf' BY Zenon, <3>1
    <3>2. CASE pc' = [pc EXCEPT ![w] = "top"] /\ UNCHANGED <<cur, tok, kept>>
      <4>3. "top" \in Pcs /\ "top" \notin Reaping /\ "top" \notin Owning BY Zenon, Sets
      <4>4. LocalOK' BY Zenon, <3>1, <3>2, <4>3, <2>k DEF LocalOK
      <4>5. Elsewhere(w) BY Zenon, <3>1, <3>2, <2>k DEF LocalOK, Elsewhere
      <4>6. pc'[w] = "top" /\ kept'[w] = kept[w] BY Zenon, <3>2, <2>k
      DEF LocalOK
      <4>7. LocalStep BY Zenon, <3>4, <4>3, <4>4, <4>5, <4>6, <2>v, <1>Taken
      <4> QED BY Zenon, <3>1, <4>7, <2>k, <1>CountSame, <1>RestSame DEF StepOK
    <3>3. ASSUME NEW j \in Replayed(w, kept[w]), kept[w] # NoToken,
                 cur' = [cur EXCEPT ![w] = j], tok' = [tok EXCEPT ![w] = kept[w]],
                 kept' = [kept EXCEPT ![w] = NoToken], pc' = [pc EXCEPT ![w] = "release"]
          PROVE  StepOK
      <4>1. j \in Jobs
        <5>1. proc[w] \subseteq Jobs BY SMT, BaseParts DEF RecordsOK, RedisOK
        <5> QED BY Zenon, <5>1, <3>3 DEF Replayed
      <4>2. kept[w] \in Tokens BY Zenon, <2>t, <3>3 DEF AnyToken
      <4>3. "release" \in Pcs /\ "release" \notin Reaping BY Zenon, Sets
      <4>5. "release" \in Early BY Zenon, Sets
      <4>6. LocalOK' BY Zenon, <3>1, <3>3, <4>1, <4>3, <2>t, <2>k,
      TokenFacts DEF LocalOK
      <4>7. Elsewhere(w) BY Zenon, <3>1, <3>3, <2>k DEF LocalOK, Elsewhere
      <4>8. pc'[w] = "release" /\ cur'[w] = j /\ tok'[w] = kept[w] /\ kept'[w] = NoToken
        BY Zenon, <3>3, <2>k DEF LocalOK
      <4>4. LocalStep
        BY Zenon, <3>4, <4>1, <4>2, <4>3, <4>5, <4>6, <4>7, <4>8, <2>v, <1>Taken
      <4> QED BY Zenon, <3>1, <4>4, <2>k, <1>CountSame, <1>RestSame DEF StepOK
    <3>5. w \in unconf /\ kept[w] # NoToken
      BY Zenon, <2>5, Carried DEF ReleaseUnconfirmedClaim
    <3> QED BY Zenon, <2>5, <3>2, <3>3, <3>5 DEF ReleaseUnconfirmedClaim
  <2> QED BY Zenon, <2>1, <2>2, <2>3, <2>4, <2>5

<1>StartSteps.
  ASSUME Base, Grows, NEW w \in Workers,
         ReleaseRequeue(w) \/ Reroute(w) \/ Announce(w) \/ MarkClaimRunning(w)
  PROVE  StepOK
  <2> USE <1>StartSteps
  <2>k. LocalOK /\ PostalOK /\ RestOK BY Zenon, BaseParts
  <2>o. "own" \in Modes \cup Outcomes /\ "own" \in Modes BY Zenon, Sets
  <2>1. CASE ReleaseRequeue(w)
    <3>1. /\ pc[w] = "release" /\ Forget(w, "top") /\ kept' = [kept EXCEPT ![w] = tok[w]]
          /\ unconf' \subseteq unconf \cup {w} /\ UNCHANGED <<beat, paused, fresh, cleared>>
          /\ \/ UNCHANGED <<strayed, late, count>>
             \/ /\ strayed' = strayed \cup {cur[w]} /\ cur[w] \in strayed'
                /\ \/ Tick("fault") /\ UNCHANGED late
                   \/ Postpone("requeue", w, cur[w], tok[w], "own")
      BY Zenon, <2>1 DEF ReleaseRequeue, Faulty
    <3>2. pc[w] \in Owning /\ cur[w] \in Jobs /\ tok[w] \in Tokens /\ tok[w] \in AnyToken
      BY Zenon, <3>1, Sets, Carried
    <3>3. kept' \in [Workers -> AnyToken] /\ kept'[w] # NoToken
          /\ \A u \in Workers \ {w} : kept'[u] = kept[u]
      BY Zenon, <3>1, <3>2, <2>k, TokenFacts DEF LocalOK
    <3>7. kept'[w] = tok[w] /\ Vouched(w, tok[w])
      BY Zenon, <3>1, <2>k, Sets DEF LocalOK, Vouched
    <3>4. LocalStep BY Zenon, <3>1, <3>3, <3>7, <1>Rested
    <3>5. RestOK' BY Zenon, <3>1, <3>2, <1>RestSame, <1>RestStrayed
    <3>6. PostalStep
      BY Zenon, <3>1, <3>2, <2>k, <2>o, <1>CountSame, <1>TickOnly, <1>Kinds,
         <1>SentOwn
    <3> QED BY Zenon, <3>4, <3>5, <3>6 DEF StepOK
  <2>2. CASE Reroute(w)
    <3>1. /\ pc[w] = "claimed" /\ Tick("requeue") /\ Goto(w, "requeue") /\ late' = late
          /\ UNCHANGED <<beat, paused, fresh, cleared, strayed>>
      BY Zenon, <2>2 DEF Reroute, environment, history
    <3>2. /\ "claimed" \in Owning /\ "requeue" \in Pcs /\ "requeue" \notin Reaping
          /\ "requeue" \in Past /\ "requeue" \notin Early
      BY Zenon, Sets
    <3>3. LocalStep BY Zenon, <3>1, <3>2, <1>Moved
    <3>4. PostalStep BY Zenon, <3>1, <1>TickOnly, <1>Kinds
    <3> QED BY Zenon, <3>1, <3>3, <3>4, <1>RestSame DEF StepOK
  <2>3. CASE Announce(w)
    <3>1. /\ pc[w] = "claimed" /\ Goto(w, "starting") /\ late' = late
          /\ UNCHANGED <<paused, fresh, cleared, strayed>>
          /\ (UNCHANGED count \/ Tick("fault"))
          /\ (beat' = [beat EXCEPT ![w] = cur[w]] \/ UNCHANGED beat)
      BY Zenon, <2>3 DEF Announce, history
    <3>2. /\ "claimed" \in Owning /\ "starting" \in Pcs /\ "starting" \notin Reaping
          /\ "claimed" \in Early /\ "claimed" \notin Past
      BY Zenon, Sets
    <3>3. cur[w] \in Jobs BY Zenon, <3>1, <3>2, Carried
    <3>4. LocalStep BY Zenon, <3>1, <3>2, <1>Moved
    <3>5. PostalStep BY Zenon, <3>1, <1>TickOnly, <1>Kinds
    <3>6. RestOK' BY Zenon, <3>1, <3>3, <1>RestSame, <1>RestBeat
    <3> QED BY Zenon, <3>4, <3>5, <3>6 DEF StepOK
  <2>4. CASE MarkClaimRunning(w)
    <3>0. pc[w] = "starting" /\ UNCHANGED <<beat, paused, fresh, cleared>>
      BY Zenon, <2>4 DEF MarkClaimRunning
    <3>c. pc[w] \in Owning /\ cur[w] \in Jobs /\ tok[w] \in Tokens
      BY Zenon, <3>0, Sets, Carried
    <3>1. CASE /\ UNCHANGED <<late, count, strayed>>
               /\ \/ /\ Delivered(w, cur[w], tok[w]) /\ StartAs(w)
                     /\ pc' = [pc EXCEPT ![w] = "running"]
                     /\ auth' = [auth EXCEPT ![w] = TRUE]
                     /\ UNCHANGED <<cur, tok, victim, kept, unconf, plan>>
                  \/ Stop(w)
      <4>1. LocalStep
        <5>1. CASE Stop(w) BY Zenon, <5>1, <1>Stopped
        <5>2. CASE /\ Delivered(w, cur[w], tok[w]) /\ StartAs(w)
                   /\ pc' = [pc EXCEPT ![w] = "running"]
                   /\ auth' = [auth EXCEPT ![w] = TRUE]
                   /\ UNCHANGED <<cur, tok, victim, kept, unconf, plan>>
          <6>1. "running" \in Pcs BY Zenon, Sets
          <6>2. LocalOK' BY Zenon, <5>2, <6>1, <2>k DEF LocalOK
          <6>3. Elsewhere(w) BY Zenon, <5>2, <2>k DEF LocalOK, Elsewhere
          <6>4. pc'[w] = "running" BY Zenon, <5>2, <2>k DEF LocalOK
          <6>5. "running" \notin Reaping BY Zenon, Sets
          <6>6. WorkerOK(w)' BY Zenon, <5>2, <6>4, <6>5, <3>c, Carried
          DEF WorkerOK
          <6>7. Backed(w)'
            <7>1. /\ token[cur[w]] = tok[w] /\ cur[w] \in proc[w]
                  /\ status' = [status EXCEPT ![cur[w]] = "running"]
                  /\ owner' = [owner EXCEPT ![cur[w]] = w]
                  /\ lease' = [lease EXCEPT ![cur[w]] = TRUE]
                  /\ UNCHANGED <<token, proc, cur, tok>>
              BY Zenon, <5>2 DEF StartAs, Delivered, markRunningScript
            <7>2. status'[cur[w]] = "running" /\ owner'[cur[w]] = w /\ lease'[cur[w]]
              BY Zenon, <7>1, <3>c, BaseParts DEF RecordsOK, RedisOK
            <7> QED BY Zenon, <7>1, <7>2 DEF Backed
          <6>8. EvidenceOf(w)
            <7>1. "running" \notin Early /\ "starting" \notin Past BY Zenon,
            Sets
            <7>2. kept'[w] = NoToken BY Zenon, <5>2, <3>c, Carried
            <7> QED BY Zenon, <7>1, <7>2, <6>4, <6>7, <5>2, <3>0, <3>c
            DEF EvidenceOf
          <6> QED BY Zenon, <6>2, <6>3, <6>6, <6>8, <1>WorkersStep DEF LocalStep
        <5> QED BY Zenon, <5>1, <5>2, <3>1
      <4> QED BY Zenon, <4>1, <3>0, <3>1, <2>k, <1>CountSame, <1>RestSame
      DEF StepOK
    <3>2. CASE /\ Resend(w) /\ strayed' = strayed \cup {cur[w]} /\ cur[w] \in strayed'
               /\ \/ Tick("fault") /\ UNCHANGED late
                  \/ Postpone("start", w, cur[w], tok[w], "own")
      <4>1. LocalStep BY Zenon, <3>2, <1>Resent
      <4>2. PostalStep BY Zenon, <3>2, <3>c, <2>o, <1>TickOnly, <1>Kinds,
      <1>SentOwn
      <4>3. RestOK' BY Zenon, <3>0, <3>2, <3>c, <1>RestStrayed
      <4> QED BY Zenon, <4>1, <4>2, <4>3 DEF StepOK
    <3> QED BY Zenon, <2>4, <3>1, <3>2 DEF MarkClaimRunning, Faulty
  <2> QED BY Zenon, <2>1, <2>2, <2>3, <2>4

<1>RunSteps.
  ASSUME Base, Grows, NEW w \in Workers,
         RenewClaim(w) \/ Pulse(w) \/ Finish(w) \/ AbandonRun(w)
  PROVE  StepOK
  <2> USE <1>RunSteps
  <2>k. LocalOK /\ PostalOK /\ RestOK BY Zenon, BaseParts
  <2>o. "own" \in Modes \cup Outcomes BY Zenon, Sets
  <2>g. Guarded(w) => pc[w] \in Owning BY Zenon, Sets DEF Guarded
  <2>1. CASE RenewClaim(w)
    <3>1. /\ Guarded(w) /\ UNCHANGED <<pc, cur, tok, victim, kept, unconf, plan>>
          /\ UNCHANGED <<beat, paused, fresh, cleared, strayed>>
          /\ auth' = auth \/ auth' = [auth EXCEPT ![w] = FALSE]
          /\ UNCHANGED <<late, count>> \/ Postpone("renew", w, cur[w], tok[w], "own")
      BY Zenon, <2>1 DEF RenewClaim, history
    <3>2. auth' \in [Workers -> BOOLEAN] BY Zenon, <3>1, <2>k DEF LocalOK
    <3>5. \A u \in Workers : auth'[u] => auth[u] BY Zenon, <3>1, <2>k
    DEF LocalOK
    <3>3. LocalStep BY Zenon, <3>1, <3>2, <3>5, <1>Quiet
    <3>4. PostalStep BY Zenon, <3>1, <2>k, <2>o, <2>g, <1>CountSame, <1>SentOwn
    <3> QED BY Zenon, <3>1, <3>3, <3>4, <1>RestSame DEF StepOK
  <2>2. CASE Pulse(w)
    <3>1. /\ Guarded(w) /\ UNCHANGED local /\ beat' = [beat EXCEPT ![w] = cur[w]]
          /\ UNCHANGED <<late, count>> /\ UNCHANGED <<paused, fresh, cleared, strayed>>
      BY Zenon, <2>2 DEF Pulse, history
    <3>2. cur[w] \in Jobs BY Zenon, <3>1, <2>g, Carried
    <3>3. LocalStep BY Zenon, <3>1, <2>k, <1>Quiet DEF local, LocalOK
    <3>4. RestOK' BY Zenon, <3>1, <3>2, <1>RestBeat
    <3> QED BY Zenon, <3>1, <3>3, <3>4, <2>k, <1>CountSame DEF StepOK
  <2>3. CASE Finish(w)
    <3>1. /\ pc[w] = "running" /\ late' = late
          /\ UNCHANGED <<cur, tok, victim, kept, unconf, auth>>
          /\ UNCHANGED <<beat, paused, fresh, cleared, strayed>>
          /\ Tick("requeue") \/ UNCHANGED count
      BY Zenon, <2>3 DEF Finish, environment, history
    <3>2. \E p \in {"publish", "requeue", "hold"} : pc' = [pc EXCEPT ![w] = p]
      BY Zenon, <2>3 DEF Finish
    <3> PICK p \in {"publish", "requeue", "hold"} : pc' = [pc EXCEPT ![w] = p]
      BY Zenon, <3>2
    <3>3. plan' \in [Workers -> Outcomes] BY Zenon, <2>3, <2>k DEF Finish,
    LocalOK
    <3>4. p \in Pcs /\ p \in Owning /\ p \notin Reaping /\ pc[w] \in Owning
      BY Zenon, <3>1, Sets
    <3>5. LocalOK' BY Zenon, <3>1, <3>3, <3>4, <2>k DEF LocalOK
    <3>6. Elsewhere(w) BY Zenon, <3>1, <2>k DEF LocalOK, Elsewhere
    <3>7. pc'[w] = p BY Zenon, <2>k DEF LocalOK
    <3>8. WorkerOK(w)' BY Zenon, <3>1, <3>4, <3>7, Carried DEF WorkerOK
    <3>11. EvidenceOf(w)
      <4>1. p \in Past /\ p \notin Early /\ p # "running" BY Zenon, Sets
      <4>2. kept'[w] = NoToken BY Zenon, <3>1, <3>4, Carried
      <4> QED BY Zenon, <4>1, <4>2, <3>1, <3>4, <3>7 DEF EvidenceOf
    <3>9. LocalStep BY Zenon, <3>5, <3>6, <3>8, <3>11, <1>WorkersStep
    DEF LocalStep
    <3>10. PostalStep BY Zenon, <3>1, <1>TickOnly, <1>Kinds
    <3> QED BY Zenon, <3>1, <3>9, <3>10, <1>RestSame DEF StepOK
  <2>4. CASE AbandonRun(w)
    <3>1. /\ Stop(w) /\ UNCHANGED <<late, count>>
          /\ UNCHANGED <<beat, paused, fresh, cleared, strayed>>
      BY Zenon, <2>4 DEF AbandonRun, environment, history
    <3> QED BY Zenon, <3>1, <2>k, <1>Stopped, <1>CountSame, <1>RestSame
    DEF StepOK
  <2> QED BY Zenon, <2>1, <2>2, <2>3, <2>4

<1>PublishSteps.
  ASSUME Base, Grows, NEW w \in Workers,
         CompleteClaim(w) \/ AckClaim(w) \/ RequeueClaim(w) \/ HoldClaim(w)
  PROVE  StepOK
  <2> USE <1>PublishSteps
  <2>k. LocalOK /\ PostalOK /\ RestOK BY Zenon, BaseParts
  <2>o. /\ "own" \in Modes \cup Outcomes /\ "own" \in Modes
        /\ plan[w] \in Outcomes /\ plan[w] \in Modes \cup Outcomes
    BY Zenon, Sets, Carried
  <2>l. Loop(w) => LocalStep BY Zenon, <1>Looped DEF Loop
  <2>s. Stop(w) => LocalStep BY Zenon, <1>Stopped
  <2>r. Resend(w) => LocalStep BY Zenon, <1>Resent
  <2>1. CASE CompleteClaim(w)
    <3>0. /\ pc[w] = "publish" /\ UNCHANGED <<beat, paused, fresh, cleared, strayed>>
          /\ \/ /\ UNCHANGED <<late, count>>
                /\ \/ /\ TerminalFence(w, cur[w], tok[w], plan[w]) /\ CompleteAs(w)
                      /\ Goto(w, "ack")
                   \/ Stop(w)
             \/ /\ Resend(w)
                /\ \/ Tick("fault") /\ UNCHANGED late
                   \/ Postpone("complete", w, cur[w], tok[w], plan[w])
      BY Zenon, <2>1 DEF CompleteClaim, Faulty, history
    <3>1. pc[w] \in Owning /\ pc[w] \in Past BY Zenon, <3>0, Sets
    <3>2. ASSUME TerminalFence(w, cur[w], tok[w], plan[w]), CompleteAs(w), Goto(w, "ack")
          PROVE  LocalStep
      <4>1. cur[w] \in settled' BY Zenon, <3>2 DEF CompleteAs,
      legacyTerminalScript
      <4>2. "ack" \in Pcs /\ "ack" \notin Reaping /\ "ack" \notin Early /\ "ack" \in Past
        BY Zenon, Sets
      <4> QED BY Zenon, <3>1, <3>2, <4>1, <4>2, <1>Moved
    <3>3. LocalStep BY Zenon, <3>0, <3>2, <2>s, <2>r
    <3>4. PostalStep BY Zenon, <3>0, <3>1, <2>k, <2>o, <1>CountSame,
    <1>TickOnly, <1>Kinds, <1>SentOwn
    <3> QED BY Zenon, <3>0, <3>3, <3>4, <1>RestSame DEF StepOK
  <2>2. CASE AckClaim(w)
    <3>0. /\ pc[w] = "ack" /\ UNCHANGED <<beat, paused, fresh, cleared, strayed>>
          /\ \/ UNCHANGED <<late, count>> /\ (Loop(w) \/ Stop(w))
             \/ /\ Resend(w)
                /\ \/ Tick("fault") /\ UNCHANGED late
                   \/ Postpone("ack", w, cur[w], tok[w], "own")
      BY Zenon, <2>2 DEF AckClaim, Faulty, history
    <3>1. pc[w] \in Owning /\ pc[w] \in Past BY Zenon, <3>0, Sets
    <3>3. LocalStep BY Zenon, <3>0, <2>l, <2>s, <2>r
    <3>4. PostalStep BY Zenon, <3>0, <3>1, <2>k, <2>o, <1>CountSame,
    <1>TickOnly, <1>Kinds, <1>SentOwn
    <3> QED BY Zenon, <3>0, <3>3, <3>4, <1>RestSame DEF StepOK
  <2>3. CASE RequeueClaim(w)
    <3>0. /\ pc[w] = "requeue" /\ UNCHANGED <<beat, paused, fresh, cleared, strayed>>
          /\ \/ UNCHANGED <<late, count>> /\ (Loop(w) \/ Stop(w))
             \/ /\ Resend(w)
                /\ \/ Tick("fault") /\ UNCHANGED late
                   \/ Postpone("requeue", w, cur[w], tok[w], "own")
      BY Zenon, <2>3 DEF RequeueClaim, Faulty, history
    <3>1. pc[w] \in Owning /\ pc[w] \in Past BY Zenon, <3>0, Sets
    <3>3. LocalStep BY Zenon, <3>0, <2>l, <2>s, <2>r
    <3>4. PostalStep BY Zenon, <3>0, <3>1, <2>k, <2>o, <1>CountSame,
    <1>TickOnly, <1>Kinds, <1>SentOwn
    <3> QED BY Zenon, <3>0, <3>3, <3>4, <1>RestSame DEF StepOK
  <2>4. CASE HoldClaim(w)
    <3>0. /\ pc[w] = "hold" /\ UNCHANGED <<beat, paused, fresh, cleared, strayed>>
          /\ \/ UNCHANGED <<late, count>> /\ (Loop(w) \/ Stop(w))
             \/ /\ Resend(w)
                /\ \/ Tick("fault") /\ UNCHANGED late
                   \/ Postpone("hold", w, cur[w], tok[w], "own")
      BY Zenon, <2>4 DEF HoldClaim, Faulty, history
    <3>1. pc[w] \in Owning /\ pc[w] \in Past BY Zenon, <3>0, Sets
    <3>3. LocalStep BY Zenon, <3>0, <2>l, <2>s, <2>r
    <3>4. PostalStep BY Zenon, <3>0, <3>1, <2>k, <2>o, <1>CountSame,
    <1>TickOnly, <1>Kinds, <1>SentOwn
    <3> QED BY Zenon, <3>0, <3>3, <3>4, <1>RestSame DEF StepOK
  <2> QED BY Zenon, <2>1, <2>2, <2>3, <2>4

<1>ReadSteps.
  ASSUME Base, Grows, NEW w \in Workers,
         \/ \E v \in Workers, j \in Jobs : ReapList(w, v, j)
         \/ ReapRead(w) \/ ReapExpiry(w) \/ ReapStatus(w) \/ UnstartedRead(w)
  PROVE  StepOK
  <2> USE <1>ReadSteps
  <2>k. LocalOK /\ PostalOK /\ RestOK /\ RecordsOK BY Zenon, BaseParts
  <2>t. /\ cur[w] \in Jobs \cup {NoJob} /\ tok[w] \in AnyToken
        /\ victim[w] \in Workers \cup {NoWorker} /\ kept[w] \in AnyToken
    BY Zenon, LocalTypes DEF Base
  <2>v. Vouched(w, kept[w]) BY Zenon DEF Vouched
  <2>c. w \in unconf => kept[w] # NoToken BY Zenon, Carried
  <2>r. /\ \A p \in Reaping : p \in Pcs /\ p \notin Owning /\ p \notin Early /\ p # "running"
        /\ {"listed", "read", "lapsed", "reack", "rehold", "reap", "unread",
            "unstarted"} \subseteq Reaping
    BY Zenon, Sets
  <2>1. ASSUME NEW v \in Workers, NEW j \in Jobs, ReapList(w, v, j) PROVE StepOK
    <3> PICK p \in {"listed", "unread"} : pc' = [pc EXCEPT ![w] = p]
      BY Zenon, <2>1 DEF ReapList
    <3>1. /\ cur' = [cur EXCEPT ![w] = j] /\ victim' = [victim EXCEPT ![w] = v]
          /\ UNCHANGED <<tok, kept, unconf, auth, plan>> /\ UNCHANGED <<late, count>>
          /\ UNCHANGED <<beat, paused, fresh, cleared, strayed>>
      BY Zenon, <2>1 DEF ReapList, environment, history
    <3>2. p \in Reaping /\ p \notin {"ack", "reack"} /\ p # "rehold" BY Zenon,
    <2>r
    <3>4. LocalOK' BY Zenon, <3>1, <3>2, <2>r, <2>k DEF LocalOK
    <3>5. Elsewhere(w) BY Zenon, <3>1, <2>k DEF LocalOK, Elsewhere
    <3>6. pc'[w] = p /\ cur'[w] = j /\ victim'[w] = v /\ kept'[w] = kept[w]
      BY Zenon, <3>1, <2>k DEF LocalOK
    <3>3. LocalStep BY Zenon, <3>1, <3>2, <3>4, <3>5, <3>6, <2>c, <2>r, <2>v,
    <1>Taken
    <3> QED BY Zenon, <3>1, <3>3, <2>k, <1>CountSame, <1>RestSame DEF StepOK
  <2>2. CASE ReapRead(w)
    <3>0. /\ pc[w] = "listed" /\ UNCHANGED <<cur, victim, kept, unconf, auth, plan>>
          /\ UNCHANGED <<late, count>> /\ UNCHANGED <<beat, paused, fresh, cleared, strayed>>
          /\ UNCHANGED redis
      BY Zenon, <2>2 DEF ReapRead, environment, history
    <3>1. cur[w] \in Jobs /\ victim[w] \in Workers BY Zenon, <3>0, <2>r, Carried
    <3>2. held[cur[w]] \in AnyToken /\ token[cur[w]] \in AnyToken
      BY Zenon, <3>1, <2>k DEF RecordsOK, RedisOK
    <3>3. held' = held BY Zenon, <3>0 DEF redis, records
    <3>4. CASE /\ held[cur[w]] # NoToken /\ pc' = [pc EXCEPT ![w] = "rehold"]
               /\ tok' = [tok EXCEPT ![w] = held[cur[w]]]
      <4>1. held[cur[w]] \in Tokens BY Zenon, <3>2, <3>4 DEF AnyToken
      <4>3. LocalOK' BY Zenon, <3>0, <3>2, <3>4, <2>r, <2>k DEF LocalOK
      <4>4. Elsewhere(w) BY Zenon, <3>0, <3>4, <2>k DEF LocalOK, Elsewhere
      <4>5. pc'[w] = "rehold" /\ tok'[w] = held[cur[w]] BY Zenon, <3>4,
      <2>k DEF LocalOK
      <4>2. LocalStep
        BY Zenon, <3>0, <3>1, <3>3, <3>4, <4>1, <4>3, <4>4, <4>5, <2>c, <2>r,
           <2>v, <1>Taken
      <4> QED BY Zenon, <3>0, <4>2, <2>k, <1>CountSame, <1>RestSame DEF StepOK
    <3>5. CASE /\ pc' = [pc EXCEPT ![w] = "read"]
               /\ tok' = [tok EXCEPT ![w] = token[cur[w]]]
      <4>3. LocalOK' BY Zenon, <3>0, <3>2, <3>5, <2>r, <2>k DEF LocalOK
      <4>4. Elsewhere(w) BY Zenon, <3>0, <3>5, <2>k DEF LocalOK, Elsewhere
      <4>5. pc'[w] = "read" BY Zenon, <3>5, <2>k DEF LocalOK
      <4>2. LocalStep BY Zenon, <3>0, <3>1, <4>3, <4>4, <4>5, <2>c, <2>r, <2>v,
      <1>Taken
      <4> QED BY Zenon, <3>0, <4>2, <2>k, <1>CountSame, <1>RestSame DEF StepOK
    <3> QED BY Zenon, <2>2, <3>4, <3>5 DEF ReapRead
  <2>3. CASE ReapExpiry(w)
    <3>0. /\ pc[w] = "read" /\ UNCHANGED <<late, count>>
          /\ UNCHANGED <<beat, paused, fresh, cleared, strayed>>
          /\ Goto(w, "lapsed") \/ (Forget(w, "scanned") /\ UNCHANGED <<kept, unconf>>)
      BY Zenon, <2>3 DEF ReapExpiry, environment, history
    <3>1. LocalStep BY Zenon, <3>0, <2>r, <1>Moved, <1>Looped
    <3> QED BY Zenon, <3>0, <3>1, <2>k, <1>CountSame, <1>RestSame DEF StepOK
  <2>4. CASE ReapStatus(w)
    <3>0. /\ pc[w] = "lapsed" /\ UNCHANGED <<late, count>>
          /\ UNCHANGED <<beat, paused, fresh, cleared, strayed>>
          /\ \/ status[cur[w]] \in Outcomes /\ Goto(w, "reack")
             \/ Goto(w, "reap")
      BY Zenon, <2>4 DEF ReapStatus, environment, history
    <3>1. cur[w] \in Jobs BY Zenon, <3>0, <2>r, Carried
    <3>2. status[cur[w]] \in Outcomes => cur[w] \in settled'
      BY Zenon, <3>1, <2>k DEF RecordsOK, OutcomesOK, Outcome, Grows
    <3>3. LocalStep BY Zenon, <3>0, <3>2, <2>r, <1>Moved
    <3> QED BY Zenon, <3>0, <3>3, <2>k, <1>CountSame, <1>RestSame DEF StepOK
  <2>5. CASE UnstartedRead(w)
    <3>0. /\ pc[w] = "unread" /\ UNCHANGED <<kept, unconf>> /\ UNCHANGED <<late, count>>
          /\ UNCHANGED <<beat, paused, fresh, cleared, strayed>>
          /\ \/ /\ pc' = [pc EXCEPT ![w] = "unstarted"]
                /\ tok' = [tok EXCEPT ![w] = token[cur[w]]]
                /\ UNCHANGED <<cur, victim, auth, plan>>
             \/ Forget(w, "scanned")
      BY Zenon, <2>5 DEF UnstartedRead, environment, history
    <3>1. cur[w] \in Jobs /\ victim[w] \in Workers BY Zenon, <3>0, <2>r, Carried
    <3>2. token[cur[w]] \in AnyToken BY Zenon, <3>1, <2>k DEF RecordsOK, RedisOK
    <3>4. ASSUME pc' = [pc EXCEPT ![w] = "unstarted"],
                 tok' = [tok EXCEPT ![w] = token[cur[w]]],
                 UNCHANGED <<cur, victim, auth, plan>>
          PROVE  LocalStep
      <4>3. LocalOK' BY Zenon, <3>0, <3>2, <3>4, <2>r, <2>k DEF LocalOK
      <4>4. Elsewhere(w) BY Zenon, <3>0, <3>4, <2>k DEF LocalOK, Elsewhere
      <4>5. pc'[w] = "unstarted" BY Zenon, <3>4, <2>k DEF LocalOK
      <4> QED BY Zenon, <3>0, <3>1, <3>4, <4>3, <4>4, <4>5, <2>c, <2>r, <2>v,
      <1>Taken
    <3>3. LocalStep BY Zenon, <3>0, <3>4, <1>Looped
    <3> QED BY Zenon, <3>0, <3>3, <2>k, <1>CountSame, <1>RestSame DEF StepOK
  <2> QED BY Zenon, <2>1, <2>2, <2>3, <2>4, <2>5

<1>ReapSteps.
  ASSUME Base, Grows, NEW w \in Workers,
         ReapAck(w) \/ ReapHold(w) \/ ReapRequeue(w) \/ UnstartedRequeue(w)
  PROVE  StepOK
  <2> USE <1>ReapSteps
  <2>k. PostalOK BY Zenon, BaseParts
  <2>r. /\ {"reack", "rehold", "reap", "unstarted"} \subseteq Reaping
        /\ {"expired", "unstarted"} \subseteq Modes \ {"own"}
    BY Zenon, Sets
  <2>0. ASSUME NEW p \in {"reack", "rehold", "reap", "unstarted"},
               NEW o \in {"ack", "requeue", "hold"}, NEW m \in Modes \ {"own"},
               pc[w] = p, Forget(w, "scanned"), UNCHANGED <<kept, unconf>>,
               UNCHANGED <<late, count>> \/ Postpone(o, victim[w], cur[w], tok[w], m),
               UNCHANGED <<beat, paused, history>>,
               o = "ack" => p = "reack", o = "hold" => p = "rehold"
        PROVE  StepOK
    <3>1. LocalStep BY Zenon, <2>0, <1>Looped
    <3>2. PostalStep BY Zenon, <2>0, <2>k, <2>r, <1>CountSame, <1>SentReap
    <3>3. RestOK' BY Zenon, <2>0, <1>RestSame DEF history
    <3> QED BY Zenon, <3>1, <3>2, <3>3 DEF StepOK
  <2>1. CASE ReapAck(w) BY Zenon, <2>0, <2>1, <2>r DEF ReapAck, Reap
  <2>2. CASE ReapHold(w) BY Zenon, <2>0, <2>2, <2>r DEF ReapHold, Reap
  <2>3. CASE ReapRequeue(w) BY Zenon, <2>0, <2>3, <2>r DEF ReapRequeue, Reap
  <2>4. CASE UnstartedRequeue(w) BY Zenon, <2>0, <2>4, <2>r
  DEF UnstartedRequeue, Reap
  <2> QED BY Zenon, <2>1, <2>2, <2>3, <2>4

<1>ClockSteps.
  ASSUME Base, Grows, NEW w \in Workers,
         BeatExpires(w) \/ DeadlinePasses(w) \/ Die(w) \/ Restart(w)
  PROVE  StepOK
  <2> USE <1>ClockSteps
  <2>k. LocalOK /\ PostalOK /\ RestOK BY Zenon, BaseParts
  <2>1. CASE BeatExpires(w)
    <3>1. /\ beat' = [beat EXCEPT ![w] = "absent"] /\ UNCHANGED <<paused, fresh, cleared, strayed>>
          /\ UNCHANGED local /\ late' = late /\ (Tick("fault") \/ UNCHANGED count)
      BY Zenon, <2>1 DEF BeatExpires, Prevented, history
    <3>2. LocalStep BY Zenon, <3>1, <2>k, <1>Quiet DEF local, LocalOK
    <3>3. PostalStep BY Zenon, <3>1, <1>TickOnly, <1>Kinds
    <3> QED BY Zenon, <3>1, <3>2, <3>3, <1>RestBeat DEF StepOK
  <2>2. CASE DeadlinePasses(w)
    <3>1. /\ auth' = [auth EXCEPT ![w] = FALSE] /\ Tick("fault") /\ late' = late
          /\ UNCHANGED <<pc, cur, tok, victim, kept, unconf, plan>>
          /\ UNCHANGED <<beat, paused, fresh, cleared, strayed>>
      BY Zenon, <2>2 DEF DeadlinePasses, environment, history
    <3>2. auth' \in [Workers -> BOOLEAN] BY Zenon, <3>1, <2>k DEF LocalOK
    <3>5. \A u \in Workers : auth'[u] => auth[u] BY Zenon, <3>1, <2>k
    DEF LocalOK
    <3>3. LocalStep BY Zenon, <3>1, <3>2, <3>5, <1>Quiet
    <3>4. PostalStep BY Zenon, <3>1, <1>TickOnly, <1>Kinds
    <3> QED BY Zenon, <3>1, <3>3, <3>4, <1>RestSame DEF StepOK
  <2>3. CASE Die(w)
    <3>1. /\ Stop(w) /\ Tick("fault") /\ late' = late
          /\ UNCHANGED <<beat, paused, fresh, cleared, strayed>>
      BY Zenon, <2>3 DEF Die, environment, history
    <3>2. PostalStep BY Zenon, <3>1, <1>TickOnly, <1>Kinds
    <3> QED BY Zenon, <3>1, <3>2, <1>Stopped, <1>RestSame DEF StepOK
  <2>4. CASE Restart(w)
    <3>1. /\ Goto(w, "top") /\ UNCHANGED <<late, count>>
          /\ UNCHANGED <<beat, paused, fresh, cleared, strayed>>
      BY Zenon, <2>4 DEF Restart, environment, history
    <3>2. /\ "top" \in Pcs /\ "top" \notin Owning /\ "top" \notin Reaping
          /\ "top" \notin Early
      BY Zenon, Sets
    <3>3. LocalStep BY Zenon, <3>1, <3>2, <1>Moved
    <3> QED BY Zenon, <3>1, <3>3, <2>k, <1>CountSame, <1>RestSame DEF StepOK
  <2> QED BY Zenon, <2>1, <2>2, <2>3, <2>4

<1>OtherSteps.
  ASSUME Base, Grows,
         \/ \E j \in Jobs : \/ Enqueue(j) \/ ClearFinished(j) \/ RecordExpires(j)
                            \/ LeaseExpires(j) \/ GracePasses(j)
         \/ \E r \in late : Deliver(r) \/ Discard(r)
         \/ SetPaused \/ UNCHANGED vars
  PROVE  StepOK
  <2> USE <1>OtherSteps
  <2>k. LocalOK /\ PostalOK /\ RestOK BY Zenon, BaseParts
  <2>q. UNCHANGED local => LocalStep BY Zenon, <2>k, <1>Quiet DEF local, LocalOK
  <2>1. ASSUME NEW j \in Jobs, Enqueue(j) PROVE StepOK
    <3>1. /\ UNCHANGED local /\ fresh' = fresh \ {j} /\ UNCHANGED <<late, count>>
          /\ UNCHANGED <<beat, paused, cleared, strayed>>
      BY Zenon, <2>1 DEF Enqueue, environment
    <3>2. RestOK' BY Zenon, <3>1, <2>k DEF RestOK
    <3> QED BY Zenon, <3>1, <3>2, <2>k, <2>q, <1>CountSame DEF StepOK
  <2>2. ASSUME NEW j \in Jobs, ClearFinished(j) PROVE StepOK
    <3>1. /\ UNCHANGED local /\ cleared' = cleared \cup {j} /\ late' = late
          /\ Tick("clear") /\ UNCHANGED <<beat, paused, fresh, strayed>>
      BY Zenon, <2>2 DEF ClearFinished, environment
    <3>2. RestOK' BY Zenon, <3>1, <2>k DEF RestOK
    <3>3. PostalStep BY Zenon, <3>1, <1>TickOnly, <1>Kinds
    <3> QED BY Zenon, <3>1, <3>2, <3>3, <2>q DEF StepOK
  <2>3. ASSUME NEW j \in Jobs, RecordExpires(j) \/ LeaseExpires(j) \/ GracePasses(j)
        PROVE  StepOK
    <3>1. /\ UNCHANGED local /\ late' = late
          /\ UNCHANGED <<beat, paused, fresh, cleared, strayed>>
          /\ Tick("clear") \/ Tick("fault") \/ UNCHANGED count
      BY Zenon, <2>3
      DEF RecordExpires, LeaseExpires, GracePasses, Prevented, environment,
      history
    <3>2. PostalStep BY Zenon, <3>1, <1>TickOnly, <1>Kinds
    <3> QED BY Zenon, <3>1, <3>2, <2>q, <1>RestSame DEF StepOK
  <2>4. ASSUME NEW r \in late, Deliver(r) \/ Discard(r) PROVE StepOK
    <3>1. /\ UNCHANGED local /\ late' \subseteq late /\ UNCHANGED count
          /\ UNCHANGED <<beat, paused, fresh, cleared, strayed>>
      BY Zenon, <2>4 DEF Deliver, Discard, history
    <3>2. PostalStep BY Zenon, <3>1, <1>TickOnly, <1>Kinds
    <3> QED BY Zenon, <3>1, <3>2, <2>q, <1>RestSame DEF StepOK
  <2>5. CASE SetPaused
    <3>1. /\ UNCHANGED local /\ late' = late /\ paused' = ~paused
          /\ UNCHANGED <<beat, fresh, cleared, strayed>>
          /\ Tick("pause") \/ UNCHANGED count
      BY Zenon, <2>5 DEF SetPaused, history
    <3>2. RestOK' BY Zenon, <3>1, <2>k DEF RestOK
    <3>3. PostalStep BY Zenon, <3>1, <1>TickOnly, <1>Kinds
    <3> QED BY Zenon, <3>1, <3>2, <3>3, <2>q DEF StepOK
  <2>6. CASE UNCHANGED vars
    <3>1. /\ UNCHANGED local /\ UNCHANGED <<late, count>>
          /\ UNCHANGED <<beat, paused, fresh, cleared, strayed>>
      BY Zenon, <2>6 DEF vars, environment, history
    <3> QED BY Zenon, <3>1, <2>k, <2>q, <1>CountSame, <1>RestSame DEF StepOK
  <2> QED BY Zenon, <2>1, <2>2, <2>3, <2>4, <2>5, <2>6

<1> SUFFICES ASSUME Base, [Next]_vars
             PROVE  Base' /\ Grows /\ Evidence /\ LateEvidence
  BY Zenon
<1>1. RecordsOK' /\ Grows
  BY Zenon, NextEffect, EffectRecords, EnqueueRecords, BaseParts DEF Remembers
<1>2. ASSUME NEW w \in Workers,
             \/ Work(w) \/ Recover(w) \/ ClaimFails(w) \/ RenewClaim(w) \/ Pulse(w)
             \/ BeatExpires(w) \/ DeadlinePasses(w) \/ Die(w) \/ Restart(w)
      PROVE  StepOK
  BY Zenon, <1>1, <1>2, <1>ClaimSteps, <1>StartSteps, <1>RunSteps,
     <1>PublishSteps, <1>ReadSteps,
     <1>ReapSteps, <1>ClockSteps DEF Work, Recover
<1>3. StepOK BY Zenon, <1>1, <1>2, <1>OtherSteps DEF Next
<1>4. /\ LocalOK' /\ WorkersOK' /\ PostalOK' /\ RestOK' /\ Evidence /\ LateEvidence
  BY Zenon, <1>3 DEF StepOK, LocalStep, PostalStep
<1>5. Base' <=> RecordsOK' /\ LocalOK' /\ WorkersOK' /\ PostalOK' /\ RestOK'
  BY BaseParts, PTL
<1> QED BY Zenon, <1>1, <1>4, <1>5

LEMMA InitBase == Init => Base
<1> SUFFICES ASSUME Init PROVE Base OBVIOUS
<1>a. /\ "none" \in Statuses /\ "done" \in Outcomes /\ "top" \in Pcs
      /\ NoMark \in [token : AnyToken, mode : Modes]
  BY Zenon, Constants, Sets DEF Outcomes
<1>b. RedisOK BY Zenon, <1>a, TokenFacts DEF Init, RedisOK
<1>c. LocalOK BY Zenon, <1>a, TokenFacts DEF Init, LocalOK
<1>d. count \in [DOMAIN Bounds -> Nat] BY SMT DEF Init
<1>e. OtherOK BY Zenon, <1>d DEF Init, OtherOK
<1>1. TypeOK BY Zenon, <1>b, <1>c, <1>e, TypeParts
<1>2. \A w \in Workers : pc[w] = "top" /\ w \notin unconf BY Zenon DEF Init
<1>3. WorkersOK
  BY Zenon, <1>2 DEF WorkersOK, WorkerOK, Owning, Early, Past, Reaping
<1>4. LateOK BY Zenon DEF Init, LateOK
<1>5. OutcomesOK BY Zenon DEF Init, OutcomesOK, Outcome, Outcomes
<1> QED BY Zenon, <1>1, <1>3, <1>4, <1>5 DEF Base

\* Every record, process and request of the farm stays well formed: the
\* state that the queue's scripts and the workers' loops keep has its type.
THEOREM FarmTypeCorrect == Spec => []TypeOK
<1>1. Base /\ [Next]_vars => Base' BY Zenon, NextStep
<1>2. Base => TypeOK BY Zenon DEF Base
<1> QED BY InitBase, <1>1, <1>2, PTL DEF Spec


-----------------------------------------------------------------------------
(* Custody: every job is in one place, and a job that is neither to come    *)
(* nor settled is in the lane, held, or on a list that the index names.     *)

CustodyOf(j) ==
  /\ j \in lane => \A w \in Workers : j \notin proc[w]
  /\ \A v, w \in Workers : j \in proc[v] /\ j \in proc[w] => v = w
  /\ held[j] # NoToken => /\ j \notin lane /\ status[j] = "blocked"
                          /\ \A w \in Workers : j \notin proc[w]
  /\ j \in fresh => /\ j \notin lane /\ held[j] = NoToken /\ j \notin settled
                    /\ \A w \in Workers : j \notin proc[w]
  /\ \A w \in Workers : j \in proc[w] => w \in index
  /\ \/ j \in fresh \/ j \in settled \/ j \in lane \/ held[j] # NoToken
     \/ \E w \in Workers : j \in proc[w]

Custody == \A j \in Jobs : CustodyOf(j)

\* A job that a step does not touch stays in custody.
LEMMA Untouched ==
  ASSUME NEW j \in Jobs, CustodyOf(j),
         j \in lane' <=> j \in lane, held'[j] = held[j], status'[j] = status[j],
         j \in fresh' <=> j \in fresh, j \in settled' <=> j \in settled,
         \A w \in Workers : j \in proc'[w] <=> j \in proc[w],
         \A w \in Workers : j \in proc[w] => w \in index'
  PROVE  CustodyOf(j)'
BY Zenon DEF CustodyOf

\* The receipt of j leaves the list of w; every other receipt stays indexed.
LEMMA Dropped ==
  ASSUME RedisOK, NEW w \in Workers, NEW j \in Jobs, Drop(w, j)
  PROVE  /\ j \notin proc'[w]
         /\ \A v \in Workers : v # w => proc'[v] = proc[v]
         /\ \A v \in Workers, i \in Jobs : i # j => (i \in proc'[v] <=> i \in proc[v])
         /\ \A v \in Workers : v # w => (v \in index' <=> v \in index)
         /\ \A i \in Jobs : i # j /\ i \in proc[w] /\ w \in index => w \in index'
<1>1. proc' = [proc EXCEPT ![w] = @ \ {j}] BY Zenon DEF Drop
<1>2. index' = IF proc[w] \subseteq {j} THEN index \ {w} ELSE index BY Zenon DEF Drop
<1>3. \A v \in Workers : v # w => proc'[v] = proc[v] BY Zenon, <1>1 DEF RedisOK
<1>4. proc'[w] = proc[w] \ {j} BY Zenon, <1>1 DEF RedisOK
<1>5. \A v \in Workers, i \in Jobs : i # j => (i \in proc'[v] <=> i \in proc[v])
  BY Zenon, <1>3, <1>4
<1> QED BY Zenon, <1>2, <1>3, <1>4, <1>5

LEMMA OtherStatus ==
  ASSUME RedisOK, NEW j \in Jobs, NEW x, status' = [status EXCEPT ![j] = x]
  PROVE  status'[j] = x /\ \A i \in Jobs : i # j => status'[i] = status[i]
BY Zenon DEF RedisOK

LEMMA CustodyStep == Base /\ Custody /\ [Next]_vars => Custody'
\* The receipt of j leaves the only list that holds it, and j is settled,
\* back in the lane or held: so is the custody of every job kept.
<1>DropCustody.
  ASSUME RedisOK, Custody, NEW w \in Workers, NEW j \in Jobs, Drop(w, j),
         \A i \in Jobs : i # j => /\ i \in lane' <=> i \in lane
                                  /\ held'[i] = held[i] /\ status'[i] = status[i],
         settled' = settled, fresh' = fresh,
         j \in lane' => j \in proc[w] \/ j \in lane,
         held'[j] # NoToken => /\ j \notin lane' /\ status'[j] = "blocked"
                               /\ (j \in proc[w] \/ held[j] # NoToken),
         j \in fresh => j \notin proc[w],
         j \notin proc[w] => (j \in lane' <=> j \in lane) /\ held'[j] = held[j],
         j \in settled \/ j \in lane' \/ held'[j] # NoToken
  PROVE  Custody'
  <2> USE <1>DropCustody
  <2>d. /\ j \notin proc'[w]
        /\ \A v \in Workers : v # w => proc'[v] = proc[v]
        /\ \A v \in Workers, i \in Jobs : i # j => (i \in proc'[v] <=> i \in proc[v])
        /\ \A v \in Workers : v # w => (v \in index' <=> v \in index)
        /\ \A i \in Jobs : i # j /\ i \in proc[w] /\ w \in index => w \in index'
    BY Zenon, Dropped
  <2>1. ASSUME NEW i \in Jobs, i # j PROVE CustodyOf(i)'
    <3>1. CustodyOf(i) BY Zenon DEF Custody
    <3>2. \A v \in Workers : i \in proc[v] => v \in index'
      BY Zenon, <2>d, <2>1, <3>1 DEF CustodyOf
    <3>3. \A v \in Workers : i \in proc'[v] <=> i \in proc[v] BY Zenon, <2>d,
    <2>1
    <3> QED BY Zenon, <2>1, <3>1, <3>2, <3>3, Untouched
  <2>2. CustodyOf(j)'
    <3>0. CustodyOf(j) BY Zenon DEF Custody
    <3>1. CASE j \in proc[w]
      <4>1. \A v \in Workers : j \notin proc'[v] BY Zenon, <2>d, <3>0, <3>1
      DEF CustodyOf
      <4>2. j \notin fresh' BY Zenon, <3>1
      <4> QED BY Zenon, <4>1, <4>2 DEF CustodyOf
    <3>2. CASE j \notin proc[w]
      <4>1. \A v \in Workers : j \in proc'[v] <=> j \in proc[v] BY Zenon, <2>d,
      <3>2
      <4>2. \A v \in Workers : j \in proc'[v] => v \in index'
        BY Zenon, <2>d, <3>0, <3>2, <4>1 DEF CustodyOf
      <4> QED BY Zenon, <4>1, <4>2, <3>0, <3>2 DEF CustodyOf
    <3> QED BY Zenon, <3>1, <3>2
  <2> QED BY Zenon, <2>1, <2>2 DEF Custody

\* A step that moves nothing, and changes the status of a job that is not
\* held at most, keeps custody.
<1>InPlace.
  ASSUME Custody, NEW j \in Jobs, held[j] = NoToken,
         UNCHANGED <<lane, proc, index, held, fresh>>,
         \A i \in Jobs : i # j => status'[i] = status[i],
         \/ settled' = settled
         \/ settled' = settled \cup {j} /\ \E w \in Workers : j \in proc[w]
  PROVE  Custody'
  <2> USE <1>InPlace
  <2>1. ASSUME NEW i \in Jobs, i # j PROVE CustodyOf(i)'
    <3>1. CustodyOf(i) BY Zenon DEF Custody
    <3>2. \A w \in Workers : i \in proc[w] => w \in index' BY Zenon, <3>1
    DEF CustodyOf
    <3>3. i \in settled' <=> i \in settled BY Zenon, <2>1
    <3> QED BY Zenon, <2>1, <3>1, <3>2, <3>3, Untouched
  <2>2. CustodyOf(j)'
    <3>1. CustodyOf(j) BY Zenon DEF Custody
    <3> QED BY Zenon, <3>1 DEF CustodyOf
  <2> QED BY Zenon, <2>1, <2>2 DEF Custody

<1>NothingMoves.
  ASSUME Custody, UNCHANGED <<lane, proc, index, held, fresh, status, settled>>
  PROVE  Custody'
  BY <1>NothingMoves, Zenon DEF Custody, CustodyOf

<1>CustodyEffect.
  ASSUME RedisOK, Custody, RedisEffect, fresh' = fresh
  PROVE  Custody'
  <2> USE <1>CustodyEffect
  <2>1. CASE UNCHANGED redis BY Zenon, <2>1, <1>NothingMoves DEF redis, records
  <2>2. CASE ClaimEffect
    <3> PICK w \in Workers, t \in Tokens, j \in Jobs : claimForWorkerScript(w, t, j)
      BY Zenon, <2>2 DEF ClaimEffect
    <3>1. CASE UNCHANGED <<lane, proc, index, status, token, owner, lease, mark, held, settled>>
      BY Zenon, <3>1, <1>NothingMoves
    <3>2. CASE /\ j \in lane /\ held[j] = NoToken /\ lane' = lane \ {j}
               /\ proc' = [proc EXCEPT ![w] = @ \cup {j}] /\ index' = index \cup {w}
               /\ status' = [status EXCEPT ![j] = IF @ = "none" THEN "queued" ELSE @]
               /\ UNCHANGED <<held, settled>>
      <4>1. proc'[w] = proc[w] \cup {j} /\ \A v \in Workers : v # w => proc'[v] = proc[v]
        BY Zenon, <3>2 DEF RedisOK
      <4>2. \A i \in Jobs : i # j => status'[i] = status[i] BY Zenon, <3>2
      DEF RedisOK
      <4>3. CustodyOf(j) BY Zenon DEF Custody
      <4>4. CustodyOf(j)'
        <5>1. \A v \in Workers : j \in proc'[v] => v = w
          BY Zenon, <4>1, <4>3, <3>2 DEF CustodyOf
        <5>2. j \in proc'[w] /\ w \in index' /\ j \notin lane' /\ j \notin fresh'
          BY Zenon, <4>1, <4>3, <3>2 DEF CustodyOf
        <5> QED BY Zenon, <5>1, <5>2, <3>2 DEF CustodyOf
      <4>5. ASSUME NEW i \in Jobs, i # j PROVE CustodyOf(i)'
        <5>1. CustodyOf(i) BY Zenon DEF Custody
        <5>2. \A v \in Workers : i \in proc'[v] <=> i \in proc[v] BY Zenon,
        <4>1, <4>5
        <5>3. \A v \in Workers : i \in proc[v] => v \in index'
          BY Zenon, <5>1, <3>2 DEF CustodyOf
        <5> QED BY Zenon, <5>1, <5>2, <5>3, <4>2, <4>5, <3>2, Untouched
      <4> QED BY Zenon, <4>4, <4>5 DEF Custody
    <3> QED BY Zenon, <3>1, <3>2 DEF claimForWorkerScript
  <2>3. CASE StartEffect
    <3> PICK w \in Workers, t \in AnyToken, j \in Jobs :
          Delivered(w, j, t) /\ markRunningScript(w, j)
      BY Zenon, <2>3 DEF StartEffect
    <3>1. /\ held[j] = NoToken /\ status' = [status EXCEPT ![j] = "running"]
          /\ UNCHANGED <<lane, proc, index, held, settled>>
      BY Zenon DEF Delivered, markRunningScript
    <3> QED BY Zenon, <3>1, OtherStatus, <1>InPlace
  <2>4. CASE RenewEffect BY Zenon, <2>4, <1>NothingMoves DEF RenewEffect,
  renewScript
  <2>5. CASE OutcomeEffect
    <3> PICK w \in Workers, t \in AnyToken, j \in Jobs, x \in Outcomes :
          TerminalFence(w, j, t, x) /\ legacyTerminalScript(j, x)
      BY Zenon, <2>5 DEF OutcomeEffect
    <3>1. /\ held[j] = NoToken /\ j \in proc[w] /\ status' = [status EXCEPT ![j] = x]
          /\ settled' = settled \cup {j} /\ UNCHANGED <<lane, proc, index, held>>
      BY Zenon DEF TerminalFence, Delivered, legacyTerminalScript
    <3> QED BY Zenon, <3>1, OtherStatus, <1>InPlace
  <2>6. CASE AckEffect
    <3> PICK w \in Workers, t \in AnyToken, j \in settled : AckFence(w, j, t) /\ ackScript(w, j)
      BY Zenon, <2>6 DEF AckEffect
    <3>1. /\ held[j] = NoToken /\ Drop(w, j) /\ UNCHANGED <<lane, status, held, settled>>
      BY Zenon DEF AckFence, ackScript
    <3>2. j \in Jobs BY Zenon DEF RedisOK
    <3>3. CustodyOf(j) BY Zenon, <3>2 DEF Custody
    <3>4. j \notin fresh BY Zenon, <3>3 DEF CustodyOf
    <3> QED BY Zenon, <3>1, <3>2, <3>4, <1>DropCustody
  <2>7. CASE RequeueEffect
    <3> PICK w \in Workers, t \in AnyToken, j \in Jobs, m \in Modes :
          RequeueFence(w, j, t, m) /\ requeueScript(w, j, t, m)
      BY Zenon, <2>7 DEF RequeueEffect
    <3>1. /\ held[j] = NoToken /\ j \in proc[w] /\ Drop(w, j) /\ lane' = lane \cup {j}
          /\ status' = [status EXCEPT ![j] = "queued"] /\ UNCHANGED <<held, settled>>
      BY Zenon DEF RequeueFence, requeueScript
    <3>2. CustodyOf(j) BY Zenon DEF Custody
    <3>3. j \notin fresh BY Zenon, <3>1, <3>2 DEF CustodyOf
    <3>4. \A i \in Jobs : i # j => /\ i \in lane' <=> i \in lane
                                   /\ held'[i] = held[i] /\ status'[i] = status[i]
      BY Zenon, <3>1, OtherStatus
    <3> QED BY Zenon, <3>1, <3>3, <3>4, <1>DropCustody
  <2>8. CASE HoldEffect
    <3> PICK w \in Workers, t \in Tokens, j \in Jobs :
          HoldFence(w, j, t) /\ holdClaimScript(w, j, t)
      BY Zenon, <2>8 DEF HoldEffect
    <3>1. /\ Drop(w, j) /\ held' = [held EXCEPT ![j] = t]
          /\ status' = [status EXCEPT ![j] = "blocked"] /\ UNCHANGED <<lane, settled>>
      BY Zenon DEF holdClaimScript
    <3>2. CustodyOf(j) BY Zenon DEF Custody
    <3>3. /\ held'[j] = t /\ t # NoToken /\ \A i \in Jobs : i # j => held'[i] = held[i]
      BY Zenon, <3>1, TokenFacts DEF RedisOK
    <3>4. (held[j] # NoToken /\ held[j] = t) \/ j \in proc[w]
      BY Zenon DEF HoldFence, RenewFence, Delivered
    <3>5. j \notin lane /\ (j \in fresh => j \notin proc[w]) /\ (j \notin proc[w] => held'[j] = held[j])
      BY Zenon, <3>2, <3>3, <3>4 DEF CustodyOf
    <3>6. status'[j] = "blocked" /\ \A i \in Jobs : i # j => status'[i] = status[i]
      BY Zenon, <3>1, OtherStatus
    <3>7. held'[j] # NoToken => /\ j \notin lane' /\ status'[j] = "blocked"
                                /\ (j \in proc[w] \/ held[j] # NoToken)
      BY Zenon, <3>1, <3>4, <3>5, <3>6
    <3>8. \A i \in Jobs : i # j => /\ i \in lane' <=> i \in lane
                                   /\ held'[i] = held[i] /\ status'[i] = status[i]
      BY Zenon, <3>1, <3>3, <3>6
    <3> QED BY Zenon, <3>1, <3>3, <3>5, <3>7, <3>8, <1>DropCustody
  <2>9. ASSUME NEW j \in Jobs, held[j] = NoToken, DeleteRecord(j) PROVE Custody'
    <3>1. status' = [status EXCEPT ![j] = "none"] /\ UNCHANGED <<lane, proc, index, held, settled>>
      BY Zenon, <2>9 DEF DeleteRecord
    <3> QED BY Zenon, <3>1, <2>9, OtherStatus, <1>InPlace
  <2>10. CASE ClearEffect BY Zenon, <2>9, <2>10 DEF ClearEffect
  <2>11. CASE ExpiryEffect
    <3> PICK j \in lane : DeleteRecord(j) BY Zenon, <2>11 DEF ExpiryEffect
    <3>1. j \in Jobs BY Zenon DEF RedisOK
    <3>2. held[j] = NoToken BY Zenon, <3>1 DEF Custody, CustodyOf
    <3> QED BY Zenon, <2>9, <3>1, <3>2
  <2>12. CASE LapseEffect BY Zenon, <2>12, <1>NothingMoves DEF LapseEffect
  <2>13. CASE GraceEffect BY Zenon, <2>13, <1>NothingMoves DEF GraceEffect
  <2> QED
    BY Zenon, <2>1, <2>2, <2>3, <2>4, <2>5, <2>6, <2>7, <2>8, <2>10, <2>11,
       <2>12, <2>13
    DEF RedisEffect

<1>CustodyEnqueue.
  ASSUME RedisOK, Custody, NEW j \in Jobs, Enqueue(j)
  PROVE  Custody'
  <2> USE <1>CustodyEnqueue
  <2>1. /\ j \in fresh /\ fresh' = fresh \ {j} /\ lane' = lane \cup {j}
        /\ status' = [status EXCEPT ![j] = "queued"]
        /\ UNCHANGED <<proc, index, held, settled>>
    BY Zenon DEF Enqueue
  <2>2. \A i \in Jobs : i # j => status'[i] = status[i] BY Zenon, <2>1,
  OtherStatus
  <2>3. ASSUME NEW i \in Jobs, i # j PROVE CustodyOf(i)'
    <3>1. CustodyOf(i) BY Zenon DEF Custody
    <3>2. \A w \in Workers : i \in proc[w] => w \in index' BY Zenon, <2>1,
    <3>1 DEF CustodyOf
    <3> QED BY Zenon, <2>1, <2>2, <2>3, <3>1, <3>2, Untouched
  <2>4. CustodyOf(j)'
    <3>1. CustodyOf(j) BY Zenon DEF Custody
    <3> QED BY Zenon, <2>1, <3>1 DEF CustodyOf
  <2> QED BY Zenon, <2>3, <2>4 DEF Custody

<1> SUFFICES ASSUME Base, Custody, [Next]_vars PROVE Custody'
  BY Zenon
<1> QED
  BY Zenon, NextEffect, <1>CustodyEffect, <1>CustodyEnqueue, BaseParts
  DEF RecordsOK, Remembers

LEMMA InitCustody == Init => Custody
<1> SUFFICES ASSUME Init PROVE Custody OBVIOUS
<1>1. \A j \in Jobs : /\ j \notin lane /\ held[j] = NoToken /\ j \in fresh
                      /\ j \notin settled /\ \A w \in Workers : j \notin proc[w]
  BY Zenon DEF Init
<1> QED BY Zenon, <1>1 DEF Custody, CustodyOf

LEMMA CustodyAlways == Spec => [](Base /\ Custody)
<1>1. Base /\ Custody /\ [Next]_vars => (Base /\ Custody)' BY Zenon, NextStep,
CustodyStep
<1> QED BY InitBase, InitCustody, <1>1, PTL DEF Spec

\* A job is in one place, for any number of jobs, workers and faults: claims,
\* requeues and reapers never copy it.
THEOREM OneCopy == Spec => []SingleCopy
<1>1. Custody => SingleCopy BY Zenon DEF Custody, CustodyOf, SingleCopy, Copies
<1> QED BY CustodyAlways, <1>1, PTL

\* A job that was enqueued and has no outcome is in the lane, held, or on a
\* list that the reaper visits, whichever process died and reply was lost.
THEOREM NoJobLost == Spec => []NothingLost
<1>1. Custody => NothingLost BY Zenon DEF Custody, CustodyOf, NothingLost
<1> QED BY CustodyAlways, <1>1, PTL

\* A held job stays out of the lane and of every list, and stays blocked.
THEOREM HeldStays == Spec => []HeldIsKept
<1>1. Custody => HeldIsKept BY Zenon DEF Custody, CustodyOf, HeldIsKept, Copies
<1> QED BY CustodyAlways, <1>1, PTL
-----------------------------------------------------------------------------
(* Authority.  Every step changes the record and the receipt of one job at  *)
(* most; Change lists how.                                                  *)

OthersSame(j) == \A i \in Jobs \ {j} :
  /\ (i \in lane' <=> i \in lane) /\ (i \in settled' <=> i \in settled)
  /\ status'[i] = status[i] /\ token'[i] = token[i]
  /\ owner'[i] = owner[i] /\ lease'[i] = lease[i]
  /\ \A v \in Workers : i \in proc'[v] <=> i \in proc[v]

InLists(j) == \A v \in Workers : j \in proc'[v] <=> j \in proc[v]
Stays(j) == /\ (j \in lane' <=> j \in lane) /\ InLists(j)
            /\ token'[j] = token[j]

Claimed(j) ==
  /\ j \in lane /\ j \notin lane' /\ (j \in settled' <=> j \in settled)
  /\ status'[j] = IF status[j] = "none" THEN "queued" ELSE status[j]
Started(j) ==
  \E w \in Workers, t \in AnyToken :
    /\ Delivered(w, j, t) /\ StartedBy(w, j, t) /\ Stays(j)
    /\ status'[j] = "running" /\ owner'[j] = w /\ lease'[j]
    /\ (j \in settled' <=> j \in settled)
Renewed(j) ==
  /\ Stays(j) /\ lease'[j] /\ status'[j] = status[j] /\ owner'[j] = owner[j]
  /\ (j \in settled' <=> j \in settled)
Finished(j) ==
  \E w \in Workers, t \in AnyToken, x \in Outcomes :
    /\ TerminalFence(w, j, t, x) /\ SentBy(w, j, t) /\ Stays(j) /\ status'[j] = x
Acked(j) ==
  /\ j \in settled /\ (j \in lane' <=> j \in lane) /\ status'[j] = status[j]
  /\ token'[j] = NoToken
Returned(j) ==
  \E w \in Workers, t \in AnyToken, m \in Modes :
    /\ RequeueFence(w, j, t, m) /\ (m = "own" => SentBy(w, j, t))
    /\ status'[j] = "queued" /\ token'[j] = NoToken
    /\ (j \in settled' <=> j \in settled)
Shelved(j) ==
  \E w \in Workers, t \in Tokens :
    /\ HoldFence(w, j, t) /\ (held[j] # NoToken \/ SentBy(w, j, t))
    /\ token'[j] = NoToken /\ (j \in lane' <=> j \in lane)
    /\ (j \in settled' <=> j \in settled)
Deleted(j) ==
  /\ status'[j] = "none" /\ token'[j] = NoToken
  /\ (j \in settled' <=> j \in settled)
  /\ (status[j] = "done" /\ j \in cleared') \/ j \in lane
Lapsed(j) ==
  /\ Stays(j) /\ status'[j] = status[j] /\ \A w \in Workers : ~Holds(w, j)
  /\ (j \in settled' <=> j \in settled)
Enqueued(j) ==
  /\ j \in fresh /\ status'[j] = "queued" /\ InLists(j)
  /\ (j \in settled' <=> j \in settled)

Change(j) ==
  \/ Claimed(j) \/ Started(j) \/ Renewed(j) \/ Finished(j) \/ Acked(j)
  \/ Returned(j) \/ Shelved(j) \/ Deleted(j) \/ Lapsed(j) \/ Enqueued(j)

AllSame == \A i \in Jobs :
  /\ (i \in lane' <=> i \in lane) /\ (i \in settled' <=> i \in settled)
  /\ status'[i] = status[i] /\ token'[i] = token[i]
  /\ owner'[i] = owner[i] /\ lease'[i] = lease[i]
  /\ \A v \in Workers : i \in proc'[v] <=> i \in proc[v]

Touch == AllSame \/ \E j \in Jobs : OthersSame(j) /\ Change(j)

LEMMA Released ==
  ASSUME RedisOK, NEW j \in Jobs, Release(j)
  PROVE  /\ token'[j] = NoToken
         /\ \A i \in Jobs \ {j} : /\ token'[i] = token[i] /\ owner'[i] = owner[i]
                                  /\ lease'[i] = lease[i]
BY Zenon DEF RedisOK, Release

\* The receipt of j goes, and so do its token, owner and lease.
LEMMA Taken1 ==
  ASSUME RedisOK, NEW w \in Workers, NEW j \in Jobs, Drop(w, j), Release(j),
         \A i \in Jobs \ {j} : /\ (i \in lane' <=> i \in lane)
                               /\ (i \in settled' <=> i \in settled)
                               /\ status'[i] = status[i]
  PROVE  OthersSame(j) /\ token'[j] = NoToken
<1>1. \A v \in Workers, i \in Jobs : i # j => (i \in proc'[v] <=> i \in proc[v])
  BY Zenon, Dropped
<1> QED BY Zenon, <1>1, Released DEF OthersSame

LEMMA EffectTouch ==
  ASSUME RedisOK, RedisEffect
  PROVE  Touch
<1>0. ASSUME NEW j \in Jobs, OthersSame(j), Change(j) PROVE Touch
  BY Zenon, <1>0 DEF Touch
<1>1. CASE UNCHANGED redis BY Zenon, <1>1 DEF redis, records, Touch, AllSame
<1>2. CASE ClaimEffect
  <2> PICK w \in Workers, t \in Tokens, j \in Jobs : claimForWorkerScript(w, t, j)
    BY Zenon, <1>2 DEF ClaimEffect
  <2>1. CASE UNCHANGED <<lane, proc, index, status, token, owner, lease, mark, held, settled>>
    BY Zenon, <2>1 DEF Touch, AllSame
  <2>2. CASE /\ j \in lane /\ lane' = lane \ {j}
             /\ proc' = [proc EXCEPT ![w] = @ \cup {j}]
             /\ status' = [status EXCEPT ![j] = IF @ = "none" THEN "queued" ELSE @]
             /\ token' = [token EXCEPT ![j] = t]
             /\ UNCHANGED <<owner, lease, settled>>
    <3>1. proc'[w] = proc[w] \cup {j} /\ \A v \in Workers : v # w => proc'[v] = proc[v]
      BY Zenon, <2>2 DEF RedisOK
    <3>2. \A v \in Workers, i \in Jobs \ {j} : i \in proc'[v] <=> i \in proc[v]
      BY Zenon, <3>1
    <3>3. \A i \in Jobs \ {j} : status'[i] = status[i] /\ token'[i] = token[i]
      BY Zenon, <2>2 DEF RedisOK
    <3>4. OthersSame(j) BY Zenon, <2>2, <3>2, <3>3 DEF OthersSame
    <3>5. status'[j] = IF status[j] = "none" THEN "queued" ELSE status[j]
      BY Zenon, <2>2 DEF RedisOK
    <3>6. Claimed(j) BY Zenon, <2>2, <3>5 DEF Claimed
    <3> QED BY Zenon, <1>0, <3>4, <3>6 DEF Change
  <2> QED BY Zenon, <2>1, <2>2 DEF claimForWorkerScript
<1>3. CASE StartEffect
  <2> PICK w \in Workers, t \in AnyToken, j \in Jobs :
        Delivered(w, j, t) /\ StartedBy(w, j, t) /\ markRunningScript(w, j)
    BY Zenon, <1>3 DEF StartEffect
  <2>1. /\ status' = [status EXCEPT ![j] = "running"]
        /\ owner' = [owner EXCEPT ![j] = w] /\ lease' = [lease EXCEPT ![j] = TRUE]
        /\ UNCHANGED <<lane, proc, token, settled>>
    BY Zenon DEF markRunningScript
  <2>2. /\ status'[j] = "running" /\ owner'[j] = w /\ lease'[j]
        /\ \A i \in Jobs \ {j} : /\ status'[i] = status[i] /\ owner'[i] = owner[i]
                                 /\ lease'[i] = lease[i]
    BY Zenon, <2>1 DEF RedisOK
  <2>3. OthersSame(j) BY Zenon, <2>1, <2>2 DEF OthersSame
  <2>4. Started(j) BY Zenon, <2>1, <2>2 DEF Started, Stays, InLists
  <2> QED BY Zenon, <1>0, <2>3, <2>4 DEF Change
<1>4. CASE RenewEffect
  <2> PICK j \in Jobs : renewScript(j) BY Zenon, <1>4 DEF RenewEffect
  <2>1. /\ lease' = [lease EXCEPT ![j] = TRUE]
        /\ UNCHANGED <<lane, proc, status, token, owner, settled>>
    BY Zenon DEF renewScript
  <2>2. lease'[j] /\ \A i \in Jobs \ {j} : lease'[i] = lease[i] BY Zenon,
  <2>1 DEF RedisOK
  <2>3. OthersSame(j) BY Zenon, <2>1, <2>2 DEF OthersSame
  <2>4. Renewed(j) BY Zenon, <2>1, <2>2 DEF Renewed, Stays, InLists
  <2> QED BY Zenon, <1>0, <2>3, <2>4 DEF Change
<1>5. CASE OutcomeEffect
  <2> PICK w \in Workers, t \in AnyToken, j \in Jobs, x \in Outcomes :
        TerminalFence(w, j, t, x) /\ SentBy(w, j, t) /\ legacyTerminalScript(j, x)
    BY Zenon, <1>5 DEF OutcomeEffect
  <2>1. /\ status' = [status EXCEPT ![j] = x] /\ settled' = settled \cup {j}
        /\ UNCHANGED <<lane, proc, token, owner, lease>>
    BY Zenon DEF legacyTerminalScript
  <2>2. status'[j] = x /\ \A i \in Jobs \ {j} : status'[i] = status[i]
    BY Zenon, <2>1 DEF RedisOK
  <2>3. OthersSame(j) BY Zenon, <2>1, <2>2 DEF OthersSame
  <2>4. Finished(j) BY Zenon, <2>1, <2>2 DEF Finished, Stays, InLists
  <2> QED BY Zenon, <1>0, <2>3, <2>4 DEF Change
<1>6. CASE AckEffect
  <2> PICK w \in Workers, j \in settled : ackScript(w, j) BY Zenon, <1>6
  DEF AckEffect
  <2>1. Drop(w, j) /\ Release(j) /\ UNCHANGED <<lane, status, settled>>
    BY Zenon DEF ackScript
  <2>2. j \in Jobs BY Zenon DEF RedisOK
  <2>3. OthersSame(j) /\ token'[j] = NoToken BY Zenon, <2>1, <2>2, Taken1
  <2>4. Acked(j) BY Zenon, <2>1, <2>3 DEF Acked
  <2> QED BY Zenon, <1>0, <2>2, <2>3, <2>4 DEF Change
<1>7. CASE RequeueEffect
  <2> PICK w \in Workers, t \in AnyToken, j \in Jobs, m \in Modes :
        /\ RequeueFence(w, j, t, m) /\ (m = "own" => SentBy(w, j, t))
        /\ requeueScript(w, j, t, m)
    BY Zenon, <1>7 DEF RequeueEffect
  <2>1. /\ Drop(w, j) /\ Release(j) /\ lane' = lane \cup {j} /\ settled' = settled
        /\ status' = [status EXCEPT ![j] = "queued"]
    BY Zenon DEF requeueScript
  <2>2. status'[j] = "queued" /\ \A i \in Jobs : i # j => status'[i] = status[i]
    BY Zenon, <2>1, OtherStatus
  <2>3. OthersSame(j) /\ token'[j] = NoToken BY Zenon, <2>1, <2>2, Taken1
  <2>4. Returned(j) BY Zenon, <2>1, <2>2, <2>3 DEF Returned
  <2> QED BY Zenon, <1>0, <2>3, <2>4 DEF Change
<1>8. CASE HoldEffect
  <2> PICK w \in Workers, t \in Tokens, j \in Jobs :
        /\ HoldFence(w, j, t) /\ (held[j] # NoToken \/ SentBy(w, j, t))
        /\ holdClaimScript(w, j, t)
    BY Zenon, <1>8 DEF HoldEffect
  <2>1. /\ Drop(w, j) /\ Release(j) /\ UNCHANGED <<lane, settled>>
        /\ status' = [status EXCEPT ![j] = "blocked"]
    BY Zenon DEF holdClaimScript
  <2>2. \A i \in Jobs : i # j => status'[i] = status[i] BY Zenon, <2>1,
  OtherStatus
  <2>3. OthersSame(j) /\ token'[j] = NoToken BY Zenon, <2>1, <2>2, Taken1
  <2>4. Shelved(j) BY Zenon, <2>1, <2>3 DEF Shelved
  <2> QED BY Zenon, <1>0, <2>3, <2>4 DEF Change
<1>9. ASSUME NEW j \in Jobs, DeleteRecord(j),
             (status[j] = "done" /\ j \in cleared') \/ j \in lane
      PROVE  Touch
  <2>1. /\ Release(j) /\ UNCHANGED <<lane, proc, settled>>
        /\ status' = [status EXCEPT ![j] = "none"]
    BY Zenon, <1>9 DEF DeleteRecord
  <2>2. status'[j] = "none" /\ \A i \in Jobs : i # j => status'[i] = status[i]
    BY Zenon, <2>1, OtherStatus
  <2>3. OthersSame(j) /\ token'[j] = NoToken
    BY Zenon, <2>1, <2>2, Released DEF OthersSame
  <2>4. Deleted(j) BY Zenon, <1>9, <2>1, <2>2, <2>3 DEF Deleted
  <2> QED BY Zenon, <1>0, <2>3, <2>4 DEF Change
<1>10. CASE ClearEffect BY Zenon, <1>9, <1>10 DEF ClearEffect
<1>11. CASE ExpiryEffect BY Zenon, <1>9, <1>11 DEF ExpiryEffect, RedisOK
<1>12. CASE LapseEffect
  <2> PICK j \in Jobs :
        /\ \A w \in Workers : ~Holds(w, j)
        /\ lease' = [lease EXCEPT ![j] = FALSE]
        /\ UNCHANGED <<lane, proc, index, status, token, owner, waited, mark, held, settled>>
    BY Zenon, <1>12 DEF LapseEffect
  <2>2. \A i \in Jobs \ {j} : lease'[i] = lease[i] BY Zenon DEF RedisOK
  <2>3. OthersSame(j) BY Zenon, <2>2 DEF OthersSame
  <2>4. Lapsed(j) BY Zenon DEF Lapsed, Stays, InLists
  <2> QED BY Zenon, <1>0, <2>3, <2>4 DEF Change
<1>13. CASE GraceEffect BY Zenon, <1>13 DEF GraceEffect, Touch, AllSame
<1> QED
  BY Zenon, <1>1, <1>2, <1>3, <1>4, <1>5, <1>6, <1>7, <1>8, <1>10, <1>11,
     <1>12, <1>13
  DEF RedisEffect

LEMMA EnqueueTouch ==
  ASSUME RedisOK, NEW j \in Jobs, Enqueue(j)
  PROVE  Touch
<1>1. /\ j \in fresh /\ lane' = lane \cup {j} /\ status' = [status EXCEPT ![j] = "queued"]
      /\ UNCHANGED <<proc, token, owner, lease, settled>>
  BY Zenon DEF Enqueue
<1>2. status'[j] = "queued" /\ \A i \in Jobs : i # j => status'[i] = status[i]
  BY Zenon, <1>1, OtherStatus
<1>3. OthersSame(j) BY Zenon, <1>1, <1>2 DEF OthersSame
<1>4. Enqueued(j) BY Zenon, <1>1, <1>2 DEF Enqueued, InLists
<1> QED BY Zenon, <1>3, <1>4 DEF Touch, Change
-----------------------------------------------------------------------------
(* The inductive invariant.  A job in the lane has not run (LaneOK).  The   *)
(* jobs that a worker claimed and did not start are queued (EarlyOK): a     *)
(* late start, the one request that would change that, makes the job        *)
(* strayed.  A late request that ends a claim belongs to a worker that is   *)
(* past that claim (SpentOK), and its token is never given out again.       *)

LaneOK == \A j \in Jobs : j \in lane => status[j] \in {"queued", "none"}

QueuedFor(w, t) == \A j \in Jobs :
  j \in proc[w] /\ token[j] = t /\ j \notin strayed => status[j] = "queued"

QueuedAfter(w, t) == \A j \in Jobs :
  j \in proc'[w] /\ token'[j] = t /\ j \notin strayed' => status'[j] = "queued"

EarlyOK == \A w \in Workers :
  /\ kept[w] # NoToken => QueuedFor(w, kept[w])
  /\ pc[w] \in Early => QueuedFor(w, tok[w])

SpentOK == \A r \in late :
  SpentBy(r) /\ r.j \notin strayed /\ r.t \in Tokens =>
  /\ kept[r.w] # r.t
  /\ pc[r.w] \in Owning /\ tok[r.w] = r.t => pc[r.w] \in Past

Authority ==
  Base /\ Custody /\ LaneOK /\ EarlyOK /\ SpentOK /\ NoRerun /\ AuthorityBacked

Stepped ==
  /\ Base' /\ Grows /\ Evidence /\ LateEvidence /\ Touch
  /\ strayed \subseteq strayed' /\ cleared \subseteq cleared'

LEMMA NextStepped == ASSUME Base, [Next]_vars PROVE Stepped
<1>1. CASE \E j \in Jobs : Enqueue(j)
  <2>1. strayed' = strayed /\ cleared' = cleared BY Zenon, <1>1 DEF Enqueue
  <2>2. Touch BY Zenon, <1>1, EnqueueTouch, BaseParts DEF RecordsOK
  <2> QED BY Zenon, <2>1, <2>2, NextStep DEF Stepped
<1>2. CASE RedisEffect /\ Remembers
  <2>1. strayed \subseteq strayed' /\ cleared \subseteq cleared' BY Zenon,
  <1>2 DEF Remembers
  <2>2. Touch BY Zenon, <1>2, EffectTouch, BaseParts DEF RecordsOK
  <2> QED BY Zenon, <2>1, <2>2, NextStep DEF Stepped
<1> QED BY Zenon, <1>1, <1>2, NextEffect

\* The receipt of a job names the one worker that holds it.
LEMMA OneHolder ==
  ASSUME Custody, NEW j \in Jobs, NEW v \in Workers, j \in proc[v]
  PROVE  /\ j \notin lane /\ j \notin fresh /\ held[j] = NoToken
         /\ \A w \in Workers : j \in proc[w] => w = v
BY Zenon DEF Custody, CustodyOf

LEMMA Fences ==
  ASSUME NEW w \in Workers, NEW t, NEW j \in Jobs
  PROVE  /\ Delivered(w, j, t) => held[j] = NoToken /\ token[j] = t /\ j \in proc[w]
         /\ \A x \in Outcomes : TerminalFence(w, j, t, x) =>
              Delivered(w, j, t) /\ owner[j] = w /\ status[j] \in {"running", x}
         /\ \A m \in Modes : RequeueFence(w, j, t, m) =>
              /\ Delivered(w, j, t) /\ status[j] \notin Outcomes
              /\ (m = "expired" => ~lease[j]) /\ (m = "unstarted" => status[j] = "queued")
         /\ HoldFence(w, j, t) /\ held[j] = NoToken =>
              Delivered(w, j, t) /\ status[j] = "running"
BY Zenon DEF Delivered, TerminalFence, RequeueFence, HoldFence, RenewFence

LEMMA LaneStep == ASSUME Authority, Stepped PROVE LaneOK'
<1>c. Custody BY Zenon DEF Authority
<1>l. \A i \in Jobs : i \in lane => status[i] \in {"queued", "none"}
  BY Zenon DEF Authority, LaneOK
<1>1. CASE AllSame BY Zenon, <1>1, <1>l DEF AllSame, LaneOK
<1>2. ASSUME NEW j \in Jobs, OthersSame(j), Change(j) PROVE LaneOK'
  <2>1. ASSUME NEW i \in Jobs, i # j, i \in lane' PROVE status'[i] \in {"queued", "none"}
    BY Zenon, <1>2, <1>l, <2>1 DEF OthersSame
  <2>2. ASSUME j \in lane' PROVE status'[j] \in {"queued", "none"}
    <3>1. CASE Claimed(j) BY Zenon, <2>2, <3>1 DEF Claimed
    <3>2. CASE Started(j)
      BY Zenon, <2>2, <3>2, <1>c, OneHolder, Fences DEF Started, Stays
    <3>3. CASE Renewed(j) BY Zenon, <2>2, <3>3, <1>l DEF Renewed, Stays
    <3>4. CASE Finished(j)
      BY Zenon, <2>2, <3>4, <1>c, OneHolder, Fences DEF Finished, Stays
    <3>5. CASE Acked(j) BY Zenon, <2>2, <3>5, <1>l DEF Acked
    <3>6. CASE Returned(j) BY Zenon, <3>6 DEF Returned
    <3>7. CASE Shelved(j)
      <4>1. PICK w \in Workers, t \in Tokens : HoldFence(w, j, t) /\ (j \in lane' <=> j \in lane)
        BY Zenon, <3>7 DEF Shelved
      <4>2. held[j] = NoToken BY Zenon, <2>2, <4>1, <1>c DEF Custody, CustodyOf
      <4> QED BY Zenon, <2>2, <4>1, <4>2, <1>c, OneHolder, Fences
    <3>8. CASE Deleted(j) BY Zenon, <3>8 DEF Deleted
    <3>9. CASE Lapsed(j) BY Zenon, <2>2, <3>9, <1>l DEF Lapsed, Stays
    <3>10. CASE Enqueued(j) BY Zenon, <3>10 DEF Enqueued
    <3> QED BY Zenon, <1>2, <3>1, <3>2, <3>3, <3>4, <3>5, <3>6, <3>7, <3>8,
    <3>9, <3>10
        DEF Change
  <2> QED BY Zenon, <2>1, <2>2 DEF LaneOK
<1> QED BY Zenon, <1>1, <1>2 DEF Stepped, Touch

LEMMA NoRerunStep == ASSUME Authority, Stepped PROVE NoRerun'
<1>c. Custody /\ RedisOK BY Zenon, BaseParts DEF Authority, RecordsOK
<1>m. strayed \subseteq strayed' /\ cleared \subseteq cleared' BY Zenon
DEF Stepped
<1>n. \A i \in settled \ (cleared \cup strayed) : i \notin lane /\ status[i] \in Outcomes
  BY Zenon DEF Authority, NoRerun
<1>s. settled' \subseteq Jobs BY Zenon, TypeParts DEF Stepped, Base, TypeOK
<1>o. "queued" \notin Outcomes /\ "running" \notin Outcomes /\ "blocked" \notin Outcomes
  BY Zenon, Constants
<1>1. CASE AllSame BY Zenon, <1>1, <1>m, <1>n, <1>s DEF AllSame, NoRerun
<1>2. ASSUME NEW j \in Jobs, OthersSame(j), Change(j) PROVE NoRerun'
  <2>1. ASSUME NEW i \in settled', i # j, i \notin cleared', i \notin strayed'
        PROVE  i \notin lane' /\ status'[i] \in Outcomes
    BY Zenon, <1>2, <1>m, <1>n, <1>s, <2>1 DEF OthersSame
  <2>2. ASSUME j \in settled', j \notin cleared', j \notin strayed'
        PROVE  j \notin lane' /\ status'[j] \in Outcomes
    <3>0. j \in settled => j \notin lane /\ status[j] \in Outcomes
      BY Zenon, <2>2, <1>m, <1>n
    <3>1. CASE Claimed(j) BY Zenon, <2>2, <3>0, <3>1 DEF Claimed
    <3>2. CASE Started(j)
      <4>1. PICK w \in Workers, t \in AnyToken : Delivered(w, j, t) /\ StartedBy(w, j, t)
        BY Zenon, <3>2 DEF Started
      <4>2. pc[w] = "starting" /\ tok[w] = t BY Zenon, <2>2, <4>1 DEF StartedBy
      <4>3. QueuedFor(w, t) BY Zenon, <4>2, Sets DEF Authority, EarlyOK
      <4>4. token[j] = t /\ j \in proc[w] BY Zenon, <4>1 DEF Delivered
      <4>5. status[j] = "queued" BY Zenon, <4>3, <4>4, <2>2, <1>m DEF QueuedFor
      <4> QED BY Zenon, <2>2, <3>0, <3>2, <4>5, <1>o DEF Started
    <3>3. CASE Renewed(j) BY Zenon, <2>2, <3>0, <3>3 DEF Renewed, Stays
    <3>4. CASE Finished(j)
      BY Zenon, <3>4, <1>c, OneHolder, Fences DEF Finished, Stays
    <3>5. CASE Acked(j) BY Zenon, <3>0, <3>5 DEF Acked
    <3>6. CASE Returned(j) BY Zenon, <2>2, <3>0, <3>6, Fences DEF Returned
    <3>7. CASE Shelved(j)
      <4>1. PICK w \in Workers, t \in Tokens : HoldFence(w, j, t) /\ j \in settled
        BY Zenon, <2>2, <3>7 DEF Shelved
      <4>2. held[j] = NoToken BY Zenon, <3>0, <4>1, <1>c, <1>o DEF Custody,
      CustodyOf
      <4> QED BY Zenon, <3>0, <4>1, <4>2, <1>o, Fences
    <3>8. CASE Deleted(j) BY Zenon, <2>2, <3>0, <3>8 DEF Deleted
    <3>9. CASE Lapsed(j) BY Zenon, <2>2, <3>0, <3>9 DEF Lapsed, Stays
    <3>10. CASE Enqueued(j) BY Zenon, <2>2, <3>10, <1>c DEF Enqueued, Custody,
    CustodyOf
    <3> QED BY Zenon, <1>2, <3>1, <3>2, <3>3, <3>4, <3>5, <3>6, <3>7, <3>8,
    <3>9, <3>10
        DEF Change
  <2> QED BY Zenon, <2>1, <2>2 DEF NoRerun
<1> QED BY Zenon, <1>1, <1>2 DEF Stepped, Touch

\* What w holds unstarted under t after a step is queued.
LEMMA QueuedStep ==
  ASSUME Authority, Stepped, NEW w \in Workers, NEW t \in Tokens, Vouched(w, t),
         ~(pc'[w] = "running" /\ kept'[w] = NoToken)
  PROVE  QueuedAfter(w, t)
<1>c. Custody BY Zenon DEF Authority
<1>m. strayed \subseteq strayed' BY Zenon DEF Stepped
<1>t. t # NoToken BY Zenon, TokenFacts
<1>w. ASSUME NEW i \in Jobs, i \in proc[w], token[i] = t, i \notin strayed'
      PROVE  status[i] = "queued"
  <2>1. t \notin Unused BY Zenon, <1>w DEF Unused
  <2>2. QueuedFor(w, t) BY Zenon, <2>1, <1>t DEF Vouched, Authority, EarlyOK
  <2> QED BY Zenon, <2>2, <1>m, <1>w DEF QueuedFor
<1>1. CASE AllSame BY Zenon, <1>1, <1>w DEF AllSame, QueuedAfter
<1>2. ASSUME NEW j \in Jobs, OthersSame(j), Change(j) PROVE QueuedAfter(w, t)
  <2>1. ASSUME NEW i \in Jobs, i # j, i \in proc'[w], token'[i] = t, i \notin strayed'
        PROVE  status'[i] = "queued"
    BY Zenon, <1>2, <1>w, <2>1 DEF OthersSame
  <2>2. ASSUME j \in proc'[w], token'[j] = t, j \notin strayed' PROVE status'[j] = "queued"
    <3>1. CASE Claimed(j) BY Zenon, <3>1 DEF Claimed, Authority, LaneOK
    <3>2. CASE Started(j)
      <4>1. PICK v \in Workers, u \in AnyToken :
              Delivered(v, j, u) /\ StartedBy(v, j, u) /\ Stays(j)
        BY Zenon, <3>2 DEF Started
      <4>2. j \in proc[v] /\ j \in proc[w]
        BY Zenon, <2>2, <4>1 DEF Delivered, Stays, InLists
      <4>3. v = w BY Zenon, <4>2, <1>c, OneHolder
      <4> QED BY Zenon, <2>2, <4>1, <4>3 DEF StartedBy
    <3>3. CASE Renewed(j) BY Zenon, <2>2, <3>3, <1>w DEF Renewed, Stays, InLists
    <3>4. CASE Finished(j)
      <4>1. PICK v \in Workers, u \in AnyToken, x \in Outcomes :
              TerminalFence(v, j, u, x) /\ Stays(j)
        BY Zenon, <3>4 DEF Finished
      <4>2. status[j] = "queued" BY Zenon, <2>2, <4>1, <1>w DEF Stays, InLists
      <4>3. x # "queued" BY Zenon, Constants
      <4>4. status[j] \in {"running", x} BY Zenon, <4>1, Fences
      <4> QED BY Zenon, <4>2, <4>3, <4>4
    <3>5. CASE Acked(j) BY Zenon, <2>2, <3>5, <1>t DEF Acked
    <3>6. CASE Returned(j) BY Zenon, <3>6 DEF Returned
    <3>7. CASE Shelved(j) BY Zenon, <2>2, <3>7, <1>t DEF Shelved
    <3>8. CASE Deleted(j) BY Zenon, <2>2, <3>8, <1>t DEF Deleted
    <3>9. CASE Lapsed(j) BY Zenon, <2>2, <3>9, <1>w DEF Lapsed, Stays, InLists
    <3>10. CASE Enqueued(j) BY Zenon, <3>10 DEF Enqueued
    <3> QED BY Zenon, <1>2, <3>1, <3>2, <3>3, <3>4, <3>5, <3>6, <3>7, <3>8,
    <3>9, <3>10
        DEF Change
  <2> QED BY Zenon, <2>1, <2>2 DEF QueuedAfter
<1> QED BY Zenon, <1>1, <1>2 DEF Stepped, Touch

LEMMA EarlyStep == ASSUME Authority, Stepped PROVE EarlyOK'
<1>1. ASSUME NEW w \in Workers, kept'[w] # NoToken PROVE QueuedAfter(w, kept'[w])
  <2>1. kept'[w] \in Tokens BY Zenon, <1>1 DEF Stepped, Base, TypeOK
  <2>2. Vouched(w, kept'[w]) BY Zenon, <1>1 DEF Stepped, Evidence, EvidenceOf
  <2> QED BY Zenon, <1>1, <2>1, <2>2, QueuedStep
<1>2. ASSUME NEW w \in Workers, pc'[w] \in Early PROVE QueuedAfter(w, tok'[w])
  <2>1. tok'[w] \in Tokens
    BY Zenon, <1>2 DEF Stepped, Base, WorkersOK, WorkerOK, Owning
  <2>2. Vouched(w, tok'[w]) BY Zenon, <1>2 DEF Stepped, Evidence, EvidenceOf
  <2>3. pc'[w] # "running" BY Zenon, <1>2, Sets
  <2> QED BY Zenon, <2>1, <2>2, <2>3, QueuedStep
<1> QED BY Zenon, <1>1, <1>2 DEF EarlyOK, QueuedFor, QueuedAfter

LEMMA SpentStep == ASSUME Authority, Stepped PROVE SpentOK'
<1>1. ASSUME NEW r \in late', SpentBy(r), r.j \notin strayed', r.t \in Tokens
      PROVE  /\ kept'[r.w] # r.t
             /\ pc'[r.w] \in Owning /\ tok'[r.w] = r.t => pc'[r.w] \in Past
  <2> DEFINE w == r.w
  <2>w. w \in Workers BY SMT, <1>1 DEF Stepped, Base, TypeOK, Requests
  <2>t. r.t # NoToken BY Zenon, <1>1, TokenFacts
  <2>d. \A p \in Early : p \in Owning /\ p \notin Past BY Zenon, Sets
  <2>p. \A p \in Past : p \in Owning BY Zenon, Sets
  <2>1. /\ kept[w] # r.t /\ r.t \notin Unused
        /\ pc[w] \in Owning /\ tok[w] = r.t => pc[w] \in Past
    <3>1. CASE r \in late
      <4>1. r.j \notin strayed BY Zenon, <1>1 DEF Stepped
      <4>2. r.t \notin Unused BY Zenon, <3>1 DEF Unused
      <4> QED BY Zenon, <1>1, <3>1, <4>1, <4>2 DEF Authority, SpentOK
    <3>2. CASE r \notin late
      <4>1. pc[w] \in Past /\ tok[w] = r.t BY Zenon, <1>1, <3>2 DEF Stepped,
      LateEvidence
      <4>2. kept[w] = NoToken BY Zenon, <4>1, <2>p, <2>w, Carried DEF Authority
      <4>3. r.t \notin Unused BY Zenon, <4>1, <2>w DEF Unused
      <4> QED BY Zenon, <4>1, <4>2, <4>3, <2>t
    <3> QED BY Zenon, <3>1, <3>2
  <2>2. ~Vouched(w, r.t) BY Zenon, <2>1, <2>d DEF Vouched
  <2>3. EvidenceOf(w) BY Zenon, <2>w DEF Stepped, Evidence
  <2>4. kept'[w] # r.t BY Zenon, <2>2, <2>3, <2>t DEF EvidenceOf
  <2>5. ASSUME pc'[w] \in Owning, tok'[w] = r.t PROVE pc'[w] \in Past
    <3>1. pc'[w] \notin Early BY Zenon, <2>2, <2>3, <2>5 DEF EvidenceOf
    <3> QED BY Zenon, <3>1, <2>1, <2>3, <2>5 DEF EvidenceOf
  <2> QED BY Zenon, <2>4, <2>5
<1> QED BY Zenon, <1>1 DEF SpentOK, SpentBy

\* A worker that runs a job with authority has not ended its claim.
LEMMA NotSent ==
  ASSUME Authority, NEW w \in Workers, pc[w] = "running", cur[w] \notin strayed
  PROVE  ~SentBy(w, cur[w], tok[w])
<1>1. /\ "running" \in Owning /\ "running" \notin Past
      /\ "running" \notin Past \cup {"release"}
  BY Zenon, Sets
<1>2. tok[w] \in Tokens BY Zenon, <1>1, Carried DEF Authority
<1> QED BY Zenon, <1>1, <1>2 DEF SentBy, Authority, SpentOK

LEMMA BackedStep == ASSUME Authority, Stepped PROVE AuthorityBacked'
<1>c. Custody BY Zenon DEF Authority
<1>1. ASSUME NEW w \in Workers, auth'[w], pc'[w] = "running",
             cur'[w] \notin strayed', cur'[w] \notin cleared'
      PROVE  Backed(w)'
  <2>1. CASE auth[w] /\ pc[w] = "running" /\ cur'[w] = cur[w] /\ tok'[w] = tok[w]
    <3> DEFINE c == cur[w]
    <3>1. c \notin strayed /\ c \notin cleared BY Zenon, <1>1, <2>1 DEF Stepped
    <3>2. /\ token[c] = tok[w] /\ owner[c] = w /\ c \in proc[w]
          /\ status[c] = "running" /\ lease[c]
      BY Zenon, <2>1, <3>1 DEF Authority, AuthorityBacked
    <3>3. c \in Jobs BY Zenon, <2>1, Carried, Sets DEF Authority
    <3>4. ~SentBy(w, c, tok[w]) BY Zenon, <2>1, <3>1, NotSent
    <3>5. held[c] = NoToken /\ c \notin lane /\ c \notin fresh
          /\ \A v \in Workers : c \in proc[v] => v = w
      BY Zenon, <3>2, <3>3, <1>c, OneHolder
    <3>6. c \notin settled
      <4>1. c \in settled => status[c] \in Outcomes
        BY Zenon, <3>1 DEF Authority, NoRerun
      <4> QED BY Zenon, <4>1, <3>2, Constants
    <3>s. /\ cur'[w] = c /\ tok'[w] = tok[w] BY Zenon, <2>1
    <3>h. ~\A v \in Workers : ~Holds(v, c) BY Zenon, <2>1, <3>2 DEF Holds
    <3> HIDE DEF c
    <3>7. SUFFICES /\ token'[c] = tok[w] /\ owner'[c] = w /\ c \in proc'[w]
                   /\ status'[c] = "running" /\ lease'[c]
      BY Zenon, <3>s DEF Backed
    <3>8. CASE AllSame BY Zenon, <3>8, <3>2, <3>3 DEF AllSame
    <3>9. ASSUME NEW j \in Jobs, OthersSame(j), Change(j), c # j
          PROVE  /\ token'[c] = tok[w] /\ owner'[c] = w /\ c \in proc'[w]
                 /\ status'[c] = "running" /\ lease'[c]
      BY Zenon, <3>9, <3>2, <3>3 DEF OthersSame
    <3>10. ASSUME Change(c)
           PROVE  /\ token'[c] = tok[w] /\ owner'[c] = w /\ c \in proc'[w]
                  /\ status'[c] = "running" /\ lease'[c]
      <4>1. CASE Claimed(c) BY Zenon, <4>1, <3>5 DEF Claimed
      <4>2. CASE Started(c)
        BY Zenon, <4>2, <3>2, <3>3, <3>5, Fences DEF Started, Stays, InLists
      <4>3. CASE Renewed(c) BY Zenon, <4>3, <3>2 DEF Renewed, Stays, InLists
      <4>4. CASE Finished(c)
        <5>1. PICK v \in Workers, t \in AnyToken, x \in Outcomes :
                TerminalFence(v, c, t, x) /\ SentBy(v, c, t)
          BY Zenon, <4>4 DEF Finished
        <5>2. v = w /\ t = tok[w] BY Zenon, <5>1, <3>2, <3>3, Fences
        <5> QED BY Zenon, <5>1, <5>2, <3>4
      <4>5. CASE Acked(c) BY Zenon, <4>5, <3>6 DEF Acked
      <4>6. CASE Returned(c)
        <5>1. PICK v \in Workers, t \in AnyToken, m \in Modes :
                RequeueFence(v, c, t, m) /\ (m = "own" => SentBy(v, c, t))
          BY Zenon, <4>6 DEF Returned
        <5>2. v = w /\ t = tok[w] BY Zenon, <5>1, <3>2, <3>3, <3>5, Fences
        <5>3. (m = "expired" => ~lease[c]) /\ (m = "unstarted" => status[c] = "queued")
          BY Zenon, <5>1 DEF RequeueFence
        <5>4. m # "expired" /\ m # "unstarted" BY Zenon, <5>3, <3>2
        <5> QED BY Zenon, <5>1, <5>2, <5>4, <3>4 DEF Modes
      <4>7. CASE Shelved(c)
        <5>1. PICK v \in Workers, t \in Tokens : HoldFence(v, c, t) /\ SentBy(v, c, t)
          BY Zenon, <4>7, <3>5 DEF Shelved
        <5>2. v = w /\ t = tok[w] BY Zenon, <5>1, <3>2, <3>3, <3>5, Fences
        <5> QED BY Zenon, <5>1, <5>2, <3>4
      <4>8. CASE Deleted(c) BY Zenon, <4>8, <3>2, <3>5 DEF Deleted
      <4>9. CASE Lapsed(c) BY Zenon, <4>9, <3>h DEF Lapsed
      <4>10. CASE Enqueued(c) BY Zenon, <4>10, <3>5 DEF Enqueued
      <4> QED BY Zenon, <3>10, <4>1, <4>2, <4>3, <4>4, <4>5, <4>6, <4>7, <4>8,
      <4>9, <4>10
          DEF Change
    <3> QED BY Zenon, <3>8, <3>9, <3>10 DEF Stepped, Touch
  <2>2. CASE Backed(w)' BY Zenon, <2>2
  <2> QED BY Zenon, <1>1, <2>1, <2>2 DEF Stepped, Evidence, EvidenceOf
<1> QED BY Zenon, <1>1 DEF AuthorityBacked, Backed

LEMMA InitAuthority == Init => Authority
<1> SUFFICES ASSUME Init PROVE Authority OBVIOUS
<1>1. LaneOK /\ NoRerun BY Zenon DEF Init, LaneOK, NoRerun
<1>2. \A w \in Workers : pc[w] = "top" /\ kept[w] = NoToken /\ ~auth[w] BY Zenon DEF Init
<1>3. EarlyOK BY Zenon, <1>2 DEF EarlyOK, Early
<1>4. SpentOK BY Zenon DEF Init, SpentOK
<1>5. AuthorityBacked BY Zenon, <1>2 DEF AuthorityBacked
<1> QED BY Zenon, <1>1, <1>3, <1>4, <1>5, InitBase, InitCustody DEF Authority

LEMMA AuthorityAlways == Spec => []Authority
<1>1. ASSUME Authority, [Next]_vars PROVE Authority'
  <2>1. Stepped BY Zenon, <1>1, NextStepped DEF Authority
  <2>2. Custody' BY Zenon, <1>1, CustodyStep DEF Authority
  <2> QED BY Zenon, <1>1, <2>1, <2>2, LaneStep, NoRerunStep, EarlyStep,
  SpentStep, BackedStep
      DEF Authority, Stepped
<1> QED BY InitAuthority, <1>1, PTL DEF Spec

\* A committed job neither becomes claimable again nor loses its outcome,
\* whatever is lost, late or reaped: requeue, hold, acknowledgement and claim
\* are all fenced.  The exceptions are those that NoRerun names.
THEOREM NoJobRerun == Spec => []NoRerun
<1>1. Authority => NoRerun BY Zenon DEF Authority
<1> QED BY AuthorityAlways, <1>1, PTL

\* Redis backs every worker that believes it owns the job it runs, so two
\* such workers never run one job, for any number of workers and faults.
THEOREM AuthorityIsBacked == Spec => []AuthorityBacked
<1>1. Authority => AuthorityBacked BY Zenon DEF Authority
<1> QED BY AuthorityAlways, <1>1, PTL

-----------------------------------------------------------------------------
(* FarmDelivery implements FarmContract.  Custody makes the refinement      *)
(* mapping well defined (at most one worker has a job's receipt), and       *)
(* NoRerun gives the guards: what is taken, returned or parked has no       *)
(* committed outcome, or is excused.                                        *)

Holders == [j \in Jobs |-> Holder(j)]
Excused == cleared \cup strayed

LEMMA HolderBefore ==
  ASSUME Custody, NEW j \in Jobs
  PROVE  /\ \A w \in Workers : j \in proc[w] => Holder(j) = w /\ Holder(j) # NoWorker
         /\ (\A w \in Workers : j \notin proc[w]) => Holder(j) = NoWorker
<1>1. ASSUME NEW w \in Workers, j \in proc[w] PROVE Holder(j) = w /\ w # NoWorker
  <2>1. \A v \in Workers : j \in proc[v] <=> v = w BY Zenon, <1>1, OneHolder
  <2>2. Copies(j) # {} BY Zenon, <1>1 DEF Copies
  <2>3. (CHOOSE v \in Workers : j \in proc[v]) = w BY Zenon, <1>1, <2>1
  <2> QED BY Zenon, <2>2, <2>3, NoneIsNoMember DEF Holder
<1>2. ASSUME \A w \in Workers : j \notin proc[w] PROVE Holder(j) = NoWorker
  BY Zenon, <1>2 DEF Holder, Copies
<1> QED BY Zenon, <1>1, <1>2

LEMMA HolderAfter ==
  ASSUME Custody', NEW j \in Jobs
  PROVE  /\ \A w \in Workers : j \in proc'[w] => Holder(j)' = w
         /\ (\A w \in Workers : j \notin proc'[w]) => Holder(j)' = NoWorker
<1>1. ASSUME NEW w \in Workers, j \in proc'[w] PROVE Holder(j)' = w
  <2>1. \A v \in Workers : j \in proc'[v] <=> v = w BY Zenon, <1>1 DEF Custody,
  CustodyOf
  <2>2. Copies(j)' # {} BY Zenon, <1>1 DEF Copies
  <2>3. (CHOOSE v \in Workers : j \in proc'[v]) = w BY Zenon, <1>1, <2>1
  <2> QED BY Zenon, <2>2, <2>3 DEF Holder
<1>2. ASSUME \A w \in Workers : j \notin proc'[w] PROVE Holder(j)' = NoWorker
  BY Zenon, <1>2 DEF Holder, Copies
<1> QED BY Zenon, <1>1, <1>2

\* A job whose receipts do not move keeps its holder.
LEMMA HolderStays ==
  ASSUME Custody, Custody', NEW j \in Jobs,
         \A v \in Workers : j \in proc'[v] <=> j \in proc[v]
  PROVE  Holder(j)' = Holder(j)
<1>1. CASE \E v \in Workers : j \in proc[v]
  <2> PICK v \in Workers : j \in proc[v] BY Zenon, <1>1
  <2>1. Holder(j) = v BY Zenon, HolderBefore
  <2>2. Holder(j)' = v BY Zenon, HolderAfter
  <2> QED BY Zenon, <2>1, <2>2
<1>2. CASE \A v \in Workers : j \notin proc[v]
  <2>1. Holder(j) = NoWorker BY Zenon, <1>2, HolderBefore
  <2>2. Holder(j)' = NoWorker BY Zenon, <1>2, HolderAfter
  <2> QED BY Zenon, <2>1, <2>2
<1> QED BY Zenon, <1>1, <1>2

LEMMA HoldersStay ==
  ASSUME Custody, Custody',
         \A i \in Jobs, v \in Workers : i \in proc'[v] <=> i \in proc[v]
  PROVE  Holders' = Holders
<1>1. \A i \in Jobs : Holder(i)' = Holder(i) BY Zenon, HolderStays
<1> QED BY Zenon, <1>1 DEF Holders

LEMMA HolderMoves ==
  ASSUME Custody, Custody', NEW j \in Jobs, NEW x, Holder(j)' = x,
         \A i \in Jobs, v \in Workers : i # j => (i \in proc'[v] <=> i \in proc[v])
  PROVE  Holders' = [Holders EXCEPT ![j] = x]
<1>1. \A i \in Jobs : i # j => Holder(i)' = Holder(i) BY Zenon, HolderStays
<1>2. Holders' = [i \in Jobs |-> IF i = j THEN x ELSE Holder(i)]
  BY SMT, <1>1 DEF Holders
<1>3. Holders = [i \in Jobs |-> Holders[i]] /\ \A i \in Jobs : Holders[i] = Holder(i)
  BY SMT DEF Holders
<1>4. Holders' = [i \in Jobs |-> IF i = j THEN x ELSE Holders[i]] BY SMT, <1>2,
<1>3
<1> QED BY SMT, <1>3, <1>4

\* A step that the contract does not see, but for what it excuses.
Unseen == /\ fresh' = fresh /\ lane' = lane /\ settled' = settled
          /\ Parked' = Parked /\ Holders' = Holders

LEMMA UnseenStep ==
  ASSUME Unseen, Excused \subseteq Excused'
  PROVE  Promise!Next
BY Zenon DEF Unseen, Excused, Holders, Promise!Next

LEMMA MoveStep ==
  ASSUME NEW j \in Jobs, Promise!Move(j), Excused \subseteq Excused'
  PROVE  Promise!Next
BY Zenon DEF Excused, Promise!Next

LEMMA EffectKeeps ==
  ASSUME Authority, Custody', RedisEffect, fresh' = fresh, Excused \subseteq Excused'
  PROVE  Promise!Next
<1>r. RedisOK /\ Custody BY Zenon, BaseParts DEF Authority, RecordsOK
<1>n. \A j \in settled : j \notin Excused => j \notin lane /\ status[j] \in Outcomes
  BY Zenon DEF Authority, NoRerun, Excused
<1>o. "running" \notin Outcomes BY Zenon, Constants
<1>u. ASSUME UNCHANGED <<lane, proc, held, settled>> PROVE Promise!Next
  <2>1. Holders' = Holders BY Zenon, <1>u, <1>r, HoldersStay
  <2>2. Parked' = Parked BY Zenon, <1>u DEF Parked
  <2> QED BY Zenon, <1>u, <2>1, <2>2, UnseenStep DEF Unseen
<1>1. CASE UNCHANGED redis BY Zenon, <1>1, <1>u DEF redis, records
<1>2. CASE ClaimEffect
  <2> PICK w \in Workers, t \in Tokens, j \in Jobs : claimForWorkerScript(w, t, j)
    BY Zenon, <1>2 DEF ClaimEffect
  <2>1. CASE UNCHANGED <<lane, proc, index, status, token, owner, lease, mark, held, settled>>
    BY Zenon, <2>1, <1>u
  <2>2. CASE /\ j \in lane /\ lane' = lane \ {j}
             /\ proc' = [proc EXCEPT ![w] = @ \cup {j}]
             /\ UNCHANGED <<held, settled>>
    <3>1. proc'[w] = proc[w] \cup {j} /\ \A v \in Workers : v # w => proc'[v] = proc[v]
      BY Zenon, <2>2, <1>r DEF RedisOK
    <3>2. \A i \in Jobs, v \in Workers : i # j => (i \in proc'[v] <=> i \in proc[v])
      BY Zenon, <3>1
    <3>3. Holder(j)' = w BY Zenon, <3>1, HolderAfter
    <3>4. Holder(j) = NoWorker
      BY Zenon, <2>2, <1>r, HolderBefore DEF Custody, CustodyOf
    <3>5. Holders' = [Holders EXCEPT ![j] = w] BY Zenon, <3>2, <3>3, <1>r,
    HolderMoves
    <3>6. Holders[j] = NoWorker BY Zenon, <3>4 DEF Holders
    <3>7. j \in settled => j \in Excused BY Zenon, <2>2, <1>n
    <3>8. Parked' = Parked BY Zenon, <2>2 DEF Parked
    <3>9. Promise!Take(j, w)
      BY Zenon, <2>2, <3>5, <3>6, <3>7, <3>8
      DEF Promise!Take, Promise!Undecided, Holders, Excused
    <3> QED BY Zenon, <3>9, MoveStep DEF Promise!Move
  <2> QED BY Zenon, <2>1, <2>2 DEF claimForWorkerScript
<1>3. CASE StartEffect
  <2>1. UNCHANGED <<lane, proc, held, settled>>
    BY Zenon, <1>3 DEF StartEffect, markRunningScript
  <2> QED BY Zenon, <2>1, <1>u
<1>4. CASE RenewEffect
  <2>1. UNCHANGED <<lane, proc, held, settled>> BY Zenon, <1>4 DEF RenewEffect,
  renewScript
  <2> QED BY Zenon, <2>1, <1>u
<1>5. CASE OutcomeEffect
  <2> PICK w \in Workers, t \in AnyToken, j \in Jobs, x \in Outcomes :
        TerminalFence(w, j, t, x) /\ legacyTerminalScript(j, x)
    BY Zenon, <1>5 DEF OutcomeEffect
  <2>1. settled' = settled \cup {j} /\ UNCHANGED <<lane, proc, held>>
    BY Zenon DEF legacyTerminalScript
  <2>2. j \in proc[w] BY Zenon DEF TerminalFence, Delivered
  <2>3. Holders[j] # NoWorker BY Zenon, <2>2, <1>r, HolderBefore DEF Holders
  <2>4. Holders' = Holders BY Zenon, <2>1, <1>r, HoldersStay
  <2>5. Parked' = Parked BY Zenon, <2>1 DEF Parked
  <2>6. Promise!Commit(j) BY Zenon, <2>1, <2>3, <2>4, <2>5 DEF Promise!Commit,
  Holders
  <2> QED BY Zenon, <2>6, MoveStep DEF Promise!Move
<1>6. CASE AckEffect
  <2> PICK w \in Workers, j \in settled : ackScript(w, j) BY Zenon, <1>6
  DEF AckEffect
  <2>0. j \in Jobs BY Zenon, <1>r DEF RedisOK
  <2>1. Drop(w, j) /\ UNCHANGED <<lane, held, settled>> BY Zenon DEF ackScript
  <2>2. /\ j \notin proc'[w] /\ \A v \in Workers : v # w => proc'[v] = proc[v]
        /\ \A v \in Workers, i \in Jobs : i # j => (i \in proc'[v] <=> i \in proc[v])
    BY Zenon, <2>0, <2>1, <1>r, Dropped
  <2>3. Parked' = Parked BY Zenon, <2>1 DEF Parked
  <2>4. CASE j \in proc[w]
    <3>1. \A v \in Workers : j \notin proc'[v]
      BY Zenon, <2>0, <2>2, <2>4, <1>r, OneHolder
    <3>2. Holder(j)' = NoWorker BY Zenon, <3>1, <2>0, HolderAfter
    <3>3. Holders' = [Holders EXCEPT ![j] = NoWorker]
      BY Zenon, <3>2, <2>0, <2>2, <1>r, HolderMoves
    <3>4. Holders[j] # NoWorker BY Zenon, <2>0, <2>4, <1>r, HolderBefore
    DEF Holders
    <3>5. Promise!Retire(j)
      BY Zenon, <2>1, <2>3, <3>3, <3>4 DEF Promise!Retire, Holders
    <3> QED BY Zenon, <2>0, <3>5, MoveStep DEF Promise!Move
  <2>5. CASE j \notin proc[w]
    <3>1. \A i \in Jobs, v \in Workers : i \in proc'[v] <=> i \in proc[v]
      BY Zenon, <2>2, <2>5
    <3>2. Holders' = Holders BY Zenon, <3>1, <1>r, HoldersStay
    <3> QED BY Zenon, <2>1, <2>3, <3>2, UnseenStep DEF Unseen
  <2> QED BY Zenon, <2>4, <2>5
<1>7. CASE RequeueEffect
  <2> PICK w \in Workers, t \in AnyToken, j \in Jobs, m \in Modes :
        RequeueFence(w, j, t, m) /\ requeueScript(w, j, t, m)
    BY Zenon, <1>7 DEF RequeueEffect
  <2>1. Drop(w, j) /\ lane' = lane \cup {j} /\ UNCHANGED <<held, settled>>
    BY Zenon DEF requeueScript
  <2>2. \A i \in Jobs, v \in Workers : i # j => (i \in proc'[v] <=> i \in proc[v])
    BY Zenon, <2>1, <1>r, Dropped
  <2>3. j \in proc[w] /\ status[j] \notin Outcomes BY Zenon DEF RequeueFence
  <2>4. \A v \in Workers : j \notin proc'[v] BY Zenon, <2>1 DEF Custody,
  CustodyOf
  <2>5. Holder(j)' = NoWorker BY Zenon, <2>4, HolderAfter
  <2>6. Holders' = [Holders EXCEPT ![j] = NoWorker]
    BY Zenon, <2>2, <2>5, <1>r, HolderMoves
  <2>7. Holders[j] # NoWorker BY Zenon, <2>3, <1>r, HolderBefore DEF Holders
  <2>8. Parked' = Parked BY Zenon, <2>1 DEF Parked
  <2>9. j \in settled => j \in Excused BY Zenon, <2>3, <1>n
  <2>10. Promise!Return(j)
    BY Zenon, <2>1, <2>6, <2>7, <2>8, <2>9
    DEF Promise!Return, Promise!Undecided, Holders, Excused
  <2> QED BY Zenon, <2>10, MoveStep DEF Promise!Move
<1>8. CASE HoldEffect
  <2> PICK w \in Workers, t \in Tokens, j \in Jobs :
        HoldFence(w, j, t) /\ holdClaimScript(w, j, t)
    BY Zenon, <1>8 DEF HoldEffect
  <2>1. /\ Drop(w, j) /\ held' = [held EXCEPT ![j] = t] /\ UNCHANGED <<lane, settled>>
    BY Zenon DEF holdClaimScript
  <2>2. \A i \in Jobs, v \in Workers : i # j => (i \in proc'[v] <=> i \in proc[v])
    BY Zenon, <2>1, <1>r, Dropped
  <2>3. held'[j] # NoToken /\ \A i \in Jobs : i # j => held'[i] = held[i]
    BY Zenon, <2>1, <1>r, TokenFacts DEF RedisOK
  <2>4. \A v \in Workers : j \notin proc'[v] BY Zenon, <2>3 DEF Custody,
  CustodyOf
  <2>5. Parked' = Parked \cup {j} BY Zenon, <2>3 DEF Parked
  <2>6. CASE held[j] # NoToken
    <3>1. \A v \in Workers : j \notin proc[v] BY Zenon, <2>6, <1>r DEF Custody,
    CustodyOf
    <3>2. \A i \in Jobs, v \in Workers : i \in proc'[v] <=> i \in proc[v]
      BY Zenon, <2>2, <2>4, <3>1
    <3>3. Holders' = Holders BY Zenon, <3>2, <1>r, HoldersStay
    <3>4. Parked' = Parked BY Zenon, <2>5, <2>6 DEF Parked
    <3> QED BY Zenon, <2>1, <3>3, <3>4, UnseenStep DEF Unseen
  <2>7. CASE held[j] = NoToken
    <3>1. j \in proc[w] /\ status[j] = "running"
      BY Zenon, <2>7 DEF HoldFence, RenewFence, Delivered
    <3>2. Holder(j)' = NoWorker BY Zenon, <2>4, HolderAfter
    <3>3. Holders' = [Holders EXCEPT ![j] = NoWorker]
      BY Zenon, <2>2, <3>2, <1>r, HolderMoves
    <3>4. Holders[j] # NoWorker BY Zenon, <3>1, <1>r, HolderBefore DEF Holders
    <3>5. j \in settled => j \in Excused BY Zenon, <3>1, <1>n, <1>o
    <3>6. Promise!Park(j)
      BY Zenon, <2>1, <2>5, <3>3, <3>4, <3>5
      DEF Promise!Park, Promise!Undecided, Holders, Excused
    <3> QED BY Zenon, <3>6, MoveStep DEF Promise!Move
  <2> QED BY Zenon, <2>6, <2>7
<1>9. CASE ClearEffect \/ ExpiryEffect
  <2>1. UNCHANGED <<lane, proc, held, settled>>
    BY Zenon, <1>9 DEF ClearEffect, ExpiryEffect, DeleteRecord
  <2> QED BY Zenon, <2>1, <1>u
<1>10. CASE LapseEffect \/ GraceEffect
  <2>1. UNCHANGED <<lane, proc, held, settled>>
    BY Zenon, <1>10 DEF LapseEffect, GraceEffect
  <2> QED BY Zenon, <2>1, <1>u
<1> QED BY Zenon, <1>1, <1>2, <1>3, <1>4, <1>5, <1>6, <1>7, <1>8, <1>9, <1>10
    DEF RedisEffect

LEMMA EnqueueKeeps ==
  ASSUME Custody, Custody', NEW j \in Jobs, Enqueue(j)
  PROVE  Promise!Next
<1>1. /\ j \in fresh /\ fresh' = fresh \ {j} /\ lane' = lane \cup {j}
      /\ UNCHANGED <<proc, held, settled, cleared, strayed>>
  BY Zenon DEF Enqueue
<1>2. Holders' = Holders BY Zenon, <1>1, HoldersStay
<1>3. Parked' = Parked BY Zenon, <1>1 DEF Parked
<1>4. Promise!Submit(j) BY Zenon, <1>1, <1>2, <1>3 DEF Promise!Submit, Holders
<1>5. Excused \subseteq Excused' BY Zenon, <1>1 DEF Excused
<1> QED BY Zenon, <1>4, <1>5, MoveStep DEF Promise!Move

\* The scripts, the worker loops and the reapers implement the contract of
\* the queue, for every number of jobs, workers, tokens and faults.
THEOREM FarmKeepsPromise == Spec => KeepsPromise
<1>1. Init => Promise!Init
  <2> SUFFICES ASSUME Init PROVE Promise!Init OBVIOUS
  <2>1. \A j \in Jobs : Holder(j) = NoWorker BY Zenon DEF Init, Holder, Copies
  <2>2. Parked = {} BY Zenon DEF Init, Parked
  <2>3. [j \in Jobs |-> Holder(j)] = [j \in Jobs |-> NoWorker] BY Zenon, <2>1
  <2>4. fresh = Jobs /\ lane = {} /\ settled = {} /\ cleared \cup strayed = {}
    BY Zenon DEF Init
  <2> QED BY Zenon, <2>2, <2>3, <2>4 DEF Promise!Init
<1>2. Authority /\ Authority' /\ [Next]_vars => [Promise!Next]_(Promise!vars)
  <2> SUFFICES ASSUME Authority, Authority', [Next]_vars PROVE Promise!Next OBVIOUS
  <2>1. Base /\ Custody /\ Custody' BY Zenon DEF Authority
  <2>2. CASE \E j \in Jobs : Enqueue(j) BY Zenon, <2>1, <2>2, EnqueueKeeps
  <2>3. CASE RedisEffect /\ Remembers
    <3>1. fresh' = fresh /\ Excused \subseteq Excused'
      BY Zenon, <2>3 DEF Remembers, Excused
    <3> QED BY Zenon, <2>1, <2>3, <3>1, EffectKeeps
  <2> QED BY Zenon, <2>1, <2>2, <2>3, NextEffect
<1> QED BY AuthorityAlways, <1>1, <1>2, PTL DEF Spec, KeepsPromise, Promise!Spec
=============================================================================
