----------------------------- MODULE Namespace -----------------------------
(***************************************************************************)
(* The namespace coordinator of the NFS server (nfs/namespace_operations   *)
(* .go).  A mutation of one or more names runs on a worker goroutine that  *)
(* owns the names until the backing change and the publication to the      *)
(* metadata mirror are both over; the RPC that asked for it waits with a   *)
(* deadline and may leave first.  Reads take a ticket and are refused when *)
(* a mutation of an overlapping name was admitted since.                   *)
(*                                                                         *)
(* A name is the sequence of its path components, << >> being the root     *)
(* (cleanNamespaceName's ".").  backing[n] and mirror[n] are versions of   *)
(* what the backend and the mirror hold at n: the work functions of        *)
(* handler.go and write_binding.go change the first, then publish it to    *)
(* the second.                                                             *)
(***************************************************************************)
EXTENDS Naturals, FiniteSets, Sequences, SequencesExt

CONSTANTS RawNames,   \* names as requests spell them: ".", ".." included
          Requests,   \* the sets of raw names that mutations ask for
          Ops,        \* mutations that can be in flight
          Readers,    \* reads that can be in flight
          MaxActive,  \* begin's cap on active operations (24 in the code)
          MaxVersion  \* bound on versions and generations (model only)

ASSUME CapAssumption == MaxActive \in Nat /\ MaxVersion \in Nat
ASSUME RequestAssumption == Requests \subseteq SUBSET RawNames
ASSUME FiniteAssumption == IsFiniteSet(Readers) /\ IsFiniteSet(Ops)

\* path.Clean of "/" + name: "." is dropped, ".." removes a component and
\* stays at the root.
CleanStep(clean, c) ==
  CASE c = "."  -> clean
    [] c = ".." -> IF clean = << >> THEN clean ELSE Front(clean)
    [] OTHER    -> Append(clean, c)

cleanNamespaceName(raw) == FoldLeft(CleanStep, << >>, raw)

Names == {cleanNamespaceName(raw) : raw \in RawNames}

ASSUME NameAssumption == Names \subseteq Seq(STRING)

VARIABLES op,         \* each operation: worker position, names and flags
          rpc,        \* the RPC that waits for each operation
          reads,      \* read epochs: generation and live tickets, per name
          ticket,     \* each reader's admission and the bytes it has read
          stopping,   \* namespaceCoordinator.stopping
          stopResult, \* what stop returned
          backing,    \* version at each name in the backend
          mirror      \* version at each name in the metadata mirror

vars == <<op, rpc, reads, ticket, stopping, stopResult, backing, mirror>>

-----------------------------------------------------------------------------
Idle == [pc |-> "idle", names |-> {}, mutated |-> FALSE, poison |-> FALSE,
         err |-> FALSE, remembered |-> FALSE]

NoTicket == [pc |-> "idle", name |-> << >>, generation |-> 0, seen |-> {}]

Operations ==
  [pc : {"idle", "working", "returned", "finishing", "failed"},
   names : SUBSET Names, mutated : BOOLEAN, poison : BOOLEAN, err : BOOLEAN,
   remembered : BOOLEAN]

Tickets ==
  [pc : {"idle", "reading", "served", "refused"}, name : Names \cup {<< >>},
   generation : Nat, seen : SUBSET [backing : Nat, mirror : Nat]]

TypeOK ==
  /\ op \in [Ops -> Operations]
  /\ rpc \in [Ops -> {"none", "waiting", "delivered", "abandoned"}]
  /\ reads \in [Names -> [generation : Nat, refs : Nat]]
  /\ ticket \in [Readers -> Tickets]
  /\ stopping \in BOOLEAN
  /\ stopResult \in {"none", "drained", "gaveUp"}
  /\ backing \in [Names -> Nat]
  /\ mirror \in [Names -> Nat]

\* Two names overlap when one is the other or an ancestor of it.
namespaceOverlap(a, b) == IsPrefix(a, b) \/ IsPrefix(b, a)

Overlaps(name, held) == \E h \in held : namespaceOverlap(name, h)

\* c.active is the set of operations that begin admitted and finish has not
\* removed; a failed one stays in it.
Active(o) == op[o].pc # "idle"

\* readErrorLocked over all active operations: EIO for a failed one and a
\* timeout otherwise, either way the read is refused.
readErrorLocked(name) == \E o \in Ops : Overlaps(name, op[o].names)

Init ==
  /\ op = [o \in Ops |-> Idle]
  /\ rpc = [o \in Ops |-> "none"]
  /\ reads = [n \in Names |-> [generation |-> 0, refs |-> 0]]
  /\ ticket = [r \in Readers |-> NoTicket]
  /\ stopping = FALSE
  /\ stopResult = "none"
  /\ backing = [n \in Names |-> 0]
  /\ mirror = [n \in Names |-> 0]

-----------------------------------------------------------------------------
(* Mutations. *)

\* Mutant: begin compares the names for equality.
AdmissibleExact(held) ==
  /\ ~stopping
  /\ Cardinality({o \in Ops : Active(o)}) < MaxActive
  /\ \A o \in Ops : op[o].names \cap held = {}

\* Mutant: begin does not look at stopping.
AdmissibleWhileStopping(held) ==
  /\ Cardinality({o \in Ops : Active(o)}) < MaxActive
  /\ \A o \in Ops : \A h \in op[o].names : ~Overlaps(h, held)

Admissible(held) ==
  /\ ~stopping
  /\ Cardinality({o \in Ops : Active(o)}) < MaxActive
  /\ \A o \in Ops : \A h \in op[o].names : ~Overlaps(h, held)

\* Mutant: begin does not invalidate the tickets of live readers.
NotInvalidated(held) == reads

Invalidated(held) ==
  [n \in Names |->
     [generation |-> IF reads[n].refs > 0 /\ Overlaps(n, held)
                     THEN reads[n].generation + 1 ELSE reads[n].generation,
      refs |-> reads[n].refs]]

\* begin, then the branch its caller takes.  caller is "waiting" for an RPC
\* whose worker runs the mutation (runNamespaceOperationUntil), "none" for a
\* caller that runs it itself (the drainer's admission, a bound write, a
\* Close).  An RPC past its deadline retires the operation with finish(nil)
\* before a worker exists.
begin(o, raws, caller, late) ==
  LET held == {cleanNamespaceName(raw) : raw \in raws}
  IN  /\ op[o].pc = "idle" /\ rpc[o] = "none"
      /\ Admissible(held)
      /\ \A n \in Names : Overlaps(n, held) => reads[n].generation < MaxVersion
      /\ op' = [op EXCEPT ![o] = [Idle EXCEPT
                  !.pc = IF late THEN "finishing" ELSE "working",
                  !.names = held]]
      /\ rpc' = [rpc EXCEPT ![o] = caller]
      /\ reads' = Invalidated(held)
      /\ UNCHANGED <<ticket, stopping, stopResult, backing, mirror>>

\* The work function changes the backend at and below names it owns: with a
\* known outcome (op.mutated = true), or between op.poison = true and the
\* proof of the outcome.
Mutate(o, at, ambiguous) ==
  /\ op[o].pc = "working"
  /\ at \in op[o].names
  /\ \A n \in Names : backing[n] < MaxVersion
  /\ op' = [op EXCEPT ![o].mutated = @ \/ ~ambiguous,
                      ![o].poison = @ \/ ambiguous]
  /\ backing' = [n \in Names |-> IF IsPrefix(at, n) THEN backing[n] + 1
                                                    ELSE backing[n]]
  /\ UNCHANGED <<rpc, reads, ticket, stopping, stopResult, mirror>>

\* The work function sets poison and the backend call fails without a
\* change, or its outcome is never learnt.
Poison(o) ==
  /\ op[o].pc = "working" /\ ~op[o].poison
  /\ op' = [op EXCEPT ![o].poison = TRUE]
  /\ UNCHANGED <<rpc, reads, ticket, stopping, stopResult, backing, mirror>>

\* The publication to the mirror commits; the outcome is proved and
\* op.poison = false.
Publish(o) ==
  /\ op[o].pc = "working"
  /\ op[o].mutated \/ op[o].poison
  /\ op' = [op EXCEPT ![o].poison = FALSE]
  /\ mirror' = [n \in Names |-> IF Overlaps(n, op[o].names) THEN backing[n]
                                                            ELSE mirror[n]]
  /\ UNCHANGED <<rpc, reads, ticket, stopping, stopResult, backing>>

Published(o) == \A n \in Names : Overlaps(n, op[o].names) => mirror[n] = backing[n]

\* work returns.  nil is returned only after a successful publication (or
\* when nothing was changed); an error at any point.
Return(o, err) ==
  /\ op[o].pc = "working"
  /\ ~err => Published(o) /\ ~op[o].poison
  /\ op' = [op EXCEPT ![o].pc = IF rpc[o] = "none" THEN "finishing" ELSE "returned",
                      ![o].err = err]
  /\ UNCHANGED <<rpc, reads, ticket, stopping, stopResult, backing, mirror>>

\* results <- result: the RPC is still there and takes the value.
Deliver(o) ==
  /\ op[o].pc = "returned" /\ rpc[o] = "waiting"
  /\ op' = [op EXCEPT ![o].pc = "finishing"]
  /\ rpc' = [rpc EXCEPT ![o] = "delivered"]
  /\ UNCHANGED <<reads, ticket, stopping, stopResult, backing, mirror>>

\* Mutant: the RPC waits for the work to return before it looks at the timer.
RPCTimeoutAfterReturn(o) ==
  /\ op[o].pc = "returned" /\ rpc[o] = "waiting"
  /\ rpc' = [rpc EXCEPT ![o] = "abandoned"]
  /\ UNCHANGED <<op, reads, ticket, stopping, stopResult, backing, mirror>>

\* The RPC's timer fires: it answers NFS3ERR_JUKEBOX and leaves.
RPCTimeout(o) ==
  /\ op[o].pc \in {"working", "returned"} /\ rpc[o] = "waiting"
  /\ rpc' = [rpc EXCEPT ![o] = "abandoned"]
  /\ UNCHANGED <<op, reads, ticket, stopping, stopResult, backing, mirror>>

\* Mutant: a success is remembered whatever became of the operation.
AbandonRemembersPoisoned(o, closeErr) ==
  /\ op[o].pc = "returned" /\ rpc[o] = "abandoned"
  /\ op' = [op EXCEPT ![o].pc = "finishing", ![o].poison = @ \/ closeErr,
                      ![o].remembered = ~op[o].err]
  /\ UNCHANGED <<rpc, reads, ticket, stopping, stopResult, backing, mirror>>

\* Mutant: the worker notices an abandoned RPC only when the work succeeded.
AbandonSuccessOnly(o, closeErr) ==
  /\ op[o].pc = "returned" /\ rpc[o] = "abandoned" /\ ~op[o].err
  /\ op' = [op EXCEPT ![o].pc = "finishing", ![o].poison = @ \/ closeErr,
                      ![o].remembered = ~op[o].poison /\ ~closeErr]
  /\ UNCHANGED <<rpc, reads, ticket, stopping, stopResult, backing, mirror>>

\* <-abandoned: the worker closes the file nobody took, a failing close
\* poisons the operation, and a clean success is remembered for the resend.
Abandon(o, closeErr) ==
  LET poisoned == op[o].poison \/ closeErr
  IN  /\ op[o].pc = "returned" /\ rpc[o] = "abandoned"
      /\ op' = [op EXCEPT ![o].pc = "finishing", ![o].poison = poisoned,
                          ![o].remembered = ~op[o].err /\ ~poisoned]
      /\ UNCHANGED <<rpc, reads, ticket, stopping, stopResult, backing, mirror>>

\* Mutant: finish looks at the error and not at poison.
UnsettledByError(o) == op[o].mutated /\ op[o].err

Unsettled(o) == op[o].poison \/ (op[o].mutated /\ op[o].err)

\* finish: an operation whose outcome is not settled keeps its names.  The
\* RPC that took the result replies after it (<-done).
finish(o) ==
  /\ op[o].pc = "finishing"
  /\ op' = [op EXCEPT ![o] = IF Unsettled(o) THEN [@ EXCEPT !.pc = "failed"]
                                             ELSE Idle]
  /\ rpc' = [rpc EXCEPT ![o] = "none"]
  /\ UNCHANGED <<reads, ticket, stopping, stopResult, backing, mirror>>

-----------------------------------------------------------------------------
(* Reads. *)

\* Mutant: admitRead takes a ticket without counting it in the epoch.
admitReadUncounted(r, raw) ==
  LET name == cleanNamespaceName(raw)
  IN  /\ ticket[r].pc = "idle"
      /\ ~readErrorLocked(name)
      /\ ticket' = [ticket EXCEPT ![r] = [pc |-> "reading", name |-> name,
                      generation |-> reads[name].generation, seen |-> {}]]
      /\ UNCHANGED <<op, rpc, reads, stopping, stopResult, backing, mirror>>

admitRead(r, raw) ==
  LET name == cleanNamespaceName(raw)
  IN  /\ ticket[r].pc = "idle"
      /\ ~readErrorLocked(name)
      /\ reads' = [reads EXCEPT ![name].refs = @ + 1]
      /\ ticket' = [ticket EXCEPT ![r] = [pc |-> "reading", name |-> name,
                      generation |-> reads[name].generation, seen |-> {}]]
      /\ UNCHANGED <<op, rpc, stopping, stopResult, backing, mirror>>

\* One of the reads an admitted request makes, at any time before the end
\* (QoS waits and later subreads included): it takes the mirror's identity
\* and the backend's bytes.
Subread(r) ==
  LET n == ticket[r].name
  IN  /\ ticket[r].pc = "reading"
      /\ ticket' = [ticket EXCEPT ![r].seen =
                      @ \cup {[backing |-> backing[n], mirror |-> mirror[n]]}]
      /\ UNCHANGED <<op, rpc, reads, stopping, stopResult, backing, mirror>>

\* finishBytes: check, and the bytes are cleared when it refuses ...
check(r) ==
  LET n == ticket[r].name
      ok == ~readErrorLocked(n) /\ reads[n].generation = ticket[r].generation
  IN  /\ ticket[r].pc = "reading"
      /\ ticket' = [ticket EXCEPT ![r].pc = IF ok THEN "served" ELSE "refused",
                                  ![r].seen = IF ok THEN @ ELSE {}]
      /\ UNCHANGED <<op, rpc, reads, stopping, stopResult, backing, mirror>>

\* ... then release, in a critical section of its own.  The last ticket of a
\* name deletes its epoch, so the next one starts at generation 0.
release(r) ==
  LET n == ticket[r].name
  IN  /\ ticket[r].pc \in {"served", "refused"}
      /\ reads' = [reads EXCEPT ![n] =
                     [generation |-> IF @.refs = 1 THEN 0 ELSE @.generation,
                      refs |-> @.refs - 1]]
      /\ ticket' = [ticket EXCEPT ![r] = NoTicket]
      /\ UNCHANGED <<op, rpc, stopping, stopResult, backing, mirror>>

-----------------------------------------------------------------------------
(* Shutdown. *)

stop ==
  /\ ~stopping
  /\ stopping' = TRUE
  /\ UNCHANGED <<op, rpc, reads, ticket, stopResult, backing, mirror>>

\* A pass of stop's loop that returns: nothing is active, or a failed
\* operation will never leave, or the timer fired.
StopDrained ==
  /\ stopping /\ stopResult = "none"
  /\ \A o \in Ops : ~Active(o)
  /\ stopResult' = "drained"
  /\ UNCHANGED <<op, rpc, reads, ticket, stopping, backing, mirror>>

StopGivesUp ==
  /\ stopping /\ stopResult = "none"
  /\ \E o \in Ops : Active(o)
  /\ stopResult' = "gaveUp"
  /\ UNCHANGED <<op, rpc, reads, ticket, stopping, backing, mirror>>

-----------------------------------------------------------------------------
Next ==
  \/ \E o \in Ops :
       \/ \E raws \in Requests, caller \in {"waiting", "none"} :
            begin(o, raws, caller, FALSE)
       \/ \E raws \in Requests : begin(o, raws, "none", TRUE)
       \/ \E at \in Names, ambiguous \in BOOLEAN : Mutate(o, at, ambiguous)
       \/ Poison(o)
       \/ Publish(o)
       \/ \E err \in BOOLEAN : Return(o, err)
       \/ Deliver(o)
       \/ RPCTimeout(o)
       \/ \E closeErr \in BOOLEAN : Abandon(o, closeErr)
       \/ finish(o)
  \/ \E r \in Readers :
       \/ \E raw \in RawNames : admitRead(r, raw)
       \/ Subread(r)
       \/ check(r)
       \/ release(r)
  \/ stop
  \/ StopDrained
  \/ StopGivesUp

Spec == Init /\ [][Next]_vars

\* The goroutine of an operation runs on once its work has returned, and the
\* RPC's select takes the result or the timer.  Nothing is assumed of the
\* work itself: a backend call may never return.
Fairness ==
  \A o \in Ops : /\ WF_vars(Deliver(o) \/ RPCTimeout(o))
                  /\ WF_vars(\E closeErr \in BOOLEAN : Abandon(o, closeErr))
                  /\ WF_vars(finish(o))

FairSpec == Spec /\ Fairness

-----------------------------------------------------------------------------
(* Properties. *)

\* Two operations in flight never own the same name, nor one a folder and
\* the other a name below it (begin's overlap test), however their requests
\* spell the names.
MutualExclusion ==
  \A o1, o2 \in Ops : o1 # o2 =>
    \A n1 \in op[o1].names, n2 \in op[o2].names : ~namespaceOverlap(n1, n2)

\* Wherever backend and mirror disagree, an operation still owns the name:
\* finish retires an operation only once its change is published, and keeps
\* the names of one that failed in between.
DivergenceIsOwned ==
  \A n \in Names : backing[n] # mirror[n] =>
    \E o \in Ops : Active(o) /\ Overlaps(n, op[o].names)

\* The bytes finishBytes lets through were all read from one version of the
\* file, and that version is the one the mirror described: no mutation of the
\* name or of a folder above it came between admission and check, also when
\* it began and finished within the read, and also across the deletion and
\* re-creation of the name's epoch.
ReadIsolation ==
  \A r \in Readers : ticket[r].pc = "served" =>
    \A s, t \in ticket[r].seen : s = t /\ s.backing = s.mirror

\* A success is remembered for the client's resend only if finish then
\* retires the operation: a resend is never answered from a change whose
\* names stay blocked, nor from one that is not published.
RememberedIsSettled ==
  \A o \in Ops : op[o].remembered => op[o].pc # "failed" /\ Published(o)

\* Once stop has returned true nothing changes the backend or the mirror any
\* more: the handler tears the store and the spool down after it.
QuietAfterStop ==
  [][stopResult = "drained" => UNCHANGED <<backing, mirror>>]_vars

\* Every RPC is answered, also when its backend call never returns.
RPCAnswered == \A o \in Ops : rpc[o] = "waiting" ~> rpc[o] # "waiting"

\* An operation whose work has returned is retired or marked failed, whether
\* or not its RPC is still waiting: the hand-over of the result cannot block
\* the worker while it owns the names.
ReturnedIsRetired ==
  \A o \in Ops : op[o].pc = "returned" ~> op[o].pc \in {"idle", "failed"}
=============================================================================
