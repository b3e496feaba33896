---------------------------- MODULE FarmContract ----------------------------
(***************************************************************************)
(* What the farm queue promises about the delivery of a job, without       *)
(* Redis, tokens, leases or requests: a submitted job waits, one worker at *)
(* a time takes it, and that worker's delivery ends in one of three ways.  *)
(* It is returned, retired after its outcome is committed, or parked for   *)
(* an operator.  A job with a committed outcome is not delivered again     *)
(* unless it is excused (FarmDelivery says which jobs are).                *)
(***************************************************************************)
CONSTANTS Jobs, Workers, NoWorker

VARIABLES
  new,       \* jobs not submitted yet
  ready,     \* jobs that wait for a worker
  holder,    \* the worker each job is delivered to
  parked,    \* jobs that wait for an operator
  committed, \* jobs with an outcome
  excused    \* jobs that may be delivered again after their outcome

vars == <<new, ready, holder, parked, committed, excused>>

Init ==
  /\ new = Jobs /\ ready = {} /\ holder = [j \in Jobs |-> NoWorker]
  /\ parked = {} /\ committed = {} /\ excused = {}

Undecided(j) == j \in committed => j \in excused

Submit(j) ==
  /\ j \in new /\ new' = new \ {j} /\ ready' = ready \cup {j}
  /\ UNCHANGED <<holder, parked, committed>>

Take(j, w) ==
  /\ j \in ready /\ Undecided(j) /\ holder[j] = NoWorker
  /\ ready' = ready \ {j} /\ holder' = [holder EXCEPT ![j] = w]
  /\ UNCHANGED <<new, parked, committed>>

Return(j) ==
  /\ holder[j] # NoWorker /\ Undecided(j)
  /\ holder' = [holder EXCEPT ![j] = NoWorker] /\ ready' = ready \cup {j}
  /\ UNCHANGED <<new, parked, committed>>

Commit(j) ==
  /\ holder[j] # NoWorker /\ committed' = committed \cup {j}
  /\ UNCHANGED <<new, ready, holder, parked>>

Retire(j) ==
  /\ holder[j] # NoWorker /\ j \in committed
  /\ holder' = [holder EXCEPT ![j] = NoWorker]
  /\ UNCHANGED <<new, ready, parked, committed>>

Park(j) ==
  /\ holder[j] # NoWorker /\ Undecided(j)
  /\ holder' = [holder EXCEPT ![j] = NoWorker] /\ parked' = parked \cup {j}
  /\ UNCHANGED <<new, ready, committed>>

Move(j) ==
  \/ Submit(j) \/ (\E w \in Workers : Take(j, w)) \/ Return(j) \/ Commit(j)
  \/ Retire(j) \/ Park(j)

\* Jobs are excused on their own or in the step that moves one.
Next == /\ excused \subseteq excused'
        /\ \/ \E j \in Jobs : Move(j)
           \/ UNCHANGED <<new, ready, holder, parked, committed>>

Spec == Init /\ [][Next]_vars
=============================================================================
