-------------------------- MODULE NamespaceProofs --------------------------
(***************************************************************************)
(* Proofs that the namespace coordinator keeps its safety properties for   *)
(* every set of names, operations and readers and every cap.               *)
(***************************************************************************)
EXTENDS Namespace, FiniteSetTheorems, TLAPS

\* What finish relies on: an operation that has changed something which is
\* not published is marked so that finish will keep its names.
Marked(o) ==
  \/ op[o].pc = "working" /\ (op[o].mutated \/ op[o].poison)
  \/ op[o].pc \in {"returned", "finishing"} /\ Unsettled(o)
  \/ op[o].pc = "failed"

DivergenceIsMarked ==
  \A n \in Names : backing[n] # mirror[n] =>
    \E o \in Ops : Marked(o) /\ Overlaps(n, op[o].names)

IdleOwnsNothing == \A o \in Ops : op[o].pc = "idle" => op[o].names = {}

\* A ticket's epoch is live and never behind the ticket.
Holders(n) == {r \in Readers : ticket[r].pc # "idle" /\ ticket[r].name = n}

EpochsCounted ==
  /\ \A n \in Names : reads[n].refs = Cardinality(Holders(n))
  /\ \A r \in Readers : ticket[r].pc # "idle" =>
       /\ ticket[r].name \in Names
       /\ ticket[r].generation <= reads[ticket[r].name].generation

\* While a ticket is current no operation owns an overlapping name, so
\* everything read under it is what backend and mirror hold now.
Current(r) == reads[ticket[r].name].generation = ticket[r].generation

CurrentReadsStand ==
  \A r \in Readers : ticket[r].pc = "reading" /\ Current(r) =>
    /\ ~readErrorLocked(ticket[r].name)
    /\ \A s \in ticket[r].seen :
         s = [backing |-> backing[ticket[r].name], mirror |-> mirror[ticket[r].name]]

\* Work that returned nil has published, and stays published until finish.
RememberedIsFinishing ==
  \A o \in Ops :
    /\ op[o].remembered => op[o].pc = "finishing" /\ ~Unsettled(o) /\ Published(o)
    /\ op[o].pc = "returned" /\ ~op[o].err => Published(o)

StopIsFinal ==
  stopResult = "drained" => stopping /\ \A o \in Ops : op[o].pc = "idle"

IInv ==
  /\ TypeOK /\ MutualExclusion /\ IdleOwnsNothing /\ DivergenceIsMarked
  /\ EpochsCounted /\ CurrentReadsStand /\ ReadIsolation
  /\ RememberedIsFinishing /\ StopIsFinal

-----------------------------------------------------------------------------
(* Facts about overlapping names. *)

\* namespaceOverlap does not depend on the order of its arguments.
LEMMA OverlapSymmetric ==
  ASSUME NEW a, NEW b PROVE namespaceOverlap(a, b) <=> namespaceOverlap(b, a)
BY Zenon DEF namespaceOverlap

\* Two names with a common extension overlap, and a name that is a prefix of
\* a prefix is a prefix.
LEMMA PrefixChain ==
  ASSUME NEW a \in Seq(STRING), NEW n \in Seq(STRING), NEW h \in Seq(STRING),
         IsPrefix(a, n), namespaceOverlap(n, h)
  PROVE  namespaceOverlap(a, h)
<1>1. \A x, y \in Seq(STRING) : IsPrefix(x, y) <=>
        Len(x) <= Len(y) /\ \A i \in 1..Len(x) : x[i] = y[i]
  <2> TAKE x, y \in Seq(STRING)
  <2>1. CASE Len(x) <= Len(y)
    <3> DEFINE l == Len(x)
    <3>1. l \in Nat /\ l <= Len(x) /\ l <= Len(y) /\ Len(y) \in Nat BY <2>1
    <3> HIDE DEF l
    <3>2. \A z \in Seq(STRING) : l <= Len(z) =>
            Len(SubSeq(z, 1, l)) = l /\ \A i \in 1..l : SubSeq(z, 1, l)[i] = z[i]
      BY <3>1
    <3>3. SubSeq(x, 1, l) = SubSeq(y, 1, l) <=> \A i \in 1..l : x[i] = y[i]
      BY <3>1, <3>2
    <3> QED BY <2>1, <3>3, Zenon DEF IsPrefix, l
  <2>2. CASE ~(Len(x) <= Len(y)) BY <2>2, Zenon DEF IsPrefix
  <2> QED BY <2>1, <2>2, Zenon
<1>2. QED BY <1>1 DEF namespaceOverlap

\* A change at a name an operation owns touches only names that overlap it,
\* and none that overlap another operation's.
LEMMA MutateStaysInside ==
  ASSUME NEW o \in Ops, NEW at \in op[o].names, NEW n \in Names, IsPrefix(at, n),
         TypeOK, MutualExclusion
  PROVE  /\ Overlaps(n, op[o].names)
         /\ \A p \in Ops : p # o => ~Overlaps(n, op[p].names)
<1>1. op[o].names \subseteq Names /\ Names \subseteq Seq(STRING)
  BY NameAssumption, Zenon DEF TypeOK, Operations
<1>2. Overlaps(n, op[o].names) BY <1>1, Zenon DEF Overlaps, namespaceOverlap
<1>3. ASSUME NEW p \in Ops, p # o, NEW h \in op[p].names, namespaceOverlap(n, h)
      PROVE FALSE
  <2>1. h \in Seq(STRING) BY NameAssumption, Zenon DEF TypeOK, Operations
  <2>2. namespaceOverlap(at, h) BY <1>1, <1>3, <2>1, PrefixChain, Zenon
  <2>3. QED BY <1>3, <2>2, Zenon DEF MutualExclusion
<1>4. QED BY <1>2, <1>3, Zenon DEF Overlaps

-----------------------------------------------------------------------------
(* The inductive invariant. *)

LEMMA Initially == Init => IInv
<1> SUFFICES ASSUME Init PROVE IInv BY Zenon
<1>1. TypeOK BY Zenon DEF Init, TypeOK, Operations, Tickets, Idle, NoTicket
<1>2. EpochsCounted
  <2>1. \A n \in Names : Holders(n) = {} BY Zenon DEF Init, Holders, NoTicket
  <2>2. QED BY <2>1, FS_EmptySet, Zenon DEF Init, EpochsCounted, NoTicket
<1>3. QED BY <1>1, <1>2, Zenon DEF Init, IInv, Idle, NoTicket, MutualExclusion,
    IdleOwnsNothing, DivergenceIsMarked, CurrentReadsStand, ReadIsolation,
    RememberedIsFinishing, StopIsFinal

\* begin invalidates every current ticket that overlaps the new names.
LEMMA BeginPreserves ==
  ASSUME IInv, NEW o \in Ops, NEW raws \in Requests,
         NEW caller \in {"waiting", "none"}, NEW late \in BOOLEAN,
         begin(o, raws, caller, late)
  PROVE  IInv'
<1> DEFINE held == {cleanNamespaceName(raw) : raw \in raws}
<1>0. held \subseteq Names BY RequestAssumption, Zenon DEF Names
<1>a. op'[o].names = held /\ ~op'[o].remembered /\ op'[o].pc # "idle"
      /\ \A p \in Ops \ {o} : op'[p] = op[p]
  BY Zenon DEF IInv, TypeOK, Operations, begin, Idle
<1>b. Admissible(held) /\ reads' = Invalidated(held) /\ op[o].pc = "idle"
      /\ UNCHANGED <<ticket, stopping, stopResult, backing, mirror>>
  BY Zenon DEF begin
<1>1. TypeOK'
  <2>1. op' \in [Ops -> Operations]
    BY <1>0, Zenon DEF IInv, TypeOK, Operations, begin, Idle
  <2>2. reads' \in [Names -> [generation : Nat, refs : Nat]]
    BY <1>b DEF IInv, TypeOK, Invalidated
  <2>3. QED BY <1>b, <2>1, <2>2, Zenon DEF IInv, TypeOK, begin
<1>2. MutualExclusion'
  BY <1>a, <1>b, OverlapSymmetric DEF IInv, MutualExclusion, Admissible, Overlaps
<1>3. IdleOwnsNothing' BY <1>a, Zenon DEF IInv, IdleOwnsNothing
<1>4. DivergenceIsMarked'
  <2>1. ASSUME NEW n \in Names, backing[n] # mirror[n]
        PROVE  \E p \in Ops : Marked(p)' /\ Overlaps(n, op'[p].names)
    <3>1. PICK p \in Ops : Marked(p) /\ Overlaps(n, op[p].names)
      BY <2>1, Zenon DEF IInv, DivergenceIsMarked
    <3>2. p # o BY <1>b, <3>1, Zenon DEF Marked
    <3>3. QED BY <1>a, <3>1, <3>2, Zenon DEF Marked, Unsettled
  <2>2. QED BY <1>b, <2>1, Zenon DEF DivergenceIsMarked
<1>5. EpochsCounted'
  <2>1. \A n \in Names : /\ Holders(n)' = Holders(n)
                         /\ reads'[n].refs = reads[n].refs
                         /\ reads[n].generation <= reads'[n].generation
    BY <1>b DEF IInv, TypeOK, Holders, Invalidated
  <2>2. \A n \in Names : reads'[n].refs = Cardinality(Holders(n)')
    BY <2>1, Zenon DEF IInv, EpochsCounted
  <2>3. \A r \in Readers : ticket[r].pc # "idle" =>
          /\ ticket[r].name \in Names
          /\ ticket[r].generation <= reads'[ticket[r].name].generation
    BY <1>1, <2>1 DEF IInv, TypeOK, Tickets, EpochsCounted
  <2>4. QED BY <1>b, <2>2, <2>3, Zenon DEF EpochsCounted
<1>6. CurrentReadsStand'
  <2> SUFFICES ASSUME NEW r \in Readers, ticket[r].pc = "reading", Current(r)'
               PROVE  /\ ~readErrorLocked(ticket[r].name)'
                      /\ Current(r)
    BY <1>b, Zenon DEF IInv, CurrentReadsStand
  <2> DEFINE n == ticket[r].name
  <2>1. n \in Names /\ ticket[r].generation <= reads[n].generation
        /\ ticket[r].generation \in Nat
    BY Zenon DEF IInv, EpochsCounted, TypeOK, Tickets
  <2>2. reads[n].refs > 0
    <3>1. r \in Holders(n) /\ Holders(n) \subseteq Readers BY Zenon DEF Holders
    <3>2. IsFiniteSet(Holders(n)) /\ Cardinality(Holders(n)) \in Nat
      BY <3>1, FiniteAssumption, FS_Subset, FS_CardinalityType, Zenon
    <3>3. Cardinality(Holders(n)) # 0 BY <3>1, <3>2, FS_EmptySet, Zenon
    <3>4. QED BY <2>1, <3>2, <3>3 DEF IInv, EpochsCounted
  <2>3. ~Overlaps(n, held)
    BY <1>b, <2>1, <2>2 DEF Current, Invalidated, IInv, TypeOK
  <2>4. reads'[n].generation = reads[n].generation
    BY <1>b, <2>1, <2>3, Zenon DEF Invalidated
  <2>5. Current(r) BY <1>b, <2>4, Zenon DEF Current
  <2>6. QED BY <1>a, <1>b, <2>3, <2>5, Zenon DEF IInv, CurrentReadsStand, readErrorLocked
<1>7. RememberedIsFinishing'
  <2>1. \A p \in Ops \ {o} : (Published(p) => Published(p)')
                              /\ (Unsettled(p)' <=> Unsettled(p))
    BY <1>a, <1>b, Zenon DEF Published, Unsettled
  <2>2. op'[o].pc # "returned" BY Zenon DEF begin, IInv, TypeOK, Idle, Operations
  <2>3. QED BY <1>a, <2>1, <2>2, Zenon DEF IInv, RememberedIsFinishing
<1>8. ReadIsolation' /\ StopIsFinal'
  BY <1>b, Zenon DEF IInv, ReadIsolation, StopIsFinal, Admissible
<1>9. QED BY <1>1, <1>2, <1>3, <1>4, <1>5, <1>6, <1>7, <1>8, Zenon DEF IInv

\* A step of an operation that takes no name leaves exclusion and the reads
\* alone, if it changes backend and mirror only at names it owns.
LEMMA OwnedChangeKeepsReads ==
  ASSUME IInv, UNCHANGED <<reads, ticket>>,
         \A p \in Ops : op'[p].names \subseteq op[p].names,
         \A n \in Names : ~readErrorLocked(n) =>
           backing'[n] = backing[n] /\ mirror'[n] = mirror[n]
  PROVE  MutualExclusion' /\ EpochsCounted' /\ CurrentReadsStand' /\ ReadIsolation'
<1>1. MutualExclusion' BY Zenon DEF IInv, MutualExclusion
<1>2. EpochsCounted'
  <2>1. \A n \in Names : Holders(n)' = Holders(n) BY Zenon DEF Holders
  <2>2. QED BY <2>1, Zenon DEF IInv, EpochsCounted
<1>3. CurrentReadsStand'
  <2> SUFFICES ASSUME NEW r \in Readers, ticket[r].pc = "reading", Current(r)
               PROVE  LET n == ticket[r].name
                      IN  /\ ~readErrorLocked(n)'
                          /\ \A s \in ticket[r].seen :
                               s = [backing |-> backing'[n], mirror |-> mirror'[n]]
    BY Zenon DEF CurrentReadsStand, Current
  <2>1. ticket[r].name \in Names BY Zenon DEF IInv, EpochsCounted
  <2>2. ~readErrorLocked(ticket[r].name) BY Zenon DEF IInv, CurrentReadsStand
  <2>3. ~readErrorLocked(ticket[r].name)' BY <2>2, Zenon DEF readErrorLocked, Overlaps
  <2>4. QED BY <2>1, <2>2, <2>3, Zenon DEF IInv, CurrentReadsStand
<1>4. ReadIsolation' BY Zenon DEF IInv, ReadIsolation
<1>5. QED BY <1>1, <1>2, <1>3, <1>4, Zenon

\* The work's change reaches no name that overlaps another operation's.
LEMMA MutatePreserves ==
  ASSUME IInv, NEW o \in Ops, NEW at \in Names, NEW ambiguous \in BOOLEAN,
         Mutate(o, at, ambiguous)
  PROVE  IInv'
<1>a. /\ op'[o].names = op[o].names /\ op'[o].pc = "working"
      /\ op'[o].mutated \/ op'[o].poison
      /\ op'[o].remembered = op[o].remembered
      /\ \A p \in Ops \ {o} : op'[p] = op[p]
      /\ UNCHANGED <<reads, ticket, stopping, stopResult, mirror>>
  <2>1. op \in [Ops -> Operations] /\ op[o] \in Operations
    BY Zenon DEF IInv, TypeOK
  <2>2. /\ op[o].pc = "working"
        /\ op' = [op EXCEPT ![o].mutated = @ \/ ~ambiguous,
                            ![o].poison = @ \/ ambiguous]
        /\ UNCHANGED <<reads, ticket, stopping, stopResult, mirror>>
    BY Zenon DEF Mutate
  <2>3. \A p \in Ops \ {o} : op'[p] = op[p]
    BY <2>1, <2>2, Zenon
  <2>4. op'[o] = [op[o] EXCEPT !.mutated = @ \/ ~ambiguous, !.poison = @ \/ ambiguous]
    BY <2>1, <2>2, Zenon
  <2>5. /\ op'[o].names = op[o].names /\ op'[o].pc = "working"
        /\ op'[o].mutated \/ op'[o].poison
        /\ op'[o].remembered = op[o].remembered
    BY <2>1, <2>2, <2>4, Zenon DEF Operations
  <2> QED
    BY <2>2, <2>3, <2>5, Zenon
<1>b. \A n \in Names : backing'[n] # backing[n] =>
        /\ Overlaps(n, op[o].names)
        /\ \A p \in Ops : p # o => ~Overlaps(n, op[p].names)
  <2>1. \A n \in Names : backing'[n] # backing[n] => IsPrefix(at, n)
    BY Zenon DEF Mutate, IInv, TypeOK
  <2>2. QED BY <2>1, MutateStaysInside, Zenon DEF Mutate, IInv
<1>1. TypeOK'
  <2> DEFINE m == op[o].mutated \/ ~ambiguous
             q == op[o].poison \/ ambiguous
  <2>1. op[o] \in Operations BY Zenon DEF IInv, TypeOK
  <2>2. m \in BOOLEAN /\ q \in BOOLEAN BY Zenon
  <2>3. op' = [op EXCEPT ![o] = [op[o] EXCEPT !.mutated = m, !.poison = q]]
    BY Zenon DEF Mutate
  <2> HIDE DEF m, q
  <2>4. [op[o] EXCEPT !.mutated = m, !.poison = q] \in Operations
    BY <2>1, <2>2, Zenon DEF Operations
  <2>5. backing' \in [Names -> Nat] BY DEF IInv, TypeOK, Mutate
  <2>6. op' \in [Ops -> Operations] BY <2>3, <2>4, Zenon DEF IInv, TypeOK
  <2>7. rpc' = rpc BY Zenon DEF Mutate
  <2>8. QED BY <1>a, <2>5, <2>6, <2>7, Zenon DEF IInv, TypeOK
<1>2. MutualExclusion' /\ EpochsCounted' /\ CurrentReadsStand' /\ ReadIsolation'
  BY <1>a, <1>b, OwnedChangeKeepsReads, Zenon DEF readErrorLocked
<1>3. IdleOwnsNothing' BY <1>a, Zenon DEF IInv, IdleOwnsNothing
<1>4. DivergenceIsMarked'
  <2>1. ASSUME NEW n \in Names, backing'[n] # mirror[n]
        PROVE  \E p \in Ops : Marked(p)' /\ Overlaps(n, op'[p].names)
    <3>1. CASE backing'[n] # backing[n]
      BY <3>1, <1>a, <1>b, Zenon DEF Marked
    <3>2. CASE backing'[n] = backing[n]
      <4>1. PICK p \in Ops : Marked(p) /\ Overlaps(n, op[p].names)
        BY <2>1, <3>2, Zenon DEF IInv, DivergenceIsMarked
      <4>2. QED BY <1>a, <4>1, Zenon DEF Marked, Unsettled
    <3>3. QED BY <3>1, <3>2, Zenon
  <2>2. QED BY <1>a, <2>1, Zenon DEF DivergenceIsMarked
<1>5. RememberedIsFinishing'
  <2>1. ~op'[o].remembered BY <1>a, Zenon DEF IInv, RememberedIsFinishing, Mutate
  <2>2. ASSUME NEW p \in Ops, p # o PROVE Published(p) => Published(p)'
    BY <1>a, <1>b, <2>2, Zenon DEF Published
  <2>3. QED BY <1>a, <2>1, <2>2, Zenon DEF IInv, RememberedIsFinishing, Unsettled
<1>6. StopIsFinal' BY <1>a, Zenon DEF IInv, StopIsFinal, Mutate
<1>7. QED BY <1>1, <1>2, <1>3, <1>4, <1>5, <1>6, Zenon DEF IInv

LEMMA PublishPreserves ==
  ASSUME IInv, NEW o \in Ops, Publish(o)
  PROVE  IInv'
<1>a. /\ op'[o].names = op[o].names /\ op'[o].pc = "working"
      /\ op'[o].remembered = op[o].remembered
      /\ \A p \in Ops \ {o} : op'[p] = op[p]
      /\ UNCHANGED <<reads, ticket, stopping, stopResult, backing>>
  BY Zenon DEF IInv, TypeOK, Operations, Publish
<1>b. \A n \in Names : mirror'[n] = IF Overlaps(n, op[o].names) THEN backing[n]
                                                               ELSE mirror[n]
  BY Zenon DEF Publish
<1>1. TypeOK'
  <2>0. op[o] \in Operations BY Zenon DEF IInv, TypeOK
  <2>1. [op[o] EXCEPT !.poison = FALSE] \in Operations BY <2>0, Zenon DEF Operations
  <2>2. op' = [op EXCEPT ![o] = [op[o] EXCEPT !.poison = FALSE]] BY Zenon DEF Publish
  <2>3. mirror' \in [Names -> Nat] BY Zenon DEF IInv, TypeOK, Publish
  <2>4. QED BY <2>1, <2>2, <2>3, Zenon DEF IInv, TypeOK, Publish
<1>2. MutualExclusion' /\ EpochsCounted' /\ CurrentReadsStand' /\ ReadIsolation'
  BY <1>a, <1>b, OwnedChangeKeepsReads, Zenon DEF readErrorLocked
<1>3. IdleOwnsNothing' BY <1>a, Zenon DEF IInv, IdleOwnsNothing
<1>4. DivergenceIsMarked'
  <2>1. ASSUME NEW n \in Names, backing[n] # mirror'[n]
        PROVE  \E p \in Ops : Marked(p)' /\ Overlaps(n, op'[p].names)
    <3>1. ~Overlaps(n, op[o].names) /\ mirror'[n] = mirror[n] BY <1>b, <2>1, Zenon
    <3>2. PICK p \in Ops : Marked(p) /\ Overlaps(n, op[p].names)
      BY <2>1, <3>1, Zenon DEF IInv, DivergenceIsMarked
    <3>3. p # o BY <3>1, <3>2, Zenon
    <3>4. QED BY <1>a, <3>2, <3>3, Zenon DEF Marked, Unsettled
  <2>2. QED BY <1>a, <2>1, Zenon DEF DivergenceIsMarked
<1>5. RememberedIsFinishing'
  <2>1. ~op'[o].remembered BY <1>a, Zenon DEF IInv, RememberedIsFinishing, Publish
  <2>2. ASSUME NEW p \in Ops, p # o PROVE Published(p) => Published(p)'
    BY <1>a, <1>b, <2>2, Zenon DEF Published
  <2>3. QED BY <1>a, <2>1, <2>2, Zenon DEF IInv, RememberedIsFinishing, Unsettled
<1>6. StopIsFinal' BY <1>a, Zenon DEF IInv, StopIsFinal, Publish
<1>7. QED BY <1>1, <1>2, <1>3, <1>4, <1>5, <1>6, Zenon DEF IInv

\* Steps of an operation that touch neither backend nor mirror: only the
\* operation's flags and position matter.
LEMMA BookkeepingPreserves ==
  ASSUME IInv, NEW o \in Ops, TypeOK',
         UNCHANGED <<reads, ticket, stopping, stopResult, backing, mirror>>,
         \A p \in Ops \ {o} : op'[p] = op[p],
         op[o].pc # "idle",
         op'[o].names = op[o].names \/ (op'[o].pc = "idle" /\ op'[o].names = {}),
         Marked(o) => Marked(o)',
         op'[o].pc = "idle" => op'[o].names = {},
         op'[o].remembered =>
           op'[o].pc = "finishing" /\ ~Unsettled(o)' /\ Published(o)',
         op'[o].pc = "returned" /\ ~op'[o].err => Published(o)'
  PROVE  IInv'
<1>1. MutualExclusion' /\ EpochsCounted' /\ CurrentReadsStand' /\ ReadIsolation'
  BY OwnedChangeKeepsReads, Zenon
<1>2. IdleOwnsNothing' BY Zenon DEF IInv, IdleOwnsNothing
<1>3. DivergenceIsMarked'
  <2>1. ASSUME NEW n \in Names, backing[n] # mirror[n]
        PROVE  \E p \in Ops : Marked(p)' /\ Overlaps(n, op'[p].names)
    <3>1. PICK p \in Ops : Marked(p) /\ Overlaps(n, op[p].names)
      BY <2>1, Zenon DEF IInv, DivergenceIsMarked
    <3>2. CASE p # o BY <3>1, <3>2, Zenon DEF Marked, Unsettled
    <3>3. CASE p = o
      <4>1. Marked(o)' BY <3>1, <3>3, Zenon
      <4>2. op'[o].names = op[o].names BY <4>1, Zenon DEF Marked
      <4>3. QED BY <3>1, <3>3, <4>1, <4>2, Zenon
    <3>4. QED BY <3>2, <3>3, Zenon
  <2>2. QED BY <2>1, Zenon DEF DivergenceIsMarked
<1>4. RememberedIsFinishing'
  <2>1. ASSUME NEW p \in Ops, p # o PROVE Published(p) => Published(p)'
    BY <2>1, Zenon DEF Published
  <2>2. QED BY <2>1, Zenon DEF IInv, RememberedIsFinishing, Unsettled
<1>5. StopIsFinal' BY Zenon DEF IInv, StopIsFinal
<1>6. QED BY <1>1, <1>2, <1>3, <1>4, <1>5, Zenon DEF IInv

LEMMA PoisonPreserves == ASSUME IInv, NEW o \in Ops, Poison(o) PROVE IInv'
<1>1. op[o] \in Operations BY Zenon DEF IInv, TypeOK
<1>2. [op[o] EXCEPT !.poison = TRUE] \in Operations BY <1>1, Zenon DEF Operations
<1>3. op' = [op EXCEPT ![o] = [op[o] EXCEPT !.poison = TRUE]] BY Zenon DEF Poison
<1>4. TypeOK' BY <1>2, <1>3, Zenon DEF IInv, TypeOK, Poison
<1>5. ~op[o].remembered BY Zenon DEF Poison, IInv, RememberedIsFinishing
<1>6. /\ op'[o].pc = "working" /\ op'[o].poison /\ op'[o].names = op[o].names
      /\ op'[o].remembered = op[o].remembered
      /\ \A p \in Ops \ {o} : op'[p] = op[p]
  BY <1>1, <1>3 DEF IInv, TypeOK, Operations, Poison
<1>7. Marked(o)' BY <1>6, Zenon DEF Marked
<1>8. QED BY <1>4, <1>5, <1>6, <1>7, BookkeepingPreserves, Zenon DEF Poison

LEMMA ReturnPreserves ==
  ASSUME IInv, NEW o \in Ops, NEW err \in BOOLEAN, Return(o, err) PROVE IInv'
<1> DEFINE pc == IF rpc[o] = "none" THEN "finishing" ELSE "returned"
           new == [op[o] EXCEPT !.pc = pc, !.err = err]
<1>1. op[o] \in Operations BY Zenon DEF IInv, TypeOK
<1>2. new \in Operations BY <1>1, Zenon DEF Operations
<1>3. op' = [op EXCEPT ![o] = new] BY Zenon DEF Return
<1>4. TypeOK' BY <1>2, <1>3 DEF IInv, TypeOK, Return
<1>5. ~op[o].remembered /\ op[o].pc = "working"
  BY Zenon DEF Return, IInv, RememberedIsFinishing
<1>6. op'[o] = new BY <1>3, Zenon DEF IInv, TypeOK
<1>7. ~op'[o].remembered /\ op'[o].pc \in {"finishing", "returned"}
      /\ op'[o].names = op[o].names /\ op'[o].poison = op[o].poison
      /\ op'[o].mutated = op[o].mutated /\ op'[o].err = err
  BY <1>1, <1>5, <1>6, Zenon DEF Operations
<1>8. CASE err
  BY <1>3, <1>4, <1>5, <1>7, <1>8, BookkeepingPreserves, Zenon
    DEF IInv, TypeOK, Return, Marked, Unsettled
\* Work that returns nil has published, so o marks no divergence.
<1>9. CASE ~err
  <2>1. Published(o) /\ ~op[o].poison BY <1>9, Zenon DEF Return
  <2>2. \A p \in Ops \ {o} : op'[p] = op[p] BY <1>3, Zenon DEF IInv, TypeOK
  <2>3. MutualExclusion' /\ EpochsCounted' /\ CurrentReadsStand' /\ ReadIsolation'
    BY <1>7, <2>2, OwnedChangeKeepsReads, Zenon DEF Return
  <2>4. DivergenceIsMarked'
    <3>1. ASSUME NEW n \in Names, backing[n] # mirror[n]
          PROVE  \E p \in Ops : Marked(p)' /\ Overlaps(n, op'[p].names)
      <4>1. PICK p \in Ops : Marked(p) /\ Overlaps(n, op[p].names)
        BY <3>1, Zenon DEF IInv, DivergenceIsMarked
      <4>2. p # o BY <2>1, <3>1, <4>1, Zenon DEF Published
      <4>3. QED BY <2>2, <4>1, <4>2, Zenon DEF Marked, Unsettled
    <3>2. QED BY <3>1, Zenon DEF DivergenceIsMarked, Return
  <2>5. IdleOwnsNothing' /\ StopIsFinal'
    BY <1>5, <1>7, <2>2, Zenon DEF IInv, IdleOwnsNothing, StopIsFinal, Return
  <2>6. RememberedIsFinishing'
    <3>1. \A p \in Ops : Published(p) => Published(p)'
      BY <1>7, <2>2, Zenon DEF Published, Return
    <3>2. QED BY <1>7, <2>1, <2>2, <3>1, Zenon DEF IInv, RememberedIsFinishing, Unsettled
  <2>7. QED BY <1>4, <2>3, <2>4, <2>5, <2>6, Zenon DEF IInv
<1>10. QED BY <1>8, <1>9, Zenon

LEMMA DeliverPreserves == ASSUME IInv, NEW o \in Ops, Deliver(o) PROVE IInv'
<1>1. op[o] \in Operations BY Zenon DEF IInv, TypeOK
<1>2. [op[o] EXCEPT !.pc = "finishing"] \in Operations BY <1>1, Zenon DEF Operations
<1>3. op' = [op EXCEPT ![o] = [op[o] EXCEPT !.pc = "finishing"]] BY Zenon DEF Deliver
<1>4. TypeOK' BY <1>2, <1>3, Zenon DEF IInv, TypeOK, Deliver
<1>5. ~op[o].remembered BY Zenon DEF Deliver, IInv, RememberedIsFinishing
<1>6. /\ op'[o].pc = "finishing" /\ op'[o].names = op[o].names
      /\ op'[o].poison = op[o].poison /\ op'[o].mutated = op[o].mutated
      /\ op'[o].err = op[o].err /\ op'[o].remembered = op[o].remembered
      /\ \A p \in Ops \ {o} : op'[p] = op[p]
  BY <1>1, <1>3, Zenon DEF IInv, TypeOK, Operations
<1>7. Marked(o) => Marked(o)' BY <1>6, Zenon DEF Marked, Unsettled, Deliver
<1>8. QED BY <1>4, <1>5, <1>6, <1>7, BookkeepingPreserves, Zenon DEF Deliver

LEMMA AbandonPreserves ==
  ASSUME IInv, NEW o \in Ops, NEW closeErr \in BOOLEAN, Abandon(o, closeErr)
  PROVE  IInv'
<1> DEFINE q == op[o].poison \/ closeErr
           m == ~op[o].err /\ ~q
           new == [op[o] EXCEPT !.pc = "finishing", !.poison = q, !.remembered = m]
<1>1. op[o] \in Operations /\ op[o].pc = "returned" BY Zenon DEF IInv, TypeOK, Abandon
<1>2. op' = [op EXCEPT ![o] = new] BY Zenon DEF Abandon
<1>3. q \in BOOLEAN /\ m \in BOOLEAN BY Zenon
<1>4. new \in Operations
  <2> HIDE DEF q, m
  <2>1. QED BY <1>1, <1>3, Zenon DEF Operations
<1>5. TypeOK' BY <1>2, <1>4 DEF IInv, TypeOK, Abandon
<1>6. /\ op'[o].pc = "finishing" /\ op'[o].poison = q /\ op'[o].remembered = m
      /\ op'[o].names = op[o].names /\ op'[o].mutated = op[o].mutated
      /\ op'[o].err = op[o].err
      /\ \A p \in Ops \ {o} : op'[p] = op[p]
  <2> HIDE DEF q, m
  <2>1. QED BY <1>1, <1>2, Zenon DEF IInv, TypeOK, Operations
<1>7. Marked(o) => Marked(o)' BY <1>1, <1>6, Zenon DEF Marked, Unsettled
<1>8. op'[o].remembered => ~Unsettled(o)' /\ Published(o)'
  <2>1. ASSUME m PROVE Published(o) BY <1>1, <2>1, Zenon DEF IInv, RememberedIsFinishing
  <2>2. Published(o) => Published(o)' BY <1>6, Zenon DEF Abandon, Published
  <2>3. QED BY <1>6, <2>1, <2>2, Zenon DEF Unsettled
<1>9. QED BY <1>1, <1>5, <1>6, <1>7, <1>8, BookkeepingPreserves, Zenon DEF Abandon

LEMMA FinishPreserves == ASSUME IInv, NEW o \in Ops, finish(o) PROVE IInv'
<1>1. op[o] \in Operations /\ op[o].pc = "finishing" BY Zenon DEF IInv, TypeOK, finish
<1>2. CASE Unsettled(o)
  <2> DEFINE new == [op[o] EXCEPT !.pc = "failed"]
  <2>1. op' = [op EXCEPT ![o] = new] BY <1>2, Zenon DEF finish
  <2>2. new \in Operations BY <1>1, Zenon DEF Operations
  <2>3. TypeOK' BY <2>1, <2>2, Zenon DEF IInv, TypeOK, finish
  <2>4. ~op[o].remembered BY <1>2, Zenon DEF IInv, RememberedIsFinishing
  <2>5. /\ op'[o].pc = "failed" /\ op'[o].names = op[o].names
        /\ op'[o].remembered = op[o].remembered
        /\ \A p \in Ops \ {o} : op'[p] = op[p]
    BY <1>1, <2>1, Zenon DEF IInv, TypeOK, Operations
  <2>6. Marked(o)' BY <2>5, Zenon DEF Marked
  <2>7. QED BY <1>1, <2>3, <2>4, <2>5, <2>6, BookkeepingPreserves, Zenon DEF finish
<1>3. CASE ~Unsettled(o)
  <2>1. op' = [op EXCEPT ![o] = Idle] BY <1>3, Zenon DEF finish
  <2>2. Idle \in Operations BY Zenon DEF Operations, Idle
  <2>3. TypeOK' BY <2>1, <2>2, Zenon DEF IInv, TypeOK, finish
  <2>4. ~Marked(o) BY <1>1, <1>3, Zenon DEF Marked
  <2>5. /\ op'[o].pc = "idle" /\ op'[o].names = {} /\ ~op'[o].remembered
        /\ \A p \in Ops \ {o} : op'[p] = op[p]
    BY <2>1, Zenon DEF IInv, TypeOK, Idle
  <2>6. QED BY <1>1, <2>3, <2>4, <2>5, BookkeepingPreserves, Zenon DEF finish
<1>4. QED BY <1>2, <1>3, Zenon

\* RPCTimeout and the steps of stop leave operations and reads alone.
LEMMA OthersPreserve ==
  ASSUME IInv, UNCHANGED <<op, reads, ticket, backing, mirror>>, TypeOK',
         StopIsFinal'
  PROVE  IInv'
<1>1. MutualExclusion' /\ EpochsCounted' /\ CurrentReadsStand' /\ ReadIsolation'
  BY OwnedChangeKeepsReads, Zenon
<1>2. \A o \in Ops : (Marked(o) => Marked(o)') /\ (Published(o) => Published(o)')
  BY Zenon DEF Marked, Unsettled, Published
<1>3. QED BY <1>1, <1>2, Zenon
    DEF IInv, IdleOwnsNothing, DivergenceIsMarked, RememberedIsFinishing, Unsettled

-----------------------------------------------------------------------------
(* Reads. *)

LEMMA HoldersFinite == \A n : IsFiniteSet(Holders(n))
BY FiniteAssumption, FS_Subset, Zenon DEF Holders

\* The steps of a read leave the operations, the backend and the mirror alone.
LEMMA ReadPreserves ==
  ASSUME IInv, TypeOK', EpochsCounted', CurrentReadsStand', ReadIsolation',
         UNCHANGED <<op, stopping, stopResult, backing, mirror>>
  PROVE  IInv'
<1>1. \A o \in Ops : (Marked(o) => Marked(o)') /\ (Published(o) => Published(o)')
  BY Zenon DEF Marked, Unsettled, Published
<1>2. QED BY <1>1, Zenon DEF IInv, MutualExclusion, IdleOwnsNothing, DivergenceIsMarked,
    RememberedIsFinishing, Unsettled, StopIsFinal

LEMMA AdmitReadPreserves ==
  ASSUME IInv, NEW r \in Readers, NEW raw \in RawNames, admitRead(r, raw)
  PROVE  IInv'
<1> DEFINE name == cleanNamespaceName(raw)
           new == [pc |-> "reading", name |-> name,
                   generation |-> reads[name].generation, seen |-> {}]
<1>0. name \in Names BY Zenon DEF Names
<1> HIDE DEF name
<1>1. /\ ticket[r].pc = "idle" /\ ~readErrorLocked(name)
      /\ ticket' = [ticket EXCEPT ![r] = new]
      /\ reads' = [reads EXCEPT ![name].refs = @ + 1]
      /\ UNCHANGED <<op, rpc, stopping, stopResult, backing, mirror>>
  BY Zenon DEF admitRead, name
<1>2. /\ ticket'[r] = new
      /\ \A q \in Readers \ {r} : ticket'[q] = ticket[q]
      /\ reads'[name].refs = reads[name].refs + 1
      /\ \A n \in Names : reads'[n].generation = reads[n].generation
      /\ \A n \in Names \ {name} : reads'[n] = reads[n]
  BY <1>0, <1>1, Zenon DEF IInv, TypeOK
<1>3. TypeOK'
  <2>1. new \in Tickets BY <1>0, Zenon DEF IInv, TypeOK, Tickets
  <2>2. reads' \in [Names -> [generation : Nat, refs : Nat]]
    BY <1>0, <1>1 DEF IInv, TypeOK
  <2>3. QED BY <1>1, <2>1, <2>2, Zenon DEF IInv, TypeOK
<1>4. EpochsCounted'
  <2>1. Holders(name)' = Holders(name) \cup {r} /\ r \notin Holders(name)
    BY <1>1, <1>2 DEF Holders
  <2>2. Cardinality(Holders(name)') = Cardinality(Holders(name)) + 1
    BY <2>1, HoldersFinite, FS_AddElement, Zenon
  <2>3. \A n \in Names \ {name} : Holders(n)' = Holders(n)
    BY <1>1, <1>2 DEF Holders
  <2>4. \A n \in Names : reads'[n].refs = Cardinality(Holders(n)')
    BY <1>0, <1>2, <2>2, <2>3, Zenon DEF IInv, EpochsCounted
  <2>5. ASSUME NEW q \in Readers, ticket'[q].pc # "idle"
        PROVE  /\ ticket'[q].name \in Names
               /\ ticket'[q].generation <= reads'[ticket'[q].name].generation
    <3>1. CASE q = r BY <1>0, <1>2, <3>1 DEF IInv, TypeOK
    <3>2. CASE q # r
      <4>1. ticket'[q] = ticket[q] BY <1>2, <3>2, Zenon
      <4>2. /\ ticket[q].name \in Names
            /\ ticket[q].generation <= reads[ticket[q].name].generation
        BY <2>5, <4>1, Zenon DEF IInv, EpochsCounted
      <4> QED BY <1>2, <4>1, <4>2, Zenon
    <3>3. QED BY <3>1, <3>2, Zenon
  <2>6. QED BY <2>4, <2>5, Zenon DEF EpochsCounted
<1>5. CurrentReadsStand'
  <2>1. \A n : readErrorLocked(n)' <=> readErrorLocked(n)
    BY <1>1, Zenon DEF readErrorLocked
  <2>2. \A q \in Readers \ {r} : ticket[q].pc = "reading" => (Current(q)' <=> Current(q))
    BY <1>2 DEF Current, IInv, EpochsCounted
  <2>3. QED BY <1>1, <1>2, <2>1, <2>2 DEF IInv, CurrentReadsStand
<1>6. ReadIsolation'
  <2>0. new.pc = "reading" BY Zenon
  <2> HIDE DEF new
  <2>1. ticket'[r].pc # "served" BY <1>2, <2>0, Zenon
  <2>2. \A q \in Readers : ticket'[q].pc = "served" => ticket'[q] = ticket[q]
    BY <1>2, <2>1, Zenon
  <2> QED BY <2>2, Zenon DEF IInv, ReadIsolation
<1>7. QED BY <1>1, <1>3, <1>4, <1>5, <1>6, ReadPreserves, Zenon

\* A subread under a current ticket sees backend and mirror as they are.
LEMMA SubreadPreserves ==
  ASSUME IInv, NEW r \in Readers, Subread(r) PROVE IInv'
<1> DEFINE n == ticket[r].name
           now == [backing |-> backing[n], mirror |-> mirror[n]]
<1>0. n \in Names /\ ticket[r].pc = "reading" BY Zenon DEF IInv, EpochsCounted, Subread
<1>1. /\ ticket' = [ticket EXCEPT ![r].seen = @ \cup {now}]
      /\ UNCHANGED <<op, rpc, reads, stopping, stopResult, backing, mirror>>
  BY Zenon DEF Subread
<1>2. /\ ticket'[r].pc = "reading" /\ ticket'[r].name = n
      /\ ticket'[r].generation = ticket[r].generation
      /\ ticket'[r].seen = ticket[r].seen \cup {now}
      /\ \A q \in Readers \ {r} : ticket'[q] = ticket[q]
  BY <1>0, <1>1, Zenon DEF IInv, TypeOK, Tickets
<1>3. TypeOK'
  <2>1. now \in [backing : Nat, mirror : Nat] BY <1>0, Zenon DEF IInv, TypeOK
  <2>2. ticket[r] \in Tickets BY Zenon DEF IInv, TypeOK
  <2> HIDE DEF now
  <2>3. [ticket[r] EXCEPT !.seen = ticket[r].seen \cup {now}] \in Tickets
    BY <2>1, <2>2, Zenon DEF Tickets
  <2>4. ticket' = [ticket EXCEPT ![r] =
                     [ticket[r] EXCEPT !.seen = ticket[r].seen \cup {now}]]
    BY <1>1, Zenon
  <2>5. QED BY <1>1, <2>3, <2>4, Zenon DEF IInv, TypeOK
<1>4. EpochsCounted'
  <2>1. \A m \in Names : Holders(m)' = Holders(m) BY <1>0, <1>2, Zenon DEF Holders
  <2>2. QED BY <1>0, <1>1, <1>2, <2>1, Zenon DEF IInv, EpochsCounted
<1>5. CurrentReadsStand'
  <2>1. \A m : readErrorLocked(m)' <=> readErrorLocked(m)
    BY <1>1, Zenon DEF readErrorLocked
  <2>2. \A q \in Readers : Current(q)' <=> Current(q) BY <1>1, <1>2, Zenon DEF Current
  <2>3. QED BY <1>0, <1>1, <1>2, <2>1, <2>2 DEF IInv, CurrentReadsStand
<1>6. ReadIsolation' BY <1>2 DEF IInv, ReadIsolation
<1>7. QED BY <1>1, <1>3, <1>4, <1>5, <1>6, ReadPreserves, Zenon

\* Where no operation overlaps, backend and mirror agree, so a check that
\* passes lets through one version, the mirror's.
LEMMA CheckPreserves ==
  ASSUME IInv, NEW r \in Readers, check(r) PROVE IInv'
<1> DEFINE n == ticket[r].name
           ok == ~readErrorLocked(n) /\ Current(r)
<1>0. n \in Names /\ ticket[r].pc = "reading" BY Zenon DEF IInv, EpochsCounted, check
<1>1. /\ ticket' = [ticket EXCEPT ![r].pc = IF ok THEN "served" ELSE "refused",
                                  ![r].seen = IF ok THEN @ ELSE {}]
      /\ UNCHANGED <<op, rpc, reads, stopping, stopResult, backing, mirror>>
  BY Zenon DEF check, Current
<1>2. /\ ticket'[r].pc = IF ok THEN "served" ELSE "refused"
      /\ ticket'[r].name = n /\ ticket'[r].generation = ticket[r].generation
      /\ ticket'[r].seen = IF ok THEN ticket[r].seen ELSE {}
      /\ \A q \in Readers \ {r} : ticket'[q] = ticket[q]
  <2> HIDE DEF ok
  <2>1. QED BY <1>0, <1>1, Zenon DEF IInv, TypeOK, Tickets
<1>3. TypeOK'
  <2> DEFINE new == [ticket[r] EXCEPT !.pc = IF ok THEN "served" ELSE "refused",
                                      !.seen = IF ok THEN ticket[r].seen ELSE {}]
  <2> HIDE DEF ok
  <2>1. ticket[r] \in Tickets BY Zenon DEF IInv, TypeOK
  <2>2. new \in Tickets
    <3>1. CASE ok BY <2>1, <3>1, Zenon DEF Tickets
    <3>2. CASE ~ok BY <2>1, <3>2, Zenon DEF Tickets
    <3>3. QED BY <3>1, <3>2, Zenon
  <2>3. ticket' = [ticket EXCEPT ![r] = new] BY <1>1, Zenon
  <2> HIDE DEF new
  <2>4. ticket' \in [Readers -> Tickets] BY <2>2, <2>3, Zenon DEF IInv, TypeOK
  <2>5. UNCHANGED <<op, rpc, reads, stopping, stopResult, backing, mirror>> BY <1>1, Zenon
  <2>6. QED BY <2>4, <2>5, Zenon DEF IInv, TypeOK
<1>4. EpochsCounted'
  <2>1. ticket'[r].pc # "idle" BY <1>2, Zenon
  <2>2. \A m \in Names : Holders(m)' = Holders(m) BY <1>0, <1>2, <2>1, Zenon DEF Holders
  <2>3. QED BY <1>0, <1>1, <1>2, <2>2, Zenon DEF IInv, EpochsCounted
<1>5. CurrentReadsStand'
  <2>1. \A m : readErrorLocked(m)' <=> readErrorLocked(m)
    BY <1>1, Zenon DEF readErrorLocked
  <2>2. \A q \in Readers : Current(q)' <=> Current(q) BY <1>1, <1>2, Zenon DEF Current
  <2>3. ticket'[r].pc # "reading" BY <1>2, Zenon
  <2>4. QED BY <1>1, <1>2, <2>1, <2>2, <2>3, Zenon DEF IInv, CurrentReadsStand
<1>6. ReadIsolation'
  <2>1. ASSUME ok
        PROVE  \A s, t \in ticket[r].seen : s = t /\ s.backing = s.mirror
    <3>1. backing[n] = mirror[n]
      BY <1>0, <2>1, Zenon DEF IInv, DivergenceIsMarked, readErrorLocked
    <3>2. \A s \in ticket[r].seen : s = [backing |-> backing[n], mirror |-> mirror[n]]
      BY <1>0, <2>1, Zenon DEF IInv, CurrentReadsStand
    <3>3. QED BY <3>1, <3>2
  <2>2. CASE ok BY <1>2, <2>1, <2>2 DEF IInv, ReadIsolation
  <2>3. CASE ~ok
    <3>1. ticket'[r].pc = "refused" BY <1>2, <2>3, Zenon
    <3>2. QED BY <1>2, <3>1 DEF IInv, ReadIsolation
  <2>4. QED BY <2>2, <2>3, Zenon
<1>7. QED BY <1>1, <1>3, <1>4, <1>5, <1>6, ReadPreserves, Zenon

\* release deletes an epoch only with its last ticket, so no ticket survives
\* the reset of its generation.
LEMMA ReleasePreserves ==
  ASSUME IInv, NEW r \in Readers, release(r) PROVE IInv'
<1>a. ticket[r].name \in Names /\ ticket[r].pc # "idle"
  BY Zenon DEF IInv, EpochsCounted, release
<1>0. PICK n \in Names : n = ticket[r].name BY <1>a, Zenon
<1> DEFINE last == reads[n].refs = 1
<1>1. /\ ticket' = [ticket EXCEPT ![r] = NoTicket]
      /\ reads' = [reads EXCEPT ![n] =
                     [generation |-> IF last THEN 0 ELSE reads[n].generation,
                      refs |-> reads[n].refs - 1]]
      /\ UNCHANGED <<op, rpc, stopping, stopResult, backing, mirror>>
  BY <1>0, Zenon DEF release
<1>2. ticket'[r] = NoTicket /\ \A q \in Readers \ {r} : ticket'[q] = ticket[q]
  BY <1>1, Zenon DEF IInv, TypeOK
<1>3. /\ reads[n] \in [generation : Nat, refs : Nat]
      /\ reads[n].refs = Cardinality(Holders(n))
  BY <1>0, Zenon DEF IInv, TypeOK, EpochsCounted
<1>4. r \in Holders(n) BY <1>0, <1>a, Zenon DEF Holders
<1>5. reads[n].refs # 0 BY <1>3, <1>4, HoldersFinite, FS_EmptySet, Zenon
<1>6. /\ reads'[n].refs = reads[n].refs - 1
      /\ ~last => reads'[n].generation = reads[n].generation
      /\ \A m \in Names \ {n} : reads'[m] = reads[m]
      /\ reads' \in [Names -> [generation : Nat, refs : Nat]]
  <2> DEFINE e == [generation |-> IF last THEN 0 ELSE reads[n].generation,
                   refs |-> reads[n].refs - 1]
  <2>1. reads \in [Names -> [generation : Nat, refs : Nat]] BY Zenon DEF IInv, TypeOK
  <2>2. e \in [generation : Nat, refs : Nat] BY <1>3, <1>5
  <2>3. e.refs = reads[n].refs - 1 /\ (~last => e.generation = reads[n].generation) BY Zenon
  <2>4. reads' = [reads EXCEPT ![n] = e] BY <1>1, Zenon
  <2> HIDE DEF e
  <2> QED BY <1>0, <2>1, <2>2, <2>3, <2>4, Zenon
<1>7. TypeOK'
  <2>1. NoTicket \in Tickets BY Zenon DEF NoTicket, Tickets
  <2>2. QED BY <1>1, <1>6, <2>1, Zenon DEF IInv, TypeOK
<1>8. \A q \in Readers \ {r} : ticket[q].pc # "idle" =>
        reads'[ticket[q].name].generation = reads[ticket[q].name].generation
  <2> SUFFICES ASSUME NEW q \in Readers \ {r}, ticket[q].pc # "idle"
               PROVE  reads'[ticket[q].name].generation
                        = reads[ticket[q].name].generation
    BY Zenon
  <2>1. ticket[q].name \in Names BY Zenon DEF IInv, EpochsCounted
  <2>2. CASE ticket[q].name # n BY <1>6, <2>1, <2>2, Zenon
  <2>3. CASE ticket[q].name = n
    <3>1. q \in Holders(n) BY <2>3, Zenon DEF Holders
    <3>2. ~last BY <1>3, <1>4, <3>1, HoldersFinite, FS_Singleton
    <3>3. QED BY <1>6, <2>3, <3>2, Zenon
  <2>4. QED BY <2>2, <2>3, Zenon
<1>9. EpochsCounted'
  <2>1. Holders(n)' = Holders(n) \ {r} BY <1>2 DEF Holders, NoTicket
  <2>2. Cardinality(Holders(n)') = Cardinality(Holders(n)) - 1
    BY <1>4, <2>1, HoldersFinite, FS_RemoveElement, Zenon
  <2>3. \A m \in Names \ {n} : Holders(m)' = Holders(m)
    BY <1>0, <1>2 DEF Holders, NoTicket
  <2>4. \A m \in Names : reads'[m].refs = Cardinality(Holders(m)')
    BY <1>3, <1>6, <2>2, <2>3, Zenon DEF IInv, EpochsCounted
  <2>5. ticket'[r].pc = "idle" BY <1>2 DEF NoTicket
  <2>6. ASSUME NEW q \in Readers, ticket'[q].pc # "idle"
        PROVE  /\ ticket'[q].name \in Names
               /\ ticket'[q].generation <= reads'[ticket'[q].name].generation
    <3>1. ticket'[q] = ticket[q] /\ q \in Readers \ {r} BY <1>2, <2>5, <2>6, Zenon
    <3>2. /\ ticket[q].name \in Names
          /\ ticket[q].generation <= reads[ticket[q].name].generation
      BY <2>6, <3>1, Zenon DEF IInv, EpochsCounted
    <3> QED BY <1>8, <2>6, <3>1, <3>2, Zenon
  <2>7. QED BY <2>4, <2>6, Zenon DEF EpochsCounted
<1>10. CurrentReadsStand'
  <2>1. \A m : readErrorLocked(m)' <=> readErrorLocked(m)
    BY <1>1, Zenon DEF readErrorLocked
  <2>2. \A q \in Readers \ {r} : ticket[q].pc = "reading" => (Current(q)' <=> Current(q))
    BY <1>2, <1>8, Zenon DEF Current
  <2>3. ticket'[r].pc # "reading" BY <1>2 DEF NoTicket
  <2>4. UNCHANGED <<backing, mirror>> BY <1>1, Zenon
  <2>5. QED BY <1>2, <2>1, <2>2, <2>3, <2>4, Zenon DEF IInv, CurrentReadsStand
<1>11. ReadIsolation' BY <1>2 DEF IInv, ReadIsolation, NoTicket
<1>12. QED BY <1>1, <1>7, <1>9, <1>10, <1>11, ReadPreserves, Zenon

-----------------------------------------------------------------------------
LEMMA NextPreserves == IInv /\ [Next]_vars => IInv'
<1> SUFFICES ASSUME IInv, [Next]_vars PROVE IInv' BY Zenon
<1>1. ASSUME NEW o \in Ops, RPCTimeout(o) PROVE IInv'
  <2>1. TypeOK' BY <1>1, Zenon DEF IInv, TypeOK, RPCTimeout
  <2>2. StopIsFinal' BY <1>1, Zenon DEF IInv, StopIsFinal, RPCTimeout
  <2>3. QED BY <1>1, <2>1, <2>2, OthersPreserve, Zenon DEF RPCTimeout
<1>2. CASE stop
  <2>1. TypeOK' /\ StopIsFinal' BY <1>2, Zenon DEF IInv, TypeOK, StopIsFinal, stop
  <2>2. QED BY <1>2, <2>1, OthersPreserve, Zenon DEF stop
<1>3. CASE StopDrained
  <2>1. TypeOK' /\ StopIsFinal'
    BY <1>3, Zenon DEF IInv, TypeOK, StopIsFinal, StopDrained, Active
  <2>2. QED BY <1>3, <2>1, OthersPreserve, Zenon DEF StopDrained
<1>4. CASE StopGivesUp
  <2>1. TypeOK' /\ StopIsFinal' BY <1>4, Zenon DEF IInv, TypeOK, StopIsFinal, StopGivesUp
  <2>2. QED BY <1>4, <2>1, OthersPreserve, Zenon DEF StopGivesUp
<1>5. CASE UNCHANGED vars
  <2>1. TypeOK' /\ StopIsFinal' BY <1>5, Zenon DEF IInv, TypeOK, StopIsFinal, vars
  <2>2. QED BY <1>5, <2>1, OthersPreserve, Zenon DEF vars
<1>6. QED BY <1>1, <1>2, <1>3, <1>4, <1>5, BeginPreserves, MutatePreserves,
    PoisonPreserves, PublishPreserves, ReturnPreserves, DeliverPreserves,
    AbandonPreserves, FinishPreserves, AdmitReadPreserves, SubreadPreserves,
    CheckPreserves, ReleasePreserves, Zenon DEF Next

LEMMA Invariance == Spec => []IInv
BY Initially, NextPreserves, PTL DEF Spec

\* The coordinator's variables keep their types.
THEOREM TypeCorrect == Spec => []TypeOK
BY Invariance, PTL DEF IInv

\* begin admits no two operations on overlapping names, for any set of names
\* and any spelling of them.
THEOREM Exclusive == Spec => []MutualExclusion
BY Invariance, PTL DEF IInv

\* finish never retires an operation whose change is not published.
THEOREM DivergenceStaysOwned == Spec => []DivergenceIsOwned
<1>1. IInv => DivergenceIsOwned
  BY Zenon DEF IInv, DivergenceIsMarked, DivergenceIsOwned, Marked, Active
<1>2. QED BY Invariance, <1>1, PTL

\* finishBytes lets through only bytes of one published version, for any
\* number of readers, operations and re-created epochs.
THEOREM ReadsIsolated == Spec => []ReadIsolation
BY Invariance, PTL DEF IInv

\* An outcome is remembered for a resend only when the operation retires.
THEOREM RememberedSettled == Spec => []RememberedIsSettled
<1>1. IInv => RememberedIsSettled
  BY Zenon DEF IInv, RememberedIsFinishing, RememberedIsSettled
<1>2. QED BY Invariance, <1>1, PTL

\* No step changes backend or mirror after stop returned true.
THEOREM StopIsQuiet == Spec => QuietAfterStop
<1>1. IInv /\ [Next]_vars => [stopResult = "drained" => UNCHANGED <<backing, mirror>>]_vars
  <2> SUFFICES ASSUME IInv, Next, stopResult = "drained"
               PROVE  UNCHANGED <<backing, mirror>>
    BY Zenon
  <2>1. \A o \in Ops : op[o].pc = "idle" BY Zenon DEF IInv, StopIsFinal
  <2>2. ASSUME NEW o \in Ops, NEW at, NEW ambiguous, Mutate(o, at, ambiguous)
        PROVE FALSE
    BY <2>1, <2>2, Zenon DEF Mutate
  <2>3. ASSUME NEW o \in Ops, Publish(o) PROVE FALSE BY <2>1, <2>3, Zenon DEF Publish
  <2>4. QED BY <2>2, <2>3, Zenon DEF Next, begin, Poison, Return, Deliver, RPCTimeout,
      Abandon, finish, admitRead, Subread, check, release, stop, StopDrained,
      StopGivesUp
<1>2. QED BY Invariance, <1>1, PTL DEF Spec, QuietAfterStop
=============================================================================
