------------------------ MODULE EdgeTransfers_proofs ------------------------
(***************************************************************************)
(* The schedule of parallel copies is correct for every set of locals and  *)
(* every edge.  The core is a counting argument: when no copy is ready,    *)
(* every pending destination is read, the pending copies are a permutation *)
(* of their destinations, and none of them still reads the scratch local,  *)
(* so the scratch local is free for the next cycle.                        *)
(***************************************************************************)
EXTENDS EdgeTransfers, FiniteSetTheorems, TLAPS

\* What a finite set of copies reads that are all blocked: exactly their own
\* destinations (schedule_parallel_copies, no copy is ready).
LEMMA BlockedCopiesPermute ==
  ASSUME NEW D, IsFiniteSet(D), NEW f,
         \A d \in D : \E e \in D : f[e] = d
  PROVE  \A e \in D : f[e] \in D
<1> SUFFICES ASSUME NEW x \in D, f[x] \notin D PROVE FALSE
  OBVIOUS
<1> DEFINE R == D \ {x}
           g == [e \in R |-> f[e]]
           I == {g[e] : e \in R}
<1>1. IsFiniteSet(R) /\ Cardinality(R) = Cardinality(D) - 1
  BY FS_RemoveElement
<1>2. \A d \in D : \E e \in R : g[e] = d
  OBVIOUS
<1>3. D \subseteq I
  BY <1>2
<1>4. IsFiniteSet(I) /\ Cardinality(I) <= Cardinality(R)
  <2> HIDE DEF R
  <2>1. g \in [R -> I]
    OBVIOUS
  <2>2. g \in Surjection(R, I)
    BY <2>1 DEF Surjection
  <2> HIDE DEF g, I
  <2> QED BY <1>1, <2>2, FS_Surjection
<1>5. Cardinality(D) <= Cardinality(I)
  BY <1>3, <1>4, FS_Subset
<1> QED BY <1>1, <1>4, <1>5, FS_CardinalityType

-----------------------------------------------------------------------------
(* The inductive invariant                                                 *)

\* The copies are those of the arguments looked at so far.
Collected ==
  /\ edge \in Edges
  /\ IsFiniteSet(DOMAIN copies)
  /\ \A d \in DOMAIN copies :
       \E i \in 1..(next - 1) : edge.parameters[i] = d /\ edge.arguments[i] = copies[d]
  /\ \A i \in 1..(next - 1) :
       \/ edge.arguments[i] = edge.parameters[i]
       \/ edge.parameters[i] \in DOMAIN copies /\ copies[edge.parameters[i]] = edge.arguments[i]

\* Where the planner is, and what it has not touched yet.
Staged ==
  /\ phase \in {"collect", "rejected"} =>
       DOMAIN pending = {} /\ memory = [p \in Place |-> p]
  /\ phase \in {"schedule", "done"} => next = Len(edge.arguments) + 1
  /\ phase = "done" => DOMAIN pending = {}

\* What the emitted assignments have done: a pending copy still reads what its
\* source held at the start, every other copy has happened, and nothing else
\* has changed.
Scheduled ==
  phase \in {"schedule", "done"} =>
    /\ \A d \in DOMAIN pending : memory[pending[d]] = copies[d]
    /\ \A d \in DOMAIN copies \ DOMAIN pending : memory[d] = copies[d]
    /\ \A p \in Source \ DOMAIN copies : memory[p] = p

TransferInv == TypeOK /\ Collected /\ Staged /\ Scheduled

-----------------------------------------------------------------------------
\* The shape of an edge: as many arguments as parameters, and no local
\* twice among the parameters.
LEMMA EdgeFacts ==
  ASSUME NEW e \in Edges
  PROVE  /\ e.parameters \in Seq(Local \cup {Missing})
         /\ e.arguments \in Seq(Source \cup {Missing})
         /\ Len(e.parameters) = Len(e.arguments)
         /\ Len(e.arguments) \in Nat
         /\ DOMAIN e.parameters = 1..Len(e.arguments)
         /\ DOMAIN e.arguments = 1..Len(e.arguments)
         /\ \A i \in 1..Len(e.arguments) :
              e.parameters[i] \in Local \cup {Missing} /\ e.arguments[i] \in Source \cup {Missing}
         /\ \A i, j \in 1..Len(e.arguments) :
              e.parameters[i] = e.parameters[j] /\ e.parameters[i] # Missing => i = j
BY EdgesAreShaped DEF EdgeShape

\* At the start nothing is collected and every place holds what it is
\* named for.
LEMMA InitTransfer == Init => TransferInv
<1> SUFFICES ASSUME Init PROVE TransferInv
  OBVIOUS
<1>1. edge \in Edges /\ edge \in EdgeShape /\ DOMAIN copies = {} /\ DOMAIN pending = {}
  BY EdgesAreShaped DEF Init
<1>2. Len(edge.arguments) \in Nat
  BY <1>1, EdgeFacts
<1>3. TypeOK
  BY <1>1, <1>2 DEF Init, TypeOK, Place
<1>4. Collected
  BY <1>1, FS_EmptySet DEF Init, Collected
<1> QED BY <1>1, <1>3, <1>4 DEF Init, TransferInv, Staged, Scheduled

\* One argument is looked at: a copy is planned, none is needed, or the
\* edge is rejected.
LEMMA PlanCopyTransfer == TransferInv /\ PlanCopy => TransferInv'
<1> SUFFICES ASSUME TransferInv, PlanCopy PROVE TransferInv'
  OBVIOUS
<1> DEFINE d == edge.parameters[next]
           s == edge.arguments[next]
<1>1. /\ edge \in Edges /\ next \in Nat /\ next >= 1 /\ next \in 1..Len(edge.arguments)
      /\ phase = "collect"
  BY EdgeFacts DEF TransferInv, TypeOK, Collected, PlanCopy
<1>2. d \in Local \cup {Missing} /\ s \in Source \cup {Missing}
  BY <1>1, EdgeFacts
<1>3. CASE IsUnsupported(d, s)
  <2>1. phase' = "rejected" /\ UNCHANGED <<edge, next, copies, pending, moves, memory>>
    BY <1>3 DEF PlanCopy
  <2> QED BY <1>1, <2>1 DEF TransferInv, TypeOK, Collected, Staged, Scheduled
<1>4. CASE ~IsUnsupported(d, s)
  <2>1. /\ next' = next + 1 /\ phase' = phase
        /\ copies' = IF IsNoCopy(d, s) THEN copies ELSE With(copies, d, s)
        /\ UNCHANGED <<edge, pending, moves, memory>>
    BY <1>4 DEF PlanCopy
  <2>2. d \in Local /\ s \in Source /\ (d \in DOMAIN copies => copies[d] = s)
    BY <1>2, <1>4 DEF IsUnsupported
  <2>3. /\ DOMAIN copies' \subseteq DOMAIN copies \cup {d}
        /\ DOMAIN copies \subseteq DOMAIN copies'
        /\ \A x \in DOMAIN copies : copies'[x] = copies[x]
        /\ d \in DOMAIN copies' => copies'[d] = s
        /\ s = d \/ d \in DOMAIN copies'
    BY <2>1, <2>2 DEF IsNoCopy, With
  <2>4. TypeOK'
    <3>1. (next \in 1..(Len(edge.arguments) + 1))'
      BY <1>1, <2>1, EdgeFacts
    <3>2. (DOMAIN copies \subseteq Local /\ \A x \in DOMAIN copies : copies[x] \in Source)'
      BY <2>2, <2>3 DEF TransferInv, TypeOK
    <3>3. (DOMAIN pending \subseteq DOMAIN copies)'
      BY <2>1, <2>3 DEF TransferInv, TypeOK
    <3> QED BY <2>1, <3>1, <3>2, <3>3 DEF TransferInv, TypeOK
  <2>5. Collected'
    <3>1. (edge \in Edges)'
      BY <1>1, <2>1
    <3>2. IsFiniteSet(DOMAIN copies')
      <4>1. IsFiniteSet(DOMAIN copies)
        BY DEF TransferInv, Collected
      <4>2. IsFiniteSet(DOMAIN copies \cup {d})
        BY <4>1, FS_AddElement
      <4> QED BY <2>3, <4>2, FS_Subset
    <3>3. \A x \in DOMAIN copies' : \E i \in 1..next :
            edge.parameters[i] = x /\ edge.arguments[i] = copies'[x]
      <4> TAKE x \in DOMAIN copies'
      <4>1. CASE x = d
        BY <1>1, <2>3, <4>1
      <4>2. CASE x # d
        <5>1. x \in DOMAIN copies /\ copies'[x] = copies[x]
          BY <2>3, <4>2
        <5> QED BY <1>1, <5>1 DEF TransferInv, Collected
      <4> QED BY <4>1, <4>2
    <3>4. \A i \in 1..next :
            \/ edge.arguments[i] = edge.parameters[i]
            \/ edge.parameters[i] \in DOMAIN copies' /\ copies'[edge.parameters[i]] = edge.arguments[i]
      <4> TAKE i \in 1..next
      <4>1. CASE i = next
        BY <2>3, <4>1
      <4>2. CASE i # next
        <5>1. i \in 1..(next - 1)
          BY <1>1, <4>2
        <5> QED BY <2>3, <5>1 DEF TransferInv, Collected
      <4> QED BY <4>1, <4>2
    <3>5. next' - 1 = next
      BY <1>1, <2>1
    <3> QED BY <2>1, <3>1, <3>2, <3>3, <3>4, <3>5 DEF Collected
  <2>6. Staged' /\ Scheduled'
    BY <1>1, <2>1 DEF TransferInv, Staged, Scheduled
  <2> QED BY <2>4, <2>5, <2>6 DEF TransferInv
<1> QED BY <1>3, <1>4

\* All arguments are looked at: every copy is pending and nothing has
\* moved yet.
LEMMA StartScheduleTransfer == TransferInv /\ StartSchedule => TransferInv'
<1> SUFFICES ASSUME TransferInv, StartSchedule PROVE TransferInv'
  OBVIOUS
<1>1. /\ phase = "collect" /\ next > Len(edge.arguments) /\ pending' = copies
      /\ phase' = "schedule" /\ UNCHANGED <<edge, next, copies, moves, memory>>
  BY DEF StartSchedule
<1>2. next = Len(edge.arguments) + 1
  BY <1>1, EdgeFacts DEF TransferInv, TypeOK, Collected
<1>3. memory = [p \in Place |-> p]
  BY <1>1 DEF TransferInv, Staged
<1>4. TypeOK'
  BY <1>1 DEF TransferInv, TypeOK, Place
<1>5. Collected'
  BY <1>1 DEF TransferInv, Collected
<1>6. Staged'
  BY <1>1, <1>2 DEF Staged
<1>7. Scheduled'
  BY <1>1, <1>3 DEF TransferInv, TypeOK, Scheduled, Place
<1> QED BY <1>4, <1>5, <1>6, <1>7 DEF TransferInv

\* A copy that no other waits for is emitted; the copies that stay do not
\* read its destination.
LEMMA EmitReadyTransfer == TransferInv /\ EmitReady => TransferInv'
<1> SUFFICES ASSUME TransferInv, EmitReady PROVE TransferInv'
  OBVIOUS
<1>1. PICK d \in DOMAIN pending :
        /\ Ready(d) /\ Emit(d, pending[d])
        /\ pending' = Restrict(pending, DOMAIN pending \ {d})
  BY DEF EmitReady
<1>2. phase = "schedule" /\ UNCHANGED <<edge, next, copies, phase>>
  BY DEF EmitReady
<1>3. /\ DOMAIN pending' = DOMAIN pending \ {d}
      /\ \A e \in DOMAIN pending \ {d} : pending'[e] = pending[e]
  BY <1>1 DEF Restrict
<1>4. d \in Local /\ d \in Place /\ pending[d] \in Place /\ d \in DOMAIN copies
  BY <1>1 DEF TransferInv, TypeOK, Place, Source
<1>5. /\ memory'[d] = memory[pending[d]]
      /\ \A p \in Place \ {d} : memory'[p] = memory[p]
      /\ memory' \in [Place -> Place]
  BY <1>1, <1>4 DEF Emit, TransferInv, TypeOK
<1>6. moves' \in Seq((Local \cup {Scratch}) \X Place)
  BY <1>1, <1>4 DEF Emit, TransferInv, TypeOK
<1>7. TypeOK'
  BY <1>2, <1>3, <1>5, <1>6 DEF TransferInv, TypeOK
<1>8. Collected' /\ Staged'
  BY <1>2, <1>3 DEF TransferInv, Collected, Staged
<1>9. Scheduled'
  <2>1. \A e \in DOMAIN pending' : memory'[pending'[e]] = copies[e]
    <3> TAKE e \in DOMAIN pending'
    <3>1. e \in DOMAIN pending /\ pending'[e] = pending[e]
      BY <1>3
    <3>2. pending[e] # d /\ pending[e] \in Place
      BY <1>1, <3>1 DEF Ready, TransferInv, TypeOK
    <3> QED BY <1>2, <1>5, <3>1, <3>2 DEF TransferInv, Scheduled
  <2>2. \A e \in DOMAIN copies \ DOMAIN pending' : memory'[e] = copies[e]
    <3> TAKE e \in DOMAIN copies \ DOMAIN pending'
    <3>1. CASE e = d
      BY <1>1, <1>2, <1>5, <3>1 DEF TransferInv, Scheduled
    <3>2. CASE e # d
      <4>1. e \in Place /\ e \notin DOMAIN pending
        BY <1>3, <3>2 DEF TransferInv, TypeOK, Place, Source
      <4> QED BY <1>2, <1>5, <3>2, <4>1 DEF TransferInv, Scheduled
    <3> QED BY <3>1, <3>2
  <2>3. \A p \in Source \ DOMAIN copies : memory'[p] = p
    BY <1>2, <1>4, <1>5 DEF TransferInv, Scheduled, Place
  <2> QED BY <1>2, <2>1, <2>2, <2>3 DEF Scheduled
<1> QED BY <1>7, <1>8, <1>9 DEF TransferInv

\* The scratch local is free whenever a cycle has to be broken.
LEMMA ScratchIsFree ==
  ASSUME TransferInv, \A d \in DOMAIN pending : ~Ready(d)
  PROVE  \A e \in DOMAIN pending : pending[e] \in Local
<1>1. IsFiniteSet(DOMAIN pending)
  BY FS_Subset DEF TransferInv, TypeOK, Collected
<1>2. \A d \in DOMAIN pending : \E e \in DOMAIN pending : pending[e] = d
  BY DEF Ready
<1>3. \A e \in DOMAIN pending : pending[e] \in DOMAIN pending
  BY <1>1, <1>2, BlockedCopiesPermute
<1> QED BY <1>3 DEF TransferInv, TypeOK

\* One destination is preserved in the scratch local, and its readers are
\* redirected to it.
LEMMA BreakCycleTransfer == TransferInv /\ BreakCycle => TransferInv'
<1> SUFFICES ASSUME TransferInv, BreakCycle PROVE TransferInv'
  OBVIOUS
<1>1. PICK preserved \in DOMAIN pending :
        Emit(Scratch, preserved) /\ pending' = Redirected(preserved)
  BY DEF BreakCycle
<1>2. phase = "schedule" /\ UNCHANGED <<edge, next, copies, phase>>
  BY DEF BreakCycle
<1>3. \A e \in DOMAIN pending : pending[e] \in Local
  BY ScratchIsFree DEF BreakCycle
<1>4. DOMAIN pending' = DOMAIN pending
  BY <1>1 DEF Redirected
<1>5. \A e \in DOMAIN pending :
        pending'[e] = IF pending[e] = preserved THEN Scratch ELSE pending[e]
  BY <1>1 DEF Redirected
<1>6. preserved \in Local /\ preserved \in Place /\ Scratch \in Place
  BY <1>1 DEF TransferInv, TypeOK, Place, Source
<1>7. /\ memory'[Scratch] = memory[preserved]
      /\ \A p \in Place \ {Scratch} : memory'[p] = memory[p]
      /\ memory' \in [Place -> Place]
  BY <1>1, <1>6 DEF Emit, TransferInv, TypeOK
<1>8. moves' \in Seq((Local \cup {Scratch}) \X Place)
  BY <1>1, <1>6 DEF Emit, TransferInv, TypeOK
<1>9. TypeOK'
  BY <1>2, <1>4, <1>5, <1>6, <1>7, <1>8 DEF TransferInv, TypeOK
<1>10. Collected' /\ Staged'
  BY <1>2, <1>4 DEF TransferInv, Collected, Staged
<1>11. \A p \in Source : p # Scratch /\ p \in Place
  BY PlacesDiffer DEF Source, Place
<1>12. Scheduled'
  <2>1. \A e \in DOMAIN pending' : memory'[pending'[e]] = copies[e]
    <3> TAKE e \in DOMAIN pending'
    <3>1. memory[pending[e]] = copies[e] /\ pending[e] \in Source
      BY <1>2, <1>3, <1>4 DEF TransferInv, Scheduled, Source
    <3> QED BY <1>4, <1>5, <1>7, <1>11, <3>1
  <2>2. \A e \in DOMAIN copies \ DOMAIN pending' : memory'[e] = copies[e]
    BY <1>2, <1>4, <1>7, <1>11 DEF TransferInv, TypeOK, Scheduled, Source
  <2>3. \A p \in Source \ DOMAIN copies : memory'[p] = p
    BY <1>2, <1>7, <1>11 DEF TransferInv, Scheduled
  <2> QED BY <1>2, <2>1, <2>2, <2>3 DEF Scheduled
<1> QED BY <1>9, <1>10, <1>12 DEF TransferInv

\* Nothing is pending: the schedule is complete.
LEMMA FinishTransfer == TransferInv /\ FinishSchedule => TransferInv'
BY DEF TransferInv, TypeOK, Collected, Staged, Scheduled, FinishSchedule

\* A step outside the planner changes nothing the invariant speaks of.
LEMMA StutterTransfer == TransferInv /\ UNCHANGED vars => TransferInv'
BY DEF vars, TransferInv, TypeOK, Collected, Staged, Scheduled

\* Every step of the planner preserves the invariant.
LEMMA NextTransfer == TransferInv /\ [Next]_vars => TransferInv'
BY PlanCopyTransfer, StartScheduleTransfer, EmitReadyTransfer, BreakCycleTransfer,
   FinishTransfer, StutterTransfer DEF Next, Plan, Planned

\* The invariant holds throughout.
LEMMA TransferInvariant == Spec => []TransferInv
BY InitTransfer, NextTransfer, PTL DEF Spec

-----------------------------------------------------------------------------
\* With nothing pending, the invariant is the correctness of the transfer.
LEMMA InvGivesSimultaneous == TransferInv => TransferIsSimultaneous
<1> SUFFICES ASSUME TransferInv, phase = "done", NEW p \in Local
             PROVE  memory[p] = Parallel(p)
  BY DEF TransferIsSimultaneous
<1>1. edge \in Edges /\ next - 1 = Len(edge.arguments) /\ DOMAIN pending = {}
  BY EdgeFacts DEF TransferInv, Collected, Staged
<1>2. p # Missing /\ p \in Source
  BY PlacesDiffer DEF Source
<1>3. CASE \E i \in DOMAIN edge.parameters : edge.parameters[i] = p
  <2> DEFINE k == CHOOSE i \in DOMAIN edge.parameters : edge.parameters[i] = p
  <2>1. k \in DOMAIN edge.parameters /\ edge.parameters[k] = p
    BY <1>3
  <2>2. k \in 1..(next - 1)
    BY <1>1, <2>1, EdgeFacts
  <2>3. Parallel(p) = edge.arguments[k]
    BY <1>3 DEF Parallel
  <2>4. CASE p \in DOMAIN copies
    <3>1. PICK j \in 1..(next - 1) : edge.parameters[j] = p /\ edge.arguments[j] = copies[p]
      BY <2>4 DEF TransferInv, Collected
    <3>2. j = k
      BY <1>1, <1>2, <2>1, <2>2, <3>1, EdgeFacts
    <3>3. memory[p] = copies[p]
      BY <1>1, <2>4 DEF TransferInv, Scheduled
    <3> QED BY <2>3, <3>1, <3>2, <3>3
  <2>5. CASE p \notin DOMAIN copies
    <3>1. edge.arguments[k] = p
      BY <2>1, <2>2, <2>5 DEF TransferInv, Collected
    <3>2. memory[p] = p
      BY <1>2, <2>5 DEF TransferInv, Scheduled
    <3> QED BY <2>3, <3>1, <3>2
  <2> QED BY <2>4, <2>5
<1>4. CASE ~ \E i \in DOMAIN edge.parameters : edge.parameters[i] = p
  <2>1. p \notin DOMAIN copies
    BY <1>1, <1>4, EdgeFacts DEF TransferInv, Collected
  <2>2. memory[p] = p
    BY <1>2, <2>1 DEF TransferInv, Scheduled
  <2> QED BY <1>4, <2>2 DEF Parallel
<1> QED BY <1>3, <1>4

\* For every set of locals and every edge: a finished schedule leaves in every
\* parameter what its argument held before the edge, and in every other local
\* what it held (schedule_parallel_copies).
THEOREM SimultaneousTransfer == Spec => []TransferIsSimultaneous
BY TransferInvariant, InvGivesSimultaneous, PTL

\* For every set of locals and every edge, the planner stays within its types:
\* a copy moves a source into a local, a schedule moves places.
THEOREM TransferTypes == Spec => []TypeOK
<1>1. TransferInv => TypeOK
  BY DEF TransferInv
<1> QED BY <1>1, TransferInvariant, PTL

-----------------------------------------------------------------------------
(* What the schedule costs                                                 *)

\* The pending copies that the last broken cycle has left to the scratch local.
ScratchReaders == {d \in DOMAIN pending : pending[d] = Scratch}

\* What the last cycle still owes: it cost an assignment more than its copies,
\* and has at least two of them.
Owed ==
  IF ScratchReaders = {} THEN 0
  ELSE IF \A d \in ScratchReaders : Ready(d) THEN 1 ELSE 2

IsCycle(S) == S \in (SUBSET DOMAIN copies) \ {{}} /\ S = {copies[d] : d \in S}

UsesScratch == \E i \in DOMAIN moves : moves[i][1] = Scratch

\* No copy moves a place onto itself, and a pending copy reads its source or the
\* scratch local.  Every emitted copy pays for one assignment and for half of
\* the one that broke a cycle; a cycle that is broken has its first two copies
\* in debt.
CostInv ==
  /\ \A d \in DOMAIN copies : copies[d] # d
  /\ \A d \in DOMAIN pending : pending[d] \in {copies[d], Scratch}
  /\ phase \in {"collect", "rejected"} => moves = <<>>
  /\ phase \in {"schedule", "done"} =>
       2 * Len(moves) + 3 * Cardinality(DOMAIN pending) <= 3 * Cardinality(DOMAIN copies) + Owed
  /\ UsesScratch => \E S : IsCycle(S)

\* A finite number of copies is pending, and of copies planned.
LEMMA CopiesAreFinite ==
  ASSUME TransferInv
  PROVE  /\ IsFiniteSet(DOMAIN copies) /\ Cardinality(DOMAIN copies) \in Nat
         /\ IsFiniteSet(DOMAIN pending) /\ Cardinality(DOMAIN pending) \in Nat
<1>1. IsFiniteSet(DOMAIN copies) /\ DOMAIN pending \subseteq DOMAIN copies
  BY DEF TransferInv, TypeOK, Collected
<1> QED
  BY <1>1, FS_Subset, FS_CardinalityType

\* Appending an assignment that does not write the scratch local makes no use of it.
LEMMA MovesGrow ==
  ASSUME TransferInv, NEW d \in Local \cup {Scratch}, NEW s \in Place, Emit(d, s)
  PROVE  /\ Len(moves) \in Nat /\ Len(moves') = Len(moves) + 1
         /\ d # Scratch => (UsesScratch' => UsesScratch)
<1>1. moves \in Seq((Local \cup {Scratch}) \X Place) /\ moves' = Append(moves, <<d, s>>)
  BY DEF TransferInv, TypeOK, Emit
<1>2. /\ Len(moves) \in Nat /\ Len(moves') = Len(moves) + 1
      /\ DOMAIN moves = 1..Len(moves) /\ DOMAIN moves' = 1..(Len(moves) + 1)
      /\ \A i \in 1..Len(moves) : moves'[i] = moves[i]
      /\ moves'[Len(moves) + 1] = <<d, s>>
  BY <1>1
<1>3. ASSUME d # Scratch, UsesScratch' PROVE UsesScratch
  <2>1. PICK i \in DOMAIN moves' : moves'[i][1] = Scratch
    BY <1>3 DEF UsesScratch
  <2>2. i # Len(moves) + 1
    BY <1>2, <1>3, <2>1
  <2> QED
    BY <1>2, <2>1, <2>2 DEF UsesScratch
<1> QED
  BY <1>2, <1>3

\* Nothing is planned at the start.
LEMMA InitCost == Init => CostInv
  BY DEF Init, CostInv, UsesScratch

\* A value that is in place already is not copied.
LEMMA PlanCopyCost == TransferInv /\ CostInv /\ PlanCopy => CostInv'
<1> SUFFICES ASSUME TransferInv, CostInv, PlanCopy PROVE CostInv'
  OBVIOUS
<1> DEFINE d == edge.parameters[next]
           s == edge.arguments[next]
<1>1. /\ phase = "collect" /\ phase' \in {"collect", "rejected"}
      /\ UNCHANGED <<pending, moves>>
      /\ \/ copies' = copies
         \/ copies' = With(copies, d, s) /\ s # d
  BY DEF PlanCopy, IsNoCopy
<1> HIDE DEF d, s
<1>2. \A x \in DOMAIN copies' : copies'[x] # x
  BY <1>1 DEF CostInv, With
<1>3. DOMAIN pending = {} /\ moves = <<>>
  BY <1>1 DEF TransferInv, Staged, CostInv
<1> QED
  BY <1>1, <1>2, <1>3 DEF CostInv, UsesScratch

\* Three for every pending copy is what the bound allows at the start.
LEMMA StartScheduleCost == TransferInv /\ CostInv /\ StartSchedule => CostInv'
<1> SUFFICES ASSUME TransferInv, CostInv, StartSchedule PROVE CostInv'
  OBVIOUS
<1>1. /\ phase = "collect" /\ phase' = "schedule" /\ pending' = copies
      /\ copies' = copies /\ moves' = moves /\ moves = <<>>
  BY DEF StartSchedule, CostInv
<1>2. Owed' \in {0, 1, 2}
  BY DEF Owed
<1>3. Cardinality(DOMAIN copies) \in Nat
  BY CopiesAreFinite
<1>4. 2 * Len(moves') + 3 * Cardinality(DOMAIN pending') <= 3 * Cardinality(DOMAIN copies') + Owed'
  BY <1>1, <1>2, <1>3
<1> QED
  BY <1>1, <1>4 DEF CostInv, UsesScratch

\* A copy that is emitted pays one more than its assignment, and what the last
\* cycle owes goes down by one at most: a copy that still waits is not emitted.
LEMMA EmitReadyCost == TransferInv /\ CostInv /\ EmitReady => CostInv'
<1> SUFFICES ASSUME TransferInv, CostInv, EmitReady PROVE CostInv'
  OBVIOUS
<1>1. PICK d \in DOMAIN pending :
        /\ Ready(d) /\ Emit(d, pending[d])
        /\ pending' = Restrict(pending, DOMAIN pending \ {d})
  BY DEF EmitReady
<1>2. phase = "schedule" /\ UNCHANGED <<edge, next, copies, phase>>
  BY DEF EmitReady
<1>3. /\ DOMAIN pending' = DOMAIN pending \ {d}
      /\ \A e \in DOMAIN pending \ {d} : pending'[e] = pending[e]
  BY <1>1 DEF Restrict
<1>4. d \in Local /\ d # Scratch /\ pending[d] \in Place
  BY <1>1, PlacesDiffer DEF TransferInv, TypeOK
<1>5. /\ Len(moves) \in Nat /\ Len(moves') = Len(moves) + 1
      /\ UsesScratch' => UsesScratch
  BY <1>1, <1>4, MovesGrow
<1>6. /\ Cardinality(DOMAIN pending') = Cardinality(DOMAIN pending) - 1
      /\ Cardinality(DOMAIN pending) \in Nat /\ Cardinality(DOMAIN copies) \in Nat
  BY <1>1, <1>3, CopiesAreFinite, FS_RemoveElement
<1>7. Owed \in Nat /\ Owed' \in Nat /\ Owed <= Owed' + 1
  <2>1. ASSUME Owed = 2 PROVE Owed' # 0
    <3>1. PICK e \in ScratchReaders : ~Ready(e)
      BY <2>1 DEF Owed
    <3>2. e \in DOMAIN pending /\ pending[e] = Scratch /\ e # d
      BY <1>1, <3>1 DEF ScratchReaders
    <3>3. e \in ScratchReaders'
      BY <1>3, <3>2 DEF ScratchReaders
    <3> QED
      BY <3>3 DEF Owed
  <2>2. (Owed = 0 \/ Owed = 1 \/ Owed = 2) /\ (Owed' = 0 \/ Owed' = 1 \/ Owed' = 2)
    BY DEF Owed
  <2> HIDE DEF Owed
  <2> QED
    BY <2>1, <2>2
<1>8. 2 * Len(moves') + 3 * Cardinality(DOMAIN pending') <= 3 * Cardinality(DOMAIN copies') + Owed'
  <2>1. 2 * Len(moves) + 3 * Cardinality(DOMAIN pending) <= 3 * Cardinality(DOMAIN copies) + Owed
    BY <1>2 DEF CostInv
  <2>2. DOMAIN copies' = DOMAIN copies
    BY <1>2
  <2> DEFINE n == Cardinality(DOMAIN copies)
             k == Cardinality(DOMAIN pending)
             k1 == Cardinality(DOMAIN pending')
             l == Len(moves)
             l1 == Len(moves')
             o == Owed
             o1 == Owed'
  <2>3. /\ n \in Nat /\ k \in Nat /\ k1 = k - 1 /\ l \in Nat /\ l1 = l + 1
        /\ o \in Nat /\ o1 \in Nat /\ o <= o1 + 1 /\ 2 * l + 3 * k <= 3 * n + o
    BY <1>5, <1>6, <1>7, <2>1
  <2> HIDE DEF n, k, k1, l, l1, o, o1
  <2>4. 2 * l1 + 3 * k1 <= 3 * n + o1
    BY <2>3
  <2> QED
    BY <2>2, <2>4 DEF n, k1, l1, o1
<1>9. (\A x \in DOMAIN pending : pending[x] \in {copies[x], Scratch})'
  BY <1>2, <1>3 DEF CostInv
<1>10. (UsesScratch => \E S : IsCycle(S))'
  <2>1. \A S : IsCycle(S) => IsCycle(S)'
    BY <1>2 DEF IsCycle
  <2>2. UsesScratch => \E S : IsCycle(S)
    BY DEF CostInv
  <2> QED
    BY <1>5, <2>1, <2>2
<1> QED
  BY <1>2, <1>8, <1>9, <1>10 DEF CostInv

\* When all copies wait, the pending ones are a cycle; breaking it costs an
\* assignment, and leaves a copy that reads the scratch local and still waits.
LEMMA BreakCycleCost == TransferInv /\ CostInv /\ BreakCycle => CostInv'
<1> SUFFICES ASSUME TransferInv, CostInv, BreakCycle PROVE CostInv'
  OBVIOUS
<1>1. PICK preserved \in DOMAIN pending :
        Emit(Scratch, preserved) /\ pending' = Redirected(preserved)
  BY DEF BreakCycle
<1>2. phase = "schedule" /\ UNCHANGED <<edge, next, copies, phase>>
  BY DEF BreakCycle
<1>3. \A e \in DOMAIN pending : pending[e] \in Local /\ pending[e] # Scratch /\ pending[e] = copies[e]
  BY ScratchIsFree, PlacesDiffer DEF BreakCycle, CostInv
<1>4. DOMAIN pending' = DOMAIN pending
  BY <1>1 DEF Redirected
<1>5. \A e \in DOMAIN pending :
        pending'[e] = IF pending[e] = preserved THEN Scratch ELSE pending[e]
  BY <1>1 DEF Redirected
<1>6. \A x \in DOMAIN pending : \E e \in DOMAIN pending : pending[e] = x
  BY DEF BreakCycle, Ready
<1>7. preserved \in Place
  BY <1>1 DEF TransferInv, TypeOK, Place, Source
<1>8. Len(moves) \in Nat /\ Len(moves') = Len(moves) + 1
  BY <1>1, <1>7, MovesGrow
<1>9. Owed = 0
  BY <1>3 DEF Owed, ScratchReaders
<1>10. Owed' = 2
  <2>1. PICK e \in DOMAIN pending : pending[e] = preserved
    BY <1>1, <1>6
  <2>2. e # preserved
    BY <1>3, <2>1, TransferInv DEF CostInv, TransferInv, TypeOK
  <2>3. PICK x \in DOMAIN pending : pending[x] = e
    BY <1>6
  <2>4. e \in ScratchReaders' /\ pending'[x] = e
    BY <1>4, <1>5, <2>1, <2>2, <2>3 DEF ScratchReaders
  <2>5. ~Ready(e)'
    BY <1>4, <2>4 DEF Ready
  <2> QED
    BY <2>4, <2>5 DEF Owed
<1>11. 2 * Len(moves') + 3 * Cardinality(DOMAIN pending') <= 3 * Cardinality(DOMAIN copies') + Owed'
  BY <1>2, <1>4, <1>8, <1>9, <1>10, CopiesAreFinite DEF CostInv
<1>12. (\A x \in DOMAIN pending : pending[x] \in {copies[x], Scratch})'
  BY <1>2, <1>3, <1>4, <1>5
<1>13. IsCycle(DOMAIN pending)
  <2>1. \A e \in DOMAIN pending : pending[e] \in DOMAIN pending
    <3>1. IsFiniteSet(DOMAIN pending)
      BY CopiesAreFinite
    <3> QED
      BY <1>6, <3>1, BlockedCopiesPermute
  <2>2. DOMAIN pending = {copies[x] : x \in DOMAIN pending}
    BY <1>3, <1>6, <2>1
  <2>3. DOMAIN pending \subseteq DOMAIN copies /\ DOMAIN pending # {}
    BY <1>1 DEF TransferInv, TypeOK
  <2>4. DOMAIN pending \in (SUBSET DOMAIN copies) \ {{}}
    BY <2>3
  <2> QED
    BY <2>2, <2>4, Zenon DEF IsCycle
<1>14. (UsesScratch => \E S : IsCycle(S))'
  BY <1>2, <1>13 DEF IsCycle
<1> QED
  BY <1>2, <1>11, <1>12, <1>14 DEF CostInv

\* Neither the end of the schedule nor a step outside the planner costs anything.
LEMMA RestCost == TransferInv /\ CostInv /\ (FinishSchedule \/ UNCHANGED vars) => CostInv'
<1> SUFFICES ASSUME TransferInv, CostInv, FinishSchedule \/ UNCHANGED vars PROVE CostInv'
  OBVIOUS
<1>1. /\ UNCHANGED <<copies, pending, moves>>
      /\ phase' = phase \/ (phase = "schedule" /\ phase' = "done")
  BY DEF FinishSchedule, vars
<1>2. Owed' = Owed /\ (UsesScratch' <=> UsesScratch) /\ \A S : IsCycle(S)' <=> IsCycle(S)
  BY <1>1 DEF Owed, ScratchReaders, Ready, UsesScratch, IsCycle
<1> QED
  BY <1>1, <1>2 DEF CostInv

\* The bound holds throughout.
LEMMA CostInvariant == Spec => [](TransferInv /\ CostInv)
<1>1. TransferInv /\ CostInv /\ [Next]_vars => (TransferInv /\ CostInv)'
  BY NextTransfer, PlanCopyCost, StartScheduleCost, EmitReadyCost, BreakCycleCost, RestCost
  DEF Next, Plan, Planned
<1> QED
  BY <1>1, InitTransfer, InitCost, PTL DEF Spec

\* For every set of locals and every edge: the scratch local is used only by an
\* edge that has a cycle of copies, and n copies cost no more than n + n / 2
\* assignments (schedule_parallel_copies).
THEOREM ScratchOnlyWhereNeeded == Spec => []ScratchOnlyForCycles
<1>1. TransferInv /\ CostInv => ScratchOnlyForCycles
  <2> SUFFICES ASSUME TransferInv, CostInv, phase = "done"
               PROVE  /\ 2 * Len(moves) <= 3 * Cardinality(DOMAIN copies)
                      /\ UsesScratch => \E S : IsCycle(S)
    BY DEF ScratchOnlyForCycles, UsesScratch, IsCycle
  <2>1. DOMAIN pending = {}
    BY DEF TransferInv, Staged
  <2>2. Owed = 0 /\ Cardinality(DOMAIN pending) = 0
    BY <2>1, FS_EmptySet DEF Owed, ScratchReaders
  <2>3. Len(moves) \in Nat /\ Cardinality(DOMAIN copies) \in Nat
    BY CopiesAreFinite DEF TransferInv, TypeOK
  <2> QED
    BY <2>2, <2>3 DEF CostInv
<1> QED
  BY <1>1, CostInvariant, PTL
===============================================================================
