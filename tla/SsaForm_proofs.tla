--------------------------- MODULE SsaForm_proofs ---------------------------
(***************************************************************************)
(* The passes keep SSA, call by call: whatever an operation reads was      *)
(* computed on every path that leads to it; so the value analysis, which   *)
(* relies on that, is exact wherever it is made.                           *)
(*                                                                         *)
(* What may execute before a value is computed is a least set, so it is    *)
(* compared by leastness.  A call that takes operations, blocks or edges   *)
(* away leaves a part of the function, where there are fewer paths.  The   *)
(* calls that move reads are safe because of what their passes have found  *)
(* out: the value that replaces another one can be read wherever that can, *)
(* and successors are led past a block that only hands on what it is       *)
(* passed.  That is part of the invariant, for all calls still to be made. *)
(***************************************************************************)
EXTENDS SparseValues_proofs

-----------------------------------------------------------------------------
(* What may execute while an operation does                                *)

\* What holds of a function at every step, inside the removal of a parameter
\* too, as far as paths are concerned.
IsFlow(f) ==
  /\ IsOrderly(f) /\ IsAnalysable(f)
  /\ \A e \in Edges(f) : /\ Target(f, e) \in DOMAIN f.blocks
                         /\ f.blocks[Source(f, e)].region = f.blocks[Target(f, e)].region

\* Its edges can be followed.
LEMMA FlowIsGraph ==
  ASSUME NEW f, IsFlow(f)
  PROVE  IsGraph(f)
BY DEF IsFlow, IsGraph, IsOrderly, IsLaidOut, IsAnalysable

\* The operations of blocks are those that name one of them.
LEMMA OperationsPlaced ==
  ASSUME NEW f, IsFlow(f), NEW B \in SUBSET DOMAIN f.blocks
  PROVE  OperationsOf(f, B) = {o \in DOMAIN f.operations : f.operations[o].block \in B}
<1>1. \A b \in DOMAIN f.blocks :
        BlockOperations(f, b) = {o \in DOMAIN f.operations : f.operations[o].block = b}
  BY DEF IsFlow, IsOrderly, PlacesAreExact
<1> QED
  BY <1>1 DEF OperationsOf

\* What runs in a region are the operations of the blocks that are reached.
LEMMA RunsInHolds ==
  ASSUME NEW f, IsFlow(f), NEW r \in DOMAIN f.regions, NEW A
  PROVE  RunsIn(f, r, A) =
           {o \in DOMAIN f.operations : f.operations[o].block \in ReachableAvoiding(f, r, A)}
<1>1. ReachableAvoiding(f, r, A) \subseteq ToSet(f.regions[r])
  BY FlowIsGraph, AvoidingIsClosed
<1>2. ToSet(f.regions[r]) \subseteq DOMAIN f.blocks
  BY DEF IsFlow, IsOrderly, PlacesAreExact
<1>3. ReachableAvoiding(f, r, A) \in SUBSET DOMAIN f.blocks
  BY <1>1, <1>2
<1> QED
  BY <1>3, OperationsPlaced DEF RunsIn

\* The regions of R, and those of the operations that run in them.
Further(f, R) == R \cup RegionsOf(f, UNION {RunsIn(f, r, {}) : r \in R})

\* The loop over the regions inwards.
IsEntering(g, f, O) ==
  g = [n \in 0..Cardinality(DOMAIN f.regions) |->
        IF n = 0 THEN RegionsOf(f, O)
        ELSE LET R == g[n - 1] IN R \cup RegionsOf(f, UNION {RunsIn(f, r, {}) : r \in R})]

\* The regions of operations are regions.
LEMMA RegionsAreKnown ==
  ASSUME NEW f, IsFlow(f), NEW O \in SUBSET DOMAIN f.operations
  PROVE  RegionsOf(f, O) \in SUBSET DOMAIN f.regions
BY DEF RegionsOf, IsFlow, IsOrderly, PlacesAreExact

\* From regions the loop comes to regions.
LEMMA FurtherStays ==
  ASSUME NEW f, IsFlow(f), NEW R \in SUBSET DOMAIN f.regions
  PROVE  R \subseteq Further(f, R) /\ Further(f, R) \in SUBSET DOMAIN f.regions
<1>1. \A r \in R : RunsIn(f, r, {}) \subseteq DOMAIN f.operations
  BY RunsInHolds
<1>2. UNION {RunsIn(f, r, {}) : r \in R} \in SUBSET DOMAIN f.operations
  BY <1>1
<1> QED
  BY <1>2, RegionsAreKnown DEF Further

\* OpenedBy is the last round of entering regions.
LEMMA OpenedFollows ==
  ASSUME NEW f, IsFlow(f), NEW O \in SUBSET DOMAIN f.operations
  PROVE  LET n    == Cardinality(DOMAIN f.regions)
             U    == DOMAIN f.regions
             step == [C \in SUBSET U |-> Further(f, C)]
         IN  /\ step \in [SUBSET U -> SUBSET U] /\ RegionsOf(f, O) \in SUBSET U
             /\ \E g : IsRounds(g, U, RegionsOf(f, O), step, n) /\ OpenedBy(f, O) = g[n]
<1> DEFINE n == Cardinality(DOMAIN f.regions)
           U == DOMAIN f.regions
           step == [C \in SUBSET U |-> Further(f, C)]
           B == RegionsOf(f, O)
           h == CHOOSE g : IsEntering(g, f, O)
<1>1. n \in Nat /\ B \in SUBSET U
  BY RegionsAreKnown, FS_CardinalityType DEF IsFlow, IsOrderly, IsLaidOut
<1>2. step \in [SUBSET U -> SUBSET U]
  BY FurtherStays
<1>3. PICK g \in [0..n -> SUBSET U] : g[0] = B /\ \A k \in 1..n : g[k] = step[g[k - 1]]
  <2> HIDE DEF n, U, step, B
  <2>1. \E g : IsRounds(g, U, B, step, n)
    BY <1>1, <1>2, RoundsExist
  <2> QED
    BY <2>1 DEF IsRounds
<1>4. IsEntering(g, f, O)
  <2> DEFINE i == [k \in 0..n |-> IF k = 0 THEN B ELSE Further(f, g[k - 1])]
             j == [k \in 0..n |->
                     IF k = 0 THEN RegionsOf(f, O)
                     ELSE LET R == g[k - 1] IN R \cup RegionsOf(f, UNION {RunsIn(f, r, {}) : r \in R})]
  <2>1. ASSUME NEW k \in 0..n PROVE g[k] = IF k = 0 THEN B ELSE Further(f, g[k - 1])
    <3>1. CASE k = 0
      BY <1>3, <3>1
    <3>2. CASE k # 0
      <4>1. k \in 1..n /\ k - 1 \in 0..n
        BY <1>1, <3>2
      <4> QED
        BY <1>3, <3>2, <4>1
    <3> QED
      BY <3>1, <3>2
  <2>2. g = i
    BY <1>3, <2>1
  <2>3. i = j
    <3>1. \A k \in 0..n : (IF k = 0 THEN B ELSE Further(f, g[k - 1])) = j[k]
      BY DEF Further
    <3> QED
      BY <3>1
  <2>4. g = j
    BY <2>2, <2>3
  <2> QED
    BY <2>4, Zenon DEF IsEntering
<1>5. IsEntering(h, f, O)
  BY <1>4
<1>6. OpenedBy(f, O) = h[n]
  BY Zenon DEF OpenedBy, IsEntering
<1>7. h = [k \in 0..n |->
            IF k = 0 THEN RegionsOf(f, O)
            ELSE LET R == h[k - 1] IN R \cup RegionsOf(f, UNION {RunsIn(f, r, {}) : r \in R})]
  BY <1>5 DEF IsEntering
<1> HIDE DEF h, n
<1>8. 0 \in 0..n /\ \A k \in 1..n : k \in 0..n /\ k # 0
  BY <1>1
<1>9. DOMAIN h = 0..n /\ h[0] = B
  BY <1>7, <1>8
<1>10. ASSUME NEW k \in 1..n PROVE h[k] = Further(f, h[k - 1])
  BY <1>7, <1>8 DEF Further
<1> DEFINE T == {k \in 0..n : h[k] \in SUBSET U}
<1>11. 0 \in T
  BY <1>1, <1>9
<1>12. ASSUME NEW k \in 1..n, k - 1 \in T PROVE k \in T
  BY <1>2, <1>8, <1>10, <1>12
<1>13. 0..n \subseteq T
  <2> HIDE DEF T
  <2> QED
    BY <1>1, <1>11, <1>12, CountingUp
<1>14. h \in [0..n -> SUBSET U]
  <2>1. h = [k \in 0..n |-> h[k]]
    BY <1>7
  <2>2. \A k \in 0..n : h[k] \in SUBSET U
    BY <1>13
  <2> QED
    BY <2>1, <2>2
<1>15. \A k \in 1..n : h[k] = step[h[k - 1]]
  <2> TAKE k \in 1..n
  <2>1. k - 1 \in 0..n
    BY <1>1
  <2>2. h[k - 1] \in SUBSET U
    BY <1>14, <2>1
  <2> QED
    BY <1>10, <2>2
<1>16. IsRounds(h, U, B, step, n)
  BY <1>9, <1>14, <1>15 DEF IsRounds
<1> HIDE DEF U, step, B
<1>17. \E g2 : IsRounds(g2, U, B, step, n) /\ OpenedBy(f, O) = g2[n]
  BY <1>6, <1>16
<1> QED
  BY <1>1, <1>2, <1>17 DEF n, U, step, B

\* The regions that are entered are closed: whatever runs in one of them has its
\* regions among them.
LEMMA OpenedIsClosed ==
  ASSUME NEW f, IsFlow(f), NEW O \in SUBSET DOMAIN f.operations
  PROVE  /\ RegionsOf(f, O) \subseteq OpenedBy(f, O) /\ OpenedBy(f, O) \subseteq DOMAIN f.regions
         /\ \A r \in OpenedBy(f, O) : RegionsOf(f, RunsIn(f, r, {})) \subseteq OpenedBy(f, O)
<1> DEFINE n == Cardinality(DOMAIN f.regions)
           U == DOMAIN f.regions
           step == [C \in SUBSET U |-> Further(f, C)]
           B == RegionsOf(f, O)
           L == OpenedBy(f, O)
<1>1. /\ step \in [SUBSET U -> SUBSET U] /\ B \in SUBSET U
      /\ \E g : IsRounds(g, U, B, step, n) /\ L = g[n]
  BY OpenedFollows
<1>2. PICK g : IsRounds(g, U, B, step, n) /\ L = g[n]
  BY <1>1
<1>3. IsFiniteSet(U) /\ Cardinality(U) <= n /\ n \in Nat
  <2>1. IsFiniteSet(U)
    BY DEF IsFlow, IsOrderly, IsLaidOut
  <2> QED
    BY <2>1, FS_CardinalityType
<1>4. \A C \in SUBSET U : C \subseteq step[C]
  BY FurtherStays
<1>5. B \subseteq L /\ L \in SUBSET U /\ step[L] = L
  <2> HIDE DEF n, U, step, B, L
  <2>1. step \in [SUBSET U -> SUBSET U] /\ B \in SUBSET U
    BY <1>1
  <2>2. B \subseteq g[n] /\ g[n] \in SUBSET U /\ step[g[n]] = g[n]
    <3>1. IsClimb(g, U, B, step, n)
      BY <1>2, <1>3, <1>4, <2>1, Zenon DEF IsClimb
    <3> QED
      BY <3>1, RoundsClose
  <2> QED
    BY <1>2, <2>2
<1>6. Further(f, L) = L
  <2> HIDE DEF L
  <2> QED
    BY <1>5
<1> HIDE DEF L
<1>7. \A r \in L : RegionsOf(f, RunsIn(f, r, {})) \subseteq Further(f, L)
  BY DEF Further, RegionsOf
<1> QED
  BY <1>5, <1>6, <1>7 DEF L

\* Nothing else is entered.
LEMMA OpenedIsLeast ==
  ASSUME NEW f, IsFlow(f), NEW O \in SUBSET DOMAIN f.operations, NEW C,
         RegionsOf(f, O) \subseteq C,
         \A r \in C \cap DOMAIN f.regions : RegionsOf(f, RunsIn(f, r, {})) \subseteq C
  PROVE  OpenedBy(f, O) \subseteq C
<1> DEFINE n == Cardinality(DOMAIN f.regions)
           U == DOMAIN f.regions
           step == [D \in SUBSET U |-> Further(f, D)]
           B == RegionsOf(f, O)
           L == OpenedBy(f, O)
<1>1. /\ step \in [SUBSET U -> SUBSET U] /\ B \in SUBSET U
      /\ \E g : IsRounds(g, U, B, step, n) /\ L = g[n]
  BY OpenedFollows
<1>2. PICK g : IsRounds(g, U, B, step, n) /\ L = g[n]
  BY <1>1
<1>3. n \in Nat
  BY FS_CardinalityType DEF IsFlow, IsOrderly, IsLaidOut
<1>4. ASSUME NEW D \in SUBSET U, D \subseteq C PROVE step[D] \subseteq C
  <2>1. Further(f, D) \subseteq C
    BY <1>4 DEF Further, RegionsOf
  <2> QED
    BY <2>1
<1> HIDE DEF n, U, step, B, L
<1>5. B \subseteq C
  BY DEF B
<1> DEFINE T == {k \in 0..n : g[k] \in SUBSET U /\ g[k] \subseteq C}
<1>6. g[n] \subseteq C
  <2>1. /\ g \in [0..n -> SUBSET U] /\ g[0] = B
        /\ \A k \in 1..n : g[k] = step[g[k - 1]]
    BY <1>2 DEF IsRounds
  <2>2. 0 \in T
    BY <1>1, <1>3, <1>5, <2>1
  <2>3. ASSUME NEW k \in 1..n, k - 1 \in T PROVE k \in T
    <3>1. g[k - 1] \in SUBSET U /\ g[k - 1] \subseteq C /\ g[k] = step[g[k - 1]] /\ k \in 0..n
      BY <1>3, <2>1, <2>3
    <3> QED
      BY <1>1, <1>4, <3>1
  <2>4. 0..n \subseteq T
    <3> HIDE DEF T
    <3> QED
      BY <1>3, <2>2, <2>3, CountingUp
  <2> QED
    BY <1>3, <2>4
<1>7. L \subseteq C
  BY <1>2, <1>6
<1> QED
  BY <1>7 DEF L

\* What runs while an operation does is closed under running what is inside.
LEMMA RunningIsClosed ==
  ASSUME NEW f, IsFlow(f), NEW O \in SUBSET DOMAIN f.operations
  PROVE  /\ O \subseteq Running(f, O) /\ Running(f, O) \subseteq DOMAIN f.operations
         /\ \A p \in Running(f, O) : \A r \in f.operations[p].regions :
              RunsIn(f, r, {}) \subseteq Running(f, O)
<1> DEFINE L == OpenedBy(f, O)
<1>1. /\ RegionsOf(f, O) \subseteq L /\ L \subseteq DOMAIN f.regions
      /\ \A r \in L : RegionsOf(f, RunsIn(f, r, {})) \subseteq L
  BY OpenedIsClosed
<1>2. \A r \in L : RunsIn(f, r, {}) \subseteq DOMAIN f.operations
  BY <1>1, RunsInHolds
<1> HIDE DEF L
<1>3. Running(f, O) = O \cup UNION {RunsIn(f, r, {}) : r \in L}
  BY DEF Running, L
<1> QED
  BY <1>1, <1>2, <1>3 DEF RegionsOf

\* Nothing else runs.
LEMMA RunningIsLeast ==
  ASSUME NEW f, IsFlow(f), NEW O \in SUBSET DOMAIN f.operations, NEW C, O \subseteq C,
         \A p \in C \cap DOMAIN f.operations : \A r \in f.operations[p].regions :
           RunsIn(f, r, {}) \subseteq C
  PROVE  Running(f, O) \subseteq C
<1> DEFINE D == {r \in DOMAIN f.regions : RunsIn(f, r, {}) \subseteq C}
<1>1. \A r \in DOMAIN f.regions : RunsIn(f, r, {}) \subseteq DOMAIN f.operations
  BY RunsInHolds
<1>2. \A p \in DOMAIN f.operations : f.operations[p].regions \subseteq DOMAIN f.regions
  BY DEF IsFlow, IsOrderly, PlacesAreExact
<1>3. RegionsOf(f, O) \subseteq D
  BY <1>2 DEF RegionsOf
<1>4. \A r \in D \cap DOMAIN f.regions : RegionsOf(f, RunsIn(f, r, {})) \subseteq D
  BY <1>1, <1>2 DEF RegionsOf
<1> HIDE DEF D
<1>5. OpenedBy(f, O) \subseteq D
  BY <1>3, <1>4, OpenedIsLeast
<1> QED
  BY <1>5 DEF Running, D

\* Blocks that hold B and what is nested in them hold all that is nested in B.
LEMMA NestedIsLeast ==
  ASSUME NEW f, IsFlow(f), NEW B, NEW C, B \subseteq C,
         \A r \in RegionsOf(f, OperationsOf(f, C)) : ToSet(f.regions[r]) \subseteq C
  PROVE  WithNested(f, B) \subseteq C
<1> DEFINE n == Cardinality(DOMAIN f.regions)
<1>1. IsFiniteSet(DOMAIN f.regions)
  BY DEF IsFlow, IsOrderly, IsLaidOut
<1>2. n \in Nat
  BY <1>1, FS_CardinalityType
<1>3. PICK g : /\ WithNested(f, B) = g[n] /\ g[0] = B
               /\ \A k \in 1..n : g[k] = Opened(f, g[k - 1])
  BY <1>1, WithNestedOpens
<1>4. \A D : D \subseteq C => Opened(f, D) \subseteq C
  BY DEF Opened, RegionsOf, OperationsOf
<1> DEFINE T == {k \in 0..n : g[k] \subseteq C}
<1>5. 0 \in T
  BY <1>2, <1>3
<1>6. ASSUME NEW k \in 1..n, k - 1 \in T PROVE k \in T
  BY <1>2, <1>3, <1>4, <1>6
<1> HIDE DEF T
<1>7. 0..n \subseteq T
  BY <1>2, <1>5, <1>6, CountingUp
<1> QED
  BY <1>2, <1>3, <1>7 DEF T

-----------------------------------------------------------------------------
(* Regions inside a region                                                 *)

\* The blocks of r and of the regions inside it.
Inside(f, r) == WithNested(f, ToSet(f.regions[r]))

\* What is nested in the blocks of a region and belongs to another one belongs
\* to an operation in there, and is younger.
LEMMA InsideHolds ==
  ASSUME NEW f, IsFlow(f), NEW r \in DOMAIN f.regions
  PROVE  /\ ToSet(f.regions[r]) \subseteq Inside(f, r) /\ Inside(f, r) \subseteq DOMAIN f.blocks
         /\ \A o \in DOMAIN f.operations : f.operations[o].block \in Inside(f, r) =>
              \A s \in f.operations[o].regions : ToSet(f.regions[s]) \subseteq Inside(f, r)
         /\ \A b \in Inside(f, r) :
              \/ f.blocks[b].region = r
              \/ /\ r < f.blocks[b].region
                 /\ \E o \in DOMAIN f.operations : /\ f.blocks[b].region \in f.operations[o].regions
                                                   /\ f.operations[o].block \in Inside(f, r)
<1> DEFINE N == Inside(f, r)
<1>1. IsOrderly(f) /\ IsAnalysable(f) /\ ToSet(f.regions[r]) \in SUBSET DOMAIN f.blocks
  BY DEF IsFlow, IsOrderly, PlacesAreExact
<1>2. /\ ToSet(f.regions[r]) \subseteq N /\ N \subseteq DOMAIN f.blocks
      /\ \A s \in RegionsOf(f, OperationsOf(f, N)) : ToSet(f.regions[s]) \subseteq N
  BY <1>1, NestedIsClosed DEF Inside
<1>3. OperationsOf(f, N) = {o \in DOMAIN f.operations : f.operations[o].block \in N}
  BY <1>2, OperationsPlaced
<1>4. \A o \in DOMAIN f.operations : f.operations[o].block \in N =>
        \A s \in f.operations[o].regions : ToSet(f.regions[s]) \subseteq N
  BY <1>2, <1>3 DEF RegionsOf
<1> DEFINE IsIn(b) == \/ f.blocks[b].region = r
                      \/ /\ r < f.blocks[b].region
                         /\ \E o \in DOMAIN f.operations : /\ f.blocks[b].region \in f.operations[o].regions
                                                           /\ f.operations[o].block \in N
           C == {b \in N : IsIn(b)}
<1>5. \A s \in DOMAIN f.regions : ToSet(f.regions[s]) = {b \in DOMAIN f.blocks : f.blocks[b].region = s}
  BY DEF IsFlow, IsOrderly, PlacesAreExact
<1>6. ToSet(f.regions[r]) \subseteq C
  BY <1>2, <1>5
<1>7. \A s \in RegionsOf(f, OperationsOf(f, C)) : ToSet(f.regions[s]) \subseteq C
  <2> SUFFICES ASSUME NEW s \in RegionsOf(f, OperationsOf(f, C)), NEW b \in ToSet(f.regions[s])
               PROVE  b \in C
    OBVIOUS
  <2>1. OperationsOf(f, C) = {o \in DOMAIN f.operations : f.operations[o].block \in C}
    BY <1>2, OperationsPlaced
  <2>2. PICK o \in DOMAIN f.operations : f.operations[o].block \in C /\ s \in f.operations[o].regions
    BY <2>1 DEF RegionsOf
  <2>3. s \in DOMAIN f.regions /\ f.operations[o].block \in DOMAIN f.blocks
    BY <2>2 DEF IsFlow, IsOrderly, PlacesAreExact
  <2>4. b \in DOMAIN f.blocks /\ f.blocks[b].region = s
    BY <1>5, <2>3
  <2>5. b \in N
    BY <1>4, <2>2
  <2> DEFINE q == f.blocks[f.operations[o].block].region
  <2>6. q < s
    BY <1>1, <2>2 DEF IsAnalysable
  <2>7. q = r \/ r < q
    BY <2>2
  <2>8. q \in Nat /\ s \in Nat /\ r \in Nat
    BY <1>1, <2>3 DEF IsAnalysable, IsOrderly, PlacesAreExact
  <2> HIDE DEF q
  <2>9. r < s
    BY <2>6, <2>7, <2>8
  <2> QED
    BY <2>2, <2>4, <2>5, <2>9
<1> HIDE DEF C
<1>8. N \subseteq C
  BY <1>6, <1>7, NestedIsLeast DEF Inside
<1> QED
  BY <1>2, <1>4, <1>8 DEF C

\* With one block of a region all of them are in there.
LEMMA WholeRegions ==
  ASSUME NEW f, IsFlow(f), NEW r \in DOMAIN f.regions, NEW b \in Inside(f, r)
  PROVE  ToSet(f.regions[f.blocks[b].region]) \subseteq Inside(f, r)
BY InsideHolds

\* What is inside a region inside r is inside r.
LEMMA InsideIsInside ==
  ASSUME NEW f, IsFlow(f), NEW r \in DOMAIN f.regions, NEW b \in Inside(f, r)
  PROVE  Inside(f, f.blocks[b].region) \subseteq Inside(f, r)
<1> DEFINE s == f.blocks[b].region
<1>1. ToSet(f.regions[s]) \subseteq Inside(f, r) /\ Inside(f, r) \subseteq DOMAIN f.blocks
  BY WholeRegions, InsideHolds
<1>2. OperationsOf(f, Inside(f, r)) = {o \in DOMAIN f.operations : f.operations[o].block \in Inside(f, r)}
  BY <1>1, OperationsPlaced
<1>3. \A q \in RegionsOf(f, OperationsOf(f, Inside(f, r))) : ToSet(f.regions[q]) \subseteq Inside(f, r)
  BY <1>2, InsideHolds DEF RegionsOf
<1> HIDE DEF s
<1>4. WithNested(f, ToSet(f.regions[s])) \subseteq Inside(f, r)
  BY <1>1, <1>3, NestedIsLeast
<1> QED
  BY <1>4 DEF Inside, s

\* What runs in the region where O is, while O does, is O.
LEMMA RunsInPlace ==
  ASSUME NEW f, IsFlow(f), NEW O \in SUBSET DOMAIN f.operations, NEW r \in DOMAIN f.regions,
         \A o \in O : f.blocks[f.operations[o].block].region = r,
         NEW q \in Running(f, O), f.blocks[f.operations[q].block].region = r
  PROVE  q \in O
<1> DEFINE R == Running(f, O)
           C == O \cup {o \in R : r < f.blocks[f.operations[o].block].region}
<1>1. O \subseteq R /\ R \subseteq DOMAIN f.operations
      /\ \A p \in R : \A s \in f.operations[p].regions : RunsIn(f, s, {}) \subseteq R
  BY RunningIsClosed
<1>2. \A p \in C \cap DOMAIN f.operations : \A s \in f.operations[p].regions : RunsIn(f, s, {}) \subseteq C
  <2> SUFFICES ASSUME NEW p \in C, p \in DOMAIN f.operations, NEW s \in f.operations[p].regions,
                      NEW o \in RunsIn(f, s, {})
               PROVE  o \in C
    OBVIOUS
  <2> DEFINE k == f.blocks[f.operations[p].block].region
  <2>1. s \in DOMAIN f.regions /\ k \in DOMAIN f.regions
    BY DEF IsFlow, IsOrderly, PlacesAreExact
  <2>2. k < s /\ (k = r \/ r < k)
    BY DEF IsFlow, IsAnalysable
  <2>3. k \in Nat /\ s \in Nat /\ r \in Nat
    BY <2>1 DEF IsFlow, IsAnalysable
  <2>4. o \in DOMAIN f.operations /\ f.operations[o].block \in ReachableAvoiding(f, s, {})
    BY <2>1, RunsInHolds
  <2>5. f.operations[o].block \in ToSet(f.regions[s])
    BY <2>1, <2>4, FlowIsGraph, AvoidingIsClosed
  <2>6. f.blocks[f.operations[o].block].region = s
    BY <2>1, <2>5 DEF IsFlow, IsOrderly, PlacesAreExact
  <2>7. o \in R
    BY <1>1
  <2> HIDE DEF k, R
  <2>8. r < s
    BY <2>2, <2>3
  <2> QED
    BY <2>6, <2>7, <2>8
<1>3. O \subseteq C
  OBVIOUS
<1> HIDE DEF C
<1>4. R \subseteq C
  BY <1>2, <1>3, RunningIsLeast
<1>5. r \in Nat
  BY DEF IsFlow, IsAnalysable
<1> QED
  BY <1>4, <1>5 DEF C

\* What runs inside a region while operations outside do runs while all does
\* that can run in that region.
LEMMA InsideRuns ==
  ASSUME NEW f, IsFlow(f), RegionsHaveOneOwner(f), NEW O \in SUBSET DOMAIN f.operations,
         NEW r \in DOMAIN f.regions, \A o \in O : f.operations[o].block \notin Inside(f, r),
         NEW q \in Running(f, O), f.operations[q].block \in Inside(f, r)
  PROVE  RunsIn(f, r, {}) \subseteq Running(f, O) /\ q \in Running(f, RunsIn(f, r, {}))
<1> DEFINE R == Running(f, O)
           N == Inside(f, r)
           I == RunsIn(f, r, {})
           J == Running(f, I)
           D == {o \in R : f.operations[o].block \in N => I \subseteq R /\ o \in J}
<1>1. /\ O \subseteq R /\ R \subseteq DOMAIN f.operations
      /\ \A p \in R : \A s \in f.operations[p].regions : RunsIn(f, s, {}) \subseteq R
  BY RunningIsClosed
<1>2. I \in SUBSET DOMAIN f.operations
  BY RunsInHolds
<1>3. /\ I \subseteq J /\ J \subseteq DOMAIN f.operations
      /\ \A p \in J : \A s \in f.operations[p].regions : RunsIn(f, s, {}) \subseteq J
  BY <1>2, RunningIsClosed
<1>4. O \subseteq D
  BY <1>1
<1>5. \A p \in D \cap DOMAIN f.operations : \A s \in f.operations[p].regions : RunsIn(f, s, {}) \subseteq D
  <2> SUFFICES ASSUME NEW p \in D, p \in DOMAIN f.operations, NEW s \in f.operations[p].regions,
                      NEW o \in RunsIn(f, s, {}), f.operations[o].block \in N
               PROVE  o \in R /\ I \subseteq R /\ o \in J
    BY <1>1
  <2>1. s \in DOMAIN f.regions
    BY DEF IsFlow, IsOrderly, PlacesAreExact
  <2>2. o \in DOMAIN f.operations /\ f.operations[o].block \in ToSet(f.regions[s])
    BY <2>1, RunsInHolds, FlowIsGraph, AvoidingIsClosed
  <2>3. f.blocks[f.operations[o].block].region = s
    BY <2>1, <2>2 DEF IsFlow, IsOrderly, PlacesAreExact
  <2>4. p \in R /\ o \in R
    BY <1>1
  <2>5. CASE s = r
    BY <1>1, <1>3, <2>4, <2>5
  <2>6. CASE s # r
    <3>1. PICK x \in DOMAIN f.operations : s \in f.operations[x].regions /\ f.operations[x].block \in N
      BY <2>3, <2>6, InsideHolds
    <3>2. x = p
      BY <3>1 DEF RegionsHaveOneOwner
    <3>3. I \subseteq R /\ p \in J
      BY <3>1, <3>2
    <3> QED
      BY <1>3, <2>4, <3>3
  <2> QED
    BY <2>5, <2>6
<1> HIDE DEF D
<1>6. R \subseteq D
  BY <1>4, <1>5, RunningIsLeast
<1> QED
  BY <1>6 DEF D

-----------------------------------------------------------------------------
(* Paths that avoid a block                                                *)

\* A path that comes to a block comes to it for the first time.
LEMMA FirstArrival ==
  ASSUME NEW f, IsGraph(f), NEW r \in DOMAIN f.regions, NEW A,
         NEW b \in ReachableAvoiding(f, r, A), b # Entry(f, r)
  PROVE  \E e \in Edges(f) : /\ Target(f, e) = b
                             /\ Source(f, e) \in ReachableAvoiding(f, r, A)
                             /\ Source(f, e) \in ReachableAvoiding(f, r, {b})
<1> DEFINE C == ReachableAvoiding(f, r, {b})
<1> SUFFICES ASSUME \A e \in Edges(f) : Source(f, e) \in ReachableAvoiding(f, r, A) \cap C
                                          => Target(f, e) # b
             PROVE  FALSE
  OBVIOUS
<1>1. /\ C \subseteq ToSet(f.regions[r]) \ {b}
      /\ Entry(f, r) \in C
      /\ \A e \in Edges(f) : Source(f, e) \in C /\ Target(f, e) \notin {b} => Target(f, e) \in C
  BY AvoidingIsClosed
<1> HIDE DEF C
<1>2. \A e \in Edges(f) :
        /\ Source(f, e) \in C \cap ReachableAvoiding(f, r, A)
        /\ Target(f, e) \in ReachableAvoiding(f, r, A)
        => Target(f, e) \in C
  BY <1>1
<1>3. ReachableAvoiding(f, r, A) \subseteq C
  BY <1>1, <1>2, AvoidingIsLeast
<1> QED
  BY <1>1, <1>3

\* If d is on every path to t, whatever is reached without d is reached without
\* t, and so is d itself.
LEMMA AvoidingMore ==
  ASSUME NEW f, IsGraph(f), NEW r \in DOMAIN f.regions, NEW d, NEW t,
         t \notin ReachableAvoiding(f, r, {d})
  PROVE  /\ ReachableAvoiding(f, r, {d}) \subseteq ReachableAvoiding(f, r, {t})
         /\ d \in Reachable(f, r) /\ d # t => d \in ReachableAvoiding(f, r, {t})
<1> DEFINE D == ReachableAvoiding(f, r, {d})
           C == ReachableAvoiding(f, r, {t})
<1>1. /\ Entry(f, r) \notin {t} => Entry(f, r) \in C
      /\ \A e \in Edges(f) : Source(f, e) \in C /\ Target(f, e) \notin {t} => Target(f, e) \in C
  BY AvoidingIsClosed
<1>2. Entry(f, r) \notin {d} => Entry(f, r) \in D
  BY AvoidingIsClosed
<1> HIDE DEF C
<1>3. Entry(f, r) \notin {d} => Entry(f, r) \in C
  BY <1>1, <1>2
<1>4. \A e \in Edges(f) : Source(f, e) \in C \cap D /\ Target(f, e) \in D => Target(f, e) \in C
  BY <1>1
<1>5. D \subseteq C
  BY <1>3, <1>4, AvoidingIsLeast
<1>6. ASSUME d \in Reachable(f, r), d # t PROVE d \in C
  <2>1. CASE d = Entry(f, r)
    BY <1>1, <1>6, <2>1
  <2>2. CASE d # Entry(f, r)
    <3>1. d \in ReachableAvoiding(f, r, {})
      BY <1>6 DEF Reachable
    <3>2. \E e \in Edges(f) : Target(f, e) = d /\ Source(f, e) \in D
      BY <2>2, <3>1, FirstArrival
    <3> QED
      BY <1>1, <1>5, <1>6, <3>2
  <2> QED
    BY <2>1, <2>2
<1> QED
  BY <1>5, <1>6 DEF C

\* To avoid a block that is not reached is to avoid nothing.
LEMMA AvoidingNothing ==
  ASSUME NEW f, IsGraph(f), NEW r \in DOMAIN f.regions, NEW d, d \notin Reachable(f, r)
  PROVE  Reachable(f, r) \subseteq ReachableAvoiding(f, r, {d})
<1> DEFINE C == ReachableAvoiding(f, r, {d})
           L == ReachableAvoiding(f, r, {})
<1>1. /\ Entry(f, r) \notin {d} => Entry(f, r) \in C
      /\ \A e \in Edges(f) : Source(f, e) \in C /\ Target(f, e) \notin {d} => Target(f, e) \in C
  BY AvoidingIsClosed
<1>2. Entry(f, r) \in L /\ d \notin L
  BY AvoidingIsClosed DEF Reachable
<1> HIDE DEF C
<1>3. Entry(f, r) \in C
  BY <1>1, <1>2
<1>4. \A e \in Edges(f) : Source(f, e) \in C \cap L /\ Target(f, e) \in L => Target(f, e) \in C
  BY <1>1, <1>2
<1>5. L \subseteq C
  BY <1>3, <1>4, AvoidingIsLeast
<1> QED
  BY <1>5 DEF C, Reachable

-----------------------------------------------------------------------------
(* Where a value can be read                                               *)

\* A value that some place in the function defines.
IsComputed(f, v) == v \in DOMAIN f.values /\ f.values[v].kind # "FunctionParameter"

\* It is in a block of a region.
LEMMA ComputedSomewhere ==
  ASSUME NEW f, IsFlow(f), NEW v, IsComputed(f, v)
  PROVE  /\ f.values[v].kind \in {"BlockParameter", "OperationResult"}
         /\ DefiningBlock(f, v) \in DOMAIN f.blocks /\ RegionOf(f, v) \in DOMAIN f.regions
         /\ DefiningBlock(f, v) \in ToSet(f.regions[RegionOf(f, v)])
         /\ f.values[v].kind = "OperationResult" =>
              /\ f.values[v].operation \in DOMAIN f.operations
              /\ f.operations[f.values[v].operation].block = DefiningBlock(f, v)
              /\ f.values[v].operation \in ToSet(f.blocks[DefiningBlock(f, v)].contents)
<1>1. IsWhereDefined(f, v)
  BY DEF IsComputed, IsFlow, IsOrderly, DefinitionsAreExact
<1>2. f.values[v].kind \in {"BlockParameter", "OperationResult"}
  BY <1>1 DEF IsWhereDefined, IsComputed
<1>3. DefiningBlock(f, v) \in DOMAIN f.blocks
  BY <1>1, <1>2 DEF IsWhereDefined, DefiningBlock, IsFlow, IsOrderly, PlacesAreExact
<1>4. RegionOf(f, v) \in DOMAIN f.regions /\ DefiningBlock(f, v) \in ToSet(f.regions[RegionOf(f, v)])
  BY <1>3 DEF RegionOf, IsFlow, IsOrderly, PlacesAreExact
<1>5. ASSUME f.values[v].kind = "OperationResult"
      PROVE  /\ f.values[v].operation \in DOMAIN f.operations
             /\ f.operations[f.values[v].operation].block = DefiningBlock(f, v)
             /\ f.values[v].operation \in ToSet(f.blocks[DefiningBlock(f, v)].contents)
  <2> DEFINE o == f.values[v].operation
             b == DefiningBlock(f, v)
  <2>1. o \in DOMAIN f.operations /\ b = f.operations[o].block
        /\ f.values[v].index \in DOMAIN f.operations[o].results
    BY <1>1, <1>5 DEF IsWhereDefined, DefiningBlock
  <2>2. ~ IsTerminator(f, o)
    <3>1. DOMAIN <<>> = {}
      OBVIOUS
    <3> QED
      BY <2>1, <3>1 DEF IsFlow, IsAnalysable
  <2>3. o \in BlockOperations(f, b) /\ (f.blocks[b].terminator # None => IsTerminator(f, f.blocks[b].terminator))
    BY <1>3, <2>1 DEF IsFlow, IsOrderly, PlacesAreExact
  <2>4. o \in ToSet(f.blocks[b].contents)
    BY <2>2, <2>3 DEF BlockOperations
  <2> QED
    BY <2>1, <2>4
<1> QED
  BY <1>2, <1>3, <1>4, <1>5

\* Where v is not computed yet, in the region where it is going to be.
NotYet(f, v) == RunsIn(f, RegionOf(f, v), {DefiningBlock(f, v)}) \cup AheadInBlock(f, v)

\* An operation and those in front of it are in its block.
LEMMA AheadIsInBlock ==
  ASSUME NEW f, IsFlow(f), NEW o \in DOMAIN f.operations
  PROVE  \A p \in UpTo(f, o) : p \in DOMAIN f.operations /\ f.operations[p].block = f.operations[o].block
<1>1. /\ f.operations[o].block \in DOMAIN f.blocks
      /\ BlockOperations(f, f.operations[o].block)
           = {p \in DOMAIN f.operations : f.operations[p].block = f.operations[o].block}
  BY DEF IsFlow, IsOrderly, PlacesAreExact
<1>2. UpTo(f, o) \subseteq ToSet(f.blocks[f.operations[o].block].contents)
  BY DEF UpTo, ToSet
<1> QED
  BY <1>1, <1>2 DEF BlockOperations

\* These are operations of that region.
LEMMA NotYetHolds ==
  ASSUME NEW f, IsFlow(f), NEW v, IsComputed(f, v)
  PROVE  /\ NotYet(f, v) \in SUBSET DOMAIN f.operations
         /\ \A o \in NotYet(f, v) : /\ f.operations[o].block \in Reachable(f, RegionOf(f, v))
                                    /\ f.blocks[f.operations[o].block].region = RegionOf(f, v)
         /\ RunsWithout(f, v) = Running(f, NotYet(f, v))
<1> DEFINE r == RegionOf(f, v)
           d == DefiningBlock(f, v)
<1>1. r \in DOMAIN f.regions /\ d \in DOMAIN f.blocks
      /\ (f.values[v].kind = "OperationResult" =>
            /\ f.values[v].operation \in DOMAIN f.operations
            /\ f.operations[f.values[v].operation].block = d)
  BY ComputedSomewhere
<1>2. RunsIn(f, r, {d}) = {o \in DOMAIN f.operations : f.operations[o].block \in ReachableAvoiding(f, r, {d})}
  BY <1>1, RunsInHolds
<1>3. ReachableAvoiding(f, r, {d}) \subseteq Reachable(f, r)
  <2>1. /\ Entry(f, r) \in Reachable(f, r)
        /\ \A e \in Edges(f) : Source(f, e) \in Reachable(f, r) => Target(f, e) \in Reachable(f, r)
    BY <1>1, FlowIsGraph, ReachableIsClosed
  <2> HIDE DEF r, d
  <2> QED
    BY <1>1, <2>1, FlowIsGraph, AvoidingIsLeast
<1>4. \A o \in AheadInBlock(f, v) : o \in DOMAIN f.operations /\ f.operations[o].block = d /\ d \in Reachable(f, r)
  <2>1. CASE /\ f.values[v].kind = "OperationResult" /\ d \in Reachable(f, r)
    <3>1. AheadInBlock(f, v) = UpTo(f, f.values[v].operation)
      BY <2>1 DEF AheadInBlock
    <3> QED
      BY <1>1, <2>1, <3>1, AheadIsInBlock
  <2>2. CASE ~ (/\ f.values[v].kind = "OperationResult" /\ d \in Reachable(f, r))
    BY <2>2 DEF AheadInBlock
  <2> QED
    BY <2>1, <2>2
<1>5. /\ NotYet(f, v) \in SUBSET DOMAIN f.operations
      /\ \A o \in NotYet(f, v) : f.operations[o].block \in Reachable(f, r)
  BY <1>2, <1>3, <1>4 DEF NotYet
<1>6. Reachable(f, r) \subseteq ToSet(f.regions[r])
  BY <1>1, FlowIsGraph, ReachableIsClosed
<1>7. \A b \in ToSet(f.regions[r]) : f.blocks[b].region = r
  BY <1>1 DEF IsFlow, IsOrderly, PlacesAreExact
<1> QED
  BY <1>5, <1>6, <1>7 DEF RunsWithout, NotYet

\* More operations run as more do.
LEMMA RunningGrows ==
  ASSUME NEW f, IsFlow(f), NEW O, NEW P \in SUBSET DOMAIN f.operations, O \subseteq Running(f, P)
  PROVE  Running(f, O) \subseteq Running(f, P)
<1>1. /\ Running(f, P) \subseteq DOMAIN f.operations
      /\ \A p \in Running(f, P) : \A r \in f.operations[p].regions : RunsIn(f, r, {}) \subseteq Running(f, P)
  BY RunningIsClosed
<1>2. O \in SUBSET DOMAIN f.operations
  BY <1>1
<1> QED
  BY <1>1, <1>2, RunningIsLeast

\* w can be read wherever v can.
Supersedes(f, v, w) == \A o \in DOMAIN f.operations : IsAvailableAt(f, v, o) => IsAvailableAt(f, w, o)

\* So it is if w is computed before v: what runs before w runs before v, or the
\* region of v as a whole runs before w only if v is never computed.
LEMMA ComputedBefore ==
  ASSUME NEW f, IsFlow(f), RegionsHaveOneOwner(f), NEW v, NEW w, IsComputed(f, v), IsComputed(f, w),
         DefiningBlock(f, v) \in Scope(f, w),
         RegionOf(f, v) = RegionOf(f, w) => NotYet(f, w) \subseteq NotYet(f, v),
         RegionOf(f, v) # RegionOf(f, w) /\ RunsIn(f, RegionOf(f, v), {}) \subseteq RunsWithout(f, w)
           => DefiningBlock(f, v) \notin Reachable(f, RegionOf(f, v))
  PROVE  Supersedes(f, v, w)
<1> SUFFICES ASSUME NEW o \in DOMAIN f.operations, IsAvailableAt(f, v, o)
             PROVE  IsAvailableAt(f, w, o)
  BY DEF Supersedes
<1> DEFINE r == RegionOf(f, v)
           s == RegionOf(f, w)
           b == DefiningBlock(f, v)
           V == RunsWithout(f, v)
           W == RunsWithout(f, w)
           I == RunsIn(f, r, {})
<1>1. /\ r \in DOMAIN f.regions /\ b \in DOMAIN f.blocks /\ b \in ToSet(f.regions[r])
      /\ s \in DOMAIN f.regions /\ f.blocks[b].region = r
  BY ComputedSomewhere DEF RegionOf
<1>2. b \in Inside(f, s)
  BY DEF Scope, Inside
<1>3. f.operations[o].block \in Inside(f, r) /\ o \notin V
  BY DEF IsAvailableAt, IsComputed, Scope, Inside
<1>4. f.operations[o].block \in Inside(f, s)
  BY <1>1, <1>2, <1>3, InsideIsInside
<1>5. /\ NotYet(f, v) \in SUBSET DOMAIN f.operations /\ NotYet(f, w) \in SUBSET DOMAIN f.operations
      /\ V = Running(f, NotYet(f, v)) /\ W = Running(f, NotYet(f, w))
      /\ \A p \in NotYet(f, w) : f.blocks[f.operations[p].block].region = s
  BY NotYetHolds
<1>6. NotYet(f, v) \subseteq V
  BY <1>5, RunningIsClosed
<1>7. o \notin W
  <2>1. CASE r = s
    <3>1. NotYet(f, w) \subseteq V
      BY <1>6, <2>1
    <3>2. W \subseteq V
      BY <1>5, <3>1, RunningGrows
    <3> QED
      BY <1>3, <3>2
  <2>2. CASE r # s
    <3> SUFFICES ASSUME o \in W PROVE FALSE
      OBVIOUS
    <3>1. s < r
      BY <1>1, <1>2, <2>2, InsideHolds
    <3>2. \A p \in NotYet(f, w) : f.operations[p].block \notin Inside(f, r)
      <4> SUFFICES ASSUME NEW p \in NotYet(f, w), f.operations[p].block \in Inside(f, r)
                   PROVE  FALSE
        OBVIOUS
      <4>1. f.blocks[f.operations[p].block].region = s
        BY <1>5
      <4>2. s = r \/ r < s
        BY <1>1, <4>1, InsideHolds
      <4>3. r \in Nat /\ s \in Nat
        BY <1>1 DEF IsFlow, IsAnalysable
      <4> HIDE DEF r, s
      <4> QED
        BY <2>2, <3>1, <4>2, <4>3
    <3>3. I \subseteq W /\ o \in Running(f, I)
      BY <1>1, <1>3, <1>5, <3>2, InsideRuns
    <3>4. b \notin Reachable(f, r)
      BY <2>2, <3>3
    <3>5. ReachableAvoiding(f, r, {}) \subseteq ReachableAvoiding(f, r, {b})
      BY <1>1, <3>4, FlowIsGraph, AvoidingNothing DEF Reachable
    <3>6. I \subseteq RunsIn(f, r, {b})
      <4>1. I = {p \in DOMAIN f.operations : f.operations[p].block \in ReachableAvoiding(f, r, {})}
        BY <1>1, RunsInHolds
      <4>2. RunsIn(f, r, {b})
              = {p \in DOMAIN f.operations : f.operations[p].block \in ReachableAvoiding(f, r, {b})}
        BY <1>1, RunsInHolds
      <4> QED
        BY <3>5, <4>1, <4>2
    <3>7. I \subseteq V
      BY <1>6, <3>6 DEF NotYet
    <3>8. Running(f, I) \subseteq V
      BY <1>5, <3>7, RunningGrows
    <3> QED
      BY <1>3, <3>3, <3>8
  <2> QED
    BY <2>1, <2>2
<1> QED
  BY <1>4, <1>7 DEF IsAvailableAt, Scope, Inside

\* Of two operations of a block, one is in front of the other.
LEMMA AheadIsOrder ==
  ASSUME NEW f, IsFlow(f), NEW b \in DOMAIN f.blocks,
         NEW o \in ToSet(f.blocks[b].contents), f.operations[o].block = b,
         NEW q \in ToSet(f.blocks[b].contents), f.operations[q].block = b,
         o \notin UpTo(f, q)
  PROVE  UpTo(f, q) \subseteq UpTo(f, o)
<1> DEFINE s == f.blocks[b].contents
<1>1. DOMAIN s \subseteq Nat
  BY DEF IsFlow, IsOrderly, IsLaidOut
<1>2. UpTo(f, q) = {s[i] : i \in {j \in DOMAIN s : \E k \in DOMAIN s : s[k] = q /\ j <= k}}
  BY DEF UpTo
<1>3. UpTo(f, o) = {s[i] : i \in {j \in DOMAIN s : \E k \in DOMAIN s : s[k] = o /\ j <= k}}
  BY DEF UpTo
<1>4. PICK m \in DOMAIN s : s[m] = o
  BY DEF ToSet
<1> HIDE DEF s
<1> SUFFICES ASSUME NEW i \in DOMAIN s, NEW k \in DOMAIN s, s[k] = q, i <= k
             PROVE  s[i] \in UpTo(f, o)
  BY <1>2
<1>5. ~ (m <= k)
  BY <1>2, <1>4
<1>6. i <= m
  BY <1>1, <1>5
<1> QED
  BY <1>3, <1>4, <1>6

\* What can be read where v is computed can be read wherever v can.
LEMMA ResultSupersedes ==
  ASSUME NEW f, IsFlow(f), RegionsHaveOneOwner(f), NEW v \in DOMAIN f.values, NEW w \in DOMAIN f.values,
         f.values[v].kind = "OperationResult", IsAvailableAt(f, w, f.values[v].operation)
  PROVE  Supersedes(f, v, w)
<1>1. CASE f.values[w].kind = "FunctionParameter"
  BY <1>1 DEF Supersedes, IsAvailableAt
<1>2. CASE f.values[w].kind # "FunctionParameter"
  <2> DEFINE o == f.values[v].operation
             b == DefiningBlock(f, v)
             d == DefiningBlock(f, w)
             r == RegionOf(f, v)
             s == RegionOf(f, w)
             W == RunsWithout(f, w)
  <2>1. IsComputed(f, v) /\ IsComputed(f, w)
    BY <1>2 DEF IsComputed
  <2>2. /\ r \in DOMAIN f.regions /\ b \in DOMAIN f.blocks /\ o \in DOMAIN f.operations
        /\ f.operations[o].block = b /\ o \in ToSet(f.blocks[b].contents)
    BY <2>1, ComputedSomewhere
  <2>3. /\ s \in DOMAIN f.regions /\ d \in DOMAIN f.blocks
        /\ (f.values[w].kind = "OperationResult" =>
              /\ f.values[w].operation \in DOMAIN f.operations
              /\ f.operations[f.values[w].operation].block = d
              /\ f.values[w].operation \in ToSet(f.blocks[d].contents))
    BY <2>1, ComputedSomewhere
  <2>4. b \in Scope(f, w) /\ o \notin W
    BY <1>2, <2>2 DEF IsAvailableAt
  <2>5. NotYet(f, w) \subseteq W
    BY <2>1, NotYetHolds, RunningIsClosed
  <2>6. IsGraph(f)
    BY FlowIsGraph
  <2>7. ASSUME r = s PROVE NotYet(f, w) \subseteq NotYet(f, v)
    <3>1. /\ RunsIn(f, r, {d}) = {p \in DOMAIN f.operations : f.operations[p].block \in ReachableAvoiding(f, r, {d})}
          /\ RunsIn(f, r, {b}) = {p \in DOMAIN f.operations : f.operations[p].block \in ReachableAvoiding(f, r, {b})}
      BY <2>2, RunsInHolds
    <3>2. RunsIn(f, r, {d}) \subseteq NotYet(f, w) /\ RunsIn(f, r, {b}) \subseteq NotYet(f, v)
      BY <2>7 DEF NotYet
    <3>3. AheadInBlock(f, w) \subseteq NotYet(f, w) /\ AheadInBlock(f, v) \subseteq NotYet(f, v)
      BY DEF NotYet
    <3>4. b \notin ReachableAvoiding(f, r, {d})
      BY <2>2, <2>4, <2>5, <3>1, <3>2
    <3>5. /\ ReachableAvoiding(f, r, {d}) \subseteq ReachableAvoiding(f, r, {b})
          /\ d \in Reachable(f, r) /\ d # b => d \in ReachableAvoiding(f, r, {b})
      BY <2>2, <2>6, <3>4, AvoidingMore
    <3>6. RunsIn(f, r, {d}) \subseteq NotYet(f, v)
      BY <3>1, <3>2, <3>5
    <3>7. ASSUME NEW p \in AheadInBlock(f, w) PROVE p \in NotYet(f, v)
      <4>1. f.values[w].kind = "OperationResult" /\ d \in Reachable(f, r)
        BY <2>7, <3>7 DEF AheadInBlock
      <4>2. p \in UpTo(f, f.values[w].operation) /\ AheadInBlock(f, w) = UpTo(f, f.values[w].operation)
        BY <2>7, <3>7, <4>1 DEF AheadInBlock
      <4>3. p \in DOMAIN f.operations /\ f.operations[p].block = d
        BY <2>3, <4>1, <4>2, AheadIsInBlock
      <4>4. CASE d = b
        <5>1. AheadInBlock(f, v) = UpTo(f, o)
          BY <4>1, <4>4 DEF AheadInBlock
        <5>2. o \notin UpTo(f, f.values[w].operation)
          BY <2>4, <2>5, <3>3, <4>2
        <5>3. UpTo(f, f.values[w].operation) \subseteq UpTo(f, o)
          BY <2>2, <2>3, <4>1, <4>4, <5>2, AheadIsOrder
        <5> QED
          BY <3>3, <4>2, <5>1, <5>3
      <4>5. CASE d # b
        <5>1. p \in RunsIn(f, r, {b})
          BY <3>1, <3>5, <4>1, <4>3, <4>5
        <5> QED
          BY <3>2, <5>1
      <4> QED
        BY <4>4, <4>5
    <3> QED
      BY <2>7, <3>6, <3>7 DEF NotYet
  <2>8. ASSUME RunsIn(f, r, {}) \subseteq W PROVE b \notin Reachable(f, r)
    <3>1. RunsIn(f, r, {}) = {p \in DOMAIN f.operations : f.operations[p].block \in ReachableAvoiding(f, r, {})}
      BY <2>2, RunsInHolds
    <3> QED
      BY <2>2, <2>4, <2>8, <3>1 DEF Reachable
  <2> QED
    BY <2>1, <2>4, <2>7, <2>8, ComputedBefore
<1> QED
  BY <1>1, <1>2

\* What can be read at every edge into the block of a parameter, but for those
\* that the parameter itself comes along, can be read wherever it can.
LEMMA ParameterSupersedes ==
  ASSUME NEW f, IsFlow(f), RegionsHaveOneOwner(f), NEW v \in DOMAIN f.values, NEW w \in DOMAIN f.values,
         f.values[v].kind = "BlockParameter",
         DefiningBlock(f, v) # Entry(f, RegionOf(f, v)),
         \A e \in IncomingEdges(f, DefiningBlock(f, v)) :
           IsAvailableAt(f, w, e[1]) \/ IsAvailableAt(f, v, e[1]),
         NEW e1 \in IncomingEdges(f, DefiningBlock(f, v)), IsAvailableAt(f, w, e1[1])
  PROVE  Supersedes(f, v, w)
<1>1. CASE f.values[w].kind = "FunctionParameter"
  BY <1>1 DEF Supersedes, IsAvailableAt
<1>2. CASE f.values[w].kind # "FunctionParameter"
  <2> DEFINE b == DefiningBlock(f, v)
             d == DefiningBlock(f, w)
             r == RegionOf(f, v)
             s == RegionOf(f, w)
             W == RunsWithout(f, w)
  <2>1. IsComputed(f, v) /\ IsComputed(f, w)
    BY <1>2 DEF IsComputed
  <2>2. r \in DOMAIN f.regions /\ b \in DOMAIN f.blocks /\ b \in ToSet(f.regions[r]) /\ f.blocks[b].region = r
    BY <2>1, ComputedSomewhere DEF RegionOf
  <2>3. /\ s \in DOMAIN f.regions /\ d \in DOMAIN f.blocks
        /\ (f.values[w].kind = "OperationResult" =>
              /\ f.values[w].operation \in DOMAIN f.operations
              /\ f.operations[f.values[w].operation].block = d)
    BY <2>1, ComputedSomewhere
  <2>4. NotYet(f, w) \subseteq W /\ NotYet(f, v) \subseteq RunsWithout(f, v)
    BY <2>1, NotYetHolds, RunningIsClosed
  <2>5. IsGraph(f)
    BY FlowIsGraph
  <2>6. \A e \in Edges(f) : /\ e[1] \in DOMAIN f.operations /\ f.operations[e[1]].block = Source(f, e)
                            /\ f.blocks[Source(f, e)].region = f.blocks[Target(f, e)].region
    BY DEF Edges, EdgesOf, Source, IsFlow
  <2>7. b \in Scope(f, w)
    <3>1. Source(f, e1) \in Inside(f, s) /\ f.blocks[Source(f, e1)].region = r
      BY <1>2, <2>2, <2>6 DEF IsAvailableAt, IncomingEdges, Scope, Inside
    <3>2. ToSet(f.regions[r]) \subseteq Inside(f, s)
      BY <2>3, <3>1, WholeRegions
    <3> QED
      BY <2>2, <3>2 DEF Scope, Inside
  <2>8. \A e \in IncomingEdges(f, b) : e[1] \in W => e[1] \notin NotYet(f, v)
    BY <1>2, <2>1, <2>4 DEF IsAvailableAt, IsComputed
  <2>9. /\ RunsIn(f, r, {d}) = {p \in DOMAIN f.operations : f.operations[p].block \in ReachableAvoiding(f, r, {d})}
        /\ RunsIn(f, r, {b}) = {p \in DOMAIN f.operations : f.operations[p].block \in ReachableAvoiding(f, r, {b})}
        /\ RunsIn(f, r, {}) = {p \in DOMAIN f.operations : f.operations[p].block \in ReachableAvoiding(f, r, {})}
    BY <2>2, RunsInHolds
  <2>10. RunsIn(f, r, {b}) \subseteq NotYet(f, v)
    BY DEF NotYet
  <2>11. ASSUME NEW A, RunsIn(f, r, A) = {p \in DOMAIN f.operations : f.operations[p].block \in ReachableAvoiding(f, r, A)},
                RunsIn(f, r, A) \subseteq W
         PROVE  b \notin ReachableAvoiding(f, r, A)
    <3> SUFFICES ASSUME b \in ReachableAvoiding(f, r, A) PROVE FALSE
      OBVIOUS
    <3>1. PICK e \in Edges(f) : /\ Target(f, e) = b
                                /\ Source(f, e) \in ReachableAvoiding(f, r, A)
                                /\ Source(f, e) \in ReachableAvoiding(f, r, {b})
      BY <2>2, <2>5, FirstArrival
    <3>2. e \in IncomingEdges(f, b)
      BY <3>1 DEF IncomingEdges
    <3>3. e[1] \in W /\ e[1] \in NotYet(f, v)
      BY <2>6, <2>9, <2>10, <2>11, <3>1
    <3> QED
      BY <2>8, <3>2, <3>3
  <2>12. ASSUME r = s PROVE NotYet(f, w) \subseteq NotYet(f, v)
    <3>1. RunsIn(f, r, {d}) \subseteq W
      BY <2>4, <2>12 DEF NotYet
    <3>2. b \notin ReachableAvoiding(f, r, {d})
      BY <2>9, <2>11, <3>1
    <3>3. /\ ReachableAvoiding(f, r, {d}) \subseteq ReachableAvoiding(f, r, {b})
          /\ d \in Reachable(f, r) /\ d # b => d \in ReachableAvoiding(f, r, {b})
      BY <2>2, <2>5, <3>2, AvoidingMore
    <3>4. RunsIn(f, r, {d}) \subseteq NotYet(f, v)
      BY <2>9, <2>10, <3>3
    <3>5. ASSUME NEW p \in AheadInBlock(f, w) PROVE p \in NotYet(f, v)
      <4>1. f.values[w].kind = "OperationResult" /\ d \in Reachable(f, r)
        BY <2>12, <3>5 DEF AheadInBlock
      <4>2. p \in UpTo(f, f.values[w].operation)
        BY <2>12, <3>5, <4>1 DEF AheadInBlock
      <4>3. p \in DOMAIN f.operations /\ f.operations[p].block = d
        BY <2>3, <4>1, <4>2, AheadIsInBlock
      <4>4. d # b
        <5> SUFFICES ASSUME d = b PROVE FALSE
          OBVIOUS
        <5>1. b \in ReachableAvoiding(f, r, {})
          BY <4>1 DEF Reachable
        <5>2. PICK e \in Edges(f) : Target(f, e) = b /\ Source(f, e) \in ReachableAvoiding(f, r, {b})
          BY <2>2, <2>5, <5>1, FirstArrival
        <5>3. e \in IncomingEdges(f, b)
          BY <5>2 DEF IncomingEdges
        <5>4. e[1] \in RunsIn(f, r, {b})
          BY <2>6, <2>9, <5>2
        <5> QED
          BY <2>8, <2>10, <3>1, <5>3, <5>4
      <4>5. p \in RunsIn(f, r, {b})
        BY <2>9, <3>3, <4>1, <4>3, <4>4
      <4> QED
        BY <2>10, <4>5
    <3> QED
      BY <2>12, <3>4, <3>5 DEF NotYet
  <2>13. ASSUME RunsIn(f, r, {}) \subseteq W PROVE b \notin Reachable(f, r)
    BY <2>9, <2>11, <2>13 DEF Reachable
  <2> QED
    BY <2>1, <2>7, <2>12, <2>13, ComputedBefore
<1> QED
  BY <1>1, <1>2

-----------------------------------------------------------------------------
(* What is left of a function by a call                                    *)

\* g has nothing that f has not, everything in its place and in order, and what
\* is gone has no region that is left.
IsPart(f, g) ==
  /\ DOMAIN g.regions \subseteq DOMAIN f.regions
  /\ \A r \in DOMAIN g.regions : Entry(g, r) = Entry(f, r)
  /\ DOMAIN g.blocks \subseteq DOMAIN f.blocks
  /\ \A b \in DOMAIN g.blocks : g.blocks[b].region = f.blocks[b].region
  /\ DOMAIN g.operations \subseteq DOMAIN f.operations
  /\ \A o \in DOMAIN g.operations : /\ g.operations[o].block = f.operations[o].block
                                    /\ g.operations[o].regions = f.operations[o].regions
                                    /\ UpTo(g, o) \subseteq UpTo(f, o)
  /\ \A o \in DOMAIN f.operations \ DOMAIN g.operations :
       f.operations[o].regions \cap DOMAIN g.regions = {}
  /\ DOMAIN g.values \subseteq DOMAIN f.values
  /\ \A v \in DOMAIN g.values :
       /\ g.values[v].kind = f.values[v].kind
       /\ g.values[v].kind = "BlockParameter" => g.values[v].block = f.values[v].block
       /\ g.values[v].kind = "OperationResult" => g.values[v].operation = f.values[v].operation

\* Its edges lead nowhere else.
HasFewerEdges(f, g) ==
  \A e \in Edges(g) : \E d \in Edges(f) : Source(f, d) = Source(g, e) /\ Target(f, d) = Target(g, e)

\* Fewer edges make fewer paths.
LEMMA FewerPaths ==
  ASSUME NEW f, NEW g, IsFlow(f), IsFlow(g), IsPart(f, g), HasFewerEdges(f, g),
         NEW r \in DOMAIN g.regions, NEW A
  PROVE  ReachableAvoiding(g, r, A) \subseteq ReachableAvoiding(f, r, A)
<1> DEFINE C == ReachableAvoiding(f, r, A)
           L == ReachableAvoiding(g, r, A)
<1>1. IsGraph(f) /\ IsGraph(g) /\ r \in DOMAIN f.regions /\ Entry(g, r) = Entry(f, r)
  BY FlowIsGraph DEF IsPart
<1>2. /\ Entry(f, r) \notin A => Entry(f, r) \in C
      /\ \A e \in Edges(f) : Source(f, e) \in C /\ Target(f, e) \notin A => Target(f, e) \in C
  BY <1>1, AvoidingIsClosed
<1>3. L \subseteq ToSet(g.regions[r]) \ A
  BY <1>1, AvoidingIsClosed
<1>4. \A e \in Edges(g) : \E d \in Edges(f) :
        Source(f, d) = Source(g, e) /\ Target(f, d) = Target(g, e)
  BY DEF HasFewerEdges
<1> HIDE DEF C
<1>5. Entry(g, r) \notin A => Entry(g, r) \in C
  BY <1>1, <1>2
<1>6. \A e \in Edges(g) : Source(g, e) \in C \cap L /\ Target(g, e) \in L => Target(g, e) \in C
  BY <1>2, <1>3, <1>4
<1>7. L \subseteq C
  BY <1>1, <1>5, <1>6, AvoidingIsLeast
<1> QED
  BY <1>7 DEF C

\* What was inside a region and is left is inside it.
LEMMA PartKeepsInside ==
  ASSUME NEW f, NEW g, IsFlow(f), IsFlow(g), IsPart(f, g), NEW r \in DOMAIN g.regions,
         NEW b \in Inside(f, r), b \in DOMAIN g.blocks
  PROVE  b \in Inside(g, r)
<1> DEFINE C == Inside(g, r) \cup (DOMAIN f.blocks \ DOMAIN g.blocks)
<1>1. r \in DOMAIN f.regions
  BY DEF IsPart
<1>2. /\ ToSet(g.regions[r]) \subseteq Inside(g, r) /\ Inside(g, r) \subseteq DOMAIN g.blocks
      /\ \A o \in DOMAIN g.operations : g.operations[o].block \in Inside(g, r) =>
           \A s \in g.operations[o].regions : ToSet(g.regions[s]) \subseteq Inside(g, r)
  BY InsideHolds
<1>3. \A s \in DOMAIN g.regions : ToSet(f.regions[s]) \cap DOMAIN g.blocks \subseteq ToSet(g.regions[s])
  BY DEF IsPart, IsFlow, IsOrderly, PlacesAreExact
<1>4. \A s \in DOMAIN f.regions \ DOMAIN g.regions : ToSet(f.regions[s]) \cap DOMAIN g.blocks = {}
  BY DEF IsPart, IsFlow, IsOrderly, PlacesAreExact
<1>5. \A s \in DOMAIN f.regions : ToSet(f.regions[s]) \subseteq DOMAIN f.blocks
  BY DEF IsFlow, IsOrderly, PlacesAreExact
<1>6. ToSet(f.regions[r]) \subseteq C
  BY <1>1, <1>2, <1>3, <1>5
<1>7. \A s \in RegionsOf(f, OperationsOf(f, C)) : ToSet(f.regions[s]) \subseteq C
  <2> SUFFICES ASSUME NEW s \in RegionsOf(f, OperationsOf(f, C)) PROVE ToSet(f.regions[s]) \subseteq C
    OBVIOUS
  <2>1. C \in SUBSET DOMAIN f.blocks
    BY <1>2 DEF IsPart
  <2>2. OperationsOf(f, C) = {o \in DOMAIN f.operations : f.operations[o].block \in C}
    BY <2>1, OperationsPlaced
  <2>3. PICK o \in DOMAIN f.operations : f.operations[o].block \in C /\ s \in f.operations[o].regions
    BY <2>2 DEF RegionsOf
  <2>4. s \in DOMAIN f.regions
    BY <2>3 DEF IsFlow, IsOrderly, PlacesAreExact
  <2>5. CASE s \in DOMAIN g.regions
    <3>1. o \in DOMAIN g.operations
      BY <2>3, <2>5 DEF IsPart
    <3>2. g.operations[o].block = f.operations[o].block /\ s \in g.operations[o].regions
      BY <2>3, <3>1 DEF IsPart
    <3>3. g.operations[o].block \in DOMAIN g.blocks
      BY <3>1 DEF IsFlow, IsOrderly, PlacesAreExact
    <3>4. g.operations[o].block \in Inside(g, r)
      BY <2>3, <3>2, <3>3
    <3>5. ToSet(g.regions[s]) \subseteq Inside(g, r)
      BY <1>2, <3>1, <3>2, <3>4
    <3> QED
      BY <1>3, <1>5, <2>4, <2>5, <3>5
  <2>6. CASE s \notin DOMAIN g.regions
    BY <1>4, <1>5, <2>4, <2>6
  <2> QED
    BY <2>5, <2>6
<1> HIDE DEF C
<1>8. WithNested(f, ToSet(f.regions[r])) \subseteq C
  BY <1>6, <1>7, NestedIsLeast
<1> QED
  BY <1>8 DEF C, Inside

\* Fewer operations run while fewer do.
LEMMA RunningShrinks ==
  ASSUME NEW f, NEW g, IsFlow(f), IsFlow(g),
         DOMAIN g.operations \subseteq DOMAIN f.operations,
         \A o \in DOMAIN g.operations : g.operations[o].regions = f.operations[o].regions,
         \A r \in DOMAIN g.regions : RunsIn(g, r, {}) \subseteq RunsIn(f, r, {}),
         NEW O \in SUBSET DOMAIN g.operations, NEW P \in SUBSET DOMAIN f.operations, O \subseteq P
  PROVE  Running(g, O) \subseteq Running(f, P)
<1> DEFINE C == Running(f, P)
<1>1. P \subseteq C /\ \A p \in C : \A r \in f.operations[p].regions : RunsIn(f, r, {}) \subseteq C
  BY RunningIsClosed
<1> HIDE DEF C
<1>2. \A p \in C \cap DOMAIN g.operations : \A r \in g.operations[p].regions : RunsIn(g, r, {}) \subseteq C
  BY <1>1 DEF IsFlow, IsOrderly, PlacesAreExact
<1>3. O \subseteq C
  BY <1>1
<1>4. Running(g, O) \subseteq C
  BY <1>2, <1>3, RunningIsLeast
<1> QED
  BY <1>4 DEF C

\* A value is where it was.
LEMMA PartKeepsPlace ==
  ASSUME NEW f, NEW g, IsFlow(g), IsPart(f, g), NEW v, IsComputed(g, v)
  PROVE  /\ IsComputed(f, v) /\ DefiningBlock(g, v) = DefiningBlock(f, v)
         /\ RegionOf(g, v) = RegionOf(f, v) /\ RegionOf(g, v) \in DOMAIN g.regions
<1>1. /\ DefiningBlock(g, v) \in DOMAIN g.blocks /\ RegionOf(g, v) \in DOMAIN g.regions
      /\ g.values[v].kind \in {"BlockParameter", "OperationResult"}
      /\ g.values[v].kind = "OperationResult" => g.values[v].operation \in DOMAIN g.operations
  BY ComputedSomewhere
<1>2. IsComputed(f, v) /\ DefiningBlock(g, v) = DefiningBlock(f, v)
  BY <1>1 DEF IsComputed, IsPart, DefiningBlock
<1> QED
  BY <1>1, <1>2 DEF RegionOf, IsPart

\* What can be read can still be read, if no more paths lead past it.
LEMMA PartKeepsAvailable ==
  ASSUME NEW f, NEW g, IsFlow(f), IsFlow(g), IsPart(f, g),
         \A r \in DOMAIN g.regions : ReachableAvoiding(g, r, {}) \subseteq ReachableAvoiding(f, r, {}),
         NEW v \in DOMAIN g.values,
         IsComputed(g, v) =>
           ReachableAvoiding(g, RegionOf(g, v), {DefiningBlock(g, v)})
             \subseteq ReachableAvoiding(f, RegionOf(g, v), {DefiningBlock(g, v)}),
         NEW o \in DOMAIN g.operations, IsAvailableAt(f, v, o)
  PROVE  IsAvailableAt(g, v, o)
<1> DEFINE r == RegionOf(g, v)
           d == DefiningBlock(g, v)
<1> SUFFICES ASSUME g.values[v].kind # "FunctionParameter"
             PROVE  g.operations[o].block \in Scope(g, v) /\ o \notin RunsWithout(g, v)
  BY DEF IsAvailableAt
<1>1. IsComputed(g, v)
  BY DEF IsComputed
<1>2. IsComputed(f, v) /\ d = DefiningBlock(f, v) /\ r = RegionOf(f, v) /\ r \in DOMAIN g.regions
  BY <1>1, PartKeepsPlace
<1>3. r \in DOMAIN f.regions
  BY <1>2 DEF IsPart
<1>4. f.operations[o].block \in Scope(f, v) /\ o \notin RunsWithout(f, v)
  BY <1>2 DEF IsAvailableAt, IsComputed
<1>5. g.operations[o].block \in Scope(g, v)
  <2>1. g.operations[o].block = f.operations[o].block /\ g.operations[o].block \in DOMAIN g.blocks
    BY DEF IsPart, IsFlow, IsOrderly, PlacesAreExact
  <2>2. f.operations[o].block \in Inside(f, r)
    BY <1>2, <1>4 DEF Scope, Inside
  <2>3. g.operations[o].block \in Inside(g, r)
    BY <1>2, <2>1, <2>2, PartKeepsInside
  <2> QED
    BY <2>3 DEF Scope, Inside
<1>6. \A p \in DOMAIN g.operations : p \in DOMAIN f.operations /\ g.operations[p].block = f.operations[p].block
  BY DEF IsPart
<1>7. \A s \in DOMAIN g.regions : RunsIn(g, s, {}) \subseteq RunsIn(f, s, {})
  <2> TAKE s \in DOMAIN g.regions
  <2>1. s \in DOMAIN f.regions
    BY DEF IsPart
  <2>2. RunsIn(g, s, {}) = {p \in DOMAIN g.operations : g.operations[p].block \in ReachableAvoiding(g, s, {})}
    BY RunsInHolds
  <2>3. RunsIn(f, s, {}) = {p \in DOMAIN f.operations : f.operations[p].block \in ReachableAvoiding(f, s, {})}
    BY <2>1, RunsInHolds
  <2> QED
    BY <1>6, <2>2, <2>3
<1>8. NotYet(g, v) \subseteq NotYet(f, v)
  <2>1. RunsIn(g, r, {d}) = {p \in DOMAIN g.operations : g.operations[p].block \in ReachableAvoiding(g, r, {d})}
    BY <1>2, RunsInHolds
  <2>2. RunsIn(f, r, {d}) = {p \in DOMAIN f.operations : f.operations[p].block \in ReachableAvoiding(f, r, {d})}
    BY <1>3, RunsInHolds
  <2>3. RunsIn(g, r, {d}) \subseteq RunsIn(f, r, {d})
    BY <1>1, <1>6, <2>1, <2>2
  <2>4. AheadInBlock(g, v) \subseteq AheadInBlock(f, v)
    <3> SUFFICES ASSUME NEW p \in AheadInBlock(g, v) PROVE p \in AheadInBlock(f, v)
      OBVIOUS
    <3>1. g.values[v].kind = "OperationResult" /\ d \in Reachable(g, r)
      BY DEF AheadInBlock
    <3>2. p \in UpTo(g, g.values[v].operation)
      BY <3>1 DEF AheadInBlock
    <3>3. f.values[v].kind = "OperationResult" /\ f.values[v].operation = g.values[v].operation
      BY <3>1 DEF IsPart
    <3>4. g.values[v].operation \in DOMAIN g.operations
      BY <1>1, <3>1, ComputedSomewhere
    <3>5. UpTo(g, g.values[v].operation) \subseteq UpTo(f, f.values[v].operation)
      BY <3>3, <3>4 DEF IsPart
    <3>6. d \in Reachable(f, r)
      BY <1>2, <3>1 DEF Reachable
    <3> QED
      BY <1>2, <3>2, <3>3, <3>5, <3>6 DEF AheadInBlock
  <2> QED
    BY <1>2, <2>3, <2>4 DEF NotYet
<1>9. /\ NotYet(g, v) \in SUBSET DOMAIN g.operations /\ RunsWithout(g, v) = Running(g, NotYet(g, v))
      /\ NotYet(f, v) \in SUBSET DOMAIN f.operations /\ RunsWithout(f, v) = Running(f, NotYet(f, v))
  BY <1>1, <1>2, NotYetHolds
<1>10. Running(g, NotYet(g, v)) \subseteq Running(f, NotYet(f, v))
  <2>1. \A p \in DOMAIN g.operations : g.operations[p].regions = f.operations[p].regions
    BY DEF IsPart
  <2>2. DOMAIN g.operations \subseteq DOMAIN f.operations
    BY DEF IsPart
  <2> QED
    BY <1>7, <1>8, <1>9, <2>1, <2>2, RunningShrinks
<1> QED
  BY <1>4, <1>5, <1>9, <1>10

\* It can, if there are fewer edges.
LEMMA FewerKeepAvailable ==
  ASSUME NEW f, NEW g, IsFlow(f), IsFlow(g), IsPart(f, g), HasFewerEdges(f, g),
         NEW v \in DOMAIN g.values, NEW o \in DOMAIN g.operations, IsAvailableAt(f, v, o)
  PROVE  IsAvailableAt(g, v, o)
<1>1. \A r \in DOMAIN g.regions : ReachableAvoiding(g, r, {}) \subseteq ReachableAvoiding(f, r, {})
  BY FewerPaths
<1>2. ASSUME IsComputed(g, v)
      PROVE  ReachableAvoiding(g, RegionOf(g, v), {DefiningBlock(g, v)})
               \subseteq ReachableAvoiding(f, RegionOf(g, v), {DefiningBlock(g, v)})
  BY <1>2, PartKeepsPlace, FewerPaths
<1> QED
  BY <1>1, <1>2, PartKeepsAvailable

\* What is left has its owners, and the entries of regions take no more.
LEMMA PartKeepsOwners ==
  ASSUME NEW f, NEW g, IsPart(f, g), RegionsHaveOneOwner(f), EntriesTakeNothing(f),
         \A b \in DOMAIN g.blocks : ForwardedPositions(f, b) = {} => ForwardedPositions(g, b) = {},
         \A r \in DOMAIN g.regions : Entry(g, r) \in DOMAIN g.blocks
  PROVE  RegionsHaveOneOwner(g) /\ EntriesTakeNothing(g)
<1>1. RegionsHaveOneOwner(g)
  BY DEF IsPart, RegionsHaveOneOwner
<1>2. EntriesTakeNothing(g)
  BY DEF IsPart, EntriesTakeNothing
<1> QED
  BY <1>1, <1>2

\* So SSA form stays with what is left of a function, if nothing reads more.
LEMMA PartIsSsa ==
  ASSUME NEW f, NEW g, IsFlow(f), IsFlow(g), IsPart(f, g), HasFewerEdges(f, g), IsSsa(f),
         \A b \in DOMAIN g.blocks : ForwardedPositions(f, b) = {} => ForwardedPositions(g, b) = {},
         \A v \in DOMAIN g.values : ReadersOf(g, v) \subseteq ReadersOf(f, v)
  PROVE  IsSsa(g)
<1>1. \A r \in DOMAIN g.regions : Entry(g, r) \in DOMAIN g.blocks
  BY FlowIsGraph, EntryIsListed DEF IsFlow, IsOrderly, PlacesAreExact
<1>2. RegionsHaveOneOwner(g) /\ EntriesTakeNothing(g)
  BY <1>1, PartKeepsOwners DEF IsSsa
<1>3. ASSUME NEW v \in DOMAIN g.values, NEW o \in ReadersOf(g, v) PROVE IsAvailableAt(g, v, o)
  <2>1. v \in DOMAIN f.values /\ o \in ReadersOf(f, v) /\ o \in DOMAIN g.operations
    BY DEF IsPart, ReadersOf
  <2>2. IsAvailableAt(f, v, o)
    BY <2>1 DEF IsSsa, ReadsAreAvailable
  <2> QED
    BY <2>1, <2>2, FewerKeepAvailable
<1> QED
  BY <1>2, <1>3 DEF IsSsa, ReadsAreAvailable

-----------------------------------------------------------------------------
(* SSA form: the calls that leave blocks where they are                    *)

\* A function whose edges fit, but for a parameter that is being removed, can
\* be followed.
LEMMA WiredIsFlow ==
  ASSUME NEW f, IsOrderly(f), IsAnalysable(f), NEW Lost, NEW k, IsWired(f, Lost, k)
  PROVE  IsFlow(f)
<1>1. ASSUME NEW e \in Edges(f)
      PROVE  /\ Target(f, e) \in DOMAIN f.blocks
             /\ f.blocks[Source(f, e)].region = f.blocks[Target(f, e)].region
  <2>0. PICK o \in DOMAIN f.operations : e \in EdgesOf(f, o)
    BY DEF Edges
  <2>1. PICK i \in DOMAIN f.operations[o].targets : e = <<o, i>>
    BY <2>0 DEF EdgesOf
  <2>2. IsWiredAt(f, o, Lost, k)
    BY DEF IsWired
  <2>3. e[1] = o /\ e[2] = i
    BY <2>1
  <2> QED
    BY <2>2, <2>3 DEF IsWiredAt, Target, Source
<1> QED
  BY <1>1 DEF IsFlow

\* Every operation stays where it is.
KeepsShape(f, g) ==
  /\ g.regions = f.regions
  /\ DOMAIN g.blocks = DOMAIN f.blocks
  /\ \A b \in DOMAIN f.blocks : /\ g.blocks[b].region = f.blocks[b].region
                                /\ g.blocks[b].contents = f.blocks[b].contents
  /\ DOMAIN g.operations = DOMAIN f.operations
  /\ \A o \in DOMAIN f.operations : /\ g.operations[o].block = f.operations[o].block
                                    /\ g.operations[o].regions = f.operations[o].regions
  /\ DOMAIN g.values \subseteq DOMAIN f.values
  /\ \A v \in DOMAIN g.values :
       /\ g.values[v].kind = f.values[v].kind
       /\ g.values[v].kind = "BlockParameter" => g.values[v].block = f.values[v].block
       /\ g.values[v].kind = "OperationResult" => g.values[v].operation = f.values[v].operation

\* What it leaves is a part.
LEMMA ShapeIsPart ==
  ASSUME NEW f, NEW g, IsOrderly(f), KeepsShape(f, g)
  PROVE  IsPart(f, g)
<1>1. \A r \in DOMAIN g.regions : Entry(g, r) = Entry(f, r)
  BY DEF KeepsShape, Entry
<1>2. ASSUME NEW o \in DOMAIN g.operations PROVE UpTo(g, o) = UpTo(f, o)
  <2>1. g.operations[o].block = f.operations[o].block /\ f.operations[o].block \in DOMAIN f.blocks
    BY DEF KeepsShape, IsOrderly, PlacesAreExact
  <2>2. g.blocks[g.operations[o].block].contents = f.blocks[f.operations[o].block].contents
    BY <2>1 DEF KeepsShape
  <2> QED
    BY <2>2 DEF UpTo
<1>3. /\ DOMAIN g.regions \subseteq DOMAIN f.regions
      /\ DOMAIN g.blocks \subseteq DOMAIN f.blocks
      /\ \A b \in DOMAIN g.blocks : g.blocks[b].region = f.blocks[b].region
      /\ DOMAIN g.operations \subseteq DOMAIN f.operations
      /\ \A o \in DOMAIN f.operations \ DOMAIN g.operations :
           f.operations[o].regions \cap DOMAIN g.regions = {}
  BY DEF KeepsShape
<1>4. /\ DOMAIN g.values \subseteq DOMAIN f.values
      /\ \A v \in DOMAIN g.values :
           /\ g.values[v].kind = f.values[v].kind
           /\ g.values[v].kind = "BlockParameter" => g.values[v].block = f.values[v].block
           /\ g.values[v].kind = "OperationResult" => g.values[v].operation = f.values[v].operation
  BY DEF KeepsShape
<1>5. \A o \in DOMAIN g.operations : /\ g.operations[o].block = f.operations[o].block
                                     /\ g.operations[o].regions = f.operations[o].regions
  BY DEF KeepsShape
<1> QED
  BY <1>1, <1>2, <1>3, <1>4, <1>5 DEF IsPart

\* Every operation of g is one of f, and leads nowhere else.
HasFewerSuccessors(f, g) ==
  /\ DOMAIN g.operations \subseteq DOMAIN f.operations
  /\ \A o \in DOMAIN g.operations :
       /\ g.operations[o].block = f.operations[o].block
       /\ \A i \in DOMAIN g.operations[o].targets : \E j \in DOMAIN f.operations[o].targets :
            g.operations[o].targets[i].block = f.operations[o].targets[j].block

\* Operation by operation, successors that are there already are edges that are.
LEMMA SuccessorsAreFewer ==
  ASSUME NEW f, NEW g, HasFewerSuccessors(f, g)
  PROVE  HasFewerEdges(f, g)
<1> USE DEF HasFewerSuccessors
<1> SUFFICES ASSUME NEW e \in Edges(g)
             PROVE  \E d \in Edges(f) : Source(f, d) = Source(g, e) /\ Target(f, d) = Target(g, e)
  BY DEF HasFewerEdges
<1>0. PICK o \in DOMAIN g.operations : e \in EdgesOf(g, o)
  BY DEF Edges
<1>1. PICK i \in DOMAIN g.operations[o].targets : e = <<o, i>>
  BY <1>0 DEF EdgesOf
<1>2. e[1] = o /\ e[2] = i
  BY <1>1
<1>3. PICK j \in DOMAIN f.operations[o].targets :
        g.operations[o].targets[i].block = f.operations[o].targets[j].block
  BY <1>1
<1>4. <<o, j>> \in Edges(f) /\ <<o, j>>[1] = o /\ <<o, j>>[2] = j
  BY DEF Edges, EdgesOf
<1> QED
  BY <1>2, <1>3, <1>4 DEF Source, Target

\* Where all blocks have the parameters they had, entries take nothing.
LEMMA SameParametersForwarded ==
  ASSUME NEW f, NEW g, \A b \in DOMAIN g.blocks : g.blocks[b].parameters = f.blocks[b].parameters
  PROVE  \A b \in DOMAIN g.blocks : ForwardedPositions(f, b) = {} => ForwardedPositions(g, b) = {}
BY DEF ForwardedPositions

\* replace_all_uses moves reads to a value that can be read there; what could be
\* read instead of another value still can.
LEMMA ReplaceAllUsesKeepsAvailable ==
  ASSUME NEW f, IsExact(f), IsFlow(f), NEW v, NEW w, CanReplaceAllUses(f, v, w),
         IsFlow(ReplaceAllUses(f, v, w))
  PROVE  LET g == ReplaceAllUses(f, v, w)
         IN  /\ DOMAIN g.values = DOMAIN f.values /\ DOMAIN g.operations = DOMAIN f.operations
             /\ \A x \in DOMAIN f.values : \A o \in DOMAIN f.operations :
                  IsAvailableAt(g, x, o) <=> IsAvailableAt(f, x, o)
<1> DEFINE g == ReplaceAllUses(f, v, w)
<1>1. CASE v = w
  BY <1>1 DEF ReplaceAllUses
<1>2. CASE v # w
  <2>1. /\ g.values = f.values /\ g.regions = f.regions /\ g.blocks = f.blocks
        /\ DOMAIN g.operations = DOMAIN f.operations
        /\ \A o \in DOMAIN f.operations : g.operations[o] = Rereading(f.operations[o], o, f.uses[v], w)
    BY <1>2 DEF ReplaceAllUses, IsFlow, IsOrderly, IsFunction
  <2>2. IsFlow(g)
    OBVIOUS
  <2> HIDE DEF g
  <2>3. \A o \in DOMAIN f.operations :
          /\ g.operations[o].block = f.operations[o].block
          /\ g.operations[o].regions = f.operations[o].regions
          /\ g.operations[o].targets = f.operations[o].targets
    <3> TAKE o \in DOMAIN f.operations
    <3> DEFINE op  == f.operations[o]
               new == Rereading(op, o, f.uses[v], w)
    <3>1. new.block = op.block /\ new.regions = op.regions /\ new.targets = op.targets
      BY DEF Rereading
    <3>2. g.operations[o] = new
      BY <2>1
    <3> HIDE DEF new
    <3> QED
      BY <3>1, <3>2
  <2>4. KeepsShape(f, g) /\ KeepsShape(g, f)
    BY <2>1, <2>3 DEF KeepsShape
  <2>5. IsPart(f, g) /\ IsPart(g, f)
    BY <2>2, <2>4, ShapeIsPart DEF IsFlow
  <2>6. HasFewerEdges(f, g) /\ HasFewerEdges(g, f)
    <3>1. HasFewerEdges(f, g)
      BY <2>1, <2>3, SuccessorsAreFewer DEF HasFewerSuccessors
    <3>2. HasFewerEdges(g, f)
      BY <2>1, <2>3, SuccessorsAreFewer DEF HasFewerSuccessors
    <3> QED
      BY <3>1, <3>2
  <2>7. \A x \in DOMAIN f.values : \A o \in DOMAIN f.operations :
          IsAvailableAt(g, x, o) <=> IsAvailableAt(f, x, o)
    BY <2>1, <2>2, <2>5, <2>6, FewerKeepAvailable
  <2> QED
    BY <2>1, <2>7 DEF g
<1> QED
  BY <1>1, <1>2
\* So SSA form stays, if the other value can be read instead.
LEMMA ReplaceAllUsesIsSsa ==
  ASSUME NEW f, IsExact(f), IsFlow(f), IsSsa(f), NEW v, NEW w, CanReplaceAllUses(f, v, w),
         IsFlow(ReplaceAllUses(f, v, w)), Supersedes(f, v, w)
  PROVE  IsSsa(ReplaceAllUses(f, v, w))
<1> DEFINE g == ReplaceAllUses(f, v, w)
<1>1. CASE v = w
  BY <1>1 DEF ReplaceAllUses
<1>2. CASE v # w
  <2>1. /\ DOMAIN g.values = DOMAIN f.values /\ DOMAIN g.operations = DOMAIN f.operations
        /\ \A x \in DOMAIN f.values : \A o \in DOMAIN f.operations :
             IsAvailableAt(g, x, o) <=> IsAvailableAt(f, x, o)
    BY ReplaceAllUsesKeepsAvailable
  <2>2. /\ g.regions = f.regions /\ g.blocks = f.blocks
        /\ \A o \in DOMAIN f.operations : g.operations[o] = Rereading(f.operations[o], o, f.uses[v], w)
    BY <1>2 DEF ReplaceAllUses, IsFlow, IsOrderly, IsFunction
  <2> HIDE DEF g
  <2>3. \A o \in DOMAIN f.operations : g.operations[o].regions = f.operations[o].regions
    <3> TAKE o \in DOMAIN f.operations
    <3>1. Rereading(f.operations[o], o, f.uses[v], w).regions = f.operations[o].regions
      BY DEF Rereading
    <3> QED
      BY <2>2, <3>1
  <2>4. RegionsHaveOneOwner(g) /\ EntriesTakeNothing(g)
    BY <2>1, <2>2, <2>3 DEF IsSsa, RegionsHaveOneOwner, EntriesTakeNothing, ForwardedPositions, Entry
  <2>5. ASSUME NEW x \in DOMAIN f.values, NEW o \in ReadersOf(g, x)
        PROVE  o \in DOMAIN f.operations /\ (o \in ReadersOf(f, x) \/ (x = w /\ o \in ReadersOf(f, v)))
    <3>1. o \in DOMAIN f.operations /\ x \in ToSet(g.operations[o].operands)
      BY <2>1 DEF ReadersOf
    <3>2. /\ "operands" \in DOMAIN f.operations[o]
          /\ g.operations[o] = Rereading(f.operations[o], o, f.uses[v], w)
      BY <2>2, <3>1 DEF IsFlow, IsOrderly, IsFunction
    <3>3. g.operations[o].operands
            = [i \in DOMAIN f.operations[o].operands |->
                 IF <<o, i>> \in f.uses[v] THEN w ELSE f.operations[o].operands[i]]
      BY <3>2 DEF Rereading
    <3>4. PICK i \in DOMAIN f.operations[o].operands :
            x = IF <<o, i>> \in f.uses[v] THEN w ELSE f.operations[o].operands[i]
      BY <3>1, <3>3 DEF ToSet
    <3>5. CASE <<o, i>> \in f.uses[v]
      <4>1. f.operations[o].operands[i] = v
        BY <3>5 DEF CanReplaceAllUses
      <4> QED
        BY <3>1, <3>4, <3>5, <4>1 DEF ReadersOf, ToSet
    <3>6. CASE <<o, i>> \notin f.uses[v]
      BY <3>1, <3>4, <3>6 DEF ReadersOf, ToSet
    <3> QED
      BY <3>5, <3>6
  <2>6. v \in DOMAIN f.values
    BY DEF CanReplaceAllUses, IsExact, UsesAreExact
  <2>7. ASSUME NEW x \in DOMAIN f.values, NEW o \in ReadersOf(g, x)
        PROVE  IsAvailableAt(g, x, o)
    <3>1. o \in DOMAIN f.operations /\ (o \in ReadersOf(f, x) \/ (x = w /\ o \in ReadersOf(f, v)))
      BY <2>5
    <3>2. \A y \in DOMAIN f.values : \A p \in ReadersOf(f, y) : IsAvailableAt(f, y, p)
      BY DEF IsSsa, ReadsAreAvailable
    <3>3. IsAvailableAt(f, x, o)
      BY <2>6, <3>1, <3>2 DEF Supersedes
    <3> QED
      BY <2>1, <3>1, <3>3
  <2>8. IsSsa(g)
    BY <2>1, <2>4, <2>7 DEF IsSsa, ReadsAreAvailable
  <2> QED
    BY <2>8 DEF g
<1> QED
  BY <1>1, <1>2

\* An operation that loses operands and successors, and is the only one that
\* changes, leaves SSA form.
LEMMA OneOperationIsSsa ==
  ASSUME NEW f, NEW g, IsFlow(f), IsFlow(g), IsSsa(f), NEW o \in DOMAIN f.operations, NEW update,
         g.regions = f.regions, g.blocks = f.blocks, g.values = f.values,
         DOMAIN g.operations = DOMAIN f.operations,
         \A p \in DOMAIN f.operations : g.operations[p] = IF p = o THEN update ELSE f.operations[p],
         update.block = f.operations[o].block, update.regions = f.operations[o].regions,
         \A i \in DOMAIN update.targets : \E j \in DOMAIN f.operations[o].targets :
           update.targets[i].block = f.operations[o].targets[j].block,
         ToSet(update.operands) \subseteq ToSet(f.operations[o].operands)
  PROVE  IsSsa(g)
<1>1. \A p \in DOMAIN f.operations :
        /\ g.operations[p].block = f.operations[p].block
        /\ g.operations[p].regions = f.operations[p].regions
        /\ \A i \in DOMAIN g.operations[p].targets : \E j \in DOMAIN f.operations[p].targets :
             g.operations[p].targets[i].block = f.operations[p].targets[j].block
        /\ ToSet(g.operations[p].operands) \subseteq ToSet(f.operations[p].operands)
  <2> TAKE p \in DOMAIN f.operations
  <2>1. CASE p = o
    <3>1. g.operations[p] = update
      BY <2>1
    <3> QED
      BY <2>1, <3>1
  <2>2. CASE p # o
    <3>1. g.operations[p] = f.operations[p]
      BY <2>2
    <3> QED
      BY <3>1
  <2> QED
    BY <2>1, <2>2
<1>2. KeepsShape(f, g)
  BY <1>1 DEF KeepsShape
<1>3. IsPart(f, g)
  BY <1>2, ShapeIsPart DEF IsFlow
<1>4. HasFewerEdges(f, g)
  <2>1. HasFewerSuccessors(f, g)
    BY <1>1 DEF HasFewerSuccessors
  <2> QED
    BY <2>1, SuccessorsAreFewer
<1>5. \A b \in DOMAIN g.blocks : ForwardedPositions(f, b) = {} => ForwardedPositions(g, b) = {}
  BY SameParametersForwarded
<1>6. \A v \in DOMAIN g.values : ReadersOf(g, v) \subseteq ReadersOf(f, v)
  BY <1>1 DEF ReadersOf
<1> QED
  BY <1>3, <1>4, <1>5, <1>6, PartIsSsa

\* replace_operation_with_constant reads nothing any more.
LEMMA ReplaceWithConstantIsSsa ==
  ASSUME NEW f, IsFlow(f), IsSsa(f), NEW o, NEW constant, CanReplaceWithConstant(f, o),
         IsFlow(ReplaceWithConstant(f, o, constant))
  PROVE  IsSsa(ReplaceWithConstant(f, o, constant))
<1> DEFINE op == f.operations[o]
           update == [op EXCEPT !.kind = "Constant", !.detail = constant, !.own = 0, !.operands = <<>>]
           g == ReplaceWithConstant(f, o, constant)
<1>1. o \in DOMAIN f.operations
  BY DEF CanReplaceWithConstant
<1>2. g = Rewired(f, o, update)
  BY DEF ReplaceWithConstant
<1>3. {"block", "kind", "operands", "targets", "results", "own", "detail"} \subseteq DOMAIN op
  BY <1>1 DEF IsFlow, IsOrderly, IsFunction, IsAnalysable
<1>4. /\ update.targets = op.targets /\ update.regions = op.regions
      /\ update.block = op.block /\ update.operands = <<>>
  <2> HIDE DEF op
  <2> QED
    BY <1>3
<1>5. ToSet(update.operands) \subseteq ToSet(op.operands)
  BY <1>4 DEF ToSet
<1> HIDE DEF update
<1>6. /\ g.values = f.values /\ g.regions = f.regions /\ g.blocks = f.blocks
      /\ DOMAIN g.operations = DOMAIN f.operations
      /\ \A p \in DOMAIN f.operations : g.operations[p] = IF p = o THEN update ELSE f.operations[p]
  BY <1>1, <1>2 DEF Rewired, IsFlow, IsOrderly, IsFunction
<1>7. \A i \in DOMAIN update.targets : \E j \in DOMAIN op.targets :
        update.targets[i].block = op.targets[j].block
  BY <1>4
<1>8. IsFlow(g)
  OBVIOUS
<1> HIDE DEF g
<1>9. IsSsa(g)
  BY <1>1, <1>4, <1>5, <1>6, <1>7, <1>8, OneOperationIsSsa
<1> QED
  BY <1>9 DEF g

\* replace_if_with_jump keeps one edge and its arguments.
LEMMA ReplaceIfWithJumpIsSsa ==
  ASSUME NEW f, IsFlow(f), IsSsa(f), NEW o, NEW i, CanReplaceIfWithJump(f, o, i),
         IsFlow(ReplaceIfWithJump(f, o, i))
  PROVE  IsSsa(ReplaceIfWithJump(f, o, i))
<1> DEFINE op == f.operations[o]
           new == Arguments(op, i)
           kept == <<op.targets[i]>>
           update == [op EXCEPT !.kind = "Jump", !.own = 0, !.structural = {},
                                !.operands = new, !.targets = kept]
           g == ReplaceIfWithJump(f, o, i)
<1>1. o \in DOMAIN f.operations /\ i \in DOMAIN op.targets /\ RangeIsValid(op, i)
  BY DEF CanReplaceIfWithJump
<1>2. g = Rewired(f, o, update)
  BY DEF ReplaceIfWithJump
<1>3. {"block", "kind", "operands", "targets", "results", "own"} \subseteq DOMAIN op
  BY <1>1 DEF IsFlow, IsOrderly, IsFunction, IsAnalysable
<1>4. /\ update.targets = kept /\ update.regions = op.regions
      /\ update.block = op.block /\ update.operands = new
  <2> HIDE DEF op, new, kept
  <2> QED
    BY <1>3
<1>5. ToSet(new) \subseteq ToSet(op.operands)
  <2>1. op.operands \in Seq(DOMAIN f.values)
    BY <1>1 DEF IsFlow, IsOrderly, IsFunction
  <2>2. FirstArgument(op, i) \in Nat /\ op.targets[i].count \in Nat
        /\ FirstArgument(op, i) + op.targets[i].count <= Len(op.operands)
    BY <1>1 DEF RangeIsValid
  <2>3. new = SubSeq(op.operands, FirstArgument(op, i) + 1, FirstArgument(op, i) + op.targets[i].count)
    BY DEF Arguments
  <2>4. op.operands \in Seq(ToSet(op.operands))
    BY <2>1 DEF ToSet
  <2> HIDE DEF op, new
  <2> DEFINE m == FirstArgument(op, i)
             n == m + op.targets[i].count
  <2>5. m \in Nat /\ n \in Nat /\ n <= Len(op.operands) /\ new = SubSeq(op.operands, m + 1, n)
    BY <2>2, <2>3
  <2> HIDE DEF m, n
  <2>6. new \in Seq(ToSet(op.operands))
    BY <2>4, <2>5, PartOfOperands
  <2> QED
    BY <2>6 DEF ToSet
<1>6. \A j \in DOMAIN kept : kept[j].block = op.targets[i].block
  <2> HIDE DEF op
  <2>1. \A j \in DOMAIN kept : kept[j] = op.targets[i]
    OBVIOUS
  <2> QED
    BY <2>1
<1> HIDE DEF update, new, kept
<1>7. /\ g.values = f.values /\ g.regions = f.regions /\ g.blocks = f.blocks
      /\ DOMAIN g.operations = DOMAIN f.operations
      /\ \A p \in DOMAIN f.operations : g.operations[p] = IF p = o THEN update ELSE f.operations[p]
  BY <1>1, <1>2 DEF Rewired, IsFlow, IsOrderly, IsFunction
<1>8. \A k \in DOMAIN update.targets : \E j \in DOMAIN op.targets :
        update.targets[k].block = op.targets[j].block
  BY <1>1, <1>4, <1>6
<1>9. IsFlow(g) /\ ToSet(update.operands) \subseteq ToSet(op.operands)
  BY <1>4, <1>5
<1> HIDE DEF g
<1>10. IsSsa(g)
  BY <1>1, <1>4, <1>7, <1>8, <1>9, OneOperationIsSsa
<1> QED
  BY <1>10 DEF g

\* remove_successor_argument passes one value less.
LEMMA RemoveSuccessorArgumentIsSsa ==
  ASSUME NEW f, IsFlow(f), IsSsa(f), NEW o, NEW i, NEW index,
         CanRemoveSuccessorArgument(f, o, i, index), "block" \in DOMAIN f.operations[o].targets[i],
         IsFlow(RemoveSuccessorArgument(f, o, i, index))
  PROVE  IsSsa(RemoveSuccessorArgument(f, o, i, index))
<1> DEFINE op == f.operations[o]
           at == FirstArgument(op, i) + index
           t  == RemoveAt(op.operands, at)
           u  == Attached(Detached(f.uses, o, op.operands, at), o, t, at)
           there  == [op.targets[i] EXCEPT !.count = @ - 1]
           others == [op.targets EXCEPT ![i] = there]
           update == [op EXCEPT !.operands = t, !.targets[i].count = @ - 1]
           g == RemoveSuccessorArgument(f, o, i, index)
<1>1. o \in DOMAIN f.operations /\ i \in DOMAIN op.targets /\ at \in DOMAIN op.operands
  BY DEF CanRemoveSuccessorArgument
<1>2. g = [f EXCEPT !.operations[o] = update, !.uses = u]
  BY DEF RemoveSuccessorArgument
<1>3. {"block", "kind", "operands", "targets", "results", "own"} \subseteq DOMAIN op
      /\ op.operands \in Seq(DOMAIN f.values)
  BY <1>1 DEF IsFlow, IsOrderly, IsFunction, IsAnalysable
<1>4. /\ update.targets = others /\ update.regions = op.regions
      /\ update.block = op.block /\ update.operands = t
  <2> HIDE DEF op, t
  <2> QED
    BY <1>1, <1>3
<1>5. ToSet(t) \subseteq ToSet(op.operands)
  <2>1. op.operands \in Seq(ToSet(op.operands)) /\ at \in 1..Len(op.operands)
    BY <1>1, <1>3 DEF ToSet
  <2> HIDE DEF op, at
  <2>2. t \in Seq(ToSet(op.operands))
    BY <2>1, RemoveAtMovesDown
  <2> QED
    BY <2>2 DEF ToSet
<1>6. \A j \in DOMAIN others : j \in DOMAIN op.targets /\ others[j].block = op.targets[j].block
  <2>1. there.block = op.targets[i].block
    OBVIOUS
  <2> HIDE DEF there, op
  <2> QED
    BY <1>1, <2>1
<1> HIDE DEF update, t, others, u, at
<1>7. /\ g.values = f.values /\ g.regions = f.regions /\ g.blocks = f.blocks
      /\ DOMAIN g.operations = DOMAIN f.operations
      /\ \A p \in DOMAIN f.operations : g.operations[p] = IF p = o THEN update ELSE f.operations[p]
  BY <1>1, <1>2 DEF IsFlow, IsOrderly, IsFunction
<1>8. \A k \in DOMAIN update.targets : \E j \in DOMAIN op.targets :
        update.targets[k].block = op.targets[j].block
  BY <1>4, <1>6
<1>9. IsFlow(g) /\ ToSet(update.operands) \subseteq ToSet(op.operands)
  BY <1>4, <1>5
<1> HIDE DEF g
<1>10. IsSsa(g)
  BY <1>1, <1>4, <1>7, <1>8, <1>9, OneOperationIsSsa
<1> QED
  BY <1>10 DEF g

\* What remove_forwarded_block_parameter takes away at last nothing reads, and
\* it was no parameter of an entry.
LEMMA RemoveParameterIsSsa ==
  ASSUME NEW f, IsFlow(f), IsSsa(f), NEW b \in DOMAIN f.blocks, NEW k \in ForwardedPositions(f, b),
         IsFlow(RemoveParameter(f, b, k))
  PROVE  IsSsa(RemoveParameter(f, b, k))
<1> DEFINE g       == RemoveParameter(f, b, k)
           block   == f.blocks[b]
           t       == RemoveAt(block.parameters, k)
           less    == [block EXCEPT !.parameters = t]
           live    == DOMAIN f.values \ {block.parameters[k].value}
           shifted == {block.parameters[j].value : j \in (k + 1)..Len(block.parameters)}
<1>1. /\ g.regions = f.regions /\ g.operations = f.operations /\ DOMAIN g.blocks = DOMAIN f.blocks
      /\ \A c \in DOMAIN f.blocks : g.blocks[c] = IF c = b THEN less ELSE f.blocks[c]
      /\ DOMAIN g.values = live
      /\ \A v \in live : g.values[v] = IF v \in shifted THEN MovedDown(f.values[v]) ELSE f.values[v]
  BY DEF RemoveParameter, IsFlow, IsOrderly, IsFunction
<1>2. less.region = block.region /\ less.contents = block.contents
  <2> HIDE DEF block, t
  <2> QED
    OBVIOUS
<1>3. k \in DOMAIN block.parameters /\ block.parameters \in Seq(ToSet(block.parameters))
  BY DEF ForwardedPositions, IsFlow, IsOrderly, IsLaidOut
<1>4. ASSUME NEW v \in shifted
      PROVE  /\ MovedDown(f.values[v]).kind = "BlockParameter" /\ f.values[v].kind = "BlockParameter"
             /\ MovedDown(f.values[v]).block = f.values[v].block
  <2>1. PICK j \in (k + 1)..Len(block.parameters) : v = block.parameters[j].value
    OBVIOUS
  <2>2. j \in DOMAIN block.parameters
    <3> HIDE DEF block
    <3> QED
      BY <1>3
  <2>3. f.values[v] = [kind |-> "BlockParameter", block |-> b, index |-> j]
    <3>1. DefinitionsAreExact(f)
      BY DEF IsFlow, IsOrderly
    <3> QED
      BY <2>1, <2>2, <3>1, Zenon DEF DefinitionsAreExact, IsDefinedAs
  <2> QED
    BY <2>3 DEF MovedDown
<1> HIDE DEF g, less, shifted
<1>5. \A v \in DOMAIN g.values :
        /\ g.values[v].kind = f.values[v].kind
        /\ g.values[v].kind = "BlockParameter" => g.values[v].block = f.values[v].block
        /\ g.values[v].kind = "OperationResult" => g.values[v].operation = f.values[v].operation
  <2> TAKE v \in DOMAIN g.values
  <2>1. CASE v \in shifted
    BY <1>1, <1>4, <2>1
  <2>2. CASE v \notin shifted
    BY <1>1, <2>2
  <2> QED
    BY <2>1, <2>2
<1>6. /\ \A c \in DOMAIN f.blocks : /\ g.blocks[c].region = f.blocks[c].region
                                    /\ g.blocks[c].contents = f.blocks[c].contents
      /\ DOMAIN g.values \subseteq DOMAIN f.values
  BY <1>1, <1>2
<1>7. KeepsShape(f, g)
  BY <1>1, <1>5, <1>6 DEF KeepsShape
<1>8. IsPart(f, g)
  BY <1>7, ShapeIsPart DEF IsFlow
<1>9. HasFewerEdges(f, g)
  <2>1. HasFewerSuccessors(f, g)
    BY <1>1 DEF HasFewerSuccessors
  <2> QED
    BY <2>1, SuccessorsAreFewer
<1>10. \A c \in DOMAIN g.blocks : ForwardedPositions(f, c) = {} => ForwardedPositions(g, c) = {}
  <2> TAKE c \in DOMAIN g.blocks
  <2>1. CASE c = b
    BY <2>1
  <2>2. CASE c # b
    BY <1>1, <2>2 DEF ForwardedPositions
  <2> QED
    BY <2>1, <2>2
<1>11. \A v \in DOMAIN g.values : ReadersOf(g, v) \subseteq ReadersOf(f, v)
  BY <1>1 DEF ReadersOf
<1>12. IsFlow(g)
  BY DEF g
<1>13. IsSsa(g)
  BY <1>8, <1>9, <1>10, <1>11, <1>12, PartIsSsa
<1> QED
  BY <1>13 DEF g

-----------------------------------------------------------------------------
(* SSA form: the calls that remove                                         *)

\* The members of t are among the first k of s, in the order of s.
IsInOrderOf(t, s, k) ==
  \A i, j \in DOMAIN t : i <= j => \E a, c \in 1..k : a <= c /\ s[a] = t[i] /\ s[c] = t[j]

\* One more element at the end keeps the order.
LEMMA AppendedInOrder ==
  ASSUME NEW T, NEW s, NEW k \in Nat \ {0}, NEW t \in Seq(T), IsInOrderOf(t, s, k - 1), s[k] \in T
  PROVE  IsInOrderOf(Append(t, s[k]), s, k)
<1> DEFINE u == Append(t, s[k])
           m == Len(t)
<1>1. /\ m \in Nat /\ DOMAIN t = 1..m /\ DOMAIN u = 1..(m + 1) /\ u[m + 1] = s[k]
      /\ \A i \in 1..m : u[i] = t[i]
  OBVIOUS
<1> HIDE DEF u, m
<1> SUFFICES ASSUME NEW i \in DOMAIN u, NEW j \in DOMAIN u, i <= j
             PROVE  \E a, c \in 1..k : a <= c /\ s[a] = u[i] /\ s[c] = u[j]
  BY DEF IsInOrderOf, u
<1>2. \A a \in 1..(k - 1) : a \in 1..k /\ a <= k
  OBVIOUS
<1>3. k \in 1..k
  OBVIOUS
<1>4. CASE j \in 1..m
  <2>1. i \in 1..m
    BY <1>1, <1>4
  <2>2. PICK a \in 1..(k - 1), c \in 1..(k - 1) : a <= c /\ s[a] = t[i] /\ s[c] = t[j]
    <3>1. i \in DOMAIN t /\ j \in DOMAIN t
      BY <1>1, <1>4, <2>1
    <3> QED
      BY <3>1, Zenon DEF IsInOrderOf
  <2> QED
    BY <1>1, <1>2, <1>4, <2>1, <2>2
<1>5. CASE j = m + 1 /\ i \in 1..m
  <2>1. PICK a \in 1..(k - 1), c \in 1..(k - 1) : a <= c /\ s[a] = t[i] /\ s[c] = t[i]
    BY <1>1, <1>5 DEF IsInOrderOf
  <2> QED
    BY <1>1, <1>2, <1>3, <1>5, <2>1
<1>6. CASE i = m + 1 /\ j = m + 1
  BY <1>1, <1>3, <1>6
<1> QED
  BY <1>1, <1>4, <1>5, <1>6

\* Without keeps the order, and the head if it keeps that.
LEMMA WithoutInOrder ==
  ASSUME NEW T, NEW s \in Seq(T), NEW S
  PROVE  /\ IsInOrderOf(Without(s, S), s, Len(s))
         /\ s # <<>> /\ Head(s) \notin S => Head(Without(s, S)) = Head(s)
<1> DEFINE n == Len(s)
           f == CHOOSE g : IsSieve(g, s, S, n)
           Starts(t) == t # <<>> /\ t[1] = s[1]
           C == {k \in 0..n : /\ f[k] \in Seq(T) /\ IsInOrderOf(f[k], s, k)
                              /\ k # 0 /\ s[1] \notin S => Starts(f[k])}
<1>1. n \in Nat /\ DOMAIN s = 1..n /\ \A i \in 1..n : s[i] \in T
  BY LenProperties
<1>2. IsSieve(f, s, S, n)
  BY <1>1, SieveExists
<1>3. Without(s, S) = f[n]
  <2>1. f = CHOOSE g : g = [i \in 0..n |-> IF i = 0 THEN <<>> ELSE
                               IF s[i] \in S THEN g[i - 1] ELSE Append(g[i - 1], s[i])]
    BY DEF IsSieve
  <2> QED
    BY <2>1, Zenon DEF Without
<1>4. /\ f[0] = <<>>
      /\ \A k \in 1..n : f[k] = IF s[k] \in S THEN f[k - 1] ELSE Append(f[k - 1], s[k])
  <2>1. f = [i \in 0..n |-> IF i = 0 THEN <<>> ELSE
                               IF s[i] \in S THEN f[i - 1] ELSE Append(f[i - 1], s[i])]
    BY <1>2 DEF IsSieve
  <2> HIDE DEF f, n
  <2>2. 0 \in 0..n /\ \A k \in 1..n : k \in 0..n /\ k # 0
    BY <1>1
  <2> QED
    BY <2>1, <2>2
<1> HIDE DEF f
<1>5. 0 \in C
  <2>1. 0 \in 0..n /\ <<>> \in Seq(T)
    BY <1>1
  <2>2. IsInOrderOf(<<>>, s, 0)
    BY DEF IsInOrderOf
  <2> HIDE DEF Starts
  <2> QED
    BY <1>4, <2>1, <2>2
<1>6. ASSUME NEW k \in 1..n, k - 1 \in C PROVE k \in C
  <2> DEFINE t == f[k - 1]
             u == Append(t, s[k])
  <2>1. /\ t \in Seq(T) /\ IsInOrderOf(t, s, k - 1) /\ k \in 0..n
        /\ k \in Nat \ {0} /\ s[k] \in T
    BY <1>1, <1>6
  <2>2. k - 1 # 0 /\ s[1] \notin S => Starts(t)
    BY <1>6
  <2>3. CASE s[k] \in S
    <3>1. f[k] = t
      BY <1>4, <2>3
    <3>2. IsInOrderOf(t, s, k)
      <4>1. \A a \in 1..(k - 1) : a \in 1..k
        BY <2>1
      <4> HIDE DEF t
      <4> QED
        BY <2>1, <4>1 DEF IsInOrderOf
    <3>3. s[1] \notin S => Starts(t)
      <4>1. k = 1 => s[1] \in S
        BY <2>3
      <4> HIDE DEF Starts, t
      <4> QED
        BY <2>1, <2>2, <4>1
    <3> HIDE DEF t, Starts
    <3> QED
      BY <2>1, <3>1, <3>2, <3>3
  <2>4. CASE s[k] \notin S
    <3>1. f[k] = u
      BY <1>4, <2>4
    <3> HIDE DEF t
    <3>2. u \in Seq(T)
      BY <2>1
    <3>3. IsInOrderOf(u, s, k)
      BY <2>1, AppendedInOrder
    <3>4. s[1] \notin S => Starts(u)
      <4>1. Len(u) = Len(t) + 1 /\ Len(t) \in Nat /\ u[Len(t) + 1] = s[k] /\ u # <<>>
            /\ \A i \in 1..Len(t) : u[i] = t[i]
        BY <2>1
      <4>2. CASE k = 1
        <5>1. t = <<>>
          BY <1>4, <4>2 DEF t
        <5> QED
          BY <4>1, <4>2, <5>1
      <4>3. CASE k # 1
        <5>1. s[1] \notin S => t # <<>> /\ t[1] = s[1]
          BY <2>1, <2>2, <4>3
        <5>2. t # <<>> => 1 \in 1..Len(t)
          BY <2>1, <4>1
        <5> QED
          BY <4>1, <5>1, <5>2
      <4> QED
        BY <4>2, <4>3
    <3> HIDE DEF u, Starts
    <3> QED
      BY <2>1, <3>1, <3>2, <3>3, <3>4
  <2> QED
    BY <2>3, <2>4
<1>7. n \in C
  <2> HIDE DEF C
  <2>1. 0..n \subseteq C
    BY <1>1, <1>5, <1>6, CountingUp
  <2> QED
    BY <1>1, <2>1
<1>8. IsInOrderOf(f[n], s, n) /\ f[n] \in Seq(T) /\ (n # 0 /\ s[1] \notin S => Starts(f[n]))
  BY <1>7
<1>9. s # <<>> => n # 0 /\ Head(s) = s[1]
  BY <1>1
<1>10. f[n] # <<>> => Head(f[n]) = f[n][1]
  BY <1>8
<1> HIDE DEF C, n
<1> QED
  BY <1>3, <1>8, <1>9, <1>10 DEF n

\* What is in front of an operation was in front of it, if the order is kept.
LEMMA UpToShrinks ==
  ASSUME NEW f, NEW g, NEW o, NEW b, f.operations[o].block = b, g.operations[o].block = b,
         NEW T, f.blocks[b].contents \in Seq(T),
         IsInOrderOf(g.blocks[b].contents, f.blocks[b].contents, Len(f.blocks[b].contents))
  PROVE  UpTo(g, o) \subseteq UpTo(f, o)
<1> DEFINE s == f.blocks[b].contents
           t == g.blocks[b].contents
<1>1. UpTo(f, o) = {s[i] : i \in {j \in DOMAIN s : \E k \in DOMAIN s : s[k] = o /\ j <= k}}
  BY DEF UpTo
<1>2. UpTo(g, o) = {t[i] : i \in {j \in DOMAIN t : \E k \in DOMAIN t : t[k] = o /\ j <= k}}
  BY DEF UpTo
<1>3. DOMAIN s = 1..Len(s)
  OBVIOUS
<1>4. \A i, j \in DOMAIN t : i <= j => \E a, c \in 1..Len(s) : a <= c /\ s[a] = t[i] /\ s[c] = t[j]
  BY DEF IsInOrderOf
<1> HIDE DEF s, t
<1> QED
  BY <1>1, <1>2, <1>3, <1>4

\* remove_operations leaves SSA form: what it removes has no regions.
LEMMA RemoveOperationsIsSsa ==
  ASSUME NEW f, IsFlow(f), IsSsa(f), NEW O, CanRemoveOperations(f, O), IsFlow(RemoveOperations(f, O))
  PROVE  IsSsa(RemoveOperations(f, O))
<1> DEFINE g == RemoveOperations(f, O)
           V == ResultValues(f, O)
<1>1. IsFlow(g)
  OBVIOUS
<1>2. /\ g.regions = f.regions
      /\ DOMAIN g.operations = DOMAIN f.operations \ O
      /\ \A o \in DOMAIN f.operations \ O : g.operations[o] = f.operations[o]
      /\ DOMAIN g.blocks = DOMAIN f.blocks
      /\ \A b \in DOMAIN f.blocks : g.blocks[b] = Unlisted(f.blocks[b], O)
      /\ DOMAIN g.values = DOMAIN f.values \ V
      /\ \A v \in DOMAIN f.values \ V : g.values[v] = f.values[v]
  BY RemoveOperationsHolds DEF IsFlow
<1> HIDE DEF g, V
<1>3. ASSUME NEW b \in DOMAIN f.blocks
      PROVE  /\ g.blocks[b].region = f.blocks[b].region
             /\ g.blocks[b].parameters = f.blocks[b].parameters
             /\ g.blocks[b].contents = Without(f.blocks[b].contents, O)
  <2>1. {"region", "parameters", "contents"} \subseteq DOMAIN f.blocks[b]
    BY DEF IsFlow, IsOrderly, IsLaidOut
  <2> DEFINE block == f.blocks[b]
  <2>2. g.blocks[b] = [block EXCEPT !.contents = Without(@, O)]
    BY <1>2 DEF Unlisted
  <2> HIDE DEF block
  <2>3. {"region", "parameters", "contents"} \subseteq DOMAIN block
    BY <2>1 DEF block
  <2>4. /\ g.blocks[b].region = block.region /\ g.blocks[b].parameters = block.parameters
        /\ g.blocks[b].contents = Without(block.contents, O)
    BY <2>2, <2>3
  <2> QED
    BY <2>4 DEF block
<1>4. ASSUME NEW o \in DOMAIN g.operations PROVE UpTo(g, o) \subseteq UpTo(f, o)
  <2> DEFINE b == f.operations[o].block
  <2>1. g.operations[o].block = b /\ b \in DOMAIN f.blocks
    BY <1>2 DEF IsFlow, IsOrderly, PlacesAreExact
  <2>2. f.blocks[b].contents \in Seq(DOMAIN f.operations)
    BY <2>1 DEF IsFlow, IsOrderly, IsLaidOut
  <2>3. g.blocks[b].contents = Without(f.blocks[b].contents, O)
    BY <1>3, <2>1
  <2>4. IsInOrderOf(g.blocks[b].contents, f.blocks[b].contents, Len(f.blocks[b].contents))
    BY <2>2, <2>3, WithoutInOrder
  <2>5. f.operations[o].block = b
    OBVIOUS
  <2> HIDE DEF b
  <2> QED
    BY <2>1, <2>2, <2>4, <2>5, UpToShrinks
<1>5. \A r \in DOMAIN g.regions : Entry(g, r) = Entry(f, r)
  BY <1>2 DEF Entry
<1>6. \A o \in DOMAIN f.operations \ DOMAIN g.operations :
        f.operations[o].regions \cap DOMAIN g.regions = {}
  BY <1>2 DEF CanRemoveOperations
<1>7. IsPart(f, g)
  <2>1. \A o \in DOMAIN g.operations : /\ g.operations[o].block = f.operations[o].block
                                       /\ g.operations[o].regions = f.operations[o].regions
    BY <1>2
  <2>2. \A v \in DOMAIN g.values :
          /\ g.values[v].kind = f.values[v].kind
          /\ g.values[v].kind = "BlockParameter" => g.values[v].block = f.values[v].block
          /\ g.values[v].kind = "OperationResult" => g.values[v].operation = f.values[v].operation
    BY <1>2
  <2>3. /\ DOMAIN g.regions \subseteq DOMAIN f.regions /\ DOMAIN g.blocks \subseteq DOMAIN f.blocks
        /\ DOMAIN g.operations \subseteq DOMAIN f.operations /\ DOMAIN g.values \subseteq DOMAIN f.values
    BY <1>2
  <2>4. \A b \in DOMAIN g.blocks : g.blocks[b].region = f.blocks[b].region
    BY <1>2, <1>3
  <2> QED
    BY <1>4, <1>5, <1>6, <2>1, <2>2, <2>3, <2>4 DEF IsPart
<1>8. HasFewerEdges(f, g)
  <2>1. HasFewerSuccessors(f, g)
    BY <1>2 DEF HasFewerSuccessors
  <2> QED
    BY <2>1, SuccessorsAreFewer
<1>9. \A b \in DOMAIN g.blocks : ForwardedPositions(f, b) = {} => ForwardedPositions(g, b) = {}
  BY <1>2, <1>3, SameParametersForwarded
<1>10. \A v \in DOMAIN g.values : ReadersOf(g, v) \subseteq ReadersOf(f, v)
  BY <1>2 DEF ReadersOf
<1>11. IsSsa(g)
  BY <1>1, <1>7, <1>8, <1>9, <1>10, PartIsSsa
<1> QED
  BY <1>11 DEF g

\* What remove_blocks leaves is a part: it takes regions as a whole, with the
\* operations that have them, and no entry of another region.
LEMMA RemoveBlocksIsPart ==
  ASSUME NEW f, IsFlow(f), NEW B, CanRemoveBlocks(f, B), IsFlow(RemoveBlocks(f, B))
  PROVE  LET g == RemoveBlocks(f, B)
         IN  /\ IsPart(f, g) /\ HasFewerEdges(f, g)
             /\ \A b \in DOMAIN g.blocks : ForwardedPositions(f, b) = {} => ForwardedPositions(g, b) = {}
             /\ \A v \in DOMAIN g.values : ReadersOf(g, v) \subseteq ReadersOf(f, v)
<1> DEFINE g == RemoveBlocks(f, B)
           W == WithNested(f, B)
           O == OperationsOf(f, W)
           R == RegionsOf(f, O)
           V == (UNION {ParameterValues(f, b) : b \in W}) \cup ResultValues(f, O)
<1>1. IsFlow(g)
  OBVIOUS
<1>2. /\ DOMAIN g.regions = DOMAIN f.regions \ R
      /\ \A r \in DOMAIN f.regions \ R : g.regions[r] = Without(f.regions[r], W)
      /\ DOMAIN g.operations = DOMAIN f.operations \ O
      /\ \A o \in DOMAIN f.operations \ O : g.operations[o] = f.operations[o]
      /\ DOMAIN g.blocks = DOMAIN f.blocks \ W
      /\ \A b \in DOMAIN f.blocks \ W : g.blocks[b] = f.blocks[b]
      /\ DOMAIN g.values = DOMAIN f.values \ V
      /\ \A v \in DOMAIN f.values \ V : g.values[v] = f.values[v]
  BY RemoveBlocksHolds DEF IsFlow
<1>3. \A r \in DOMAIN f.regions \ R : Entry(f, r) \notin W
  BY DEF CanRemoveBlocks
<1>4. \A o \in O : f.operations[o].regions \subseteq R
  BY DEF RegionsOf
<1> HIDE DEF g, W, O, R, V
<1>5. ASSUME NEW r \in DOMAIN g.regions PROVE Entry(g, r) = Entry(f, r)
  <2>1. r \in DOMAIN f.regions /\ g.regions[r] = Without(f.regions[r], W) /\ Head(f.regions[r]) \notin W
    BY <1>2, <1>3 DEF Entry
  <2>2. f.regions[r] \in Seq(DOMAIN f.blocks) /\ f.regions[r] # <<>>
    BY <2>1 DEF IsFlow, IsOrderly, IsLaidOut, IsAnalysable
  <2>3. Head(Without(f.regions[r], W)) = Head(f.regions[r])
    BY <2>1, <2>2, WithoutInOrder
  <2> QED
    BY <2>1, <2>3 DEF Entry
<1>6. ASSUME NEW o \in DOMAIN g.operations PROVE UpTo(g, o) = UpTo(f, o)
  <2>1. g.operations[o] = f.operations[o] /\ g.operations[o].block \in DOMAIN g.blocks
    BY <1>1, <1>2 DEF IsFlow, IsOrderly, PlacesAreExact
  <2>2. g.blocks[g.operations[o].block] = f.blocks[f.operations[o].block]
    BY <1>2, <2>1
  <2> QED
    BY <2>2 DEF UpTo
<1>7. \A o \in DOMAIN f.operations \ DOMAIN g.operations :
        f.operations[o].regions \cap DOMAIN g.regions = {}
  BY <1>2, <1>4
<1>8. IsPart(f, g)
  <2>1. \A o \in DOMAIN g.operations : /\ g.operations[o].block = f.operations[o].block
                                       /\ g.operations[o].regions = f.operations[o].regions
                                       /\ UpTo(g, o) \subseteq UpTo(f, o)
    BY <1>2, <1>6
  <2>2. \A v \in DOMAIN g.values :
          /\ g.values[v].kind = f.values[v].kind
          /\ g.values[v].kind = "BlockParameter" => g.values[v].block = f.values[v].block
          /\ g.values[v].kind = "OperationResult" => g.values[v].operation = f.values[v].operation
    BY <1>2
  <2>3. /\ DOMAIN g.regions \subseteq DOMAIN f.regions /\ DOMAIN g.blocks \subseteq DOMAIN f.blocks
        /\ DOMAIN g.operations \subseteq DOMAIN f.operations /\ DOMAIN g.values \subseteq DOMAIN f.values
    BY <1>2
  <2>4. \A b \in DOMAIN g.blocks : g.blocks[b].region = f.blocks[b].region
    BY <1>2
  <2> QED
    BY <1>5, <1>7, <2>1, <2>2, <2>3, <2>4 DEF IsPart
<1>9. HasFewerEdges(f, g)
  <2>1. HasFewerSuccessors(f, g)
    BY <1>2 DEF HasFewerSuccessors
  <2> QED
    BY <2>1, SuccessorsAreFewer
<1>10. \A b \in DOMAIN g.blocks : ForwardedPositions(f, b) = {} => ForwardedPositions(g, b) = {}
  BY <1>2, SameParametersForwarded
<1>11. \A v \in DOMAIN g.values : ReadersOf(g, v) \subseteq ReadersOf(f, v)
  BY <1>2 DEF ReadersOf
<1> QED
  BY <1>8, <1>9, <1>10, <1>11 DEF g

\* So remove_blocks leaves SSA form.
LEMMA RemoveBlocksIsSsa ==
  ASSUME NEW f, IsFlow(f), IsSsa(f), NEW B, CanRemoveBlocks(f, B), IsFlow(RemoveBlocks(f, B))
  PROVE  IsSsa(RemoveBlocks(f, B))
<1> DEFINE g == RemoveBlocks(f, B)
<1>1. /\ IsPart(f, g) /\ HasFewerEdges(f, g)
      /\ \A b \in DOMAIN g.blocks : ForwardedPositions(f, b) = {} => ForwardedPositions(g, b) = {}
      /\ \A v \in DOMAIN g.values : ReadersOf(g, v) \subseteq ReadersOf(f, v)
  BY RemoveBlocksIsPart
<1>2. IsFlow(g)
  OBVIOUS
<1> HIDE DEF g
<1>3. IsSsa(g)
  BY <1>1, <1>2, PartIsSsa
<1> QED
  BY <1>3 DEF g

-----------------------------------------------------------------------------
(* SSA form: merge_block                                                   *)

\* g is f with the operations of b moved to its only predecessor p.
IsMerger(f, g, p, b) ==
  /\ IsSpliceOf(g, f, p, b) /\ p # b /\ {p, b} \subseteq DOMAIN f.blocks
  /\ f.blocks[p].region = f.blocks[b].region
  /\ f.blocks[p].terminator \in DOMAIN f.operations
  /\ f.operations[f.blocks[p].terminator].regions = {}
  /\ \A r \in DOMAIN f.regions : Entry(f, r) # b
  /\ \E e \in Edges(f) : Source(f, e) = p /\ Target(f, e) = b
  /\ \A e \in Edges(f) : Target(f, e) = b => Source(f, e) = p

\* What merge_block brings about first is of this kind: the check that nothing
\* refers to b once it is empty lets no other edge lead to it.
LEMMA SplicedIsMerger ==
  ASSUME NEW f, IsFlow(f), IsWired(f, {}, 0), NEW p, NEW b, CanMergeBlock(f, p, b),
         IsFlow(Spliced(f, p, b))
  PROVE  IsMerger(f, Spliced(f, p, b), p, b)
<1> DEFINE g == Spliced(f, p, b)
           j == f.blocks[p].terminator
<1>1. IsSpliceOf(g, f, p, b) /\ IsFlow(g)
  BY SplicedHolds DEF IsFlow
<1>2. /\ p # b /\ {p, b} \subseteq DOMAIN f.blocks /\ j # None
      /\ f.operations[j].kind = "Jump" /\ f.operations[j].targets[1].block = b
      /\ f.operations[j].regions = {}
      /\ f.blocks[p].region = f.blocks[b].region
      /\ CanRemoveBlocks(g, {b})
  BY DEF CanMergeBlock
<1>3. j \in DOMAIN f.operations /\ f.operations[j].block = p
  <2>1. BlockOperations(f, p) = {o \in DOMAIN f.operations : f.operations[o].block = p}
    BY <1>2 DEF IsFlow, IsOrderly, PlacesAreExact
  <2> QED
    BY <1>2, <2>1 DEF BlockOperations
<1> HIDE DEF g
<1>4. OperationsOf(g, {b}) = {}
  <2>1. g.blocks[b].contents = <<>> /\ g.blocks[b].terminator = None
    BY <1>1 DEF IsSpliceOf
  <2>2. BlockOperations(g, b) = {}
    BY <2>1 DEF BlockOperations, ToSet
  <2> QED
    BY <2>2 DEF OperationsOf
<1>5. WithNested(g, {b}) = {b}
  <2>1. RegionsOf(g, OperationsOf(g, {b})) = {}
    BY <1>4 DEF RegionsOf
  <2>2. WithNested(g, {b}) \subseteq {b}
    <3> DEFINE B == {b}
    <3>1. \A r \in RegionsOf(g, OperationsOf(g, B)) : ToSet(g.regions[r]) \subseteq B
      BY <2>1
    <3> HIDE DEF B
    <3>2. WithNested(g, B) \subseteq B
      BY <1>1, <3>1, NestedIsLeast
    <3> QED
      BY <3>2 DEF B
  <2>3. {b} \subseteq WithNested(g, {b})
    <3>1. {b} \subseteq DOMAIN g.blocks
      BY <1>1, <1>2 DEF IsSpliceOf
    <3> DEFINE B == {b}
    <3>2. B \subseteq DOMAIN g.blocks
      BY <3>1
    <3> HIDE DEF B
    <3>3. B \subseteq WithNested(g, B)
      BY <1>1, <3>2, NestedIsClosed DEF IsFlow
    <3> QED
      BY <3>3 DEF B
  <2> QED
    BY <2>2, <2>3
<1>6. /\ \A o \in DOMAIN g.operations : \A i \in DOMAIN g.operations[o].targets :
           g.operations[o].targets[i].block # b
      /\ \A r \in DOMAIN g.regions : Entry(g, r) # b
  <2>1. RegionsOf(g, {}) = {}
    BY DEF RegionsOf
  <2>2. /\ \A r \in DOMAIN g.regions \ {} : Entry(g, r) \notin {b}
        /\ NothingRefersTo(g, {b}, {}, {})
    BY <1>2, <1>4, <1>5, <2>1 DEF CanRemoveBlocks
  <2> QED
    BY <2>2 DEF NothingRefersTo
<1>7. \A r \in DOMAIN f.regions : Entry(f, r) # b
  BY <1>1, <1>6 DEF IsSpliceOf, Entry
<1>8. \A e \in Edges(f) : e[1] \in DOMAIN f.operations /\ e[2] \in DOMAIN f.operations[e[1]].targets
  BY DEF Edges, EdgesOf
<1>9. \A e \in Edges(f) : Target(f, e) = b => Source(f, e) = p
  <2> TAKE e \in Edges(f)
  <2> HAVE Target(f, e) = b
  <2>1. CASE e[1] = j
    BY <1>3, <2>1 DEF Source
  <2>2. CASE e[1] # j
    <3>1. /\ e[1] \in DOMAIN g.operations
          /\ g.operations[e[1]].targets = f.operations[e[1]].targets
      BY <1>1, <1>8, <2>2 DEF IsSpliceOf
    <3>2. f.operations[e[1]].targets[e[2]].block # b
      BY <1>6, <1>8, <3>1
    <3> QED
      BY <3>2 DEF Target
  <2> QED
    BY <2>1, <2>2
<1>10. \E e \in Edges(f) : Source(f, e) = p /\ Target(f, e) = b
  <2>1. 1 \in DOMAIN f.operations[j].targets
    <3>1. Len(f.operations[j].targets) = 1
      BY <1>2, <1>3 DEF IsFlow, IsAnalysable
    <3>2. f.operations[j].targets \in Seq(ToSet(f.operations[j].targets))
      BY <1>3 DEF IsWired, IsWiredAt, CountsArguments
    <3> QED
      BY <3>1, <3>2
  <2>2. <<j, 1>> \in Edges(f)
    BY <1>3, <2>1 DEF Edges, EdgesOf
  <2> QED
    BY <1>2, <1>3, <2>2 DEF Source, Target
<1> QED
  BY <1>1, <1>2, <1>3, <1>7, <1>9, <1>10 DEF IsMerger, g

\* Paths of the function that is left are paths of the one that was.
LEMMA JoinPaths ==
  ASSUME NEW f, NEW g, IsFlow(f), IsFlow(g), NEW p, NEW b, IsMerger(f, g, p, b),
         NEW r \in DOMAIN f.regions, NEW A, b \notin A
  PROVE  /\ ReachableAvoiding(g, r, A) \subseteq ReachableAvoiding(f, r, A)
         /\ p \in ReachableAvoiding(f, r, A) => b \in ReachableAvoiding(f, r, A)
<1> DEFINE C == ReachableAvoiding(f, r, A)
           L == ReachableAvoiding(g, r, A)
           j == f.blocks[p].terminator
<1>1. IsGraph(f) /\ IsGraph(g) /\ r \in DOMAIN g.regions /\ Entry(g, r) = Entry(f, r)
  BY FlowIsGraph DEF IsMerger, IsSpliceOf, Entry
<1>2. /\ Entry(f, r) \notin A => Entry(f, r) \in C
      /\ \A e \in Edges(f) : Source(f, e) \in C /\ Target(f, e) \notin A => Target(f, e) \in C
  BY <1>1, AvoidingIsClosed
<1>3. L \subseteq ToSet(g.regions[r]) \ A
  BY <1>1, AvoidingIsClosed
<1> HIDE DEF C
<1>4. p \in C => b \in C
  BY <1>2 DEF IsMerger
<1>5. ASSUME NEW e \in Edges(g)
      PROVE  /\ e \in Edges(f) /\ Target(g, e) = Target(f, e)
             /\ Source(g, e) = Source(f, e) \/ (Source(g, e) = p /\ Source(f, e) = b)
  <2>1. PICK o \in DOMAIN g.operations : e \in EdgesOf(g, o)
    BY DEF Edges
  <2>2. PICK i \in DOMAIN g.operations[o].targets : e = <<o, i>>
    BY <2>1 DEF EdgesOf
  <2>3. /\ o \in DOMAIN f.operations /\ g.operations[o].targets = f.operations[o].targets
        /\ g.operations[o].block = IF o \in BlockOperations(f, b) THEN p ELSE f.operations[o].block
    BY DEF IsMerger, IsSpliceOf
  <2>4. o \in BlockOperations(f, b) => f.operations[o].block = b
    BY DEF IsMerger, IsFlow, IsOrderly, PlacesAreExact
  <2>5. e[1] = o /\ e[2] = i
    BY <2>2
  <2>6. e \in Edges(f)
    BY <2>2, <2>3 DEF Edges, EdgesOf
  <2>7. /\ Source(g, e) = g.operations[o].block /\ Source(f, e) = f.operations[o].block
        /\ Target(g, e) = g.operations[o].targets[i].block
        /\ Target(f, e) = f.operations[o].targets[i].block
    BY <2>5 DEF Source, Target
  <2>8. Target(g, e) = Target(f, e)
    BY <2>3, <2>7
  <2>9. Source(g, e) = Source(f, e) \/ (Source(g, e) = p /\ Source(f, e) = b)
    <3>1. CASE o \in BlockOperations(f, b)
      <4>1. g.operations[o].block = p /\ f.operations[o].block = b
        BY <2>3, <2>4, <3>1
      <4> QED
        BY <2>7, <4>1
    <3>2. CASE o \notin BlockOperations(f, b)
      <4>1. g.operations[o].block = f.operations[o].block
        BY <2>3, <3>2
      <4>2. Source(g, e) = g.operations[o].block /\ Source(f, e) = f.operations[o].block
        BY <2>7
      <4>3. Source(g, e) = Source(f, e)
        BY <4>1, <4>2, Zenon
      <4> QED
        BY <4>3
    <3> QED
      BY <3>1, <3>2
  <2> QED
    BY <2>6, <2>8, <2>9
<1>6. \A e \in Edges(g) : Source(g, e) \in C \cap L /\ Target(g, e) \in L => Target(g, e) \in C
  BY <1>2, <1>3, <1>4, <1>5
<1>7. Entry(g, r) \notin A => Entry(g, r) \in C
  BY <1>1, <1>2
<1>8. L \subseteq C
  BY <1>1, <1>6, <1>7, AvoidingIsLeast
<1> QED
  BY <1>4, <1>8 DEF C

\* So what runs is what ran.
LEMMA JoinRuns ==
  ASSUME NEW f, NEW g, IsFlow(f), IsFlow(g), NEW p, NEW b, IsMerger(f, g, p, b),
         NEW r \in DOMAIN f.regions, NEW A, b \notin A
  PROVE  RunsIn(g, r, A) \subseteq RunsIn(f, r, A)
<1>1. r \in DOMAIN g.regions
  BY DEF IsMerger, IsSpliceOf
<1>2. RunsIn(g, r, A) = {o \in DOMAIN g.operations : g.operations[o].block \in ReachableAvoiding(g, r, A)}
  BY <1>1, RunsInHolds
<1>3. RunsIn(f, r, A) = {o \in DOMAIN f.operations : f.operations[o].block \in ReachableAvoiding(f, r, A)}
  BY RunsInHolds
<1>4. /\ ReachableAvoiding(g, r, A) \subseteq ReachableAvoiding(f, r, A)
      /\ p \in ReachableAvoiding(f, r, A) => b \in ReachableAvoiding(f, r, A)
  BY JoinPaths
<1>5. ASSUME NEW o \in DOMAIN g.operations
      PROVE  /\ o \in DOMAIN f.operations
             /\ \/ g.operations[o].block = f.operations[o].block
                \/ g.operations[o].block = p /\ f.operations[o].block = b
  <2>1. /\ o \in DOMAIN f.operations
        /\ g.operations[o].block = IF o \in BlockOperations(f, b) THEN p ELSE f.operations[o].block
    BY DEF IsMerger, IsSpliceOf
  <2>2. o \in BlockOperations(f, b) => f.operations[o].block = b
    BY DEF IsMerger, IsFlow, IsOrderly, PlacesAreExact
  <2> QED
    BY <2>1, <2>2
<1> QED
  BY <1>2, <1>3, <1>4, <1>5

\* What is inside a region stays inside it.
LEMMA JoinKeepsInside ==
  ASSUME NEW f, NEW g, IsFlow(f), IsFlow(g), NEW p, NEW b, IsMerger(f, g, p, b),
         NEW r \in DOMAIN f.regions
  PROVE  Inside(f, r) \subseteq Inside(g, r) /\ (b \in Inside(g, r) => p \in Inside(g, r))
<1> DEFINE C == Inside(g, r)
           B == ToSet(f.regions[r])
           j == f.blocks[p].terminator
<1>1. r \in DOMAIN g.regions /\ g.regions = f.regions /\ DOMAIN g.blocks = DOMAIN f.blocks
  BY DEF IsMerger, IsSpliceOf
<1>2. /\ ToSet(g.regions[r]) \subseteq C /\ C \subseteq DOMAIN g.blocks
      /\ \A o \in DOMAIN g.operations : g.operations[o].block \in C =>
           \A s \in g.operations[o].regions : ToSet(g.regions[s]) \subseteq C
  BY <1>1, InsideHolds
<1>3. b \in C => p \in C
  <2> HAVE b \in C
  <2>1. ToSet(g.regions[g.blocks[b].region]) \subseteq Inside(g, r)
    BY <1>1, WholeRegions
  <2>2. g.blocks[p].region = g.blocks[b].region /\ p \in DOMAIN g.blocks
    BY DEF IsMerger, IsSpliceOf
  <2>3. p \in ToSet(g.regions[g.blocks[p].region])
    BY <2>2 DEF IsFlow, IsOrderly, PlacesAreExact
  <2> QED
    BY <2>1, <2>2, <2>3
<1> HIDE DEF C
<1>4. ASSUME NEW o \in DOMAIN f.operations, f.operations[o].block \in C,
             NEW s \in f.operations[o].regions
      PROVE  ToSet(f.regions[s]) \subseteq C
  <2>1. o # j
    BY <1>4 DEF IsMerger
  <2>2. /\ o \in DOMAIN g.operations /\ g.operations[o].regions = f.operations[o].regions
        /\ g.operations[o].block = IF o \in BlockOperations(f, b) THEN p ELSE f.operations[o].block
    BY <2>1 DEF IsMerger, IsSpliceOf
  <2>3. o \in BlockOperations(f, b) => f.operations[o].block = b
    BY DEF IsMerger, IsFlow, IsOrderly, PlacesAreExact
  <2>4. g.operations[o].block \in C
    BY <1>3, <1>4, <2>2, <2>3
  <2> QED
    BY <1>1, <1>2, <1>4, <2>2, <2>4
<1>5. OperationsOf(f, C) = {o \in DOMAIN f.operations : f.operations[o].block \in C}
  BY <1>1, <1>2, OperationsPlaced
<1>6. \A s \in RegionsOf(f, OperationsOf(f, C)) : ToSet(f.regions[s]) \subseteq C
  BY <1>4, <1>5 DEF RegionsOf
<1>7. B \subseteq C
  BY <1>1, <1>2
<1> HIDE DEF B
<1>8. WithNested(f, B) \subseteq C
  BY <1>6, <1>7, NestedIsLeast
<1> QED
  BY <1>3, <1>8 DEF Inside, B, C

\* In the longer block nothing has come in front of what was in it, and what was
\* in front of an operation of b is in front of it still, behind all of p.
LEMMA JoinAhead ==
  ASSUME NEW f, NEW g, IsFlow(f), IsFlow(g), NEW p, NEW b, IsMerger(f, g, p, b),
         NEW o \in DOMAIN g.operations, NEW c, f.operations[o].block = c,
         o \in ToSet(f.blocks[c].contents)
  PROVE  IF c = b THEN UpTo(g, o) \subseteq ToSet(f.blocks[p].contents) \cup UpTo(f, o)
                  ELSE UpTo(g, o) \subseteq UpTo(f, o)
<1> DEFINE s == f.blocks[p].contents
           t == f.blocks[b].contents
           u == g.blocks[p].contents
           m == Len(s)
           n == Len(t)
<1>1. /\ u = s \o t /\ {p, b} \subseteq DOMAIN f.blocks /\ p # b /\ DOMAIN g.blocks = DOMAIN f.blocks
      /\ g.operations[o].block = IF o \in BlockOperations(f, b) THEN p ELSE f.operations[o].block
      /\ \A d \in DOMAIN f.blocks \ {p, b} : g.blocks[d] = f.blocks[d]
  BY DEF IsMerger, IsSpliceOf
<1>2. o \in DOMAIN f.operations
  BY DEF IsMerger, IsSpliceOf
<1>3. o \in BlockOperations(f, b) <=> c = b
  BY <1>1, <1>2 DEF IsFlow, IsOrderly, PlacesAreExact
<1>4. s \in Seq(DOMAIN f.operations) /\ t \in Seq(DOMAIN f.operations)
  BY <1>1 DEF IsFlow, IsOrderly, IsLaidOut
<1>5. /\ m \in Nat /\ n \in Nat /\ DOMAIN s = 1..m /\ DOMAIN t = 1..n /\ DOMAIN u = 1..(m + n)
      /\ \A i \in 1..(m + n) : u[i] = IF i <= m THEN s[i] ELSE t[i - m]
  <2> HIDE DEF s, t, u
  <2> QED
    BY <1>1, <1>4, ConcatProperties, LenProperties DEF m, n
<1>6. IsInjective(u)
  BY <1>1 DEF IsFlow, IsAnalysable
<1>7. UpTo(f, o) = LET x == f.blocks[c].contents
                   IN  {x[i] : i \in {k \in DOMAIN x : \E l \in DOMAIN x : x[l] = o /\ k <= l}}
  BY DEF UpTo
<1>8. UpTo(g, o) = LET x == g.blocks[g.operations[o].block].contents
                   IN  {x[i] : i \in {k \in DOMAIN x : \E l \in DOMAIN x : x[l] = o /\ k <= l}}
  BY DEF UpTo
<1>9. CASE c = b
  <2>1. g.operations[o].block = p
    BY <1>1, <1>3, <1>9
  <2>2. UpTo(g, o) = {u[i] : i \in {k \in DOMAIN u : \E l \in DOMAIN u : u[l] = o /\ k <= l}}
    BY <1>8, <2>1
  <2>3. UpTo(f, o) = {t[i] : i \in {k \in DOMAIN t : \E l \in DOMAIN t : t[l] = o /\ k <= l}}
    BY <1>7, <1>9
  <2>4. ToSet(s) = {s[i] : i \in DOMAIN s}
    BY DEF ToSet
  <2> HIDE DEF s, t, u, m, n
  <2>5. ASSUME NEW k \in 1..(m + n), NEW l \in 1..(m + n), u[l] = o, k <= l
        PROVE  u[k] \in ToSet(s) \cup UpTo(f, o)
    <3>1. CASE k <= m
      <4>1. u[k] = s[k] /\ k \in DOMAIN s
        BY <1>5, <3>1
      <4> QED
        BY <2>4, <4>1
    <3>2. CASE ~ k <= m
      <4>1. /\ u[k] = t[k - m] /\ k - m \in 1..n /\ u[l] = t[l - m] /\ l - m \in 1..n
            /\ k - m <= l - m
        BY <1>5, <2>5, <3>2
      <4> QED
        BY <1>5, <2>3, <2>5, <4>1
    <3> QED
      BY <3>1, <3>2
  <2>6. UpTo(g, o) \subseteq ToSet(s) \cup UpTo(f, o)
    BY <1>5, <2>2, <2>5
  <2> QED
    BY <1>9, <2>6 DEF s
<1>10. CASE c = p
  <2>1. g.operations[o].block = p /\ c # b
    BY <1>1, <1>3, <1>10
  <2>2. UpTo(g, o) = {u[i] : i \in {k \in DOMAIN u : \E l \in DOMAIN u : u[l] = o /\ k <= l}}
    BY <1>8, <2>1
  <2>3. UpTo(f, o) = {s[i] : i \in {k \in DOMAIN s : \E l \in DOMAIN s : s[l] = o /\ k <= l}}
    BY <1>7, <1>10
  <2>4. PICK y \in DOMAIN s : s[y] = o
    BY <1>10 DEF ToSet
  <2> HIDE DEF s, t, u, m, n
  <2>5. y \in 1..m /\ y \in 1..(m + n) /\ u[y] = o
    BY <1>5, <2>4
  <2>6. ASSUME NEW k \in 1..(m + n), NEW l \in 1..(m + n), u[l] = o, k <= l
        PROVE  u[k] \in UpTo(f, o)
    <3>1. l = y
      BY <1>5, <1>6, <2>5, <2>6 DEF IsInjective
    <3>2. k \in 1..m /\ u[k] = s[k] /\ k <= y
      BY <1>5, <2>5, <2>6, <3>1
    <3> QED
      BY <1>5, <2>3, <2>4, <3>2
  <2>7. UpTo(g, o) \subseteq UpTo(f, o)
    BY <1>5, <2>2, <2>6
  <2> QED
    BY <2>1, <2>7
<1>11. CASE c \notin {p, b}
  <2>1. g.operations[o].block = c
    BY <1>1, <1>3, <1>11
  <2>2. c \in DOMAIN f.blocks
    BY <1>2 DEF IsFlow, IsOrderly, PlacesAreExact
  <2>3. g.blocks[c] = f.blocks[c]
    BY <1>1, <1>11, <2>2
  <2>4. UpTo(g, o) = UpTo(f, o)
    BY <2>1, <2>3 DEF UpTo
  <2> QED
    BY <1>11, <2>4
<1> QED
  BY <1>9, <1>10, <1>11

\* Of the values computed outside the parameters of b, none comes later.
LEMMA JoinNotYet ==
  ASSUME NEW f, NEW g, IsFlow(f), IsFlow(g), NEW p, NEW b, IsMerger(f, g, p, b),
         NEW v, IsComputed(g, v), f.values[v].kind = "BlockParameter" => f.values[v].block # b
  PROVE  IsComputed(f, v) /\ RegionOf(g, v) = RegionOf(f, v) /\ NotYet(g, v) \subseteq NotYet(f, v)
<1> DEFINE d == DefiningBlock(f, v)
           r == RegionOf(f, v)
           o == f.values[v].operation
<1>1. /\ g.values = f.values /\ g.regions = f.regions /\ DOMAIN g.blocks = DOMAIN f.blocks
      /\ {p, b} \subseteq DOMAIN f.blocks /\ p # b /\ f.blocks[p].region = f.blocks[b].region
      /\ \A e \in DOMAIN f.blocks : g.blocks[e].region = f.blocks[e].region
  BY DEF IsMerger, IsSpliceOf
<1>2. IsComputed(f, v)
  BY <1>1 DEF IsComputed
<1>3. /\ f.values[v].kind \in {"BlockParameter", "OperationResult"}
      /\ d \in DOMAIN f.blocks /\ r \in DOMAIN f.regions
      /\ f.values[v].kind = "OperationResult" =>
           /\ o \in DOMAIN f.operations /\ f.operations[o].block = d
           /\ o \in ToSet(f.blocks[d].contents)
  BY <1>2, ComputedSomewhere
<1>4. r = f.blocks[d].region
  BY DEF RegionOf
<1>5. DefiningBlock(g, v) \in DOMAIN g.blocks
  BY ComputedSomewhere
<1>6. NotYet(f, v) = RunsIn(f, r, {d}) \cup AheadInBlock(f, v)
  BY DEF NotYet
<1>7. NotYet(g, v) = RunsIn(g, RegionOf(g, v), {DefiningBlock(g, v)}) \cup AheadInBlock(g, v)
  BY DEF NotYet
<1>8. AheadInBlock(f, v) = IF f.values[v].kind = "OperationResult" /\ d \in Reachable(f, r)
                           THEN UpTo(f, o) ELSE {}
  BY DEF AheadInBlock
<1>9. RegionOf(g, v) = f.blocks[DefiningBlock(g, v)].region
  BY <1>1, <1>5 DEF RegionOf
<1>10. AheadInBlock(g, v) = IF /\ f.values[v].kind = "OperationResult"
                               /\ DefiningBlock(g, v) \in Reachable(g, RegionOf(g, v))
                            THEN UpTo(g, o) ELSE {}
  BY <1>1 DEF AheadInBlock
<1>11. f.values[v].kind = "OperationResult" =>
         /\ o \in DOMAIN g.operations /\ g.operations[o].block = DefiningBlock(g, v)
         /\ g.operations[o].block = IF o \in BlockOperations(f, b) THEN p ELSE d
  <2> HAVE f.values[v].kind = "OperationResult"
  <2>1. o \in DOMAIN g.operations /\ g.operations[o].block = DefiningBlock(g, v)
    BY <1>1, ComputedSomewhere
  <2> QED
    BY <1>3, <2>1 DEF IsMerger, IsSpliceOf
<1>12. o \in DOMAIN f.operations /\ o \in BlockOperations(f, b) => f.operations[o].block = b
  BY <1>1 DEF IsFlow, IsOrderly, PlacesAreExact
<1>13. o \in DOMAIN f.operations /\ f.operations[o].block = b => o \in BlockOperations(f, b)
  BY <1>1 DEF IsFlow, IsOrderly, PlacesAreExact
<1>14. f.values[v].kind = "BlockParameter" => DefiningBlock(g, v) = d /\ d # b
  BY <1>1 DEF DefiningBlock
<1>15. Reachable(g, r) \subseteq Reachable(f, r)
  BY <1>3, JoinPaths DEF Reachable
<1>16. f.values[v].kind = "OperationResult" /\ d # b => UpTo(g, o) \subseteq UpTo(f, o)
  BY <1>3, <1>11, JoinAhead
<1>17. f.values[v].kind = "OperationResult" /\ d = b =>
         UpTo(g, o) \subseteq ToSet(f.blocks[p].contents) \cup UpTo(f, o)
  BY <1>3, <1>11, JoinAhead
<1>18. b # d => RunsIn(g, r, {d}) \subseteq RunsIn(f, r, {d})
  BY <1>3, JoinRuns
<1>19. RunsIn(g, r, {p}) \subseteq RunsIn(f, r, {p})
  BY <1>1, <1>3, JoinRuns
<1>20. CASE d # b
  <2>1. DefiningBlock(g, v) = d
    BY <1>3, <1>11, <1>12, <1>14, <1>20
  <2>2. RegionOf(g, v) = r
    BY <1>4, <1>9, <2>1
  <2> HIDE DEF d, r, o
  <2>3. AheadInBlock(g, v) \subseteq AheadInBlock(f, v)
    BY <1>8, <1>10, <1>15, <1>16, <1>20, <2>1, <2>2
  <2>4. NotYet(g, v) \subseteq NotYet(f, v)
    BY <1>6, <1>7, <1>18, <1>20, <2>1, <2>2, <2>3
  <2> QED
    BY <1>2, <2>2, <2>4 DEF r
<1>21. CASE d = b
  <2>1. f.values[v].kind = "OperationResult"
    BY <1>3, <1>14, <1>21
  <2>2. DefiningBlock(g, v) = p
    BY <1>3, <1>11, <1>13, <1>21, <2>1
  <2>3. RegionOf(g, v) = r
    BY <1>1, <1>4, <1>9, <1>21, <2>2
  <2>4. IsGraph(f) /\ b # Entry(f, r)
    BY <1>3, FlowIsGraph DEF IsMerger
  <2>5. b \notin ReachableAvoiding(f, r, {p})
    <3> SUFFICES ASSUME b \in ReachableAvoiding(f, r, {p}) PROVE FALSE
      OBVIOUS
    <3>1. PICK e \in Edges(f) : Target(f, e) = b /\ Source(f, e) \in ReachableAvoiding(f, r, {p})
      BY <1>3, <2>4, FirstArrival
    <3>2. Source(f, e) = p
      BY <3>1 DEF IsMerger
    <3>3. ReachableAvoiding(f, r, {p}) \subseteq ToSet(f.regions[r]) \ {p}
      BY <1>3, <2>4, AvoidingIsClosed
    <3> QED
      BY <3>1, <3>2, <3>3
  <2>6. /\ ReachableAvoiding(f, r, {p}) \subseteq ReachableAvoiding(f, r, {b})
        /\ p \in Reachable(f, r) /\ p # b => p \in ReachableAvoiding(f, r, {b})
    BY <1>3, <2>4, <2>5, AvoidingMore
  <2>7. RunsIn(f, r, {b}) = {q \in DOMAIN f.operations : f.operations[q].block \in ReachableAvoiding(f, r, {b})}
    BY <1>3, RunsInHolds
  <2>8. RunsIn(f, r, {p}) = {q \in DOMAIN f.operations : f.operations[q].block \in ReachableAvoiding(f, r, {p})}
    BY <1>3, RunsInHolds
  <2>9. RunsIn(g, r, {p}) \subseteq RunsIn(f, r, {b})
    BY <1>19, <2>6, <2>7, <2>8
  <2>10. p \in Reachable(f, r) => ToSet(f.blocks[p].contents) \subseteq RunsIn(f, r, {b}) /\ b \in Reachable(f, r)
    <3>1. \A q \in ToSet(f.blocks[p].contents) : q \in DOMAIN f.operations /\ f.operations[q].block = p
      BY <1>1 DEF IsFlow, IsOrderly, PlacesAreExact, BlockOperations
    <3>2. p \in Reachable(f, r) => b \in Reachable(f, r)
      BY <1>3, JoinPaths DEF Reachable
    <3> QED
      BY <1>1, <2>6, <2>7, <3>1, <3>2
  <2> HIDE DEF d, r, o
  <2>11. AheadInBlock(g, v) \subseteq RunsIn(f, r, {b}) \cup AheadInBlock(f, v)
    BY <1>8, <1>10, <1>15, <1>17, <1>21, <2>1, <2>2, <2>3, <2>10
  <2>12. NotYet(g, v) \subseteq NotYet(f, v)
    BY <1>6, <1>7, <1>21, <2>2, <2>3, <2>9, <2>11
  <2> QED
    BY <1>2, <2>3, <2>12 DEF r
<1> QED
  BY <1>20, <1>21

\* So what could be read still can be, but for the parameters of b.
LEMMA JoinKeepsAvailable ==
  ASSUME NEW f, NEW g, IsFlow(f), IsFlow(g), NEW p, NEW b, IsMerger(f, g, p, b),
         NEW v \in DOMAIN f.values, f.values[v].kind = "BlockParameter" => f.values[v].block # b,
         NEW o \in DOMAIN g.operations, IsAvailableAt(f, v, o)
  PROVE  IsAvailableAt(g, v, o)
<1> DEFINE r == RegionOf(f, v)
<1>1. /\ g.values = f.values /\ g.regions = f.regions
      /\ DOMAIN g.operations \subseteq DOMAIN f.operations
      /\ \A q \in DOMAIN g.operations :
           /\ g.operations[q].regions = f.operations[q].regions
           /\ g.operations[q].block = IF q \in BlockOperations(f, b) THEN p ELSE f.operations[q].block
  BY DEF IsMerger, IsSpliceOf
<1> SUFFICES ASSUME f.values[v].kind # "FunctionParameter"
             PROVE  g.operations[o].block \in Scope(g, v) /\ o \notin RunsWithout(g, v)
  BY <1>1 DEF IsAvailableAt
<1>2. IsComputed(g, v)
  BY <1>1 DEF IsComputed
<1>3. IsComputed(f, v) /\ RegionOf(g, v) = r /\ NotYet(g, v) \subseteq NotYet(f, v)
  BY <1>2, JoinNotYet
<1>4. r \in DOMAIN f.regions
  BY <1>3, ComputedSomewhere
<1>5. f.operations[o].block \in Inside(f, r) /\ o \notin RunsWithout(f, v)
  BY DEF IsAvailableAt, Scope, Inside
<1>6. Scope(g, v) = Inside(g, r)
  BY <1>1, <1>3 DEF Scope, Inside
<1>7. Inside(f, r) \subseteq Inside(g, r) /\ (b \in Inside(g, r) => p \in Inside(g, r))
  BY <1>4, JoinKeepsInside
<1>8. o \in BlockOperations(f, b) => f.operations[o].block = b
  BY DEF IsMerger, IsFlow, IsOrderly, PlacesAreExact
<1>9. g.operations[o].block \in Scope(g, v)
  <2>1. CASE o \in BlockOperations(f, b)
    BY <1>1, <1>5, <1>6, <1>7, <1>8, <2>1
  <2>2. CASE o \notin BlockOperations(f, b)
    BY <1>1, <1>5, <1>6, <1>7, <2>2
  <2> QED
    BY <2>1, <2>2
<1>10. RunsWithout(g, v) = Running(g, NotYet(g, v)) /\ NotYet(g, v) \in SUBSET DOMAIN g.operations
  BY <1>2, NotYetHolds
<1>11. RunsWithout(f, v) = Running(f, NotYet(f, v)) /\ NotYet(f, v) \in SUBSET DOMAIN f.operations
  BY <1>3, NotYetHolds
<1>12. \A s \in DOMAIN g.regions : RunsIn(g, s, {}) \subseteq RunsIn(f, s, {})
  BY <1>1, JoinRuns
<1>13. Running(g, NotYet(g, v)) \subseteq Running(f, NotYet(f, v))
  BY <1>1, <1>3, <1>10, <1>11, <1>12, RunningShrinks
<1> QED
  BY <1>5, <1>9, <1>10, <1>11, <1>13

\* The first half of merge_block leaves SSA form: it asserts that nothing reads
\* the parameters of b.
LEMMA SplicedIsSsa ==
  ASSUME NEW f, NEW g, IsExact(f), IsFlow(f), IsSsa(f), IsFlow(g), NEW p, NEW b,
         IsMerger(f, g, p, b), \A v \in ParameterValues(f, b) : v \in DOMAIN f.uses /\ f.uses[v] = {}
  PROVE  IsSsa(g)
<1>1. /\ g.values = f.values /\ g.regions = f.regions /\ DOMAIN g.blocks = DOMAIN f.blocks
      /\ DOMAIN g.operations \subseteq DOMAIN f.operations
      /\ \A q \in DOMAIN g.operations : /\ g.operations[q].regions = f.operations[q].regions
                                       /\ g.operations[q].operands = f.operations[q].operands
      /\ \A d \in DOMAIN f.blocks : g.blocks[d].parameters = f.blocks[d].parameters
  BY DEF IsMerger, IsSpliceOf
<1>2. ASSUME NEW v \in DOMAIN g.values, NEW o \in ReadersOf(g, v)
      PROVE  IsAvailableAt(g, v, o)
  <2>1. o \in DOMAIN g.operations /\ o \in ReadersOf(f, v) /\ v \in DOMAIN f.values
    BY <1>1 DEF ReadersOf
  <2>2. IsAvailableAt(f, v, o)
    BY <2>1 DEF IsSsa, ReadsAreAvailable
  <2>3. f.values[v].kind = "BlockParameter" => f.values[v].block # b
    <3> SUFFICES ASSUME f.values[v].kind = "BlockParameter", f.values[v].block = b
                 PROVE  FALSE
      OBVIOUS
    <3>1. v \in ParameterValues(f, b)
      <4>1. IsWhereDefined(f, v)
        BY <2>1 DEF IsFlow, IsOrderly, DefinitionsAreExact
      <4>2. PICK k \in DOMAIN f.blocks[b].parameters : f.blocks[b].parameters[k].value = v
        BY <4>1, Zenon DEF IsWhereDefined
      <4> QED
        BY <4>2 DEF ParameterValues
    <3>2. f.uses[v] = {}
      BY <3>1
    <3>3. o \in DOMAIN f.operations /\ v \in ToSet(f.operations[o].operands)
      BY <2>1 DEF ReadersOf
    <3>4. PICK i \in DOMAIN f.operations[o].operands : f.operations[o].operands[i] = v
      BY <3>3 DEF ToSet
    <3>5. <<o, i>> \in f.uses[v]
      BY <2>1, <3>3, <3>4 DEF IsExact, UsesAreExact
    <3> QED
      BY <3>2, <3>5
  <2> QED
    BY <2>1, <2>2, <2>3, JoinKeepsAvailable
<1>3. RegionsHaveOneOwner(g)
  BY <1>1 DEF IsSsa, RegionsHaveOneOwner
<1>4. EntriesTakeNothing(g)
  <2>1. \A r \in DOMAIN f.regions : Entry(f, r) \in DOMAIN f.blocks /\ Entry(g, r) = Entry(f, r)
    <3> TAKE r \in DOMAIN f.regions
    <3>1. IsGraph(f)
      BY FlowIsGraph
    <3>2. Entry(f, r) \in ToSet(f.regions[r])
      BY <3>1, EntryIsListed
    <3>3. ToSet(f.regions[r]) \subseteq DOMAIN f.blocks
      BY DEF IsFlow, IsOrderly, PlacesAreExact
    <3> QED
      BY <1>1, <3>2, <3>3 DEF Entry
  <2>2. \A d \in DOMAIN f.blocks : ForwardedPositions(g, d) = ForwardedPositions(f, d)
    BY <1>1 DEF ForwardedPositions
  <2> QED
    BY <1>1, <2>1, <2>2 DEF IsSsa, EntriesTakeNothing
<1> QED
  BY <1>2, <1>3, <1>4 DEF IsSsa, ReadsAreAvailable

\* So merge_block leaves SSA form.
LEMMA MergeBlockIsSsa ==
  ASSUME NEW f, IsExact(f), IsFlow(f), IsWired(f, {}, 0), IsSsa(f), NEW p, NEW b,
         CanMergeBlock(f, p, b), IsFlow(MergeBlock(f, p, b))
  PROVE  IsSsa(MergeBlock(f, p, b))
<1> DEFINE g == Spliced(f, p, b)
<1>1. IsFlow(g)
  <2>1. IsOrderly(g) /\ IsAnalysable(g) /\ IsWired(g, {}, 0)
    BY SplicedIsOrderly, SplicedIsAnalysable, SplicedIsWired DEF IsFlow
  <2> HIDE DEF g
  <2> QED
    BY <2>1, WiredIsFlow
<1>2. IsMerger(f, g, p, b)
  BY <1>1, SplicedIsMerger
<1>3. \A v \in ParameterValues(f, b) : v \in DOMAIN f.uses /\ f.uses[v] = {}
  BY DEF CanMergeBlock
<1>4. CanRemoveBlocks(g, {b}) /\ MergeBlock(f, p, b) = RemoveBlocks(g, {b})
  BY DEF CanMergeBlock, MergeBlock
<1> HIDE DEF g
<1>5. IsSsa(g)
  BY <1>1, <1>2, <1>3, SplicedIsSsa
<1>6. IsFlow(RemoveBlocks(g, {b}))
  BY <1>4
<1> DEFINE B == {b}
<1>7. CanRemoveBlocks(g, B) /\ IsFlow(RemoveBlocks(g, B)) /\ MergeBlock(f, p, b) = RemoveBlocks(g, B)
  BY <1>4, <1>6
<1> HIDE DEF B
<1>8. IsSsa(RemoveBlocks(g, B))
  BY <1>1, <1>5, <1>7, RemoveBlocksIsSsa
<1> QED
  BY <1>7, <1>8

-----------------------------------------------------------------------------
(* SSA form: the calls that jump over a forwarding block                   *)

\* What a call to replace a successor relies on when a forwarding block b is
\* jumped over: the edge leads to b, or already to where b leads, nothing but the
\* jump of b reads the parameters of b, and the arguments can be read.
IsThreading(f, b, call) ==
  LET j == f.blocks[b].terminator
  IN  /\ b \in DOMAIN f.blocks /\ f.blocks[b].contents = <<>>
      /\ j \in DOMAIN f.operations /\ f.operations[j].block = b /\ <<j, 1>> \in Edges(f)
      /\ Target(f, <<j, 1>>) = call.target /\ call.target # b /\ call.operation # j
      /\ <<call.operation, call.successor>> \in Edges(f)
      /\ Target(f, <<call.operation, call.successor>>) \in {b, call.target}
      /\ \A v \in ParameterValues(f, b) : ReadersOf(f, v) \subseteq {j}
      /\ \A w \in ToSet(call.arguments) : /\ w \in DOMAIN f.values \ ParameterValues(f, b)
                                          /\ IsAvailableAt(f, w, call.operation)

\* What the call changes.
IsRedirection(f, g, o, i, target, new) ==
  /\ g.regions = f.regions /\ g.blocks = f.blocks /\ g.values = f.values
  /\ DOMAIN g.operations = DOMAIN f.operations /\ o \in DOMAIN f.operations
  /\ \A p \in DOMAIN f.operations \ {o} : g.operations[p] = f.operations[p]
  /\ g.operations[o].block = f.operations[o].block /\ g.operations[o].regions = f.operations[o].regions
  /\ DOMAIN g.operations[o].targets = DOMAIN f.operations[o].targets
  /\ \A k \in DOMAIN f.operations[o].targets :
       g.operations[o].targets[k].block = IF k = i THEN target ELSE f.operations[o].targets[k].block
  /\ ToSet(g.operations[o].operands) \subseteq ToSet(f.operations[o].operands) \cup ToSet(new)

\* The call changes no more than that.
LEMMA ReplaceSuccessorRedirects ==
  ASSUME NEW f, IsFlow(f), IsWired(f, {}, 0), NEW o, NEW i, NEW target, NEW new,
         CanReplaceSuccessor(f, o, i, target, new)
  PROVE  IsRedirection(f, ReplaceSuccessor(f, o, i, target, new), o, i, target, new)
<1> DEFINE op     == f.operations[o]
           s      == op.operands
           first  == FirstArgument(op, i)
           after  == first + op.targets[i].count
           t      == SubSeq(s, 1, first) \o new \o SubSeq(s, after + 1, Len(s))
           there  == [op.targets[i] EXCEPT !.block = target, !.count = Len(new)]
           others == [op.targets EXCEPT ![i] = there]
           update == [op EXCEPT !.operands = t,
                                !.targets[i].block = target, !.targets[i].count = Len(new)]
           g      == ReplaceSuccessor(f, o, i, target, new)
<1>1. /\ o \in DOMAIN f.operations /\ i \in DOMAIN op.targets /\ new \in Seq(DOMAIN f.values)
      /\ first \in Nat /\ op.targets[i].count \in Nat /\ after <= Len(s)
  BY DEF CanReplaceSuccessor, RangeIsValid
<1>2. g = Rewired(f, o, update)
  BY DEF ReplaceSuccessor
<1>3. {"block", "kind", "operands", "targets", "results", "own", "regions"} \subseteq DOMAIN op
      /\ s \in Seq(DOMAIN f.values)
  BY <1>1 DEF IsFlow, IsOrderly, IsFunction, IsLaidOut, IsAnalysable
<1>4. "block" \in DOMAIN op.targets[i]
  BY <1>1 DEF IsWired, IsWiredAt
<1>5. /\ update.targets = others /\ update.regions = op.regions
      /\ update.block = op.block /\ update.operands = t
  <2> HIDE DEF op, t
  <2> QED
    BY <1>1, <1>3
<1>6. ToSet(t) \subseteq ToSet(s) \cup ToSet(new)
  <2> DEFINE T == ToSet(s) \cup ToSet(new)
             c == op.targets[i].count
             n == Len(s)
  <2>1. s \in Seq(T) /\ new \in Seq(T)
    <3>1. s \in Seq(ToSet(s)) /\ new \in Seq(ToSet(new))
      BY <1>1, <1>3 DEF ToSet
    <3> HIDE DEF s
    <3> QED
      BY <3>1
  <2>2. first \in Nat /\ c \in Nat /\ n \in Nat /\ first + c <= n /\ 0 \in Nat /\ 0 <= first
    BY <1>1, <1>3, LenProperties
  <2>3. t = SubSeq(s, 0 + 1, first) \o new \o SubSeq(s, (first + c) + 1, n)
    OBVIOUS
  <2> HIDE DEF T, s, first, c, t, n
  <2>4. first <= n /\ first + c \in Nat /\ n <= n
    BY <2>2
  <2>5. SubSeq(s, 0 + 1, first) \in Seq(T)
    BY <2>1, <2>2, <2>4, PartOfOperands DEF n
  <2>6. SubSeq(s, (first + c) + 1, n) \in Seq(T)
    BY <2>1, <2>2, <2>4, PartOfOperands DEF n
  <2>7. t \in Seq(T)
    BY <2>1, <2>3, <2>5, <2>6, ConcatProperties
  <2>8. ToSet(t) \subseteq T
    BY <2>7 DEF ToSet
  <2> QED
    BY <2>8 DEF T
<1>7. /\ DOMAIN others = DOMAIN op.targets
      /\ \A k \in DOMAIN op.targets : others[k].block = IF k = i THEN target ELSE op.targets[k].block
  <2>1. there.block = target
    BY <1>4
  <2> HIDE DEF there, op
  <2> QED
    BY <1>1, <2>1
<1> HIDE DEF update, t, others
<1>8. /\ g.values = f.values /\ g.regions = f.regions /\ g.blocks = f.blocks
      /\ DOMAIN g.operations = DOMAIN f.operations
      /\ \A p \in DOMAIN f.operations : g.operations[p] = IF p = o THEN update ELSE f.operations[p]
  BY <1>1, <1>2 DEF Rewired, IsFlow, IsOrderly, IsFunction
<1>9. g.operations[o] = update
  BY <1>1, <1>8
<1> HIDE DEF g
<1>10. IsRedirection(f, g, o, i, target, new)
  BY <1>1, <1>5, <1>6, <1>7, <1>8, <1>9 DEF IsRedirection
<1> QED
  BY <1>10 DEF g

\* A path that takes the new edge took the way through b.
LEMMA RedirectedPaths ==
  ASSUME NEW f, NEW g, IsFlow(f), IsFlow(g), NEW b, NEW call, IsThreading(f, b, call),
         IsRedirection(f, g, call.operation, call.successor, call.target, call.arguments),
         NEW r \in DOMAIN f.regions, NEW A, b \notin A
  PROVE  ReachableAvoiding(g, r, A) \subseteq ReachableAvoiding(f, r, A)
<1> DEFINE C == ReachableAvoiding(f, r, A)
           L == ReachableAvoiding(g, r, A)
           j == f.blocks[b].terminator
           o == call.operation
           i == call.successor
           t == call.target
<1>1. IsGraph(f) /\ IsGraph(g) /\ r \in DOMAIN g.regions /\ Entry(g, r) = Entry(f, r)
  BY FlowIsGraph DEF IsRedirection, Entry
<1>2. /\ Entry(f, r) \notin A => Entry(f, r) \in C
      /\ \A e \in Edges(f) : Source(f, e) \in C /\ Target(f, e) \notin A => Target(f, e) \in C
  BY <1>1, AvoidingIsClosed
<1>3. L \subseteq ToSet(g.regions[r]) \ A
  BY <1>1, AvoidingIsClosed
<1> HIDE DEF C
<1>4. b \in C /\ t \notin A => t \in C
  <2>1. <<j, 1>> \in Edges(f) /\ Source(f, <<j, 1>>) = b /\ Target(f, <<j, 1>>) = t
    BY DEF IsThreading, Source
  <2> HIDE DEF j, t
  <2> QED
    BY <1>2, <2>1
<1>5. ASSUME NEW e \in Edges(g)
      PROVE  /\ e \in Edges(f) /\ Source(g, e) = Source(f, e)
             /\ \/ Target(g, e) = Target(f, e)
                \/ Target(g, e) = t /\ Target(f, e) = b
  <2>1. PICK p \in DOMAIN g.operations : e \in EdgesOf(g, p)
    BY DEF Edges
  <2>2. PICK k \in DOMAIN g.operations[p].targets : e = <<p, k>>
    BY <2>1 DEF EdgesOf
  <2>3. e[1] = p /\ e[2] = k
    BY <2>2
  <2>4. /\ p \in DOMAIN f.operations /\ k \in DOMAIN f.operations[p].targets
        /\ g.operations[p].block = f.operations[p].block
    <3>1. CASE p = o
      BY <3>1 DEF IsRedirection
    <3>2. CASE p # o
      BY <3>2 DEF IsRedirection
    <3> QED
      BY <3>1, <3>2
  <2>5. e \in Edges(f)
    BY <2>2, <2>4 DEF Edges, EdgesOf
  <2>6. /\ Source(g, e) = g.operations[p].block /\ Source(f, e) = f.operations[p].block
        /\ Target(g, e) = g.operations[p].targets[k].block
        /\ Target(f, e) = f.operations[p].targets[k].block
    BY <2>3 DEF Source, Target
  <2>7. CASE p = o /\ k = i
    <3>1. Target(g, e) = t
      BY <2>4, <2>6, <2>7 DEF IsRedirection
    <3>2. Target(f, e) \in {b, t}
      BY <2>2, <2>7 DEF IsThreading
    <3> QED
      BY <2>4, <2>5, <2>6, <3>1, <3>2
  <2>8. CASE ~ (p = o /\ k = i)
    <3>1. g.operations[p].targets[k].block = f.operations[p].targets[k].block
      <4>1. CASE p = o
        BY <2>4, <2>8, <4>1 DEF IsRedirection
      <4>2. CASE p # o
        BY <2>4, <4>2 DEF IsRedirection
      <4> QED
        BY <4>1, <4>2
    <3> QED
      BY <2>4, <2>5, <2>6, <3>1
  <2> QED
    BY <2>7, <2>8
<1> HIDE DEF t
<1>6. \A e \in Edges(g) : Source(g, e) \in C \cap L /\ Target(g, e) \in L => Target(g, e) \in C
  <2> TAKE e \in Edges(g)
  <2> HAVE Source(g, e) \in C \cap L /\ Target(g, e) \in L
  <2>1. Target(g, e) \notin A
    BY <1>3
  <2>2. CASE Target(g, e) = Target(f, e)
    BY <1>2, <1>5, <2>1, <2>2
  <2>3. CASE Target(g, e) = t /\ Target(f, e) = b
    <3>1. b \in C
      BY <1>2, <1>5, <2>3
    <3> QED
      BY <1>4, <2>1, <2>3, <3>1
  <2> QED
    BY <1>5, <2>2, <2>3
<1>7. Entry(g, r) \notin A => Entry(g, r) \in C
  BY <1>1, <1>2
<1>8. L \subseteq C
  BY <1>1, <1>6, <1>7, AvoidingIsLeast
<1> QED
  BY <1>8 DEF C

\* So what could be read still can be, but for the parameters of b.
LEMMA RedirectionKeepsAvailable ==
  ASSUME NEW f, NEW g, IsFlow(f), IsFlow(g), NEW b, NEW call, IsThreading(f, b, call),
         IsRedirection(f, g, call.operation, call.successor, call.target, call.arguments),
         NEW v \in DOMAIN f.values, v \notin ParameterValues(f, b),
         NEW o \in DOMAIN f.operations, IsAvailableAt(f, v, o)
  PROVE  IsAvailableAt(g, v, o)
<1>1. /\ g.regions = f.regions /\ g.blocks = f.blocks /\ g.values = f.values
      /\ DOMAIN g.operations = DOMAIN f.operations
  BY DEF IsRedirection
<1>2. \A p \in DOMAIN f.operations : /\ g.operations[p].block = f.operations[p].block
                                     /\ g.operations[p].regions = f.operations[p].regions
  BY DEF IsRedirection
<1>3. KeepsShape(f, g)
  BY <1>1, <1>2 DEF KeepsShape
<1>4. IsPart(f, g)
  BY <1>3, ShapeIsPart DEF IsFlow
<1>5. \A r \in DOMAIN g.regions : ReachableAvoiding(g, r, {}) \subseteq ReachableAvoiding(f, r, {})
  BY <1>1, RedirectedPaths
<1>6. ASSUME IsComputed(g, v) PROVE DefiningBlock(f, v) # b
  <2>1. IsComputed(f, v)
    BY <1>1, <1>6 DEF IsComputed
  <2>2. /\ f.values[v].kind \in {"BlockParameter", "OperationResult"}
        /\ f.values[v].kind = "OperationResult" =>
             f.values[v].operation \in ToSet(f.blocks[DefiningBlock(f, v)].contents)
    BY <2>1, ComputedSomewhere
  <2>3. f.blocks[b].contents = <<>>
    BY DEF IsThreading
  <2>4. CASE f.values[v].kind = "OperationResult"
    BY <2>2, <2>3, <2>4 DEF ToSet
  <2>5. CASE f.values[v].kind = "BlockParameter"
    <3>1. DefiningBlock(f, v) = f.values[v].block
      BY <2>5 DEF DefiningBlock
    <3>2. v \in ParameterValues(f, f.values[v].block)
      <4> DEFINE d == f.values[v].block
                 k == f.values[v].index
      <4>1. d \in DOMAIN f.blocks /\ k \in DOMAIN f.blocks[d].parameters /\ f.blocks[d].parameters[k].value = v
        BY <2>5 DEF IsFlow, IsOrderly, DefinitionsAreExact, IsWhereDefined
      <4> HIDE DEF d, k
      <4>2. v \in ParameterValues(f, d)
        BY <4>1 DEF ParameterValues
      <4> QED
        BY <4>2 DEF d
    <3> QED
      BY <3>1, <3>2
  <2> QED
    BY <2>2, <2>4, <2>5
<1>7. IsComputed(g, v) =>
        ReachableAvoiding(g, RegionOf(g, v), {DefiningBlock(g, v)})
          \subseteq ReachableAvoiding(f, RegionOf(g, v), {DefiningBlock(g, v)})
  <2> HAVE IsComputed(g, v)
  <2>1. DefiningBlock(g, v) = DefiningBlock(f, v) /\ RegionOf(g, v) \in DOMAIN f.regions
    BY <1>1, <1>4, PartKeepsPlace
  <2>2. b \notin {DefiningBlock(g, v)}
    BY <1>6, <2>1
  <2> QED
    BY <2>1, <2>2, RedirectedPaths
<1> QED
  BY <1>1, <1>4, <1>5, <1>7, PartKeepsAvailable

\* The parameters of a block without operations can be read by its terminator.
LEMMA TerminatorReadsParameters ==
  ASSUME NEW f, IsFlow(f), NEW b \in DOMAIN f.blocks, NEW v \in ParameterValues(f, b),
         NEW j \in DOMAIN f.operations, f.operations[j].block = b
  PROVE  IsAvailableAt(f, v, j)
<1> DEFINE r == RegionOf(f, v)
<1>1. v \in DOMAIN f.values /\ f.values[v].kind = "BlockParameter" /\ f.values[v].block = b
  <2>1. PICK k \in DOMAIN f.blocks[b].parameters : f.blocks[b].parameters[k].value = v
    BY DEF ParameterValues
  <2>2. IsDefinedAs(f, v, [kind |-> "BlockParameter", block |-> b, index |-> k])
    BY <2>1 DEF IsFlow, IsOrderly, DefinitionsAreExact
  <2> QED
    BY <2>2 DEF IsDefinedAs
<1>2. IsComputed(f, v) /\ DefiningBlock(f, v) = b /\ r = f.blocks[b].region
  BY <1>1 DEF IsComputed, DefiningBlock, RegionOf
<1>3. r \in DOMAIN f.regions /\ b \in ToSet(f.regions[r])
  BY <1>2, ComputedSomewhere
<1>4. b \in Scope(f, v)
  <2>1. ToSet(f.regions[r]) \subseteq Inside(f, r)
    BY <1>3, InsideHolds
  <2> QED
    BY <1>3, <2>1 DEF Scope, Inside
<1>5. j \notin RunsWithout(f, v)
  <2> SUFFICES ASSUME j \in RunsWithout(f, v) PROVE FALSE
    OBVIOUS
  <2>1. /\ NotYet(f, v) \in SUBSET DOMAIN f.operations
        /\ \A o \in NotYet(f, v) : f.blocks[f.operations[o].block].region = r
        /\ RunsWithout(f, v) = Running(f, NotYet(f, v))
    BY <1>2, NotYetHolds
  <2>2. j \in NotYet(f, v)
    BY <1>2, <1>3, <2>1, RunsInPlace
  <2>3. AheadInBlock(f, v) = {}
    BY <1>1 DEF AheadInBlock
  <2>4. j \in RunsIn(f, r, {b})
    BY <1>2, <2>2, <2>3 DEF NotYet
  <2>5. RunsIn(f, r, {b}) = {o \in DOMAIN f.operations : f.operations[o].block \in ReachableAvoiding(f, r, {b})}
    BY <1>3, RunsInHolds
  <2>6. ReachableAvoiding(f, r, {b}) \subseteq ToSet(f.regions[r]) \ {b}
    BY <1>3, FlowIsGraph, AvoidingIsClosed
  <2> QED
    BY <2>4, <2>5, <2>6
<1> QED
  BY <1>4, <1>5 DEF IsAvailableAt

\* So the call leaves SSA form.
LEMMA RedirectionIsSsa ==
  ASSUME NEW f, NEW g, IsFlow(f), IsFlow(g), IsSsa(f), NEW b, NEW call, IsThreading(f, b, call),
         IsRedirection(f, g, call.operation, call.successor, call.target, call.arguments)
  PROVE  IsSsa(g)
<1> DEFINE j == f.blocks[b].terminator
<1>1. /\ g.regions = f.regions /\ g.blocks = f.blocks /\ g.values = f.values
      /\ DOMAIN g.operations = DOMAIN f.operations
      /\ \A p \in DOMAIN f.operations : /\ g.operations[p].block = f.operations[p].block
                                        /\ g.operations[p].regions = f.operations[p].regions
  BY DEF IsRedirection
<1>2. ASSUME NEW v \in DOMAIN g.values, NEW o \in ReadersOf(g, v)
      PROVE  IsAvailableAt(g, v, o)
  <2>1. o \in DOMAIN f.operations /\ v \in DOMAIN f.values /\ v \in ToSet(g.operations[o].operands)
    BY <1>1 DEF ReadersOf
  <2>2. o \in ReadersOf(f, v) \/ (o = call.operation /\ v \in ToSet(call.arguments))
    <3>1. CASE o = call.operation
      BY <2>1, <3>1 DEF IsRedirection, ReadersOf
    <3>2. CASE o # call.operation
      BY <2>1, <3>2 DEF IsRedirection, ReadersOf
    <3> QED
      BY <3>1, <3>2
  <2>3. CASE v \notin ParameterValues(f, b)
    <3>1. IsAvailableAt(f, v, o)
      BY <2>1, <2>2 DEF IsThreading, IsSsa, ReadsAreAvailable
    <3> QED
      BY <2>1, <2>3, <3>1, RedirectionKeepsAvailable
  <2>4. CASE v \in ParameterValues(f, b)
    <3>1. b \in DOMAIN f.blocks /\ j \in DOMAIN f.operations /\ f.operations[j].block = b
      BY DEF IsThreading
    <3>2. o = j
      BY <2>2, <2>4 DEF IsThreading
    <3>3. v \in ParameterValues(g, b) /\ b \in DOMAIN g.blocks /\ o \in DOMAIN g.operations
          /\ g.operations[o].block = b
      BY <1>1, <2>4, <3>1, <3>2 DEF ParameterValues
    <3> QED
      BY <3>3, TerminatorReadsParameters
  <2> QED
    BY <2>3, <2>4
<1>3. RegionsHaveOneOwner(g)
  BY <1>1 DEF IsSsa, RegionsHaveOneOwner
<1>4. EntriesTakeNothing(g)
  BY <1>1 DEF IsSsa, EntriesTakeNothing, ForwardedPositions, Entry
<1> QED
  BY <1>2, <1>3, <1>4 DEF IsSsa, ReadsAreAvailable

\* And the calls that are left, for other edges into the same block, can rely on
\* the same.
LEMMA RedirectionKeepsThreading ==
  ASSUME NEW f, NEW g, IsFlow(f), IsFlow(g), NEW b, NEW call, IsThreading(f, b, call),
         IsRedirection(f, g, call.operation, call.successor, call.target, call.arguments),
         NEW later, IsThreading(f, b, later)
  PROVE  IsThreading(g, b, later)
<1> DEFINE j == f.blocks[b].terminator
           o == later.operation
           i == later.successor
<1>1. /\ g.regions = f.regions /\ g.blocks = f.blocks /\ g.values = f.values
      /\ DOMAIN g.operations = DOMAIN f.operations
  BY DEF IsRedirection
<1>2. call.target = later.target /\ call.operation # j
  BY DEF IsThreading
<1>3. g.operations[j] = f.operations[j]
  BY <1>2 DEF IsThreading, IsRedirection
<1>4. /\ b \in DOMAIN g.blocks /\ g.blocks[b].contents = <<>> /\ g.blocks[b].terminator = j
      /\ j \in DOMAIN g.operations /\ g.operations[j].block = b
      /\ later.target # b /\ o # j
  BY <1>1, <1>3 DEF IsThreading
<1>5. <<j, 1>> \in Edges(g) /\ Target(g, <<j, 1>>) = later.target
  <2>1. <<j, 1>> \in Edges(f) /\ Target(f, <<j, 1>>) = later.target
    BY DEF IsThreading
  <2>2. 1 \in DOMAIN f.operations[j].targets
    BY <2>1 DEF Edges, EdgesOf
  <2>3. <<j, 1>> \in Edges(g)
    BY <1>3, <1>4, <2>2 DEF Edges, EdgesOf
  <2>4. Target(g, <<j, 1>>) = Target(f, <<j, 1>>)
    BY <1>3, Zenon DEF Target
  <2> QED
    BY <2>1, <2>3, <2>4
<1>6. <<o, i>> \in Edges(g) /\ Target(g, <<o, i>>) \in {b, later.target}
  <2>1. Target(f, <<o, i>>) \in {b, later.target} /\ <<o, i>> \in Edges(f)
    BY DEF IsThreading
  <2>2. o \in DOMAIN f.operations /\ i \in DOMAIN f.operations[o].targets
    BY <2>1 DEF Edges, EdgesOf
  <2>3. /\ Target(g, <<o, i>>) = g.operations[o].targets[i].block
        /\ Target(f, <<o, i>>) = f.operations[o].targets[i].block
    BY DEF Target
  <2>4. <<o, i>> \in Edges(g)
    <3>1. DOMAIN g.operations[o].targets = DOMAIN f.operations[o].targets
      <4>1. CASE o = call.operation
        BY <4>1 DEF IsRedirection
      <4>2. CASE o # call.operation
        BY <2>2, <4>2 DEF IsRedirection
      <4> QED
        BY <4>1, <4>2
    <3> QED
      BY <1>1, <2>2, <3>1 DEF Edges, EdgesOf
  <2>5. CASE o = call.operation
    <3>1. g.operations[o].targets[i].block
            = IF i = call.successor THEN call.target ELSE f.operations[o].targets[i].block
      BY <2>2, <2>5 DEF IsRedirection
    <3> QED
      BY <1>2, <2>1, <2>3, <2>4, <3>1
  <2>6. CASE o # call.operation
    <3>1. g.operations[o] = f.operations[o]
      BY <2>2, <2>6 DEF IsRedirection
    <3> QED
      BY <2>1, <2>3, <2>4, <3>1
  <2> QED
    BY <2>5, <2>6
<1>7. ParameterValues(g, b) = ParameterValues(f, b)
  BY <1>1 DEF ParameterValues
<1>8. ASSUME NEW v \in ParameterValues(g, b) PROVE ReadersOf(g, v) \subseteq {j}
  <2>1. ReadersOf(f, v) \subseteq {j} /\ v \notin ToSet(call.arguments)
    BY <1>7 DEF IsThreading
  <2>2. ASSUME NEW p \in ReadersOf(g, v) PROVE p \in ReadersOf(f, v)
    <3>1. p \in DOMAIN f.operations /\ v \in ToSet(g.operations[p].operands)
      BY <1>1 DEF ReadersOf
    <3>2. CASE p = call.operation
      BY <2>1, <3>1, <3>2 DEF IsRedirection, ReadersOf
    <3>3. CASE p # call.operation
      BY <3>1, <3>3 DEF IsRedirection, ReadersOf
    <3> QED
      BY <3>2, <3>3
  <2> QED
    BY <2>1, <2>2
<1>9. ASSUME NEW w \in ToSet(later.arguments)
      PROVE  w \in DOMAIN g.values \ ParameterValues(g, b) /\ IsAvailableAt(g, w, o)
  <2>1. w \in DOMAIN f.values \ ParameterValues(f, b) /\ IsAvailableAt(f, w, o)
    BY DEF IsThreading
  <2>2. o \in DOMAIN f.operations
    BY DEF IsThreading, Edges, EdgesOf
  <2> QED
    BY <1>1, <1>7, <2>1, <2>2, RedirectionKeepsAvailable
<1> QED
  BY <1>4, <1>5, <1>6, <1>8, <1>9 DEF IsThreading

-----------------------------------------------------------------------------
(* Batches that keep SSA                                                   *)

\* A value that can be read wherever another one can.
Substitutes(f, v, w) == {v, w} \subseteq DOMAIN f.values /\ Supersedes(f, v, w)

\* Calls of this kind come before all others of their batch.
LeadsWith(batch, kind) ==
  \A i \in DOMAIN batch : batch[i].call = kind => \A k \in 1..i : batch[k].call = kind

\* What replaces a value can be read wherever that can, and successors are only
\* led past a block that forwards what it is passed.
IsSafeBatch(f, batch) ==
  /\ LeadsWith(batch, "ReplaceAllUses") /\ LeadsWith(batch, "ReplaceSuccessor")
  /\ \A i \in DOMAIN batch : batch[i].call = "ReplaceAllUses" =>
       Substitutes(f, batch[i].value, batch[i].replacement)
  /\ \E b : \A i \in DOMAIN batch : batch[i].call = "ReplaceSuccessor" => IsThreading(f, b, batch[i])

\* No call of the batch moves what an operation reads.
MovesNoReads(batch) ==
  \A i \in DOMAIN batch : batch[i].call \notin {"ReplaceAllUses", "ReplaceSuccessor"}

\* A batch that moves nothing keeps SSA in any function.
LEMMA StillIsSafe ==
  ASSUME NEW f, NEW batch, MovesNoReads(batch)
  PROVE  IsSafeBatch(f, batch)
<1>1. \A i \in DOMAIN batch : batch[i].call # "ReplaceAllUses" /\ batch[i].call # "ReplaceSuccessor"
  BY DEF MovesNoReads
<1>2. LeadsWith(batch, "ReplaceAllUses") /\ LeadsWith(batch, "ReplaceSuccessor")
  BY <1>1 DEF LeadsWith
<1>3. \E b : \A i \in DOMAIN batch : batch[i].call = "ReplaceSuccessor" => IsThreading(f, b, batch[i])
  BY <1>1
<1> QED
  BY <1>1, <1>2, <1>3 DEF IsSafeBatch

\* Every call of the one batch is one of the other.
IsTakenFrom(rest, batch) == \A i \in DOMAIN rest : \E k \in DOMAIN batch : rest[i] = batch[k]

\* What is left of a batch keeps SSA too, and moves nothing if the call in front
\* does not.
LEMMA RestIsSafe ==
  ASSUME NEW f, NEW batch, IsKnownBatch(batch), batch # <<>>, IsSafeBatch(f, batch)
  PROVE  /\ IsSafeBatch(f, Tail(batch))
         /\ \A call \in {"ReplaceAllUses", "ReplaceSuccessor"} :
              Head(batch).call # call => \A i \in DOMAIN batch : batch[i].call # call
         /\ IsTakenFrom(Tail(batch), batch)
<1> DEFINE T == ToSet(batch)
           n == Len(batch)
           rest == Tail(batch)
<1>1. batch \in Seq(T)
  BY DEF IsKnownBatch
<1> HIDE DEF T
<1>2. n \in Nat \ {0} /\ DOMAIN batch = 1..n /\ Head(batch) = batch[1]
  BY <1>1
<1>3. DOMAIN rest = 1..(n - 1) /\ \A i \in 1..(n - 1) : rest[i] = batch[i + 1]
  BY <1>1
<1> HIDE DEF n, rest
<1>4. \A i \in DOMAIN rest : i + 1 \in DOMAIN batch /\ rest[i] = batch[i + 1]
  BY <1>2, <1>3
<1>5. ASSUME NEW kind, LeadsWith(batch, kind) PROVE LeadsWith(rest, kind)
  <2> SUFFICES ASSUME NEW i \in DOMAIN rest, rest[i].call = kind, NEW k \in 1..i
               PROVE  rest[k].call = kind
    BY DEF LeadsWith
  <2>1. k \in DOMAIN rest /\ k + 1 \in 1..(i + 1)
    BY <1>2, <1>3
  <2>2. batch[k + 1].call = kind
    BY <1>4, <1>5, <2>1 DEF LeadsWith
  <2> QED
    BY <1>4, <2>1, <2>2
<1>6. ASSUME NEW call, LeadsWith(batch, call), Head(batch).call # call
      PROVE  \A i \in DOMAIN batch : batch[i].call # call
  <2>1. \A i \in DOMAIN batch : 1 \in 1..i
    BY <1>2
  <2> QED
    BY <1>2, <1>6, <2>1 DEF LeadsWith
<1>7. LeadsWith(batch, "ReplaceAllUses") /\ LeadsWith(batch, "ReplaceSuccessor")
  BY DEF IsSafeBatch
<1>8. LeadsWith(rest, "ReplaceAllUses") /\ LeadsWith(rest, "ReplaceSuccessor")
  BY <1>5, <1>7
<1>9. \A i \in DOMAIN rest : rest[i].call = "ReplaceAllUses" =>
        Substitutes(f, rest[i].value, rest[i].replacement)
  BY <1>4 DEF IsSafeBatch
<1>10. \E b : \A i \in DOMAIN rest : rest[i].call = "ReplaceSuccessor" => IsThreading(f, b, rest[i])
  <2>1. PICK b : \A i \in DOMAIN batch : batch[i].call = "ReplaceSuccessor" => IsThreading(f, b, batch[i])
    BY DEF IsSafeBatch
  <2>2. \A i \in DOMAIN rest : rest[i].call = "ReplaceSuccessor" => IsThreading(f, b, rest[i])
    BY <1>4, <2>1
  <2> QED
    BY <2>2
<1>11. IsSafeBatch(f, rest)
  BY <1>8, <1>9, <1>10 DEF IsSafeBatch
<1>12. \A call \in {"ReplaceAllUses", "ReplaceSuccessor"} :
         Head(batch).call # call => \A i \in DOMAIN batch : batch[i].call # call
  BY <1>6, <1>7
<1>13. IsTakenFrom(rest, batch)
  BY <1>4 DEF IsTakenFrom
<1> QED
  BY <1>11, <1>12, <1>13 DEF rest

\* Calls that put one value for another, with a last one that moves nothing.
LEMMA SubstitutionIsSafe ==
  ASSUME NEW f, NEW n \in Nat, NEW s, s = [i \in 1..n |-> s[i]],
         \A i \in 1..n : /\ s[i].call = "ReplaceAllUses"
                         /\ Substitutes(f, s[i].value, s[i].replacement),
         NEW c, c.call \notin {"ReplaceAllUses", "ReplaceSuccessor"}
  PROVE  IsSafeBatch(f, s \o <<c>>)
<1> DEFINE t == s \o <<c>>
<1>1. DOMAIN t = 1..(n + 1) /\ \A i \in 1..(n + 1) : t[i] = IF i <= n THEN s[i] ELSE c
  <2> DEFINE T == {s[i] : i \in 1..n} \cup {c}
  <2>1. s \in Seq(T) /\ Len(s) = n /\ c \in T
    OBVIOUS
  <2> HIDE DEF T
  <2> QED
    BY <2>1
<1> HIDE DEF t
<1>2. \A i \in DOMAIN t : /\ t[i].call = "ReplaceAllUses" <=> i <= n
                          /\ t[i].call # "ReplaceSuccessor"
                          /\ i <= n => t[i] = s[i] /\ i \in 1..n
                          /\ \A k \in 1..i : k \in DOMAIN t /\ (i <= n => k <= n)
  BY <1>1
<1>3. LeadsWith(t, "ReplaceAllUses") /\ LeadsWith(t, "ReplaceSuccessor")
  BY <1>2 DEF LeadsWith
<1>4. \A i \in DOMAIN t : t[i].call = "ReplaceAllUses" => Substitutes(f, t[i].value, t[i].replacement)
  BY <1>2
<1>5. \E b : \A i \in DOMAIN t : t[i].call = "ReplaceSuccessor" => IsThreading(f, b, t[i])
  BY <1>2
<1>6. IsSafeBatch(f, t)
  BY <1>3, <1>4, <1>5 DEF IsSafeBatch
<1> QED
  BY <1>6 DEF t

\* Calls that lead past the block b, with a last one that moves nothing.
LEMMA ThreadingIsSafe ==
  ASSUME NEW f, NEW b, NEW n \in Nat, NEW s, s = [i \in 1..n |-> s[i]],
         \A i \in 1..n : s[i].call = "ReplaceSuccessor" /\ IsThreading(f, b, s[i]),
         NEW c, c.call \notin {"ReplaceAllUses", "ReplaceSuccessor"}
  PROVE  IsSafeBatch(f, s \o <<c>>)
<1> DEFINE t == s \o <<c>>
<1>1. DOMAIN t = 1..(n + 1) /\ \A i \in 1..(n + 1) : t[i] = IF i <= n THEN s[i] ELSE c
  <2> DEFINE T == {s[i] : i \in 1..n} \cup {c}
  <2>1. s \in Seq(T) /\ Len(s) = n /\ c \in T
    OBVIOUS
  <2> HIDE DEF T
  <2> QED
    BY <2>1
<1> HIDE DEF t
<1>2. \A i \in DOMAIN t : /\ t[i].call = "ReplaceSuccessor" <=> i <= n
                          /\ t[i].call # "ReplaceAllUses"
                          /\ i <= n => t[i] = s[i] /\ i \in 1..n
                          /\ \A k \in 1..i : k \in DOMAIN t /\ (i <= n => k <= n)
  BY <1>1
<1>3. LeadsWith(t, "ReplaceAllUses") /\ LeadsWith(t, "ReplaceSuccessor")
  BY <1>2 DEF LeadsWith
<1>4. \A i \in DOMAIN t : t[i].call = "ReplaceSuccessor" => IsThreading(f, b, t[i])
  BY <1>2
<1>5. \A i \in DOMAIN t : t[i].call = "ReplaceAllUses" => Substitutes(f, t[i].value, t[i].replacement)
  BY <1>2
<1>6. IsSafeBatch(f, t)
  BY <1>3, <1>4, <1>5 DEF IsSafeBatch
<1> QED
  BY <1>6 DEF t

-----------------------------------------------------------------------------
(* What the passes plan keeps SSA                                          *)

\* What the passes look at is what paths can be followed in.
LEMMA InOrderIsFlow ==
  ASSUME NEW f, IsInOrder(f)
  PROVE  IsFlow(f) /\ IsExact(f) /\ IsWired(f, {}, 0)
<1>1. IsOrderly(f) /\ IsAnalysable(f) /\ IsFunction(f) /\ UsesAreExact(f)
  BY DEF IsInOrder, IsOrderly
<1>2. IsWired(f, {}, 0)
  BY <1>1, WiredIsFit DEF IsInOrder
<1>3. IsFlow(f)
  BY <1>1, <1>2, WiredIsFlow
<1> QED
  BY <1>1, <1>2, <1>3 DEF IsExact

\* The arguments of an edge are operands of its terminator, and as many as the
\* target has forwarded parameters.
LEMMA ArgumentsAreRead ==
  ASSUME NEW f, IsInOrder(f), NEW e \in Edges(f)
  PROVE  LET n == Len(EdgeArguments(f, e))
         IN  /\ n \in Nat /\ DOMAIN EdgeArguments(f, e) = 1..n
             /\ \A k \in 1..n : e[1] \in ReadersOf(f, EdgeArguments(f, e)[k])
                                /\ EdgeArguments(f, e)[k] \in DOMAIN f.values
             /\ \A index : HasForwarded(f, Target(f, e), index) => index \in 1..n
<1> DEFINE o == e[1]
           i == e[2]
           op == f.operations[o]
           first == FirstArgument(op, i)
           c == op.targets[i].count
           T == ToSet(op.operands)
           args == EdgeArguments(f, e)
<1>1. o \in DOMAIN f.operations /\ i \in DOMAIN op.targets /\ e = <<o, i>>
  BY EdgesAreEnds
<1>2. IsFlow(f) /\ IsExact(f) /\ IsOrderly(f) /\ IsWired(f, {}, 0)
  BY InOrderIsFlow DEF IsFlow
<1>3. /\ CountsArguments(op) /\ Len(op.operands) = FirstArgument(op, Len(op.targets) + 1)
      /\ op.operands \in Seq(DOMAIN f.values)
  BY <1>1, <1>2 DEF IsWired, IsWiredAt, IsOrderly, IsFunction
<1>4. op.operands \in Seq(T)
  BY <1>3, ListOverMembers
<1>5. RangeIsValid(op, i) /\ Len(args) = c
  BY <1>1, <1>3, ArgumentsCounted DEF EdgeArguments
<1>6. first \in Nat /\ c \in Nat /\ first + c <= Len(op.operands)
  BY <1>5 DEF RangeIsValid
<1>7. args = SubSeq(op.operands, first + 1, first + c)
  BY DEF EdgeArguments, Arguments
<1>8. args \in Seq(T)
  <2>1. first + c \in Nat
    BY <1>6
  <2> HIDE DEF T, first, c, args
  <2> QED
    BY <1>4, <1>6, <1>7, <2>1, PartOfOperands
<1>9. T \subseteq DOMAIN f.values
  BY <1>1 DEF IsInOrder, UsesAreExact
<1>10. Len(args) \in Nat /\ DOMAIN args = 1..Len(args) /\ \A k \in 1..Len(args) : args[k] \in T
  <2> HIDE DEF T, args
  <2> QED
    BY <1>8, LenProperties
<1>11. \A k \in 1..Len(args) : o \in ReadersOf(f, args[k])
  BY <1>1, <1>10 DEF ReadersOf
<1>12. ASSUME NEW index, HasForwarded(f, Target(f, e), index) PROVE index \in 1..Len(args)
  <2>1. CanRemoveSuccessorArgument(f, o, i, index)
    BY <1>1, <1>2, <1>12, ArgumentCanGo
  <2> QED
    BY <1>5, <2>1 DEF CanRemoveSuccessorArgument
<1> QED
  BY <1>9, <1>10, <1>11, <1>12

\* What an operation reads can be read there.
LEMMA ReadIsAvailable ==
  ASSUME NEW f, IsInOrder(f), IsSsa(f), NEW v, NEW o \in ReadersOf(f, v)
  PROVE  o \in DOMAIN f.operations /\ v \in DOMAIN f.values /\ IsAvailableAt(f, v, o)
<1>1. o \in DOMAIN f.operations /\ v \in DOMAIN f.values
  BY DEF ReadersOf, IsInOrder, UsesAreExact
<1> QED
  BY <1>1 DEF IsSsa, ReadsAreAvailable

\* What an operator computes and what it reads.
LEMMA OperatorHasResult ==
  ASSUME NEW f, IsInOrder(f), NEW o \in DOMAIN f.operations, f.operations[o].kind \in Operators
  PROVE  LET op == f.operations[o]
             r == op.results[1]
         IN  /\ r \in DOMAIN f.values /\ f.values[r].kind = "OperationResult"
             /\ f.values[r].operation = o
             /\ op.own = Arity(op.kind) /\ Len(op.operands) = Arity(op.kind)
             /\ DOMAIN op.operands = 1..Len(op.operands)
             /\ \A i \in 1..Arity(op.kind) : o \in ReadersOf(f, op.operands[i])
             /\ o \in ToSet(f.blocks[op.block].contents) /\ op.block \in DOMAIN f.blocks
<1> DEFINE op == f.operations[o]
           r == op.results[1]
<1>1. op.own = Arity(op.kind) /\ Len(op.results) = 1 /\ op.results \in Seq(DOMAIN f.values)
  BY DEF IsInOrder, IsAnalysable
<1>2. 1 \in DOMAIN op.results
  <2> HIDE DEF op
  <2> QED
    BY <1>1, LenProperties
<1>3. r \in DOMAIN f.values /\ f.values[r].kind = "OperationResult" /\ f.values[r].operation = o
  <2>1. IsDefinedAs(f, r, [kind |-> "OperationResult", operation |-> o, index |-> 1])
    BY <1>2 DEF IsInOrder, DefinitionsAreExact
  <2> HIDE DEF r
  <2> QED
    BY <2>1 DEF IsDefinedAs
<1>4. ~ IsTerminator(f, o)
  BY DEF IsTerminator, Operators, Terminators
<1>5. Len(op.operands) = Arity(op.kind)
  <2>1. CountsArguments(op) /\ Len(op.operands) = FirstArgument(op, Len(op.targets) + 1)
        /\ op.targets = <<>>
    BY <1>4, InOrderIsFlow DEF IsWired, IsWiredAt
  <2>2. Len(op.targets) + 1 = 1
    BY <2>1
  <2>3. FirstArgument(op, 1) = op.own
    BY <2>1, FirstArgumentHolds
  <2> QED
    BY <1>1, <2>1, <2>2, <2>3
<1>6. DOMAIN op.operands = 1..Len(op.operands)
  BY OperationsAreFit DEF IsFitAt
<1>7. \A i \in 1..Arity(op.kind) : o \in ReadersOf(f, op.operands[i])
  BY <1>5, <1>6 DEF ReadersOf, ToSet
<1>8. op.block \in DOMAIN f.blocks /\ o \in ToSet(f.blocks[op.block].contents)
  <2>1. op.block \in DOMAIN f.blocks /\ o \in BlockOperations(f, op.block)
    BY DEF IsInOrder, PlacesAreExact
  <2>2. f.blocks[op.block].terminator # None => IsTerminator(f, f.blocks[op.block].terminator)
    BY <2>1 DEF IsInOrder, PlacesAreExact
  <2> QED
    BY <1>4, <2>1, <2>2 DEF BlockOperations
<1> QED
  BY <1>1, <1>3, <1>5, <1>6, <1>7, <1>8

\* Merging a block into its predecessor.
LEMMA MergeIsSafe ==
  ASSUME NEW f, IsInOrder(f), IsSsa(f), NEW b \in DOMAIN f.blocks, IsLinearBlock(f, b)
  PROVE  IsSafeBatch(f, MergeLinearBlock(f, b))
<1> DEFINE e == CHOOSE x \in Edges(f) : x \in IncomingEdges(f, b)
           p == f.blocks[b].parameters
           n == Len(p)
           s == [k \in DOMAIN p |->
                  [call |-> "ReplaceAllUses", value |-> p[k].value,
                   replacement |-> EdgeArguments(f, e)[k]]]
           c == [call |-> "MergeBlock", predecessor |-> Source(f, e), block |-> b]
<1>1. n \in Nat /\ DOMAIN p = 1..n
  <2>1. p \in Seq(ToSet(p))
    BY DEF IsInOrder, IsLaidOut
  <2> QED
    BY <2>1, LenProperties
<1>2. MergeLinearBlock(f, b) = s \o <<c>>
  BY DEF MergeLinearBlock
<1>3. c.call \notin {"ReplaceAllUses", "ReplaceSuccessor"}
  OBVIOUS
<1>4. e \in Edges(f) /\ IncomingEdges(f, b) = {e} /\ Len(EdgeArguments(f, e)) = n
  <2>1. PICK x \in Edges(f) : IncomingEdges(f, b) = {x} /\ Len(EdgeArguments(f, x)) = n
    BY DEF IsLinearBlock
  <2>2. \E y \in Edges(f) : y \in IncomingEdges(f, b)
    BY <2>1
  <2>3. e \in Edges(f) /\ e \in IncomingEdges(f, b)
    BY <2>2
  <2> HIDE DEF e
  <2> QED
    BY <2>1, <2>3
<1> HIDE DEF e
<1>5. b # Entry(f, f.blocks[b].region)
  BY DEF IsLinearBlock, HasBoundaryRole
<1>6. ASSUME NEW k \in 1..n PROVE Substitutes(f, p[k].value, EdgeArguments(f, e)[k])
  <2> DEFINE v == p[k].value
             w == EdgeArguments(f, e)[k]
  <2>1. v \in DOMAIN f.values /\ f.values[v].kind = "BlockParameter" /\ f.values[v].block = b
    <3>1. IsDefinedAs(f, v, [kind |-> "BlockParameter", block |-> b, index |-> k])
      BY <1>1 DEF IsInOrder, DefinitionsAreExact
    <3> HIDE DEF v
    <3> QED
      BY <3>1 DEF IsDefinedAs
  <2>2. w \in DOMAIN f.values /\ IsAvailableAt(f, w, e[1])
    <3>1. e[1] \in ReadersOf(f, w)
      BY <1>4, ArgumentsAreRead
    <3> HIDE DEF w
    <3> QED
      BY <3>1, ReadIsAvailable
  <2> HIDE DEF v, w
  <2>3. DefiningBlock(f, v) = b
    BY <2>1 DEF DefiningBlock
  <2>4. DefiningBlock(f, v) # Entry(f, RegionOf(f, v)) /\ IncomingEdges(f, DefiningBlock(f, v)) = {e}
    BY <1>4, <1>5, <2>3 DEF RegionOf
  <2>5. IsFlow(f) /\ RegionsHaveOneOwner(f)
    BY InOrderIsFlow DEF IsSsa
  <2>6. Supersedes(f, v, w)
    BY <2>1, <2>2, <2>4, <2>5, ParameterSupersedes
  <2> QED
    BY <2>1, <2>2, <2>6 DEF v, w, Substitutes
<1> HIDE DEF p, n, c
<1>7. /\ s = [i \in 1..n |-> s[i]]
      /\ \A i \in 1..n : s[i].call = "ReplaceAllUses" /\ Substitutes(f, s[i].value, s[i].replacement)
  BY <1>1, <1>6
<1> HIDE DEF s
<1>8. IsSafeBatch(f, s \o <<c>>)
  BY <1>1, <1>3, <1>7, SubstitutionIsSafe
<1> QED
  BY <1>2, <1>8

\* Removing a parameter.
LEMMA ParameterIsSafe ==
  ASSUME NEW f, IsInOrder(f), IsSsa(f), NEW b, NEW index \in TrivialParameters(f, b)
  PROVE  IsSafeBatch(f, ParameterCalls(f, b, index))
<1> DEFINE v == Parameter(f, b, index)
           w == CHOOSE x \in EffectiveInputs(f, b, index) : TRUE
           d == [call |-> "ReplaceAllUses", value |-> v, replacement |-> w]
           c == [call |-> "RemoveForwardedParameter", block |-> b, index |-> index]
           k == ForwardedPosition(f, b, index)
<1>1. /\ b \in DOMAIN f.blocks /\ IncomingEdges(f, b) # {} /\ HasForwarded(f, b, index)
      /\ IsUnused(f, v) \/ Cardinality(EffectiveInputs(f, b, index)) = 1
  <2>1. b \in DOMAIN f.blocks /\ IncomingEdges(f, b) # {}
    BY DEF TrivialParameters
  <2> QED
    BY <2>1 DEF TrivialParameters, HasForwarded
<1>2. c.call \notin {"ReplaceAllUses", "ReplaceSuccessor"}
  OBVIOUS
<1>3. CASE IsUnused(f, v)
  <2>1. ParameterCalls(f, b, index) = <<c>>
    BY <1>3 DEF ParameterCalls
  <2> HIDE DEF c
  <2>2. MovesNoReads(<<c>>)
    BY <1>2 DEF MovesNoReads
  <2> QED
    BY <2>1, <2>2, StillIsSafe
<1>4. CASE ~ IsUnused(f, v)
  <2>1. ParameterCalls(f, b, index) = <<d>> \o <<c>>
    BY <1>4 DEF ParameterCalls
  <2>2. EffectiveInputs(f, b, index) = {w}
    <3> DEFINE S == EffectiveInputs(f, b, index)
    <3>1. Cardinality(S) = 1
      BY <1>1, <1>4
    <3>2. IsFiniteSet(S)
      <4>1. {EdgeArguments(f, e)[index] : e \in IncomingEdges(f, b)} \subseteq DOMAIN f.values
        <5> SUFFICES ASSUME NEW e \in IncomingEdges(f, b)
                     PROVE  EdgeArguments(f, e)[index] \in DOMAIN f.values
          OBVIOUS
        <5>1. e \in Edges(f) /\ HasForwarded(f, Target(f, e), index)
          BY <1>1 DEF IncomingEdges
        <5> QED
          BY <5>1, ArgumentsAreRead
      <4>2. S \in SUBSET DOMAIN f.values
        BY <4>1 DEF EffectiveInputs
      <4>3. IsFiniteSet(DOMAIN f.values)
        BY DEF IsInOrder, IsAnalysable
      <4> HIDE DEF S
      <4> QED
        BY <4>2, <4>3, FS_Subset
    <3> HIDE DEF S
    <3>3. \E x : S = {x}
      BY <3>1, <3>2, FS_Singleton
    <3> QED
      BY <3>3 DEF S
  <2>3. \A e \in IncomingEdges(f, b) : EdgeArguments(f, e)[index] \in {v, w}
    BY <2>2 DEF EffectiveInputs
  <2>4. \E e \in IncomingEdges(f, b) : EdgeArguments(f, e)[index] = w
    BY <2>2 DEF EffectiveInputs
  <2> HIDE DEF w
  <2>5. k \in ForwardedPositions(f, b)
    BY <1>1, ForwardedIsForwarded, InOrderIsFlow DEF IsFlow
  <2>6. b # Entry(f, f.blocks[b].region)
    <3>1. f.blocks[b].region \in DOMAIN f.regions
      BY <1>1 DEF IsInOrder, PlacesAreExact
    <3> QED
      BY <2>5, <3>1 DEF IsSsa, EntriesTakeNothing
  <2>7. v \in DOMAIN f.values /\ f.values[v].kind = "BlockParameter" /\ f.values[v].block = b
    <3>1. v = f.blocks[b].parameters[k].value /\ k \in DOMAIN f.blocks[b].parameters
      BY <2>5 DEF Parameter, ForwardedPositions
    <3> HIDE DEF v, k
    <3>2. IsDefinedAs(f, v, [kind |-> "BlockParameter", block |-> b, index |-> k])
      BY <1>1, <3>1 DEF IsInOrder, DefinitionsAreExact
    <3> QED
      BY <3>2 DEF IsDefinedAs
  <2> HIDE DEF v, k
  <2>8. \A e \in IncomingEdges(f, b) : /\ EdgeArguments(f, e)[index] \in DOMAIN f.values
                                       /\ IsAvailableAt(f, EdgeArguments(f, e)[index], e[1])
    <3> TAKE e \in IncomingEdges(f, b)
    <3>1. e \in Edges(f) /\ HasForwarded(f, Target(f, e), index)
      BY <1>1 DEF IncomingEdges
    <3>2. e[1] \in ReadersOf(f, EdgeArguments(f, e)[index])
      BY <3>1, ArgumentsAreRead
    <3> QED
      BY <3>2, ReadIsAvailable
  <2>9. PICK e1 \in IncomingEdges(f, b) : EdgeArguments(f, e1)[index] = w
    BY <2>4
  <2>10. w \in DOMAIN f.values /\ IsAvailableAt(f, w, e1[1])
    BY <2>8, <2>9
  <2>11. DefiningBlock(f, v) = b /\ DefiningBlock(f, v) # Entry(f, RegionOf(f, v))
    BY <2>6, <2>7 DEF DefiningBlock, RegionOf
  <2>12. \A e \in IncomingEdges(f, DefiningBlock(f, v)) :
           IsAvailableAt(f, w, e[1]) \/ IsAvailableAt(f, v, e[1])
    BY <2>3, <2>8, <2>11
  <2>13. IsFlow(f) /\ RegionsHaveOneOwner(f)
    BY InOrderIsFlow DEF IsSsa
  <2>14. e1 \in IncomingEdges(f, DefiningBlock(f, v))
    BY <2>11
  <2>15. Supersedes(f, v, w)
    BY <2>7, <2>10, <2>11, <2>12, <2>13, <2>14, ParameterSupersedes
  <2>16. d.call = "ReplaceAllUses" /\ Substitutes(f, d.value, d.replacement)
    BY <2>7, <2>10, <2>15 DEF Substitutes
  <2> HIDE DEF c, d
  <2> DEFINE s == <<d>>
  <2>17. /\ 1 \in Nat /\ s = [i \in 1..1 |-> s[i]]
         /\ \A i \in 1..1 : s[i].call = "ReplaceAllUses" /\ Substitutes(f, s[i].value, s[i].replacement)
    BY <2>16
  <2> HIDE DEF s
  <2>18. IsSafeBatch(f, s \o <<c>>)
    BY <1>2, <2>17, SubstitutionIsSafe
  <2> QED
    BY <2>1, <2>18 DEF s
<1> QED
  BY <1>3, <1>4

\* Threading a block.
LEMMA ThreadIsSafe ==
  ASSUME NEW f, IsInOrder(f), IsSsa(f), NEW b \in DOMAIN f.blocks, IsForwardingBlock(f, b)
  PROVE  IsSafeBatch(f, ThreadForwardingBlock(f, b))
<1> DEFINE j == f.blocks[b].terminator
           jump == f.operations[j]
           p == EdgesInOrder(IncomingEdges(f, b))
           n == Len(p)
           target == jump.targets[1].block
           made(e) == [call |-> "ReplaceSuccessor", operation |-> e[1], successor |-> e[2],
                       target |-> target, arguments |-> ComposedArguments(f, b, e)]
           s == [i \in DOMAIN p |-> made(p[i])]
           c == [call |-> "RemoveBlocks", blocks |-> {b}]
<1>1. p \in Seq(IncomingEdges(f, b))
  <2>1. IncomingEdges(f, b) \in SUBSET Edges(f)
    BY DEF IncomingEdges
  <2> QED
    BY <2>1, EdgesAreListed
<1>2. ThreadForwardingBlock(f, b) = s \o <<c>>
  BY DEF ThreadForwardingBlock
<1>3. c.call \notin {"ReplaceAllUses", "ReplaceSuccessor"}
  OBVIOUS
<1>4. /\ f.blocks[b].contents = <<>> /\ j # None /\ jump.kind = "Jump" /\ target # b
      /\ ToSet(Arguments(jump, 1)) \subseteq ParameterValues(f, b)
      /\ \A v \in ParameterValues(f, b) : \A u \in f.uses[v] : u[1] = j
      /\ \A e \in IncomingEdges(f, b) : Len(EdgeArguments(f, e)) = Len(f.blocks[b].parameters)
  BY DEF IsForwardingBlock
<1>5. j \in DOMAIN f.operations /\ jump.block = b
  BY <1>4 DEF IsInOrder, PlacesAreExact, BlockOperations
<1>6. Len(jump.targets) = 1 /\ DOMAIN jump.targets = 1..1
  <2>1. Len(jump.targets) = 1
    BY <1>4, <1>5 DEF IsInOrder, IsAnalysable
  <2>2. jump.targets \in Seq(ToSet(jump.targets))
    BY <1>5 DEF IsInOrder, HasSuccessors
  <2> HIDE DEF jump
  <2> QED
    BY <2>1, <2>2, LenProperties
<1>7. <<j, 1>> \in Edges(f) /\ Target(f, <<j, 1>>) = target
  <2>1. 1 \in 1..1
    OBVIOUS
  <2> QED
    BY <1>5, <1>6, <2>1 DEF Edges, EdgesOf, Target
<1>8. \A v \in ParameterValues(f, b) : ReadersOf(f, v) \subseteq {j}
  <2> SUFFICES ASSUME NEW v \in ParameterValues(f, b), NEW o \in ReadersOf(f, v) PROVE o = j
    OBVIOUS
  <2>1. o \in DOMAIN f.operations /\ v \in ToSet(f.operations[o].operands) /\ v \in DOMAIN f.values
    BY DEF ReadersOf, IsInOrder, UsesAreExact
  <2>2. PICK i \in DOMAIN f.operations[o].operands : f.operations[o].operands[i] = v
    BY <2>1 DEF ToSet
  <2>3. <<o, i>> \in f.uses[v]
    BY <2>1, <2>2 DEF IsInOrder, UsesAreExact
  <2> HIDE DEF j
  <2> QED
    BY <1>4, <2>3
<1>9. DOMAIN f.blocks[b].parameters = 1..Len(f.blocks[b].parameters)
  <2>1. f.blocks[b].parameters \in Seq(ToSet(f.blocks[b].parameters))
    BY DEF IsInOrder, IsLaidOut
  <2> QED
    BY <2>1, LenProperties
<1>10. DOMAIN Arguments(jump, 1) = 1..Len(Arguments(jump, 1))
  <2> DEFINE args == EdgeArguments(f, <<j, 1>>)
  <2>1. DOMAIN args = 1..Len(args)
    BY <1>7, ArgumentsAreRead, Zenon
  <2>2. args = Arguments(jump, 1)
    BY DEF EdgeArguments
  <2> QED
    BY <2>1, <2>2
<1> HIDE DEF j, jump, target
<1>11. ASSUME NEW e \in IncomingEdges(f, b) PROVE IsThreading(f, b, made(e))
  <2> DEFINE call == made(e)
             incoming == EdgeArguments(f, e)
             outgoing == Arguments(jump, 1)
  <2>1. call.operation = e[1] /\ call.successor = e[2] /\ call.target = target
        /\ call.arguments = ComposedArguments(f, b, e)
    OBVIOUS
  <2> HIDE DEF call
  <2>2. e \in Edges(f) /\ Target(f, e) = b
    BY DEF IncomingEdges
  <2>3. e = <<e[1], e[2]>> /\ e[1] \in DOMAIN f.operations /\ e[2] \in DOMAIN f.operations[e[1]].targets
    BY <2>2, EdgesAreEnds
  <2>4. e[1] # j
    <3> SUFFICES ASSUME e[1] = j PROVE FALSE
      OBVIOUS
    <3>1. e[2] \in 1..1
      BY <1>6, <2>3 DEF jump
    <3>2. e[2] = 1
      BY <3>1
    <3>3. e = <<j, 1>>
      BY <2>3, <3>2
    <3> QED
      BY <1>4, <1>7, <2>2, <3>3
  <2>5. ASSUME NEW w \in ToSet(ComposedArguments(f, b, e))
        PROVE  w \in DOMAIN f.values \ ParameterValues(f, b) /\ IsAvailableAt(f, w, e[1])
    <3> DEFINE indexOf(v) == CHOOSE k \in DOMAIN f.blocks[b].parameters :
                               f.blocks[b].parameters[k].value = v
    <3>1. ComposedArguments(f, b, e) = [i \in DOMAIN outgoing |-> incoming[indexOf(outgoing[i])]]
      BY DEF ComposedArguments, j, jump
    <3>2. \E i \in DOMAIN outgoing : w = incoming[indexOf(outgoing[i])]
      BY <3>1 DEF ToSet
    <3>3. PICK i \in DOMAIN outgoing : w = incoming[indexOf(outgoing[i])]
      BY <3>2
    <3>4. outgoing[i] \in ParameterValues(f, b)
      BY <1>4 DEF ToSet
    <3>5. \E k \in DOMAIN f.blocks[b].parameters : f.blocks[b].parameters[k].value = outgoing[i]
      BY <3>4 DEF ParameterValues
    <3>6. indexOf(outgoing[i]) \in DOMAIN f.blocks[b].parameters
      BY <3>5
    <3> HIDE DEF indexOf
    <3>7. indexOf(outgoing[i]) \in 1..Len(incoming)
      BY <1>4, <1>9, <3>6
    <3> HIDE DEF incoming
    <3>8. e[1] \in ReadersOf(f, w)
      BY <2>2, <3>3, <3>7, ArgumentsAreRead DEF incoming
    <3>9. w \in DOMAIN f.values /\ IsAvailableAt(f, w, e[1])
      BY <3>8, ReadIsAvailable
    <3>10. w \notin ParameterValues(f, b)
      BY <1>8, <2>4, <3>8
    <3> QED
      BY <3>9, <3>10
  <2>6. <<call.operation, call.successor>> \in Edges(f)
        /\ Target(f, <<call.operation, call.successor>>) = b
    BY <2>1, <2>2, <2>3
  <2>7. IsThreading(f, b, call)
    BY <1>4, <1>5, <1>7, <1>8, <2>1, <2>4, <2>5, <2>6 DEF IsThreading, j, jump
  <2> QED
    BY <2>7 DEF call
<1>12. n \in Nat /\ DOMAIN p = 1..n /\ \A i \in 1..n : p[i] \in IncomingEdges(f, b)
  <2> HIDE DEF p
  <2> QED
    BY <1>1, LenProperties
<1>13. \A e : made(e).call = "ReplaceSuccessor"
  OBVIOUS
<1> HIDE DEF p, n, c, made
<1>14. /\ s = [i \in 1..n |-> s[i]]
       /\ \A i \in 1..n : s[i].call = "ReplaceSuccessor" /\ IsThreading(f, b, s[i])
  BY <1>11, <1>12, <1>13
<1> HIDE DEF s
<1>15. IsSafeBatch(f, s \o <<c>>)
  BY <1>3, <1>12, <1>14, ThreadingIsSafe
<1> QED
  BY <1>2, <1>15

\* simplify_control_flow.
LEMMA RewriteIsSafe ==
  ASSUME NEW f, IsInOrder(f), IsSsa(f)
  PROVE  IsSafeBatch(f, NextRewrite(f))
<1> DEFINE p == BlockOrder(f)
           C == {i \in DOMAIN p : Rewritable(f, p[i])}
           first == CHOOSE i \in C : \A j \in C : i <= j
<1>1. NextRewrite(f) = IF C = {} THEN <<>> ELSE RewriteOf(f, p[first])
  BY DEF NextRewrite
<1>2. CASE C = {}
  <2>1. MovesNoReads(<<>>)
    BY DEF MovesNoReads
  <2>2. NextRewrite(f) = <<>>
    BY <1>1, <1>2
  <2> QED
    BY <2>1, <2>2, StillIsSafe
<1>3. CASE C # {}
  <2>1. p \in Seq(DOMAIN f.blocks)
    BY BlocksAreListed
  <2>2. DOMAIN p = 1..Len(p) /\ \A i \in DOMAIN p : p[i] \in DOMAIN f.blocks
    <3> HIDE DEF p
    <3> QED
      BY <2>1, LenProperties
  <2>3. C \in SUBSET Nat
    <3> HIDE DEF p
    <3> QED
      BY <2>2
  <2>4. \A i \in C : i \in DOMAIN p /\ Rewritable(f, p[i])
    OBVIOUS
  <2> HIDE DEF C
  <2>5. first \in C
    BY <1>3, <2>3, LeastNumber
  <2>6. p[first] \in DOMAIN f.blocks /\ Rewritable(f, p[first])
    BY <2>2, <2>4, <2>5
  <2>7. NextRewrite(f) = RewriteOf(f, p[first])
    BY <1>1, <1>3
  <2> HIDE DEF p, first
  <2> QED
    BY <2>6, <2>7, ThreadIsSafe, MergeIsSafe DEF RewriteOf, Rewritable
<1> QED
  BY <1>2, <1>3

\* Two calls, the second put behind the first.
LEMMA TwoListed ==
  ASSUME NEW c, NEW d
  PROVE  <<d>> \o <<c>> = <<d, c>>
<1> DEFINE T == {c, d}
           s == <<d>> \o <<c>>
           t == <<d, c>>
<1>1. <<d>> \in Seq(T) /\ <<c>> \in Seq(T) /\ t \in Seq(T)
  OBVIOUS
<1> HIDE DEF T
<1>2. s \in Seq(T) /\ Len(s) = 2 /\ s[1] = d /\ s[2] = c
  BY <1>1
<1>3. Len(t) = 2 /\ t[1] = d /\ t[2] = c
  OBVIOUS
<1> HIDE DEF s, t
<1>4. s \in [1..2 -> T] /\ t \in [1..2 -> T]
  BY <1>1, <1>2, <1>3, LenProperties
<1>5. \A i \in 1..2 : s[i] = t[i]
  <2>1. \A i \in 1..2 : i = 1 \/ i = 2
    OBVIOUS
  <2> QED
    BY <1>2, <1>3, <2>1
<1>6. s = t
  BY <1>4, <1>5
<1> QED
  BY <1>6 DEF s, t

\* A list of one list is that list.
LEMMA FlattenOne ==
  ASSUME NEW t
  PROVE  FlattenSeq(<<t>>) = t
<1> DEFINE ss == <<t>>
           g == CHOOSE h : IsFlat(h, ss, 1)
<1>1. Len(ss) = 1 /\ ss[1] = t
  OBVIOUS
<1> HIDE DEF ss
<1>2. IsFlat(g, ss, 1)
  BY FlatExists
<1>3. FlattenSeq(ss) = g[1]
  <2>1. g = CHOOSE h : h = [i \in 1..1 |-> IF i = 1 THEN ss[i] ELSE h[i - 1] \o ss[i]]
    BY DEF IsFlat
  <2>2. Len(ss) # 0
    BY <1>1
  <2>3. FlattenSeq(ss) = LET h[i \in 1..Len(ss)] == IF i = 1 THEN ss[i] ELSE h[i - 1] \o ss[i]
                         IN  h[Len(ss)]
    BY <2>2, Zenon DEF FlattenSeq
  <2>4. FlattenSeq(ss) = LET h[i \in 1..1] == IF i = 1 THEN ss[i] ELSE h[i - 1] \o ss[i] IN h[1]
    BY <1>1, <2>3, Zenon
  <2> QED
    BY <2>1, <2>4, Zenon
<1>4. g[1] = ss[1]
  <2>1. g = [i \in 1..1 |-> IF i = 1 THEN ss[i] ELSE g[i - 1] \o ss[i]]
    BY <1>2 DEF IsFlat
  <2>2. 1 \in 1..1
    OBVIOUS
  <2> HIDE DEF g
  <2> QED
    BY <2>1, <2>2
<1> QED
  BY <1>1, <1>3, <1>4 DEF ss

\* A set of no elements, and of one, listed.
LEMMA ListingOfFew ==
  ASSUME NEW x
  PROVE  Listing({}) = <<>> /\ Listing({x}) = <<x>>
<1>1. Listing({}) = <<>>
  <2> DEFINE S == {}
             t == Listing(S)
  <2>1. IsFiniteSet(S) /\ Cardinality(S) = 0
    BY FS_EmptySet
  <2>2. t \in [1..0 -> S]
    BY <2>1, ListingIsList
  <2> HIDE DEF t
  <2>3. t = <<>>
    BY <2>2
  <2> QED
    BY <2>3 DEF t
<1>2. Listing({x}) = <<x>>
  <2> DEFINE S == {x}
             t == Listing(S)
  <2>1. IsFiniteSet(S) /\ Cardinality(S) = 1
    BY FS_Singleton
  <2>2. t \in [1..1 -> S]
    <3> HIDE DEF S
    <3> QED
      BY <2>1, ListingIsList
  <2> HIDE DEF t
  <2>3. t = <<x>>
    BY <2>2
  <2> QED
    BY <2>3 DEF t
<1> QED
  BY <1>1, <1>2

\* What an operation may be replaced by is one value, which can be read wherever
\* the result of the operation can.
LEMMA SameValueSupersedes ==
  ASSUME NEW f, IsInOrder(f), IsSsa(f), NEW a, NEW o, CanBeSimplified(f, a, o)
  PROVE  /\ \A v \in SameValueAs(f, a, o) : Substitutes(f, f.operations[o].results[1], v)
         /\ \A v, w \in SameValueAs(f, a, o) : v = w
         /\ SameValueAs(f, a, o) # {} => ReflexiveConstant(f, a, o) = {}
<1> DEFINE op == f.operations[o]
           r == op.results[1]
           x == op.operands[1]
           inner == f.values[x]
           q == inner.operation
           V == {v \in ToSet(f.operations[q].operands) :
                   /\ f.operations[q].kind = "Not"
                   /\ IsDefinitely(a.values[v], {"boolean"})}
<1>1. /\ o \in DOMAIN f.operations /\ op.kind \in {"Not", "Plus", "StrictEqual", "LessThan"}
      /\ op.kind \in Operators
  BY DEF CanBeSimplified, Operators
<1>2. SameValueAs(f, a, o)
        = CASE op.kind = "Plus" /\ IsNumber(a, op.operands[1]) -> {x}
            [] op.kind = "Not" /\ inner.kind = "OperationResult" -> V
            [] OTHER -> {}
  BY DEF SameValueAs
<1>3. IsFlow(f) /\ RegionsHaveOneOwner(f)
  BY InOrderIsFlow DEF IsSsa
<1>4. r \in DOMAIN f.values /\ f.values[r].kind = "OperationResult" /\ f.values[r].operation = o
  BY <1>1, OperatorHasResult
<1>5. op.kind \in {"Not", "Plus"} => x \in DOMAIN f.values /\ IsAvailableAt(f, x, o)
  <2> SUFFICES ASSUME op.kind \in {"Not", "Plus"} PROVE o \in ReadersOf(f, x)
    BY ReadIsAvailable
  <2>1. 1 \in 1..Arity(op.kind)
    BY DEF Arity
  <2> QED
    BY <1>1, <2>1, OperatorHasResult
<1> HIDE DEF op, r, x
<1>6. CASE op.kind = "Plus"
  <2>1. SameValueAs(f, a, o) \subseteq {x}
    BY <1>2, <1>6
  <2>2. Supersedes(f, r, x)
    BY <1>3, <1>4, <1>5, <1>6, ResultSupersedes
  <2>3. ReflexiveConstant(f, a, o) = {}
    BY <1>6 DEF ReflexiveConstant, op
  <2> QED
    BY <1>4, <1>5, <1>6, <2>1, <2>2, <2>3 DEF op, r, Substitutes
<1>7. CASE op.kind = "Not"
  <2>1. ReflexiveConstant(f, a, o) = {}
    BY <1>7 DEF ReflexiveConstant, op
  <2>2. CASE inner.kind = "OperationResult" /\ f.operations[q].kind = "Not"
    <3>1. q \in DOMAIN f.operations
      BY <1>5, <1>7, <2>2 DEF IsInOrder, DefinitionsAreExact, IsWhereDefined
    <3> DEFINE y == f.operations[q].operands[1]
    <3>2. f.operations[q].kind \in Operators /\ Arity(f.operations[q].kind) = 1
      BY <2>2 DEF Operators, Arity
    <3>3. DOMAIN f.operations[q].operands = 1..1 /\ q \in ReadersOf(f, y)
      <4>1. 1 \in 1..1
        OBVIOUS
      <4>2. Len(f.operations[q].operands) = 1 /\ DOMAIN f.operations[q].operands = 1..Len(f.operations[q].operands)
        BY <3>1, <3>2, OperatorHasResult, Zenon
      <4>3. q \in ReadersOf(f, y)
        BY <3>1, <3>2, <4>1, OperatorHasResult, Zenon
      <4> QED
        BY <4>2, <4>3, Zenon
    <3> HIDE DEF y
    <3>4. y \in DOMAIN f.values /\ IsAvailableAt(f, y, q)
      BY <3>3, ReadIsAvailable
    <3>5. Supersedes(f, x, y)
      BY <1>3, <1>5, <1>7, <2>2, <3>4, ResultSupersedes
    <3>6. IsAvailableAt(f, y, o)
      BY <1>1, <1>5, <1>7, <3>5 DEF Supersedes
    <3>7. Supersedes(f, r, y)
      BY <1>3, <1>4, <3>4, <3>6, ResultSupersedes
    <3>8. SameValueAs(f, a, o) \subseteq {y}
      <4>1. V \subseteq {y}
        <5> SUFFICES ASSUME NEW i \in DOMAIN f.operations[q].operands
                     PROVE  f.operations[q].operands[i] = y
          BY DEF ToSet
        <5>1. i = 1
          BY <3>3
        <5> QED
          BY <5>1, Zenon DEF y
      <4> QED
        BY <1>2, <1>7, <2>2, <4>1
    <3> QED
      BY <1>4, <2>1, <3>4, <3>7, <3>8 DEF op, r, Substitutes
  <2>3. CASE ~ (inner.kind = "OperationResult" /\ f.operations[q].kind = "Not")
    <3>1. SameValueAs(f, a, o) = {}
      BY <1>2, <1>7, <2>3
    <3> QED
      BY <3>1
  <2> QED
    BY <2>2, <2>3
<1>8. CASE op.kind \notin {"Plus", "Not"}
  <2>1. SameValueAs(f, a, o) = {}
    BY <1>2, <1>8
  <2> QED
    BY <2>1
<1> QED
  BY <1>6, <1>7, <1>8

\* simplify_operations.
LEMMA SimplificationIsSafe ==
  ASSUME NEW f, IsInOrder(f), IsSsa(f), NEW a, NEW o
  PROVE  IsSafeBatch(f, SimplificationOf(f, a, o))
<1>1. MovesNoReads(<<>>)
  BY DEF MovesNoReads
<1>2. CASE ~ CanBeSimplified(f, a, o)
  <2>1. SimplificationOf(f, a, o) = <<>>
    BY <1>2 DEF SimplificationOf
  <2> QED
    BY <1>1, <2>1, StillIsSafe
<1>3. CASE CanBeSimplified(f, a, o)
  <2> DEFINE K == ReflexiveConstant(f, a, o)
             V == SameValueAs(f, a, o)
             r == f.operations[o].results[1]
             made(c) == [call |-> "ReplaceWithConstant", operation |-> o, constant |-> c]
             used(v) == <<[call |-> "ReplaceAllUses", value |-> r, replacement |-> v],
                          [call |-> "RemoveOperations", operations |-> {o}]>>
             S == {made(c) : c \in K}
             T == {used(v) : v \in V}
  <2>1. SimplificationOf(f, a, o) = Listing(S) \o FlattenSeq(Listing(T))
    BY <1>3 DEF SimplificationOf
  <2>2. /\ \A v \in V : Substitutes(f, r, v)
        /\ \A v, w \in V : v = w
        /\ V # {} => K = {}
    BY <1>3, SameValueSupersedes
  <2>3. K \subseteq {"true", "false"}
    BY DEF ReflexiveConstant
  <2>4. CASE V = {}
    <3>1. FlattenSeq(Listing(T)) = <<>>
      <4>1. T = {}
        BY <2>4
      <4>2. Listing(T) = <<>>
        BY <4>1, ListingOfFew
      <4> QED
        BY <4>2 DEF FlattenSeq
    <3>2. Listing(S) \in Seq(S) /\ \A c \in S : c.call \notin {"ReplaceAllUses", "ReplaceSuccessor"}
      <4>1. IsFiniteSet(S)
        <5>1. IsFiniteSet({"true", "false"})
          <6>1. IsFiniteSet({"true"}) /\ IsFiniteSet({"false"})
            BY FS_Singleton
          <6>2. IsFiniteSet({"true"} \cup {"false"})
            BY <6>1, FS_Union
          <6>3. {"true"} \cup {"false"} = {"true", "false"}
            OBVIOUS
          <6> QED
            BY <6>2, <6>3
        <5>2. K \in SUBSET {"true", "false"}
          BY <2>3
        <5> HIDE DEF K
        <5>3. IsFiniteSet(K)
          BY <5>1, <5>2, FS_Subset
        <5> DEFINE g == [c \in K |-> made(c)]
        <5>4. g \in Surjection(K, S)
          BY DEF Surjection
        <5> HIDE DEF g, S
        <5> QED
          BY <5>3, <5>4, FS_Surjection
      <4>2. \A c \in S : c.call \notin {"ReplaceAllUses", "ReplaceSuccessor"}
        OBVIOUS
      <4> HIDE DEF S
      <4> QED
        BY <4>1, <4>2, ListingIsList
    <3> DEFINE t == Listing(S)
    <3> HIDE DEF S, T, t
    <3>3. t \in Seq(S)
      BY <3>2 DEF t
    <3>4. SimplificationOf(f, a, o) = t
      BY <2>1, <3>1, <3>3 DEF t
    <3>5. MovesNoReads(t)
      <4>1. \A i \in DOMAIN t : t[i] \in S
        BY <3>3, LenProperties
      <4> QED
        BY <3>2, <4>1 DEF MovesNoReads
    <3> QED
      BY <3>4, <3>5, StillIsSafe
  <2>5. CASE V # {}
    <3>1. PICK v \in V : V = {v}
      BY <2>2, <2>5
    <3> DEFINE d == [call |-> "ReplaceAllUses", value |-> r, replacement |-> v]
               c == [call |-> "RemoveOperations", operations |-> {o}]
               s == <<d>>
    <3>0. <<d>> \o <<c>> = <<d, c>>
      BY TwoListed
    <3>2. S = {} /\ T = {s \o <<c>>}
      <4>1. S = {}
        BY <2>2, <2>5
      <4>2. used(v) = s \o <<c>>
        BY <3>0
      <4>3. T = {used(v)}
        BY <3>1
      <4> QED
        BY <4>1, <4>2, <4>3
    <3>3. d.call = "ReplaceAllUses" /\ Substitutes(f, d.value, d.replacement)
      BY <2>2, <3>1
    <3>4. c.call \notin {"ReplaceAllUses", "ReplaceSuccessor"}
      OBVIOUS
    <3> HIDE DEF S, T, d, c
    <3>5. /\ 1 \in Nat /\ s = [i \in 1..1 |-> s[i]]
          /\ \A i \in 1..1 : s[i].call = "ReplaceAllUses" /\ Substitutes(f, s[i].value, s[i].replacement)
      BY <3>3
    <3>6. s \o <<c>> \in Seq({d, c})
      BY <3>0
    <3> HIDE DEF s
    <3>7. IsSafeBatch(f, s \o <<c>>)
      BY <3>4, <3>5, SubstitutionIsSafe
    <3>8. Listing(S) = <<>>
      BY <3>2, ListingOfFew
    <3>9. FlattenSeq(Listing(T)) = s \o <<c>>
      BY <3>2, ListingOfFew, FlattenOne
    <3>10. SimplificationOf(f, a, o) = s \o <<c>>
      BY <2>1, <3>6, <3>8, <3>9
    <3> QED
      BY <3>7, <3>10
  <2> QED
    BY <2>4, <2>5
<1> QED
  BY <1>2, <1>3

\* Dominance of one block over others leads on to what these dominate, and never
\* back.
LEMMA DominanceIsOrder ==
  ASSUME NEW f, IsGraph(f), NEW b \in DOMAIN f.blocks, NEW c \in DOMAIN f.blocks, NEW d \in DOMAIN f.blocks,
         b \in Reachable(f, f.blocks[b].region), b # c,
         Dominates(f, b, c), Dominates(f, c, d)
  PROVE  Dominates(f, b, d) /\ b # d
<1> DEFINE r == f.blocks[d].region
<1>1. f.blocks[c].region = r /\ d \in Reachable(f, r) /\ d \notin ReachableAvoiding(f, r, {c})
  BY DEF Dominates
<1>2. f.blocks[b].region = r /\ c \notin ReachableAvoiding(f, r, {b})
  BY <1>1 DEF Dominates
<1>3. r \in DOMAIN f.regions
  BY DEF IsGraph, PlacesAreExact
<1> HIDE DEF r
<1>4. ReachableAvoiding(f, r, {b}) \subseteq ReachableAvoiding(f, r, {c})
  BY <1>2, <1>3, AvoidingMore
<1>5. b \in ReachableAvoiding(f, r, {c})
  BY <1>2, <1>3, AvoidingMore
<1>6. b # d /\ d \notin ReachableAvoiding(f, r, {b})
  BY <1>1, <1>4, <1>5
<1> QED
  BY <1>1, <1>2, <1>6 DEF Dominates, r

\* An operator in a block that executes.
IsExecuted(f, o) ==
  /\ o \in DOMAIN f.operations /\ f.operations[o].kind \in Operators
  /\ f.operations[o].block \in Reachable(f, f.blocks[f.operations[o].block].region)

\* Where it is in its block.
LEMMA PositionHolds ==
  ASSUME NEW f, IsInOrder(f), NEW o, IsExecuted(f, o)
  PROVE  LET b == f.operations[o].block
         IN  /\ b \in DOMAIN f.blocks /\ PositionInBlock(f, o) \in Nat
             /\ PositionInBlock(f, o) \in DOMAIN f.blocks[b].contents
             /\ f.blocks[b].contents[PositionInBlock(f, o)] = o
<1> DEFINE b == f.operations[o].block
           s == f.blocks[b].contents
<1>1. o \in ToSet(s) /\ b \in DOMAIN f.blocks
  BY OperatorHasResult DEF IsExecuted
<1>2. s \in Seq(DOMAIN f.operations)
  BY <1>1 DEF IsInOrder, IsLaidOut
<1>3. \E k \in DOMAIN s : s[k] = o
  BY <1>1 DEF ToSet
<1>4. PositionInBlock(f, o) \in DOMAIN s /\ s[PositionInBlock(f, o)] = o
  BY <1>3 DEF PositionInBlock
<1>5. DOMAIN s \subseteq Nat
  <2> HIDE DEF s
  <2> QED
    BY <1>2, LenProperties
<1> QED
  BY <1>1, <1>4, <1>5

\* Operators that are evaluated before one another are in a row.
LEMMA EvaluationIsOrder ==
  ASSUME NEW f, IsInOrder(f), NEW o, NEW p, NEW q,
         IsExecuted(f, o), IsExecuted(f, p), IsExecuted(f, q),
         EvaluatedBefore(f, o, p), EvaluatedBefore(f, p, q)
  PROVE  EvaluatedBefore(f, o, q) /\ o # q
<1> DEFINE b == f.operations[o].block
           c == f.operations[p].block
           d == f.operations[q].block
           x == PositionInBlock(f, o)
           y == PositionInBlock(f, p)
           z == PositionInBlock(f, q)
<1>1. b \in DOMAIN f.blocks /\ c \in DOMAIN f.blocks /\ d \in DOMAIN f.blocks
      /\ x \in Nat /\ y \in Nat /\ z \in Nat
  BY PositionHolds
<1>2. /\ IF b = c THEN x < y ELSE Dominates(f, b, c)
      /\ IF c = d THEN y < z ELSE Dominates(f, c, d)
  BY DEF EvaluatedBefore
<1>3. EvaluatedBefore(f, o, q) <=> IF b = d THEN x < z ELSE Dominates(f, b, d)
  BY DEF EvaluatedBefore
<1>4. b \in Reachable(f, f.blocks[b].region)
  BY DEF IsExecuted
<1>5. IsGraph(f)
  BY InOrderIsFlow, FlowIsGraph
<1>6. o = q => b = d /\ x = z
  OBVIOUS
<1> HIDE DEF b, c, d, x, y, z
<1>7. CASE b = c /\ c = d
  <2>1. b = d /\ x < z
    BY <1>1, <1>2, <1>7
  <2> QED
    BY <1>1, <1>3, <1>6, <2>1
<1>8. CASE b = c /\ c # d
  BY <1>2, <1>3, <1>6, <1>8
<1>9. CASE b # c /\ c = d
  BY <1>2, <1>3, <1>6, <1>9
<1>10. CASE b # c /\ c # d
  <2>1. Dominates(f, b, d) /\ b # d
    BY <1>1, <1>2, <1>4, <1>5, <1>10, DominanceIsOrder
  <2> QED
    BY <1>3, <1>6, <2>1
<1> QED
  BY <1>7, <1>8, <1>9, <1>10

\* What was evaluated before can be read.
LEMMA EvaluatedIsAvailable ==
  ASSUME NEW f, IsInOrder(f), NEW o, NEW p, IsExecuted(f, o), IsExecuted(f, p), EvaluatedBefore(f, o, p)
  PROVE  IsAvailableAt(f, f.operations[o].results[1], p)
<1> DEFINE w == f.operations[o].results[1]
           b == f.operations[o].block
           c == f.operations[p].block
           r == f.blocks[b].region
           s == f.blocks[b].contents
<1>1. IsFlow(f)
  BY InOrderIsFlow
<1>2. o \in DOMAIN f.operations /\ p \in DOMAIN f.operations
  BY DEF IsExecuted
<1>3. w \in DOMAIN f.values /\ f.values[w].kind = "OperationResult" /\ f.values[w].operation = o
  BY OperatorHasResult DEF IsExecuted
<1>4. b \in DOMAIN f.blocks /\ c \in DOMAIN f.blocks
  BY PositionHolds
<1>5. r \in DOMAIN f.regions
  BY <1>4 DEF IsInOrder, PlacesAreExact
<1>6. f.blocks[c].region = r
  BY DEF EvaluatedBefore, Dominates
<1> HIDE DEF w
<1>7. DefiningBlock(f, w) = b /\ RegionOf(f, w) = r /\ IsComputed(f, w)
  BY <1>3 DEF DefiningBlock, RegionOf, IsComputed
<1>8. c \in Scope(f, w)
  <2>1. c \in ToSet(f.regions[r])
    BY <1>4, <1>5, <1>6 DEF IsInOrder, PlacesAreExact
  <2>2. ToSet(f.regions[r]) \subseteq Inside(f, r)
    BY <1>1, <1>5, InsideHolds
  <2> QED
    BY <1>7, <2>1, <2>2 DEF Scope, Inside
<1>9. p \notin NotYet(f, w)
  <2>1. p \notin RunsIn(f, r, {b})
    <3>1. c \notin ReachableAvoiding(f, r, {b})
      <4>1. CASE b = c
        <5>1. IsGraph(f)
          BY <1>1, FlowIsGraph
        <5>2. ReachableAvoiding(f, r, {b}) \cap {b} = {}
          BY <1>5, <5>1, AvoidingIsClosed
        <5> QED
          BY <4>1, <5>2
      <4>2. CASE b # c
        BY <1>6, <4>2 DEF EvaluatedBefore, Dominates
      <4> QED
        BY <4>1, <4>2
    <3> QED
      BY <1>1, <1>5, <3>1, RunsInHolds
  <2>2. p \notin AheadInBlock(f, w)
    <3> SUFFICES ASSUME p \in UpTo(f, o) PROVE FALSE
      BY <1>3 DEF AheadInBlock
    <3>1. c = b
      BY <1>1, <1>2, AheadIsInBlock
    <3>2. \E j \in DOMAIN s : p = s[j] /\ \E k \in DOMAIN s : s[k] = o /\ j <= k
      BY DEF UpTo
    <3>3. PICK j \in DOMAIN s : p = s[j] /\ \E k \in DOMAIN s : s[k] = o /\ j <= k
      BY <3>2
    <3>4. PICK k \in DOMAIN s : s[k] = o /\ j <= k
      BY <3>3
    <3> DEFINE x == PositionInBlock(f, o)
               y == PositionInBlock(f, p)
    <3>5. x \in Nat /\ y \in Nat /\ x \in DOMAIN s /\ s[x] = o
      BY PositionHolds
    <3>6. y \in DOMAIN s /\ s[y] = p
      BY <3>1, PositionHolds
    <3>7. x < y
      BY <3>1 DEF EvaluatedBefore
    <3>8. IsInjective(s)
      BY <1>4 DEF IsInOrder, IsAnalysable
    <3> HIDE DEF x, y, s
    <3>9. x = k /\ y = j
      BY <3>3, <3>4, <3>5, <3>6, <3>8 DEF IsInjective
    <3> QED
      BY <3>4, <3>5, <3>7, <3>9
  <2> QED
    BY <1>7, <2>1, <2>2 DEF NotYet
<1>10. p \notin RunsWithout(f, w)
  <2>1. /\ NotYet(f, w) \in SUBSET DOMAIN f.operations
        /\ \A q \in NotYet(f, w) : f.blocks[f.operations[q].block].region = r
        /\ RunsWithout(f, w) = Running(f, NotYet(f, w))
    BY <1>1, <1>7, NotYetHolds
  <2> DEFINE O == NotYet(f, w)
  <2> HIDE DEF O
  <2>2. p \in Running(f, O) => p \in O
    BY <1>1, <1>5, <1>6, <2>1, RunsInPlace DEF O
  <2> QED
    BY <1>9, <2>1, <2>2 DEF O
<1>11. IsAvailableAt(f, w, p)
  BY <1>8, <1>10 DEF IsAvailableAt
<1> QED
  BY <1>11 DEF w

\* Of the operations that have computed a value before, one is the first.
LEMMA LeaderExists ==
  ASSUME NEW f, IsInOrder(f), NEW a, NEW o, o \in DOMAIN f.operations, IsShareable(f, a, o),
         Available(f, a, o) # {}
  PROVE  Leader(f, a, o) \in Available(f, a, o)
<1> DEFINE D == DOMAIN f.operations
           A(p) == Available(f, a, p)
           N == {Cardinality(A(p)) : p \in A(o)}
<1>1. \A p : A(p) \in SUBSET D
  BY DEF Available
<1>2. IsFiniteSet(D)
  BY DEF IsInOrder, HasSuccessors
<1>3. \A p : IsFiniteSet(A(p)) /\ Cardinality(A(p)) \in Nat
  <2> TAKE p
  <2> DEFINE T == A(p)
  <2>1. T \in SUBSET D
    BY <1>1
  <2> HIDE DEF T, D
  <2>2. IsFiniteSet(T)
    BY <1>2, <2>1, FS_Subset
  <2>3. Cardinality(T) \in Nat
    BY <2>2, FS_CardinalityType
  <2> QED
    BY <2>2, <2>3 DEF T
<1>4. \A p \in A(o) : /\ p \in D /\ IsExecuted(f, p) /\ IsShareable(f, a, p) /\ EvaluatedBefore(f, p, o)
                      /\ ExpressionKey(f, p) = ExpressionKey(f, o)
  BY DEF Available, IsShareable, IsExecuted, Operators
<1>5. IsExecuted(f, o)
  BY DEF IsShareable, IsExecuted, Operators
<1>6. ASSUME NEW p \in A(o), NEW q \in A(p)
      PROVE  q \in A(o) /\ A(q) \subseteq A(p) /\ q \notin A(q)
  <2>1. /\ q \in D /\ IsExecuted(f, q) /\ IsShareable(f, a, q) /\ EvaluatedBefore(f, q, p)
        /\ ExpressionKey(f, q) = ExpressionKey(f, p)
    BY DEF Available, IsShareable, IsExecuted, Operators
  <2>2. EvaluatedBefore(f, q, o) /\ q # o
    BY <1>4, <1>5, <2>1, EvaluationIsOrder
  <2>3. q \in A(o)
    BY <1>4, <2>1, <2>2 DEF Available
  <2>4. ASSUME NEW x \in A(q) PROVE x \in A(p)
    <3>1. /\ x \in D /\ IsExecuted(f, x) /\ IsShareable(f, a, x) /\ EvaluatedBefore(f, x, q)
          /\ ExpressionKey(f, x) = ExpressionKey(f, q)
      BY DEF Available, IsShareable, IsExecuted, Operators
    <3>2. EvaluatedBefore(f, x, p) /\ x # p
      BY <1>4, <2>1, <3>1, EvaluationIsOrder
    <3> QED
      BY <2>1, <3>1, <3>2 DEF Available
  <2>5. q \notin A(q)
    BY DEF Available
  <2> QED
    BY <2>3, <2>4, <2>5
<1> HIDE DEF A, D
<1>7. N \in SUBSET Nat /\ N # {}
  BY <1>3 DEF A
<1>8. PICK n \in N : \A m \in N : n <= m
  <2> HIDE DEF N
  <2> QED
    BY <1>7, LeastNumber
<1>9. PICK p \in A(o) : n = Cardinality(A(p))
  OBVIOUS
<1>10. A(p) = {}
  <2> SUFFICES ASSUME NEW q \in A(p) PROVE FALSE
    OBVIOUS
  <2>1. q \in A(o) /\ A(q) \subseteq A(p) /\ q \notin A(q)
    BY <1>6
  <2>2. n <= Cardinality(A(q))
    BY <1>8, <2>1
  <2> DEFINE S == A(p)
             T == A(q)
  <2>3. IsFiniteSet(S) /\ T \in SUBSET S /\ T # S
    BY <1>3, <2>1
  <2>4. Cardinality(S) \in Nat /\ Cardinality(T) \in Nat /\ Cardinality(S) <= Cardinality(T)
    BY <1>3, <1>9, <2>2
  <2> HIDE DEF S, T
  <2>5. Cardinality(T) <= Cardinality(S) /\ (Cardinality(S) = Cardinality(T) => S = T)
    BY <2>3, FS_Subset
  <2> QED
    BY <2>3, <2>4, <2>5
<1>11. \E x \in Available(f, a, o) : Available(f, a, x) = {}
  BY <1>10 DEF A
<1> QED
  BY <1>11 DEF Leader

\* eliminate_common_subexpressions.
LEMMA ExpressionIsSafe ==
  ASSUME NEW f, IsInOrder(f), IsSsa(f), NEW a
  PROVE  IsSafeBatch(f, ExpressionCalls(f, a))
<1> DEFINE O == {o \in DOMAIN f.operations : IsShareable(f, a, o) /\ Available(f, a, o) # {}}
           p == InOrder(O)
           n == Len(p)
           made(o) == [call |-> "ReplaceAllUses", value |-> f.operations[o].results[1],
                       replacement |-> f.operations[Leader(f, a, o)].results[1]]
           s == [i \in DOMAIN p |-> made(p[i])]
           c == [call |-> "RemoveOperations", operations |-> O]
<1>1. n \in Nat /\ DOMAIN p = 1..n /\ \A i \in 1..n : p[i] \in O
  BY OperationsAreListed
<1>2. ExpressionCalls(f, a) = s \o <<c>>
  BY DEF ExpressionCalls
<1>3. c.call \notin {"ReplaceAllUses", "ReplaceSuccessor"}
  OBVIOUS
<1>4. ASSUME NEW o \in O
      PROVE  Substitutes(f, f.operations[o].results[1], f.operations[Leader(f, a, o)].results[1])
  <2> DEFINE q == Leader(f, a, o)
             v == f.operations[o].results[1]
             w == f.operations[q].results[1]
  <2>1. o \in DOMAIN f.operations /\ IsShareable(f, a, o) /\ Available(f, a, o) # {}
    OBVIOUS
  <2> HIDE DEF O
  <2>2. q \in Available(f, a, o)
    BY <2>1, LeaderExists
  <2> HIDE DEF q
  <2>3. q \in DOMAIN f.operations /\ IsShareable(f, a, q) /\ EvaluatedBefore(f, q, o)
    BY <2>2 DEF Available
  <2>4. IsExecuted(f, o) /\ IsExecuted(f, q)
    BY <2>1, <2>3 DEF IsShareable, IsExecuted, Operators
  <2>5. /\ v \in DOMAIN f.values /\ f.values[v].kind = "OperationResult" /\ f.values[v].operation = o
        /\ w \in DOMAIN f.values
    BY <2>4, OperatorHasResult DEF IsExecuted
  <2>6. IsAvailableAt(f, w, o)
    BY <2>3, <2>4, EvaluatedIsAvailable
  <2>7. IsFlow(f) /\ RegionsHaveOneOwner(f)
    BY InOrderIsFlow DEF IsSsa
  <2> HIDE DEF v, w
  <2>8. Supersedes(f, v, w)
    BY <2>5, <2>6, <2>7, ResultSupersedes
  <2> QED
    BY <2>5, <2>8 DEF v, w, q, Substitutes
<1>5. \A o \in O : made(o).call = "ReplaceAllUses" /\ Substitutes(f, made(o).value, made(o).replacement)
  BY <1>4
<1> HIDE DEF O, p, n, c, made
<1>6. /\ s = [i \in 1..n |-> s[i]]
      /\ \A i \in 1..n : s[i].call = "ReplaceAllUses" /\ Substitutes(f, s[i].value, s[i].replacement)
  BY <1>1, <1>5
<1> HIDE DEF s
<1>7. IsSafeBatch(f, s \o <<c>>)
  BY <1>1, <1>3, <1>6, SubstitutionIsSafe
<1> QED
  BY <1>2, <1>7

\* The passes that move no reads.
LEMMA OthersAreStill ==
  ASSUME NEW f, NEW a
  PROVE  /\ MovesNoReads(ConstantReplacements(f, a)) /\ MovesNoReads(ConstantIfs(f, a))
         /\ MovesNoReads(PruneCalls(f)) /\ MovesNoReads(DeadCodeCalls(f, a))
<1>1. MovesNoReads(ConstantReplacements(f, a))
  BY DEF MovesNoReads, ConstantReplacements
<1>2. MovesNoReads(ConstantIfs(f, a))
  BY DEF MovesNoReads, ConstantIfs
<1>3. MovesNoReads(PruneCalls(f))
  BY DEF MovesNoReads, PruneCalls
<1>4. MovesNoReads(DeadCodeCalls(f, a))
  BY DEF MovesNoReads, DeadCodeCalls
<1> QED
  BY <1>1, <1>2, <1>3, <1>4

-----------------------------------------------------------------------------
(* SSA: every step of OptimizeFunction                                     *)

\* The calls that are left keep SSA, and while a parameter is being removed none
\* of them moves a read.
PendingInv ==
  /\ removal # NoRemoval => Head(calls).call = "RemoveForwardedParameter"
  /\ IsSafeBatch(function, calls)

SsaInv == FactsInv /\ IsSsa(function) /\ PendingInv

\* Paths can be followed, half-way through a removal too.
LEMMA FactsAreFlow == FactsInv => IsFlow(function)
<1> SUFFICES ASSUME FactsInv PROVE IsFlow(function)
  OBVIOUS
<1>1. IsOrderly(function) /\ IsAnalysable(function) /\ WiredInv
  BY DEF FactsInv, EdgeInv, OrderInv
<1>2. \E Lost, k : IsWired(function, Lost, k)
  BY <1>1 DEF WiredInv, HalfRemoved
<1> QED
  BY <1>1, <1>2, WiredIsFlow

\* What remains of a batch once a call of it is made that moves no read.
LEMMA StillAfter ==
  ASSUME NEW f, NEW g, NEW batch, IsKnownBatch(batch), batch # <<>>, IsSafeBatch(f, batch),
         Head(batch).call \notin {"ReplaceAllUses", "ReplaceSuccessor"}
  PROVE  IsSafeBatch(g, batch) /\ IsSafeBatch(g, Tail(batch))
<1>1. MovesNoReads(batch)
  BY RestIsSafe DEF MovesNoReads
<1> DEFINE rest == Tail(batch)
<1>2. IsTakenFrom(rest, batch)
  BY RestIsSafe
<1> HIDE DEF rest
<1>3. MovesNoReads(rest)
  BY <1>1, <1>2 DEF MovesNoReads, IsTakenFrom
<1>4. IsSafeBatch(g, batch) /\ IsSafeBatch(g, rest)
  BY <1>1, <1>3, StillIsSafe
<1> QED
  BY <1>4 DEF rest

\* What remains once a value is replaced by another.
LEMMA SubstitutionGoesOn ==
  ASSUME NEW f, IsExact(f), IsFlow(f), NEW batch, IsKnownBatch(batch), batch # <<>>,
         IsSafeBatch(f, batch), Head(batch).call = "ReplaceAllUses",
         NEW v, NEW w, CanReplaceAllUses(f, v, w), IsFlow(ReplaceAllUses(f, v, w))
  PROVE  IsSafeBatch(ReplaceAllUses(f, v, w), Tail(batch))
<1> DEFINE g == ReplaceAllUses(f, v, w)
           rest == Tail(batch)
<1>1. IsSafeBatch(f, rest) /\ \A i \in DOMAIN batch : batch[i].call # "ReplaceSuccessor"
  BY RestIsSafe
<1>2. IsTakenFrom(rest, batch)
  BY RestIsSafe
<1>3. /\ DOMAIN g.values = DOMAIN f.values /\ DOMAIN g.operations = DOMAIN f.operations
      /\ \A x \in DOMAIN f.values : \A o \in DOMAIN f.operations :
           IsAvailableAt(g, x, o) <=> IsAvailableAt(f, x, o)
  BY ReplaceAllUsesKeepsAvailable
<1> HIDE DEF g, rest
<1>4. \A x, y : Substitutes(f, x, y) => Substitutes(g, x, y)
  BY <1>3 DEF Substitutes, Supersedes
<1>5. \A i \in DOMAIN rest : rest[i].call # "ReplaceSuccessor"
  BY <1>1, <1>2 DEF IsTakenFrom
<1>6. IsSafeBatch(g, rest)
  BY <1>1, <1>4, <1>5 DEF IsSafeBatch
<1> QED
  BY <1>6 DEF g, rest

\* What remains once a successor leads past the block that is threaded.
LEMMA ThreadingGoesOn ==
  ASSUME NEW f, IsFlow(f), NEW g, IsFlow(g), NEW batch, IsKnownBatch(batch), batch # <<>>,
         IsSafeBatch(f, batch), NEW call, call = Head(batch), call.call = "ReplaceSuccessor",
         IsRedirection(f, g, call.operation, call.successor, call.target, call.arguments)
  PROVE  IsSafeBatch(g, Tail(batch)) /\ \E b : IsThreading(f, b, call)
<1> DEFINE rest == Tail(batch)
<1>1. IsSafeBatch(f, rest) /\ \A i \in DOMAIN batch : batch[i].call # "ReplaceAllUses"
  BY RestIsSafe
<1>2. IsTakenFrom(rest, batch)
  BY RestIsSafe
<1> HIDE DEF rest
<1>3. PICK b : \A i \in DOMAIN batch : batch[i].call = "ReplaceSuccessor" => IsThreading(f, b, batch[i])
  BY DEF IsSafeBatch
<1>4. 1 \in DOMAIN batch /\ call = batch[1]
  <2> DEFINE T == ToSet(batch)
  <2>1. batch \in Seq(T)
    BY DEF IsKnownBatch
  <2> HIDE DEF T
  <2> QED
    BY <2>1
<1>5. IsThreading(f, b, call)
  BY <1>3, <1>4
<1>6. ASSUME NEW i \in DOMAIN rest, rest[i].call = "ReplaceSuccessor"
      PROVE  IsThreading(g, b, rest[i])
  <2> DEFINE later == rest[i]
  <2>1. IsThreading(f, b, later)
    BY <1>2, <1>3, <1>6 DEF IsTakenFrom
  <2> HIDE DEF later
  <2>2. IsThreading(g, b, later)
    BY <1>5, <2>1, RedirectionKeepsThreading
  <2> QED
    BY <2>2 DEF later
<1>7. \A i \in DOMAIN rest : rest[i].call # "ReplaceAllUses"
  BY <1>1, <1>2 DEF IsTakenFrom
<1>8. IsSafeBatch(g, rest)
  BY <1>1, <1>6, <1>7 DEF IsSafeBatch
<1> QED
  BY <1>5, <1>8 DEF rest

\* A call that keeps SSA, and leaves calls that do, if its assertions hold.
LEMMA PerformKeepsSsa ==
  ASSUME NEW call, NEW asserts, NEW result,
         SsaInv, Perform(call, asserts, result),
         asserts => IsSsa(result) /\ IsSafeBatch(result, Tail(calls))
  PROVE  IsSsa(function') /\ PendingInv'
<1>1. calls # <<>> /\ removal = NoRemoval
  BY DEF Perform
<1>2. CASE asserts
  <2>1. function' = result /\ calls' = Tail(calls) /\ removal' = NoRemoval
    BY <1>1, <1>2 DEF Perform
  <2> QED
    BY <1>2, <2>1 DEF PendingInv
<1>3. CASE ~ asserts
  <2>1. UNCHANGED <<function, calls, removal>>
    BY <1>3 DEF Perform
  <2> QED
    BY <2>1 DEF SsaInv, PendingInv
<1> QED
  BY <1>2, <1>3

\* A call that moves no read.
LEMMA StillKeepsSsa ==
  ASSUME NEW call, call \notin {"ReplaceAllUses", "ReplaceSuccessor"}, NEW asserts, NEW result,
         SsaInv, Perform(call, asserts, result), asserts => IsSsa(result)
  PROVE  IsSsa(function') /\ PendingInv'
<1>1. calls # <<>> /\ Head(calls).call \notin {"ReplaceAllUses", "ReplaceSuccessor"}
  BY DEF Perform
<1>2. IsKnownBatch(calls) /\ IsSafeBatch(function, calls)
  BY DEF SsaInv, FactsInv, CallsInv, PendingInv
<1>3. IsSafeBatch(result, Tail(calls))
  BY <1>1, <1>2, StillAfter
<1> QED
  BY <1>3, PerformKeepsSsa

\* Every editor call keeps SSA.
LEMMA EditKeepsSsa ==
  ASSUME SsaInv, Edit, IsFlow(function')
  PROVE  IsSsa(function') /\ PendingInv'
<1> DEFINE f == function
<1>1. /\ IsExact(f) /\ IsFlow(f) /\ IsSsa(f) /\ IsKnownBatch(calls) /\ IsSafeBatch(f, calls)
      /\ removal = NoRemoval => IsWired(f, {}, 0)
  BY FactsAreFlow
     DEF SsaInv, FactsInv, EdgeInv, WiredInv, OrderInv, EditorInv, CallsInv, PendingInv
<1>2. CASE PerformReplaceAllUses
  <2> DEFINE v == Call.value
             w == Call.replacement
             g == ReplaceAllUses(f, v, w)
  <2>1. Perform("ReplaceAllUses", CanReplaceAllUses(f, v, w), g)
    BY <1>2 DEF PerformReplaceAllUses
  <2>2. calls # <<>> /\ Head(calls).call = "ReplaceAllUses"
    BY <2>1 DEF Perform
  <2>3. SUFFICES ASSUME CanReplaceAllUses(f, v, w) PROVE IsSsa(g) /\ IsSafeBatch(g, Tail(calls))
    BY <2>1, PerformKeepsSsa
  <2>4. IsFlow(g)
    BY <2>1, <2>3 DEF Perform
  <2>5. Supersedes(f, v, w)
    <3> DEFINE T == ToSet(calls)
    <3>1. calls \in Seq(T)
      BY <1>1 DEF IsKnownBatch
    <3> HIDE DEF T
    <3>2. 1 \in DOMAIN calls /\ Call = calls[1]
      BY <2>2, <3>1 DEF Call
    <3> QED
      BY <1>1, <2>2, <3>2 DEF IsSafeBatch, Substitutes, Call
  <2>6. IsSsa(g)
    BY <1>1, <2>3, <2>4, <2>5, ReplaceAllUsesIsSsa
  <2>7. IsSafeBatch(g, Tail(calls))
    BY <1>1, <2>2, <2>3, <2>4, SubstitutionGoesOn
  <2> QED
    BY <2>6, <2>7
<1>3. CASE PerformRemoveOperations
  <2> DEFINE asserts == CanRemoveOperations(f, Call.operations)
             g == RemoveOperations(f, Call.operations)
  <2>1. Perform("RemoveOperations", asserts, g)
    BY <1>3 DEF PerformRemoveOperations
  <2>2. asserts => IsFlow(g)
    BY <2>1 DEF Perform
  <2>3. asserts => IsSsa(g)
    BY <1>1, <2>2, RemoveOperationsIsSsa
  <2> HIDE DEF asserts, g
  <2> QED
    BY <2>1, <2>3, StillKeepsSsa
<1>4. CASE PerformReplaceWithConstant
  <2> DEFINE asserts == CanReplaceWithConstant(f, Call.operation)
             g == ReplaceWithConstant(f, Call.operation, Call.constant)
  <2>1. Perform("ReplaceWithConstant", asserts, g)
    BY <1>4 DEF PerformReplaceWithConstant
  <2>2. asserts => IsFlow(g)
    BY <2>1 DEF Perform
  <2>3. asserts => IsSsa(g)
    BY <1>1, <2>2, ReplaceWithConstantIsSsa
  <2> HIDE DEF asserts, g
  <2> QED
    BY <2>1, <2>3, StillKeepsSsa
<1>5. CASE PerformReplaceIfWithJump
  <2> DEFINE asserts == CanReplaceIfWithJump(f, Call.operation, Call.successor)
             g == ReplaceIfWithJump(f, Call.operation, Call.successor)
  <2>1. Perform("ReplaceIfWithJump", asserts, g)
    BY <1>5 DEF PerformReplaceIfWithJump
  <2>2. asserts => IsFlow(g)
    BY <2>1 DEF Perform
  <2>3. asserts => IsSsa(g)
    BY <1>1, <2>2, ReplaceIfWithJumpIsSsa
  <2> HIDE DEF asserts, g
  <2> QED
    BY <2>1, <2>3, StillKeepsSsa
<1>6. CASE PerformReplaceSuccessor
  <2> DEFINE call == Head(calls)
             asserts == CanReplaceSuccessor(f, call.operation, call.successor, call.target, call.arguments)
             g == ReplaceSuccessor(f, call.operation, call.successor, call.target, call.arguments)
  <2>1. Perform("ReplaceSuccessor", asserts, g)
    BY <1>6 DEF PerformReplaceSuccessor, Call
  <2>2. calls # <<>> /\ call.call = "ReplaceSuccessor" /\ removal = NoRemoval
    BY <2>1 DEF Perform
  <2>3. SUFFICES ASSUME asserts PROVE IsSsa(g) /\ IsSafeBatch(g, Tail(calls))
    BY <2>1, PerformKeepsSsa
  <2>4. IsFlow(g)
    BY <2>1, <2>3 DEF Perform
  <2>5. IsRedirection(f, g, call.operation, call.successor, call.target, call.arguments)
    BY <1>1, <2>2, <2>3, ReplaceSuccessorRedirects
  <2> HIDE DEF g, asserts
  <2> DEFINE c == call
  <2>6. c = Head(calls) /\ c.call = "ReplaceSuccessor"
        /\ IsRedirection(f, g, c.operation, c.successor, c.target, c.arguments)
    BY <2>2, <2>5
  <2> HIDE DEF c, call
  <2>7. IsSafeBatch(g, Tail(calls)) /\ \E b : IsThreading(f, b, c)
    BY <1>1, <2>2, <2>4, <2>6, ThreadingGoesOn
  <2>8. IsSsa(g)
    BY <1>1, <2>4, <2>6, <2>7, RedirectionIsSsa
  <2> QED
    BY <2>7, <2>8
<1>7. CASE PerformRemoveBlocks
  <2> DEFINE asserts == CanRemoveBlocks(f, Call.blocks)
             g == RemoveBlocks(f, Call.blocks)
  <2>1. Perform("RemoveBlocks", asserts, g)
    BY <1>7 DEF PerformRemoveBlocks
  <2>2. asserts => IsFlow(g)
    BY <2>1 DEF Perform
  <2>3. asserts => IsSsa(g)
    BY <1>1, <2>2, RemoveBlocksIsSsa
  <2> HIDE DEF asserts, g
  <2> QED
    BY <2>1, <2>3, StillKeepsSsa
<1>8. CASE PerformMergeBlock
  <2> DEFINE asserts == CanMergeBlock(f, Call.predecessor, Call.block)
             g == MergeBlock(f, Call.predecessor, Call.block)
  <2>1. Perform("MergeBlock", asserts, g)
    BY <1>8 DEF PerformMergeBlock
  <2>2. (asserts => IsFlow(g)) /\ removal = NoRemoval
    BY <2>1 DEF Perform
  <2>3. asserts => IsSsa(g)
    BY <1>1, <2>2, MergeBlockIsSsa
  <2> HIDE DEF asserts, g
  <2> QED
    BY <2>1, <2>3, StillKeepsSsa
<1>9. CASE BeginRemoval
  <2>1. UNCHANGED <<function, calls>> /\ Head(calls).call = "RemoveForwardedParameter"
    BY <1>9 DEF BeginRemoval, Call
  <2> QED
    BY <1>1, <2>1 DEF PendingInv
<1>10. CASE RemoveArgument
  <2> DEFINE o == Head(removal.edges)[1]
             i == Head(removal.edges)[2]
             g == RemoveSuccessorArgument(f, o, i, removal.index)
             asserts == CanRemoveSuccessorArgument(f, o, i, removal.index)
  <2>1. UNCHANGED calls /\ removal # NoRemoval /\ function' = IF asserts THEN g ELSE f
    BY <1>10 DEF RemoveArgument
  <2>2. calls # <<>> /\ Head(calls).call = "RemoveForwardedParameter"
    BY <2>1 DEF SsaInv, FactsInv, CallsInv, PendingInv
  <2>3. IsSafeBatch(function', calls)
    BY <1>1, <2>2, StillAfter
  <2>4. IsSsa(function')
    <3>1. CASE asserts
      <4>1. \E Lost, k : IsWired(f, Lost, k)
        BY <2>1 DEF SsaInv, FactsInv, EdgeInv, WiredInv, HalfRemoved
      <4>2. "block" \in DOMAIN f.operations[o].targets[i]
        <5>1. o \in DOMAIN f.operations /\ i \in DOMAIN f.operations[o].targets
          BY <3>1 DEF CanRemoveSuccessorArgument
        <5> HIDE DEF o, i
        <5> QED
          BY <4>1, <5>1 DEF IsWired, IsWiredAt
      <4>3. function' = g
        BY <2>1, <3>1
      <4>4. IsSsa(g)
        BY <1>1, <3>1, <4>2, <4>3, RemoveSuccessorArgumentIsSsa
      <4> QED
        BY <4>3, <4>4
    <3>2. CASE ~ asserts
      BY <1>1, <2>1, <3>2
    <3> QED
      BY <3>1, <3>2
  <2> QED
    BY <2>1, <2>2, <2>3, <2>4 DEF PendingInv
<1>11. CASE EndRemoval
  <2> DEFINE b == removal.block
             k == removal.position
             g == RemoveParameter(f, b, k)
  <2>1. function' = g /\ removal' = NoRemoval /\ removal # NoRemoval /\ calls' = Tail(calls)
    BY <1>11 DEF EndRemoval
  <2>2. b \in DOMAIN f.blocks /\ k \in ForwardedPositions(f, b)
    BY <2>1 DEF SsaInv, FactsInv, EdgeInv, OrderInv, RemovedIsParameter, WiredInv, HalfRemoved
  <2>3. IsSsa(g)
    BY <1>1, <2>1, <2>2, RemoveParameterIsSsa
  <2>4. calls # <<>> /\ Head(calls).call = "RemoveForwardedParameter"
    BY <2>1 DEF SsaInv, FactsInv, CallsInv, PendingInv
  <2>5. IsSafeBatch(g, Tail(calls))
    BY <1>1, <2>4, StillAfter
  <2> HIDE DEF g
  <2> QED
    BY <2>1, <2>3, <2>5 DEF PendingInv
<1> QED
  BY <1>2, <1>3, <1>4, <1>5, <1>6, <1>7, <1>8, <1>9, <1>10, <1>11 DEF Edit

\* A pass that plans a batch plans one that keeps SSA.
LEMMA PlanKeepsSsa ==
  ASSUME SsaInv, [Next]_optimizeVars, ~ MakeCall
  PROVE  IsSsa(function') /\ PendingInv'
<1>1. UNCHANGED <<function, removal>>
  BY PlanKeepsFacts DEF SsaInv
<1>2. CASE UNCHANGED calls
  BY <1>1, <1>2 DEF SsaInv, PendingInv
<1>3. CASE IsIdle /\ calls' # calls
  <2>1. IsInOrder(function) /\ IsSsa(function) /\ removal = NoRemoval
    BY <1>3, IdleIsInOrder DEF IsIdle, SsaInv
  <2>2. IsSafeBatch(function, calls')
    <3>1. CASE PropagateConstants
      <4>1. MovesNoReads(calls')
        BY <3>1, OthersAreStill DEF PropagateConstants, RunPass
      <4> QED
        BY <4>1, StillIsSafe
    <3>2. CASE FoldConstantIfs
      <4>1. MovesNoReads(calls')
        BY <3>2, OthersAreStill DEF FoldConstantIfs, RunPass
      <4> QED
        BY <4>1, StillIsSafe
    <3>3. CASE PruneUnreachableBlocks
      <4>1. MovesNoReads(calls')
        BY <3>3, OthersAreStill DEF PruneUnreachableBlocks, RunPass
      <4> QED
        BY <4>1, StillIsSafe
    <3>4. CASE EliminateCommonSubexpressions
      BY <2>1, <3>4, ExpressionIsSafe DEF EliminateCommonSubexpressions, RunPass
    <3>5. CASE EliminateDeadCode
      <4>1. MovesNoReads(calls')
        BY <3>5, OthersAreStill DEF EliminateDeadCode, RunPass
      <4> QED
        BY <4>1, StillIsSafe
    <3>6. CASE SimplifyControlFlow
      BY <2>1, <3>6, RewriteIsSafe DEF SimplifyControlFlow
    <3>7. CASE SimplifyOperation
      BY <2>1, <3>7, SimplificationIsSafe DEF SimplifyOperation
    <3>8. CASE SimplifyBlock
      <4> DEFINE b == Head(work)
                 trivial == TrivialParameters(function, b)
                 index == CHOOSE i \in trivial : \A j \in trivial : i <= j
      <4>1. trivial # {} /\ calls' = ParameterCalls(function, b, index)
        BY <1>3, <3>8 DEF SimplifyBlock
      <4>2. trivial \in SUBSET Nat
        <5>1. ASSUME NEW i \in trivial PROVE i \in 1..Cardinality(ForwardedPositions(function, b))
          BY DEF TrivialParameters
        <5> QED
          BY <5>1
      <4> HIDE DEF trivial
      <4>3. index \in trivial
        BY <4>1, <4>2, LeastNumber
      <4> HIDE DEF b, index
      <4>4. index \in TrivialParameters(function, b)
        BY <4>3 DEF trivial
      <4> QED
        BY <2>1, <4>1, <4>4, ParameterIsSafe
    <3> QED
      BY <1>3, <3>1, <3>2, <3>3, <3>4, <3>5, <3>6, <3>7, <3>8
         DEF Next, optimizeVars, Rest, StartSimplifyOperations, StartSimplifyBlockParameters,
             FinishWork
  <2> QED
    BY <1>1, <2>1, <2>2 DEF PendingInv
<1> QED
  BY <1>2, <1>3 DEF Next, optimizeVars, Rest, RunPass, PropagateConstants, FoldConstantIfs,
         PruneUnreachableBlocks, EliminateCommonSubexpressions, EliminateDeadCode,
         SimplifyControlFlow, StartSimplifyOperations, SimplifyOperation,
         StartSimplifyBlockParameters, SimplifyBlock, FinishWork

\* Every step keeps SSA.
LEMMA NextKeepsSsa == SsaInv /\ [Next]_optimizeVars => SsaInv'
<1> SUFFICES ASSUME SsaInv, [Next]_optimizeVars PROVE SsaInv'
  OBVIOUS
<1>1. FactsInv'
  BY NextKeepsFacts DEF SsaInv
<1>2. IsFlow(function')
  <2>1. IsOrderly(function') /\ IsAnalysable(function') /\ WiredInv'
    BY <1>1 DEF FactsInv, EdgeInv, OrderInv
  <2>2. \E Lost, k : IsWired(function', Lost, k)
    BY <2>1 DEF WiredInv, HalfRemoved
  <2> QED
    BY <2>1, <2>2, WiredIsFlow
<1>3. IsSsa(function') /\ PendingInv'
  <2>1. CASE MakeCall
    BY <1>2, <2>1, EditKeepsSsa DEF MakeCall
  <2>2. CASE ~ MakeCall
    BY <2>2, PlanKeepsSsa
  <2> QED
    BY <2>1, <2>2
<1> QED
  BY <1>1, <1>3 DEF SsaInv

\* A function comes to the passes in SSA.
LEMMA InitIsSsa == Init => SsaInv
<1> SUFFICES ASSUME Init PROVE SsaInv
  OBVIOUS
<1>1. FactsInv
  BY InitHasFacts
<1>2. IsSsa(function)
  BY SourcesAreSsa DEF Init
<1>3. PendingInv
  <2>1. calls = <<>> /\ removal = NoRemoval
    BY DEF Init
  <2>2. MovesNoReads(<<>>)
    BY DEF MovesNoReads
  <2>3. IsSafeBatch(function, calls)
    BY <2>1, <2>2, StillIsSafe
  <2> QED
    BY <2>1, <2>3 DEF PendingInv
<1> QED
  BY <1>1, <1>2, <1>3 DEF SsaInv

\* SSA is kept: whatever a pass has asked for, and after every single call of
\* its batch, half-way through the removal of a block parameter too, what an
\* operation reads was computed on every path that leads to it.
THEOREM ReadsAlwaysAvailable == Spec => []DefinitionsDominateUses
<1>1. SsaInv => DefinitionsDominateUses
  BY DEF SsaInv, IsSsa, DefinitionsDominateUses
<1> QED
  BY InitIsSsa, NextKeepsSsa, <1>1, PTL DEF Spec

\* Whatever the passes have made of a function, and whichever of two users or
\* entries the worklists of the value analysis take first, the analysis ends with
\* the least solution of its equations.
THEOREM FactsAlwaysExact == Spec => []FactsExact
<1>1. SsaInv => FactsExact
  <2> SUFFICES ASSUME SsaInv, IsIdle, NEW order \in Orders
               PROVE  Solve(function, order) = LeastFacts(function)
    BY DEF FactsExact
  <2>1. IsInOrder(function)
    BY IdleIsInOrder DEF IsIdle, SsaInv
  <2>2. ReadsAreAvailable(function)
    BY DEF SsaInv, IsSsa
  <2> QED
    BY <2>1, <2>2, SolveIsLeast
<1> QED
  BY InitIsSsa, NextKeepsSsa, <1>1, PTL DEF Spec
=============================================================================
