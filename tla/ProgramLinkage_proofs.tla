------------------------- MODULE ProgramLinkage_proofs -------------------------
(***************************************************************************)
(* Export resolution, for every program: the walk over re-exports is well  *)
(* defined, and finds what the exports it can reach say together.          *)
(***************************************************************************)
EXTENDS ProgramLinkage, FiniteSetTheorems, SequenceTheorems, WellFoundedInduction, TLAPS

-----------------------------------------------------------------------------
(* The parts of a program                                                  *)

\* The parts of a program have the types JsProgramIr gives them.
LEMMA ProgramParts ==
  ASSUME NEW p \in JsProgramIr
  PROVE  /\ p.modules \subseteq Module
         /\ p.entries \subseteq Module
         /\ p.dependencies \subseteq ModuleDependency
         /\ \A m \in Module :
              /\ p.imports[m] \subseteq ModuleImport
              /\ p.exports[m] \in Seq(ModuleExport)
              /\ p.bindings[m] \subseteq Binding
              /\ p.loads[m] \subseteq Binding
  BY DEF JsProgramIr

\* An export at a position of an export list is an export.
LEMMA ExportTypes ==
  ASSUME NEW p \in JsProgramIr, NEW m \in Module, NEW i \in DOMAIN p.exports[m]
  PROVE  /\ i \in Nat
         /\ p.exports[m][i] \in ModuleExport
         /\ p.exports[m][i] \in ToSet(p.exports[m])
         /\ p.exports[m][i].kind = "Local" => p.exports[m][i].binding \in Binding
         /\ p.exports[m][i].kind = "Indirect" => p.exports[m][i].imported \in Name
<1>1. p.exports[m] \in Seq(ModuleExport)
  BY ProgramParts
<1>2. DOMAIN p.exports[m] = 1..Len(p.exports[m]) /\ Len(p.exports[m]) \in Nat
  BY <1>1, LenProperties
<1>3. i \in Nat /\ p.exports[m][i] \in ModuleExport
  BY <1>1, <1>2, ElementOfSeq
<1>4. p.exports[m][i] \in ToSet(p.exports[m])
  BY DEF ToSet
<1>5. ASSUME NEW e \in ModuleExport
      PROVE  /\ e.kind = "Local" => e.binding \in Binding
             /\ e.kind = "Indirect" => e.imported \in Name
  BY DEF ModuleExport
<1> QED
  BY <1>3, <1>4, <1>5

-----------------------------------------------------------------------------
(* Induction                                                               *)

\* A set that holds 0, and k if it holds k - 1, holds all of 0..n.
LEMMA IntervalInduction ==
  ASSUME NEW n \in Nat, NEW T, 0 \in T, \A k \in 1..n : k - 1 \in T => k \in T
  PROVE  0..n \subseteq T
<1> DEFINE Bad == (0..n) \ T
<1> SUFFICES ASSUME Bad # {} PROVE FALSE
  OBVIOUS
<1>1. Bad \subseteq Nat
  OBVIOUS
<1>2. PICK b \in Bad : \A k \in Bad : ~(<<k, b>> \in OpToRel(<, Nat))
  BY <1>1, NatLessThanWellFounded, WFMin
<1>3. b \in 1..n /\ b - 1 \in 0..n /\ b - 1 < b
  OBVIOUS
<1>4. <<b - 1, b>> \in OpToRel(<, Nat)
  BY <1>3 DEF OpToRel
<1> QED
  BY <1>2, <1>3, <1>4

\* The same for all natural numbers.
LEMMA NatSetInduction ==
  ASSUME NEW T, 0 \in T, \A k \in Nat : k \in T => k + 1 \in T
  PROVE  Nat \subseteq T
<1> SUFFICES ASSUME NEW n \in Nat PROVE n \in T
  OBVIOUS
<1>1. \A k \in 1..n : k - 1 \in T => k \in T
  <2> SUFFICES ASSUME NEW k \in 1..n, k - 1 \in T PROVE k \in T
    OBVIOUS
  <2>1. k - 1 \in Nat /\ (k - 1) + 1 = k
    OBVIOUS
  <2> QED
    BY <2>1
<1>2. 0..n \subseteq T
  BY <1>1, IntervalInduction
<1> QED
  BY <1>2

-----------------------------------------------------------------------------
(* Closures of finite sets                                                 *)

\* What LeastClosed needs of a step: it takes nothing away, and does no less
\* to a larger set.
IsClosing(E, step) ==
  /\ step \in [SUBSET E -> SUBSET E]
  /\ \A S \in SUBSET E : S \subseteq step[S]
  /\ \A S, T \in SUBSET E : S \subseteq T => step[S] \subseteq step[T]

\* The equation that defines LeastClosed.
IsClosure(C, E, step) == C = [D \in SUBSET E |-> IF step[D] = D THEN D ELSE C[step[D]]]

\* It has a solution: the intersection of the closed sets above a set.
LEMMA ClosingExists ==
  ASSUME NEW E, NEW step, IsClosing(E, step)
  PROVE  \E C : IsClosure(C, E, step)
<1> DEFINE Above(D) == {X \in SUBSET E : D \subseteq X /\ step[X] = X}
           Least(D) == {e \in E : \A X \in Above(D) : e \in X}
           C == [D \in SUBSET E |-> Least(D)]
<1>1. ASSUME NEW D \in SUBSET E, step[D] = D
      PROVE  Least(D) = D
  BY <1>1
<1>2. ASSUME NEW D \in SUBSET E
      PROVE  step[D] \in SUBSET E /\ Least(step[D]) = Least(D)
  <2>1. step[D] \in SUBSET E /\ D \subseteq step[D]
    BY DEF IsClosing
  <2>2. ASSUME NEW X \in SUBSET E, step[X] = X
        PROVE  step[D] \subseteq X <=> D \subseteq X
    BY <2>1, <2>2 DEF IsClosing
  <2>3. Above(step[D]) = Above(D)
    BY <2>2
  <2> QED
    BY <2>1, <2>3
<1>3. IsClosure(C, E, step)
  BY <1>1, <1>2 DEF IsClosure
<1> QED
  BY <1>3

\* LeastClosed is what it is called.  A set for which it were not would be
\* followed by a larger one, and E is finite.
LEMMA LeastClosedHolds ==
  ASSUME NEW E, IsFiniteSet(E), NEW step, IsClosing(E, step), NEW S \in SUBSET E
  PROVE  /\ LeastClosed(E, step, S) \in SUBSET E
         /\ S \subseteq LeastClosed(E, step, S)
         /\ step[LeastClosed(E, step, S)] = LeastClosed(E, step, S)
         /\ \A X \in SUBSET E :
              S \subseteq X /\ step[X] \subseteq X => LeastClosed(E, step, S) \subseteq X
<1> DEFINE C == CHOOSE C : C = [D \in SUBSET E |-> IF step[D] = D THEN D ELSE C[step[D]]]
           Good(D) == /\ C[D] \in SUBSET E /\ D \subseteq C[D] /\ step[C[D]] = C[D]
                      /\ \A X \in SUBSET E : D \subseteq X /\ step[X] \subseteq X => C[D] \subseteq X
           Bad == {Y \in SUBSET E : ~Good(E \ Y)}
<1>1. C = [D \in SUBSET E |-> IF step[D] = D THEN D ELSE C[step[D]]]
  <2>1. \E F : IsClosure(F, E, step)
    BY ClosingExists
  <2> QED
    BY <2>1, Zenon DEF IsClosure
<1>2. LeastClosed(E, step, S) = C[S]
  BY DEF LeastClosed
<1> HIDE DEF C
<1>3. ASSUME NEW D \in SUBSET E, step[D] # D => Good(step[D])
      PROVE  Good(D)
  <2>1. step[D] \in SUBSET E /\ D \subseteq step[D]
    BY DEF IsClosing
  <2>2. CASE step[D] = D
    <3>1. C[D] = D
      BY <1>1, <2>2
    <3> QED
      BY <2>2, <3>1
  <2>3. CASE step[D] # D
    <3>1. C[D] = C[step[D]]
      BY <1>1, <2>3
    <3>2. ASSUME NEW X \in SUBSET E, D \subseteq X, step[X] \subseteq X
          PROVE  step[D] \subseteq X
      BY <3>2 DEF IsClosing
    <3> QED
      BY <1>3, <2>1, <2>3, <3>1, <3>2
  <2> QED
    BY <2>2, <2>3
<1> HIDE DEF Good
<1>4. Bad = {}
  <2> SUFFICES ASSUME Bad # {} PROVE FALSE
    OBVIOUS
  <2>1. IsWellFoundedOn(StrictSubsetOrdering(E), SUBSET E)
    BY FS_StrictSubsetOrderingWellFounded, FS_FiniteSubsetsOfFinite
  <2>2. Bad \subseteq SUBSET E
    OBVIOUS
  <2>3. PICK Y \in Bad : \A Z \in Bad : ~(<<Z, Y>> \in StrictSubsetOrdering(E))
    BY <2>1, <2>2, WFMin
  <2> DEFINE D == E \ Y
             Z == E \ step[D]
  <2>4. D \in SUBSET E /\ ~Good(D)
    OBVIOUS
  <2>5. step[D] # D /\ ~Good(step[D])
    BY <1>3, <2>4
  <2>6. step[D] \in SUBSET E /\ D \subseteq step[D]
    BY <2>4 DEF IsClosing
  <2>7. Z \in SUBSET E /\ E \ Z = step[D]
    BY <2>6
  <2>8. Z \in Bad
    BY <2>5, <2>7
  <2>9. <<Z, Y>> \in StrictSubsetOrdering(E)
    <3>1. Z \subseteq Y /\ Z # Y
      BY <2>5, <2>6
    <3> QED
      BY <2>7, <3>1 DEF StrictSubsetOrdering
  <2> QED
    BY <2>3, <2>8, <2>9
<1>5. E \ S \notin Bad /\ E \ S \in SUBSET E /\ E \ (E \ S) = S
  BY <1>4
<1>6. Good(S)
  BY <1>5
<1> QED
  BY <1>2, <1>6 DEF Good
-----------------------------------------------------------------------------
(* The walk is well defined                                                *)

\* Where a walk has been.
Pair == Module \X Name

\* A result whose resolve set is no smaller than S.
Keeps(S, r) == S \subseteq r.seen /\ r.seen \in SUBSET Pair

\* A walk never forgets where it has been.
WalkGrows(w) ==
  /\ w = [c \in ExportCall |-> w[c]]
  /\ \A c \in ExportCall : Keeps(c.seen, w[c])

\* Two walks do the same from the calls that have been in all of S.
AgreeFrom(w, v, S) == \A c \in ExportCall : S \subseteq c.seen => w[c] = v[c]

\* The answer to a request, if there is one, is a target.
LEMMA ReExportTargetTypes ==
  ASSUME NEW p \in JsProgramIr, NEW m, NEW source, ReExportTarget(p, m, source) # {}
  PROVE  /\ (CHOOSE t \in ReExportTarget(p, m, source) : TRUE) \in ReExportTarget(p, m, source)
         /\ ReExportTarget(p, m, source) = {CHOOSE t \in ReExportTarget(p, m, source) : TRUE}
         /\ (CHOOSE t \in ReExportTarget(p, m, source) : TRUE) \in ModuleTarget
<1> DEFINE T == Targets(p, m, "ReExport", source)
<1>1. T \subseteq ModuleTarget
  BY ProgramParts DEF Targets, ModuleDependency
<1>2. ReExportTarget(p, m, source) = {t \in T : T = {t}}
  BY DEF ReExportTarget, UniqueTarget
<1> HIDE DEF T
<1> QED
  BY <1>1, <1>2

\* Following a re-export to its one target keeps what was seen, if the
\* walk does (resolve_target_export).
LEMMA TargetGrows ==
  ASSUME NEW p \in JsProgramIr, NEW w, WalkGrows(w), NEW m \in Module, NEW source,
         NEW name \in Name, NEW S \in SUBSET Pair
  PROVE  Keeps(S, ResolveTargetExport(p, w, m, source, name, S))
<1> DEFINE targets == ReExportTarget(p, m, source)
           t == CHOOSE x \in targets : TRUE
           c == [module |-> t.module, name |-> name, seen |-> S]
<1>1. CASE targets # {} /\ t.kind = "Internal"
  <2>1. t.module \in Module
    BY <1>1, ReExportTargetTypes DEF ModuleTarget
  <2>2. c \in ExportCall
    BY <2>1 DEF ExportCall, Pair
  <2>3. ResolveTargetExport(p, w, m, source, name, S) = w[c]
    BY <1>1 DEF ResolveTargetExport
  <2> QED
    BY <2>2, <2>3 DEF WalkGrows
<1>2. CASE targets = {} \/ t.kind # "Internal"
  BY <1>2 DEF Keeps, ResolveTargetExport, Result
<1> QED
  BY <1>1, <1>2

\* Two walks that agree on every call that has seen at least S answer
\* alike through a re-export, once S has been seen.
LEMMA TargetAgrees ==
  ASSUME NEW p \in JsProgramIr, NEW w, NEW v, NEW S \in SUBSET Pair, AgreeFrom(w, v, S),
         NEW m \in Module, NEW source, NEW name \in Name, NEW V \in SUBSET Pair, S \subseteq V
  PROVE  ResolveTargetExport(p, w, m, source, name, V) = ResolveTargetExport(p, v, m, source, name, V)
<1> DEFINE targets == ReExportTarget(p, m, source)
           t == CHOOSE x \in targets : TRUE
           c == [module |-> t.module, name |-> name, seen |-> V]
<1>1. CASE targets # {} /\ t.kind = "Internal"
  <2>1. t.module \in Module
    BY <1>1, ReExportTargetTypes DEF ModuleTarget
  <2>2. c \in ExportCall /\ c.seen = V
    BY <2>1 DEF ExportCall, Pair
  <2>3. w[c] = v[c]
    BY <2>2 DEF AgreeFrom
  <2> QED
    BY <1>1, <2>3 DEF ResolveTargetExport
<1>2. CASE targets = {} \/ t.kind # "Internal"
  BY <1>2 DEF ResolveTargetExport
<1> QED
  BY <1>1, <1>2

\* The loop over the exports of a module, up to the n-th: what it has found
\* after each of them.
IsStarLoop(f, p, w, m, name, S, n) ==
  f = [k \in 0..n |-> IF k = 0 THEN Result(NotFound, S)
                      ELSE ResolveStarExport(p, w, m, p.exports[m][k], name, f[k - 1])]

\* The loop over the export list has a result for every prefix of it.
LEMMA StarLoopExists ==
  ASSUME NEW p, NEW w, NEW m, NEW name, NEW S, NEW n \in Nat
  PROVE  \E f : IsStarLoop(f, p, w, m, name, S, n)
<1> DEFINE T == {k \in Nat : \E f : IsStarLoop(f, p, w, m, name, S, k)}
           Step(k, r) == ResolveStarExport(p, w, m, p.exports[m][k], name, r)
<1>1. \A f, k : IsStarLoop(f, p, w, m, name, S, k) <=>
        f = [j \in 0..k |-> IF j = 0 THEN Result(NotFound, S) ELSE Step(j, f[j - 1])]
  BY DEF IsStarLoop
<1> HIDE DEF Step
<1>2. 0 \in T
  <2> DEFINE f == [j \in 0..0 |-> Result(NotFound, S)]
  <2>1. f = [j \in 0..0 |-> IF j = 0 THEN Result(NotFound, S) ELSE Step(j, f[j - 1])]
    OBVIOUS
  <2> QED
    BY <1>1, <2>1
<1>3. ASSUME NEW k \in Nat, k \in T PROVE k + 1 \in T
  <2>1. PICK f : IsStarLoop(f, p, w, m, name, S, k)
    BY <1>3
  <2> DEFINE g == [j \in 0..(k + 1) |-> IF j = 0 THEN Result(NotFound, S) ELSE Step(j, f[j - 1])]
  <2>2. f = [j \in 0..k |-> IF j = 0 THEN Result(NotFound, S) ELSE Step(j, f[j - 1])]
    BY <1>1, <2>1
  <2>3. ASSUME NEW j \in 1..(k + 1) PROVE g[j - 1] = f[j - 1]
    <3>1. j - 1 \in 0..k /\ j - 1 \in 0..(k + 1)
      OBVIOUS
    <3> QED
      BY <2>2, <3>1
  <2>4. \A j \in 0..(k + 1) : j # 0 => j \in 1..(k + 1)
    OBVIOUS
  <2>5. g = [j \in 0..(k + 1) |-> IF j = 0 THEN Result(NotFound, S) ELSE Step(j, g[j - 1])]
    <3> DEFINE h == [j \in 0..(k + 1) |-> IF j = 0 THEN Result(NotFound, S) ELSE Step(j, g[j - 1])]
    <3>1. \A j \in 0..(k + 1) : g[j] = h[j]
      BY <2>3, <2>4
    <3> QED
      BY <3>1
  <2>6. IsStarLoop(g, p, w, m, name, S, k + 1)
    BY <1>1, <2>5, Zenon
  <2> QED
    BY <2>6
<1>4. Nat \subseteq T
  BY <1>2, <1>3, NatSetInduction
<1> QED
  BY <1>4

\* The equations of a loop, one by one.
StarLoopRuns(f, p, w, m, name, S, n) ==
  /\ f[0] = Result(NotFound, S)
  /\ \A k \in 1..n : f[k] = ResolveStarExport(p, w, m, p.exports[m][k], name, f[k - 1])

\* What the definition of the loop says of its start and of each of its
\* turns.
LEMMA StarLoopSteps ==
  ASSUME NEW p, NEW w, NEW m, NEW name, NEW S, NEW n \in Nat, NEW f,
         IsStarLoop(f, p, w, m, name, S, n)
  PROVE  StarLoopRuns(f, p, w, m, name, S, n)
<1> DEFINE Step(k, r) == ResolveStarExport(p, w, m, p.exports[m][k], name, r)
<1>1. f = [k \in 0..n |-> IF k = 0 THEN Result(NotFound, S) ELSE Step(k, f[k - 1])]
  BY DEF IsStarLoop
<1> HIDE DEF Step
<1>2. 0 \in 0..n /\ \A k \in 1..n : k \in 0..n /\ k # 0
  OBVIOUS
<1>3. f[0] = Result(NotFound, S) /\ \A k \in 1..n : f[k] = Step(k, f[k - 1])
  BY <1>1, <1>2
<1> QED
  BY <1>3 DEF Step, StarLoopRuns

\* ResolveStarExports runs this loop to its end.
LEMMA StarExportsLoop ==
  ASSUME NEW p \in JsProgramIr, NEW w, NEW m \in Module, NEW name, NEW S
  PROVE  /\ Len(p.exports[m]) \in Nat /\ DOMAIN p.exports[m] = 1..Len(p.exports[m])
         /\ \E f : /\ IsStarLoop(f, p, w, m, name, S, Len(p.exports[m]))
                   /\ ResolveStarExports(p, w, m, name, S) = f[Len(p.exports[m])]
<1> DEFINE n == Len(p.exports[m])
           f == CHOOSE f : IsStarLoop(f, p, w, m, name, S, n)
<1>1. n \in Nat /\ DOMAIN p.exports[m] = 1..n
  BY ProgramParts, LenProperties
<1>2. IsStarLoop(f, p, w, m, name, S, n)
  BY <1>1, StarLoopExists
<1>3. ResolveStarExports(p, w, m, name, S) = f[n]
  BY Zenon DEF ResolveStarExports, IsStarLoop
<1> QED
  BY <1>1, <1>2, <1>3

\* One turn of the loop over `export *` keeps what was seen so far.
LEMMA StarExportGrows ==
  ASSUME NEW p \in JsProgramIr, NEW w, WalkGrows(w), NEW m \in Module,
         NEW export, NEW name \in Name, NEW sofar, sofar.seen \in SUBSET Pair
  PROVE  Keeps(sofar.seen, ResolveStarExport(p, w, m, export, name, sofar))
<1> DEFINE next == ResolveTargetExport(p, w, m, export.source, name, sofar.seen)
<1>1. Keeps(sofar.seen, next)
  BY TargetGrows
<1>2. \/ ResolveStarExport(p, w, m, export, name, sofar) = sofar
      \/ ResolveStarExport(p, w, m, export, name, sofar)
           = [answer |-> JoinStar(sofar.answer, next.answer), seen |-> next.seen]
  BY DEF ResolveStarExport, Result
<1> HIDE DEF next
<1> QED
  BY <1>1, <1>2 DEF Keeps

\* One turn of the loop is the same for two walks that agree from what was
\* seen so far.
LEMMA StarExportAgrees ==
  ASSUME NEW p \in JsProgramIr, NEW w, NEW v, NEW S \in SUBSET Pair, AgreeFrom(w, v, S),
         NEW m \in Module, NEW export, NEW name \in Name, NEW sofar,
         sofar.seen \in SUBSET Pair, S \subseteq sofar.seen
  PROVE  ResolveStarExport(p, w, m, export, name, sofar) = ResolveStarExport(p, v, m, export, name, sofar)
  BY TargetAgrees DEF ResolveStarExport

\* The whole loop over `export *` keeps what was seen, in each of its
\* turns.
LEMMA StarExportsGrow ==
  ASSUME NEW p \in JsProgramIr, NEW w, WalkGrows(w), NEW m \in Module, NEW name \in Name,
         NEW S \in SUBSET Pair, NEW f, IsStarLoop(f, p, w, m, name, S, Len(p.exports[m]))
  PROVE  \A k \in 0..Len(p.exports[m]) : Keeps(S, f[k])
<1> DEFINE n == Len(p.exports[m])
           T == {k \in 0..n : Keeps(S, f[k])}
<1>1. n \in Nat /\ DOMAIN p.exports[m] = 1..n
  BY StarExportsLoop
<1>2. StarLoopRuns(f, p, w, m, name, S, n)
  BY <1>1, StarLoopSteps
<1>3. 0 \in T
  BY <1>1, <1>2 DEF StarLoopRuns, Result, Keeps
<1>4. ASSUME NEW k \in 1..n, k - 1 \in T PROVE k \in T
  <2>1. k \in DOMAIN p.exports[m] /\ k \in 0..n
    BY <1>1
  <2> QED
    <3> DEFINE before == f[k - 1]
               export == p.exports[m][k]
    <3>1. f[k] = ResolveStarExport(p, w, m, export, name, before)
      BY <1>2 DEF StarLoopRuns
    <3>2. S \subseteq before.seen /\ before.seen \in SUBSET Pair
      BY <1>4 DEF Keeps
    <3> HIDE DEF before, export
    <3>3. Keeps(before.seen, f[k])
      BY <3>1, <3>2, StarExportGrows
    <3>4. Keeps(S, f[k])
      BY <3>2, <3>3 DEF Keeps
    <3> QED
      BY <2>1, <3>4
<1>5. 0..n \subseteq T
  BY <1>1, <1>3, <1>4, IntervalInduction
<1> QED
  BY <1>5

\* The whole loop is the same for two walks that agree from what was seen
\* at its start.
LEMMA StarExportsAgree ==
  ASSUME NEW p \in JsProgramIr, NEW w, NEW v, WalkGrows(w), NEW S \in SUBSET Pair,
         AgreeFrom(w, v, S), NEW m \in Module, NEW name \in Name
  PROVE  ResolveStarExports(p, w, m, name, S) = ResolveStarExports(p, v, m, name, S)
<1> DEFINE n == Len(p.exports[m])
<1>1. n \in Nat /\ DOMAIN p.exports[m] = 1..n
  BY StarExportsLoop
<1>2. PICK f : IsStarLoop(f, p, w, m, name, S, n) /\ ResolveStarExports(p, w, m, name, S) = f[n]
  BY StarExportsLoop
<1>3. PICK g : IsStarLoop(g, p, v, m, name, S, n) /\ ResolveStarExports(p, v, m, name, S) = g[n]
  BY StarExportsLoop
<1> DEFINE T == {k \in 0..n : f[k] = g[k]}
<1>4. StarLoopRuns(f, p, w, m, name, S, n)
  BY <1>1, <1>2, StarLoopSteps
<1>5. StarLoopRuns(g, p, v, m, name, S, n)
  BY <1>1, <1>3, StarLoopSteps
<1>6. \A k \in 0..n : Keeps(S, f[k])
  BY <1>2, StarExportsGrow
<1>7. 0 \in T
  BY <1>1, <1>4, <1>5 DEF StarLoopRuns
<1>8. ASSUME NEW k \in 1..n, k - 1 \in T PROVE k \in T
  <2>1. k \in 0..n /\ k - 1 \in 0..n
    BY <1>1
  <2>2. ResolveStarExport(p, w, m, p.exports[m][k], name, f[k - 1])
          = ResolveStarExport(p, v, m, p.exports[m][k], name, f[k - 1])
    BY <1>6, <2>1, StarExportAgrees DEF Keeps
  <2> QED
    BY <1>4, <1>5, <1>8, <2>1, <2>2 DEF StarLoopRuns
<1>9. 0..n \subseteq T
  BY <1>1, <1>7, <1>8, IntervalInduction
<1> QED
  BY <1>1, <1>2, <1>3, <1>9

\* The exports that can answer for a name are exports of the module that carry it.
LEMMA ExplicitExportTypes ==
  ASSUME NEW p \in JsProgramIr, NEW m \in Module, NEW name, NEW i \in ExplicitExport(p, m, name)
  PROVE  /\ i \in DOMAIN p.exports[m]
         /\ p.exports[m][i] \in ModuleExport
         /\ p.exports[m][i].kind \in {"Local", "Indirect", "Namespace"}
         /\ p.exports[m][i].kind = "Local" => p.exports[m][i].binding \in Binding
         /\ p.exports[m][i].kind = "Indirect" => p.exports[m][i].imported \in Name
         /\ ExplicitExport(p, m, name) = {i}
<1>1. /\ i \in DOMAIN p.exports[m]
      /\ HasExportedName(p.exports[m][i], name)
      /\ \A j \in DOMAIN p.exports[m] : j < i => ~HasExportedName(p.exports[m][j], name)
  BY DEF ExplicitExport
<1>2. ASSUME NEW j \in ExplicitExport(p, m, name) PROVE j = i
  <2>1. /\ j \in DOMAIN p.exports[m]
        /\ HasExportedName(p.exports[m][j], name)
        /\ \A k \in DOMAIN p.exports[m] : k < j => ~HasExportedName(p.exports[m][k], name)
    BY DEF ExplicitExport
  <2>2. i \in Nat /\ j \in Nat
    BY <1>1, <2>1, ExportTypes
  <2>3. ~(j < i) /\ ~(i < j)
    BY <1>1, <2>1
  <2> QED
    BY <2>2, <2>3
<1> QED
  BY <1>1, <1>2, ExportTypes DEF HasExportedName

\* An explicit export entry keeps what was seen, whatever its kind.
LEMMA ExplicitGrows ==
  ASSUME NEW p \in JsProgramIr, NEW w, WalkGrows(w), NEW m \in Module,
         NEW name, NEW i \in ExplicitExport(p, m, name), NEW S \in SUBSET Pair
  PROVE  Keeps(S, ResolveExplicitExport(p, w, m, p.exports[m][i], S))
<1> DEFINE e == p.exports[m][i]
           r == ResolveExplicitExport(p, w, m, e, S)
<1>1. CASE e.kind = "Indirect"
  <2>1. r = ResolveTargetExport(p, w, m, e.source, e.imported, S) /\ e.imported \in Name
    BY <1>1, ExplicitExportTypes DEF ResolveExplicitExport
  <2> HIDE DEF e, r
  <2> QED
    BY <2>1, TargetGrows DEF e, r
<1>2. CASE e.kind # "Indirect"
  BY <1>2, ExplicitExportTypes DEF Keeps, ResolveExplicitExport, Result
<1> QED
  BY <1>1, <1>2

\* A call leaves a larger resolve set than it finds.
LEMMA CallGrows ==
  ASSUME NEW p \in JsProgramIr, NEW w, WalkGrows(w), NEW c \in ExportCall
  PROVE  Keeps(c.seen, ResolveCall(p, w, c))
<1> DEFINE m == c.module
           visited == c.seen \cup {<<m, c.name>>}
           explicit == ExplicitExport(p, m, c.name)
           r == ResolveCall(p, w, c)
<1>1. m \in Module /\ c.name \in Name /\ c.seen \in SUBSET Pair /\ visited \in SUBSET Pair
  BY DEF ExportCall, Pair
<1>2. CASE explicit # {} /\ <<m, c.name>> \notin c.seen /\ m \in p.modules
  <2> DEFINE i == CHOOSE i \in explicit : TRUE
  <2>1. i \in explicit
    BY <1>2
  <2>2. r = ResolveExplicitExport(p, w, m, p.exports[m][i], visited)
    BY <1>2 DEF ResolveCall
  <2>3. Keeps(visited, r)
    <3> HIDE DEF i, visited, m
    <3>1. i \in ExplicitExport(p, m, c.name)
      BY <2>1
    <3> HIDE DEF explicit, r
    <3> QED
      BY <1>1, <2>2, <3>1, ExplicitGrows
  <2> QED
    BY <2>3 DEF Keeps
<1>3. CASE explicit = {} /\ <<m, c.name>> \notin c.seen /\ m \in p.modules /\ c.name # "default"
  <2>1. r = ResolveStarExports(p, w, m, c.name, visited)
    BY <1>3 DEF ResolveCall
  <2>2. PICK f : /\ IsStarLoop(f, p, w, m, c.name, visited, Len(p.exports[m]))
                 /\ r = f[Len(p.exports[m])]
    BY <1>1, <2>1, StarExportsLoop
  <2>3. Len(p.exports[m]) \in 0..Len(p.exports[m])
    BY <1>1, StarExportsLoop
  <2>4. Keeps(visited, r)
    <3> HIDE DEF m, visited, r
    <3>1. \A k \in 0..Len(p.exports[m]) : Keeps(visited, f[k])
      BY <1>1, <2>2, StarExportsGrow, Zenon
    <3> QED
      BY <2>2, <2>3, <3>1, Zenon
  <2> QED
    BY <2>4 DEF Keeps
<1>4. CASE \/ <<m, c.name>> \in c.seen
           \/ m \notin p.modules
           \/ explicit = {} /\ c.name = "default"
  BY <1>1, <1>4 DEF Keeps, ResolveCall, Result
<1> QED
  BY <1>2, <1>3, <1>4

\* What a call does depends on the calls with a larger resolve set only.
LEMMA CallAgrees ==
  ASSUME NEW p \in JsProgramIr, NEW w, NEW v, WalkGrows(w), NEW c \in ExportCall,
         AgreeFrom(w, v, c.seen \cup {<<c.module, c.name>>})
  PROVE  ResolveCall(p, w, c) = ResolveCall(p, v, c)
<1> DEFINE m == c.module
           visited == c.seen \cup {<<m, c.name>>}
           explicit == ExplicitExport(p, m, c.name)
           i == CHOOSE i \in explicit : TRUE
           e == p.exports[m][i]
<1>1. m \in Module /\ c.name \in Name /\ visited \in SUBSET Pair
  BY DEF ExportCall, Pair
<1>2. ASSUME explicit # {}
      PROVE  ResolveExplicitExport(p, w, m, e, visited) = ResolveExplicitExport(p, v, m, e, visited)
  <2>1. i \in explicit
    BY <1>2
  <2>2. CASE e.kind = "Indirect"
    <3>1. e.imported \in Name
      BY <1>1, <2>1, <2>2, ExplicitExportTypes
    <3>2. ResolveTargetExport(p, w, m, e.source, e.imported, visited)
            = ResolveTargetExport(p, v, m, e.source, e.imported, visited)
      BY <1>1, <3>1, TargetAgrees
    <3> QED
      BY <2>2, <3>2 DEF ResolveExplicitExport
  <2>3. CASE e.kind # "Indirect"
    <3>1. e.kind \in {"Local", "Namespace"}
      BY <1>1, <2>1, <2>3, ExplicitExportTypes
    <3> QED
      BY <3>1 DEF ResolveExplicitExport
  <2> QED
    BY <2>2, <2>3
<1>3. ResolveStarExports(p, w, m, c.name, visited) = ResolveStarExports(p, v, m, c.name, visited)
  BY <1>1, StarExportsAgree
<1> QED
  BY <1>2, <1>3 DEF ResolveCall

\* A walk that is right for the calls with less than n pairs left to visit.
IsWalkTo(p, w, n) ==
  /\ WalkGrows(w)
  /\ \A c \in ExportCall : Cardinality(Pair \ c.seen) < n => w[c] = ResolveCall(p, w, c)

\* There are finitely many pairs of a module and a name, so a walk that
\* sees a new one with every call must end.
LEMMA PairsAreFinite == IsFiniteSet(Pair) /\ \A S : IsFiniteSet(Pair \ S)
<1>1. IsFiniteSet(Pair)
  BY FiniteIds, FS_Product DEF Pair
<1>2. \A S : Pair \ S \subseteq Pair
  OBVIOUS
<1> QED
  BY <1>1, <1>2, FS_Subset

\* A call that visits a pair leaves less pairs to visit.
LEMMA VisitingIsProgress ==
  ASSUME NEW S, NEW x \in Pair, x \notin S, NEW V, S \cup {x} \subseteq V
  PROVE  /\ Cardinality(Pair \ S) \in Nat /\ Cardinality(Pair \ V) \in Nat
         /\ Cardinality(Pair \ V) < Cardinality(Pair \ S)
<1> DEFINE A == Pair \ S
           B == Pair \ V
<1>1. IsFiniteSet(A) /\ IsFiniteSet(B) /\ B \subseteq A /\ B # A
  BY PairsAreFinite
<1> HIDE DEF A, B
<1>2. Cardinality(A) \in Nat /\ Cardinality(B) \in Nat /\ Cardinality(B) < Cardinality(A)
  BY <1>1, FS_CardinalityType, FS_Subset
<1> QED
  BY <1>2 DEF A, B

\* By induction on the number of pairs not yet seen: a function on calls
\* that satisfies the walk's equation for every call that has at most n
\* pairs left to see.
LEMMA WalkToExists ==
  ASSUME NEW p \in JsProgramIr, NEW n \in Nat
  PROVE  \E w : IsWalkTo(p, w, n)
<1> DEFINE T == {k \in Nat : \E w : IsWalkTo(p, w, k)}
<1>1. 0 \in T
  <2> DEFINE w == [c \in ExportCall |-> Result(NotFound, c.seen)]
  <2>1. w = [c \in ExportCall |-> w[c]]
    OBVIOUS
  <2>2. ASSUME NEW c \in ExportCall PROVE Keeps(c.seen, w[c])
    BY DEF Keeps, Result, ExportCall, Pair
  <2>3. ASSUME NEW c \in ExportCall PROVE ~(Cardinality(Pair \ c.seen) < 0)
    <3>1. Cardinality(Pair \ c.seen) \in Nat
      BY PairsAreFinite, FS_CardinalityType
    <3> QED
      BY <3>1
  <2> HIDE DEF w
  <2>4. IsWalkTo(p, w, 0)
    BY <2>1, <2>2, <2>3 DEF IsWalkTo, WalkGrows
  <2> QED
    BY <2>4
<1>2. ASSUME NEW k \in Nat, k \in T PROVE k + 1 \in T
  <2>1. PICK w : IsWalkTo(p, w, k)
    BY <1>2
  <2> DEFINE v == [c \in ExportCall |-> ResolveCall(p, w, c)]
  <2>2. \A c \in ExportCall : v[c] = ResolveCall(p, w, c)
    OBVIOUS
  <2>3. v = [c \in ExportCall |-> v[c]]
    OBVIOUS
  <2> HIDE DEF v
  <2>4. WalkGrows(w) /\ WalkGrows(v)
    BY <2>1, <2>2, <2>3, CallGrows DEF IsWalkTo, WalkGrows
  <2>5. ASSUME NEW c \in ExportCall, Cardinality(Pair \ c.seen) < k + 1
        PROVE  v[c] = ResolveCall(p, v, c)
    <3> DEFINE x == <<c.module, c.name>>
    <3>1. CASE x \in c.seen
      BY <2>2, <3>1 DEF ResolveCall
    <3>2. CASE x \notin c.seen
      <4>1. x \in Pair
        BY DEF ExportCall, Pair
      <4>2. ASSUME NEW d \in ExportCall, c.seen \cup {x} \subseteq d.seen
            PROVE  w[d] = v[d]
        <5>1. /\ Cardinality(Pair \ c.seen) \in Nat /\ Cardinality(Pair \ d.seen) \in Nat
              /\ Cardinality(Pair \ d.seen) < Cardinality(Pair \ c.seen)
          BY <3>2, <4>1, <4>2, VisitingIsProgress
        <5>2. Cardinality(Pair \ d.seen) < k
          BY <2>5, <5>1
        <5> QED
          BY <2>1, <2>2, <5>2 DEF IsWalkTo
      <4>3. AgreeFrom(w, v, c.seen \cup {x})
        BY <4>2 DEF AgreeFrom
      <4> QED
        BY <2>2, <2>4, <4>3, CallAgrees
    <3> QED
      BY <3>1, <3>2
  <2>6. IsWalkTo(p, v, k + 1)
    BY <2>4, <2>5 DEF IsWalkTo
  <2> QED
    BY <2>6
<1>3. Nat \subseteq T
  BY <1>1, <1>2, NatSetInduction
<1> QED
  BY <1>3

\* The equation that defines the walk, and that it has a solution.
IsWalk(p, w) == w = [call \in ExportCall |-> ResolveCall(p, w, call)]

\* The walk is well defined: a function of the calls solves the equation
\* that the recursive resolver states, and it keeps what was seen.
LEMMA WalkExists ==
  ASSUME NEW p \in JsProgramIr
  PROVE  \E w : IsWalk(p, w) /\ WalkGrows(w)
<1> DEFINE n == Cardinality(Pair)
<1>1. n \in Nat
  BY PairsAreFinite, FS_CardinalityType
<1>2. PICK w : IsWalkTo(p, w, n + 1)
  BY <1>1, WalkToExists
<1>3. ASSUME NEW c \in ExportCall PROVE w[c] = ResolveCall(p, w, c)
  <2>1. Cardinality(Pair \ c.seen) \in Nat /\ Cardinality(Pair \ c.seen) <= n
    <3>1. Pair \ c.seen \subseteq Pair
      OBVIOUS
    <3> QED
      BY <3>1, PairsAreFinite, FS_Subset, FS_CardinalityType
  <2>2. Cardinality(Pair \ c.seen) < n + 1
    BY <1>1, <2>1
  <2> QED
    BY <1>2, <2>2 DEF IsWalkTo
<1>4. w = [c \in ExportCall |-> w[c]]
  BY <1>2 DEF IsWalkTo, WalkGrows
<1>5. w = [c \in ExportCall |-> ResolveCall(p, w, c)]
  BY <1>3, <1>4
<1> QED
  BY <1>2, <1>5 DEF IsWalk, IsWalkTo

\* ResolveExport gives the answer of this walk.
LEMMA ResolveExportWalks ==
  ASSUME NEW p \in JsProgramIr
  PROVE  \E w : /\ IsWalk(p, w)
                /\ \A m \in Module, name \in Name :
                     ResolveExport(p, m, name) = w[[module |-> m, name |-> name, seen |-> {}]].answer
<1> DEFINE w == CHOOSE w : IsWalk(p, w)
<1>1. IsWalk(p, w)
  BY WalkExists
<1>2. \A m \in Module, name \in Name :
        ResolveExport(p, m, name) = w[[module |-> m, name |-> name, seen |-> {}]].answer
  BY Zenon DEF ResolveExport, IsWalk
<1> QED
  BY <1>1, <1>2

-----------------------------------------------------------------------------
(* The walk finds what the exports it can reach say together               *)

\* The exports a name is looked up through, what they lead to and what they say.
LookedUp(p, m, name) ==
  LET explicit == ExplicitExport(p, m, name)
  IN  IF explicit # {} \/ name = "default" THEN {p.exports[m][i] : i \in explicit}
      ELSE {e \in ToSet(p.exports[m]) : e.kind = "Star"}

PairLeadsTo(p, x) == UNION {ExportLeadsTo(p, x[1], e, x[2]) : e \in LookedUp(p, x[1], x[2])}
PairSays(p, x) == UNION {ExportSays(p, x[1], e, x[2]) : e \in LookedUp(p, x[1], x[2])}

\* A set of pairs that holds whatever its pairs lead to.
FollowsReExports(p, K) == K \in SUBSET Pair /\ \A x \in K : PairLeadsTo(p, x) \subseteq K

\* What resolve_export can answer: no export is found to be unresolved.
IsAnswer(answer) ==
  answer \in {NotFound, Unresolved} \/ \E t : t # UnresolvedTarget /\ answer = Found(t)

\* What the pairs of K say justifies an answer: they say what is found, and
\* what is left unresolved they contradict each other about, or the host does.
Contradictory(p, K) ==
  \/ \E x \in K : UnresolvedTarget \in PairSays(p, x)
  \/ \E x, y \in K : \E t \in PairSays(p, x), u \in PairSays(p, y) : t # u

Justified(p, K, answer) ==
  /\ answer = Unresolved => Contradictory(p, K)
  /\ \A t : answer = Found(t) => \E x \in K : t \in PairSays(p, x)

\* The exports X of the pair x are behind the result r: it has visited what they
\* lead to, and answers what they say.
Covers(p, x, X, r) ==
  r.answer # Unresolved =>
    \A e \in X : /\ ExportLeadsTo(p, x[1], e, x[2]) \subseteq r.seen
                 /\ \A t \in ExportSays(p, x[1], e, x[2]) : r.answer = Found(t)

\* A walk below x that found the resolve set S and left it with the result r
\* visited nothing that x does not lead to, answers with good reason, and has
\* all that it visited behind its answer.
Visits(p, x, S, r) ==
  /\ Keeps(S, r) /\ IsAnswer(r.answer)
  /\ \A K : FollowsReExports(p, K) /\ x \in K =>
       r.seen \subseteq S \cup K /\ Justified(p, K, r.answer)
  /\ \A y \in r.seen \ S : Covers(p, y, LookedUp(p, y[1], y[2]), r)

\* What the walk must do for a call.
CallIsSound(p, w, c) ==
  LET x == <<c.module, c.name>>
  IN  x \in w[c].seen /\ Visits(p, x, c.seen, w[c])

SoundFrom(p, w, S) ==
  \A c \in ExportCall : c.module \in p.modules /\ S \subseteq c.seen => CallIsSound(p, w, c)

\* The one target of a request is the module it names, or no module.
LEMMA InternalTargetOf ==
  ASSUME NEW p, NEW m, NEW request, NEW source, NEW t, UniqueTarget(p, m, request, source) = {t}
  PROVE  /\ t.kind # "Internal" => InternalTarget(p, m, request, source) = {}
         /\ t.module \in Module /\ t = [kind |-> "Internal", module |-> t.module] =>
              InternalTarget(p, m, request, source) = {t.module}
<1>1. InternalTarget(p, m, request, source) = {n \in Module : [kind |-> "Internal", module |-> n] = t}
  BY DEF InternalTarget
<1>2. ASSUME NEW n, [kind |-> "Internal", module |-> n] = t
      PROVE  t.kind = "Internal" /\ t.module = n
  BY <1>2
<1>3. ASSUME t.kind # "Internal" PROVE InternalTarget(p, m, request, source) = {}
  BY <1>1, <1>2, <1>3, Zenon
<1>4. ASSUME t.module \in Module, t = [kind |-> "Internal", module |-> t.module]
      PROVE  InternalTarget(p, m, request, source) = {t.module}
  <2>1. t.module \in InternalTarget(p, m, request, source)
    BY <1>1, <1>4, Zenon
  <2>2. \A n \in InternalTarget(p, m, request, source) : n = t.module
    BY <1>1, <1>2, Zenon
  <2> QED
    BY <2>1, <2>2
<1> QED
  BY <1>3, <1>4

\* The three kinds of answers differ, and a found one names one target.
LEMMA AnswersDiffer ==
  /\ NotFound # Unresolved
  /\ \A t : Found(t) # NotFound /\ Found(t) # Unresolved
  /\ \A t, u : Found(t) = Found(u) => t = u
<1>1. ASSUME NEW t PROVE Found(t).kind = "Found" /\ Found(t).target = t
  BY DEF Found
<1>2. NotFound.kind = "NotFound" /\ Unresolved.kind = "Unresolved"
  BY DEF NotFound, Unresolved
<1> QED
  BY <1>1, <1>2

\* One export of a pair that the walk does not follow.
LEMMA ExportAnswers ==
  ASSUME NEW p, NEW m, NEW name, NEW e \in LookedUp(p, m, name), NEW V \in SUBSET Pair,
         ExportLeadsTo(p, m, e, name) = {}, NEW answer,
         \/ answer = Unresolved /\ UnresolvedTarget \in ExportSays(p, m, e, name)
         \/ \E u : /\ answer = Found(u) /\ u # UnresolvedTarget
                   /\ ExportSays(p, m, e, name) = {u}
  PROVE  /\ Visits(p, <<m, name>>, V, Result(answer, V))
         /\ Covers(p, <<m, name>>, {e}, Result(answer, V))
<1> DEFINE x == <<m, name>>
           r == Result(answer, V)
<1>1. x[1] = m /\ x[2] = name /\ r.answer = answer /\ r.seen = V
  BY DEF Result
<1> HIDE DEF x, r
<1>2. ExportSays(p, m, e, name) \subseteq PairSays(p, x)
  BY <1>1 DEF PairSays
<1>3. ASSUME NEW K, x \in K PROVE Justified(p, K, answer)
  <2>1. CASE answer = Unresolved /\ UnresolvedTarget \in ExportSays(p, m, e, name)
    BY <1>2, <1>3, <2>1, AnswersDiffer DEF Justified, Contradictory
  <2>2. ASSUME NEW u, answer = Found(u), u # UnresolvedTarget,
               ExportSays(p, m, e, name) = {u}
        PROVE  Justified(p, K, answer)
    BY <1>2, <1>3, <2>2, AnswersDiffer DEF Justified
  <2> QED
    BY <2>1, <2>2
<1>4. Visits(p, x, V, r)
  BY <1>1, <1>3 DEF Visits, Keeps, IsAnswer
<1>5. Covers(p, x, {e}, r)
  BY <1>1 DEF Covers
<1> QED
  BY <1>4, <1>5 DEF x, r

\* One export of a pair, asked for by a request.
LEMMA TargetVisits ==
  ASSUME NEW p \in JsProgramIr, WellFormed(p), NEW w, NEW S \in SUBSET Pair, SoundFrom(p, w, S),
         NEW m \in p.modules, NEW name \in Name, NEW e \in LookedUp(p, m, name),
         e.kind \in {"Indirect", "Star"}, NameBehind(e, name) \in Name,
         NEW V \in SUBSET Pair, S \subseteq V, NEW r,
         r = ResolveTargetExport(p, w, m, e.source, NameBehind(e, name), V)
  PROVE  Visits(p, <<m, name>>, V, r) /\ Covers(p, <<m, name>>, {e}, r)
<1> DEFINE x == <<m, name>>
           behind == NameBehind(e, name)
           targets == ReExportTarget(p, m, e.source)
           t == CHOOSE t \in targets : TRUE
<1>1. x[1] = m /\ x[2] = name
  OBVIOUS
<1>2. e.kind # "Local" /\ e.kind # "Namespace" /\ HasSource(e)
  BY DEF HasSource
<1>3. CASE targets = {}
  <2>1. r = Result(Unresolved, V)
    BY <1>3 DEF ResolveTargetExport
  <2>2. UnresolvedTarget \in ExportSays(p, m, e, name)
    BY <1>2, <1>3 DEF ExportSays
  <2>3. ExportLeadsTo(p, m, e, name) = {}
    BY <1>3 DEF ExportLeadsTo, InternalTarget, ReExportTarget
  <2> QED
    BY <2>1, <2>2, <2>3, ExportAnswers
<1>4. CASE targets # {} /\ t.kind # "Internal"
  <2> DEFINE u == OutsideTarget(t, behind)
  <2>1. r = Result(Found(u), V)
    BY <1>4 DEF ResolveTargetExport
  <2>2. targets = {t}
    BY <1>4, ReExportTargetTypes
  <2>3. ExportSays(p, m, e, name) = {u}
    BY <1>2, <1>4, <2>2 DEF ExportSays
  <2>4. ExportLeadsTo(p, m, e, name) = {}
    <3>1. UniqueTarget(p, m, "ReExport", e.source) = {t}
      BY <2>2 DEF ReExportTarget
    <3>2. InternalTarget(p, m, "ReExport", e.source) = {}
      BY <1>4, <3>1, InternalTargetOf
    <3> QED
      BY <3>2 DEF ExportLeadsTo
  <2>5. u # UnresolvedTarget
    BY DEF OutsideTarget, UnresolvedTarget
  <2> QED
    BY <2>1, <2>3, <2>4, <2>5, ExportAnswers
<1>5. CASE targets # {} /\ t.kind = "Internal"
  <2> DEFINE c == [module |-> t.module, name |-> behind, seen |-> V]
             y == <<t.module, behind>>
  <2>1. r = w[c]
    BY <1>5 DEF ResolveTargetExport
  <2>2. targets = {t} /\ t \in ModuleTarget /\ t \in targets
    BY <1>5, ReExportTargetTypes
  <2>3. t.module \in Module /\ t = [kind |-> "Internal", module |-> t.module]
    BY <1>5, <2>2 DEF ModuleTarget
  <2>4. t.module \in p.modules
    BY <1>5, <2>2 DEF ReExportTarget, UniqueTarget, Targets, WellFormed
  <2>5. c \in ExportCall /\ c.module = t.module /\ c.name = behind /\ c.seen = V
    BY <2>3 DEF ExportCall, Pair
  <2>6. y \in r.seen /\ Visits(p, y, V, r)
    BY <2>1, <2>4, <2>5 DEF SoundFrom, CallIsSound
  <2>7. ExportLeadsTo(p, m, e, name) = {y}
    <3>1. UniqueTarget(p, m, "ReExport", e.source) = {t}
      BY <2>2 DEF ReExportTarget
    <3>2. InternalTarget(p, m, "ReExport", e.source) = {t.module}
      BY <2>3, <3>1, InternalTargetOf
    <3> QED
      BY <3>2 DEF ExportLeadsTo
  <2>8. ExportSays(p, m, e, name) = {}
    BY <1>2, <1>5, <2>2 DEF ExportSays
  <2>9. ASSUME NEW K, FollowsReExports(p, K), x \in K PROVE y \in K
    <3>1. ExportLeadsTo(p, m, e, name) \subseteq PairLeadsTo(p, x)
      BY <1>1 DEF PairLeadsTo
    <3> QED
      BY <2>7, <2>9, <3>1 DEF FollowsReExports
  <2>10. Visits(p, x, V, r)
    BY <2>6, <2>9 DEF Visits
  <2>11. Covers(p, x, {e}, r)
    BY <1>1, <2>6, <2>7, <2>8 DEF Covers
  <2> QED
    BY <2>10, <2>11
<1> QED
  BY <1>3, <1>4, <1>5

\* The one export that carries a name.
LEMMA ExplicitVisits ==
  ASSUME NEW p \in JsProgramIr, WellFormed(p), NEW w, NEW S \in SUBSET Pair, SoundFrom(p, w, S),
         NEW m \in p.modules, NEW name \in Name, NEW i \in ExplicitExport(p, m, name),
         NEW V \in SUBSET Pair, S \subseteq V, NEW r,
         r = ResolveExplicitExport(p, w, m, p.exports[m][i], V)
  PROVE  Visits(p, <<m, name>>, V, r) /\ Covers(p, <<m, name>>, LookedUp(p, m, name), r)
<1> DEFINE e == p.exports[m][i]
<1>1. m \in Module
  BY ProgramParts
<1>2. /\ e.kind \in {"Local", "Indirect", "Namespace"}
      /\ e.kind = "Indirect" => e.imported \in Name
      /\ ExplicitExport(p, m, name) = {i}
  BY <1>1, ExplicitExportTypes
<1>3. LookedUp(p, m, name) = {e}
  BY <1>2 DEF LookedUp
<1>4. r = ResolveExplicitExport(p, w, m, e, V)
  OBVIOUS
<1> HIDE DEF e
<1>5. CASE e.kind = "Local"
  <2> DEFINE u == BindingTarget(m, e.binding)
  <2>1. r = Result(Found(u), V)
    BY <1>4, <1>5 DEF ResolveExplicitExport
  <2>2. u # UnresolvedTarget
    BY DEF BindingTarget, UnresolvedTarget
  <2>3. ExportSays(p, m, e, name) = {u} /\ ExportLeadsTo(p, m, e, name) = {}
    BY <1>5 DEF ExportSays, HasSource, ExportLeadsTo
  <2> HIDE DEF u
  <2> QED
    BY <1>3, <2>1, <2>2, <2>3, ExportAnswers
<1>6. CASE e.kind = "Namespace"
  <2> DEFINE targets == ReExportTarget(p, m, e.source)
             t == CHOOSE t \in targets : TRUE
             u == NamespaceTarget(t)
  <2>1. ExportLeadsTo(p, m, e, name) = {}
    BY <1>6 DEF ExportLeadsTo
  <2>2. CASE targets = {}
    <3>1. r = Result(Unresolved, V)
      BY <1>4, <1>6, <2>2 DEF ResolveExplicitExport
    <3>2. UnresolvedTarget \in ExportSays(p, m, e, name)
      BY <1>6, <2>2 DEF ExportSays, HasSource
    <3> QED
      BY <1>3, <2>1, <3>1, <3>2, ExportAnswers
  <2>3. CASE targets # {}
    <3>1. r = Result(Found(u), V)
      BY <1>4, <1>6, <2>3 DEF ResolveExplicitExport
    <3>2. targets = {t}
      BY <2>3, ReExportTargetTypes
    <3>3. ExportSays(p, m, e, name) = {u}
      BY <1>6, <2>3, <3>2 DEF ExportSays
    <3>4. u # UnresolvedTarget
      BY DEF NamespaceTarget, UnresolvedTarget
    <3> HIDE DEF u
    <3> QED
      BY <1>3, <2>1, <3>1, <3>3, <3>4, ExportAnswers
  <2> QED
    BY <2>2, <2>3
<1>7. CASE e.kind = "Indirect"
  <2>1. NameBehind(e, name) = e.imported /\ e.imported \in Name
    BY <1>2, <1>7 DEF NameBehind
  <2>2. r = ResolveTargetExport(p, w, m, e.source, NameBehind(e, name), V)
    BY <1>4, <1>7, <2>1 DEF ResolveExplicitExport
  <2> QED
    BY <1>3, <1>7, <2>1, <2>2, TargetVisits
<1> QED
  BY <1>2, <1>5, <1>6, <1>7

\* The kind of an answer says which it is.
LEMMA AnswerKinds ==
  ASSUME NEW a, IsAnswer(a)
  PROVE  /\ a.kind = "NotFound" <=> a = NotFound
         /\ a = NotFound \/ a = Unresolved \/ \E t : a = Found(t)
<1>1. ASSUME NEW t PROVE Found(t).kind = "Found"
  BY DEF Found
<1>2. NotFound.kind = "NotFound" /\ Unresolved.kind = "Unresolved"
  BY DEF NotFound, Unresolved
<1> QED
  BY <1>1, <1>2 DEF IsAnswer

\* One more `export *': what is behind the answer so far, and what is behind
\* that of the next one, is behind the answer they make together.
LEMMA JoinVisits ==
  ASSUME NEW p, NEW x, NEW X, NEW e, NEW V, NEW a, NEW b, NEW r,
         Visits(p, x, V, a), Covers(p, x, X, a), a.answer # Unresolved,
         Visits(p, x, a.seen, b), Covers(p, x, {e}, b),
         r = Result(JoinStar(a.answer, b.answer), b.seen)
  PROVE  Visits(p, x, V, r) /\ Covers(p, x, X \cup {e}, r)
<1>1. r.answer = JoinStar(a.answer, b.answer) /\ r.seen = b.seen
  BY DEF Result
<1>2. Keeps(V, r) /\ V \subseteq a.seen /\ a.seen \subseteq r.seen
  BY <1>1 DEF Visits, Keeps
<1>3. IsAnswer(a.answer) /\ IsAnswer(b.answer)
  BY DEF Visits
<1>4. \/ b.answer = NotFound /\ r.answer = a.answer
      \/ b.answer # NotFound /\ a.answer = NotFound /\ r.answer = b.answer
      \/ b.answer = a.answer /\ r.answer = a.answer
      \/ r.answer = Unresolved /\ b.answer = Unresolved
      \/ \E t, u : t # u /\ r.answer = Unresolved /\ a.answer = Found(t) /\ b.answer = Found(u)
  BY <1>1, <1>3, AnswerKinds, AnswersDiffer DEF JoinStar
<1>5. IsAnswer(r.answer)
  BY <1>3, <1>4 DEF IsAnswer
<1>6. ASSUME r.answer # Unresolved
      PROVE  /\ b.answer # Unresolved
             /\ \A t : a.answer = Found(t) \/ b.answer = Found(t) => r.answer = Found(t)
  BY <1>4, <1>6, AnswersDiffer
<1>7. \A y, Y : Covers(p, y, Y, a) \/ Covers(p, y, Y, b) => Covers(p, y, Y, r)
  BY <1>1, <1>2, <1>6 DEF Covers
<1>8. ASSUME NEW K, FollowsReExports(p, K), x \in K
      PROVE  r.seen \subseteq V \cup K /\ Justified(p, K, r.answer)
  <2>1. a.seen \subseteq V \cup K /\ b.seen \subseteq a.seen \cup K
    BY <1>8 DEF Visits
  <2>2. Justified(p, K, a.answer) /\ Justified(p, K, b.answer)
    BY <1>8 DEF Visits
  <2>3. ASSUME NEW t, NEW u, t # u, a.answer = Found(t), b.answer = Found(u)
        PROVE  Contradictory(p, K)
    BY <2>2, <2>3 DEF Justified, Contradictory
  <2>4. Justified(p, K, r.answer)
    BY <1>4, <2>2, <2>3, AnswersDiffer DEF Justified
  <2> QED
    BY <1>1, <2>1, <2>4
<1>9. ASSUME NEW y \in r.seen \ V PROVE Covers(p, y, LookedUp(p, y[1], y[2]), r)
  <2>1. CASE y \in a.seen
    BY <1>7, <2>1 DEF Visits
  <2>2. CASE y \notin a.seen
    BY <1>1, <1>7, <2>2 DEF Visits
  <2> QED
    BY <2>1, <2>2
<1>10. Visits(p, x, V, r)
  BY <1>2, <1>5, <1>8, <1>9 DEF Visits
<1>11. Covers(p, x, X, r) /\ Covers(p, x, {e}, r)
  BY <1>7
<1> QED
  BY <1>10, <1>11 DEF Covers

\* The `export *' of a module up to position k.
Stars(p, m, k) == {p.exports[m][j] : j \in {i \in 1..k : p.exports[m][i].kind = "Star"}}

\* All `export *' of a module that does not export the name itself.
LEMMA StarExportsVisit ==
  ASSUME NEW p \in JsProgramIr, WellFormed(p), NEW w, NEW S \in SUBSET Pair, SoundFrom(p, w, S),
         WalkGrows(w), NEW m \in p.modules, NEW name \in Name,
         ExplicitExport(p, m, name) = {}, name # "default",
         NEW V \in SUBSET Pair, S \subseteq V, NEW r,
         r = ResolveStarExports(p, w, m, name, V)
  PROVE  Visits(p, <<m, name>>, V, r) /\ Covers(p, <<m, name>>, LookedUp(p, m, name), r)
<1> DEFINE x == <<m, name>>
           n == Len(p.exports[m])
<1>1. m \in Module
  BY ProgramParts
<1>2. n \in Nat /\ DOMAIN p.exports[m] = 1..n
  BY <1>1, StarExportsLoop
<1>3. PICK f : IsStarLoop(f, p, w, m, name, V, n) /\ r = f[n]
  BY <1>1, StarExportsLoop
<1>4. StarLoopRuns(f, p, w, m, name, V, n)
  BY <1>2, <1>3, StarLoopSteps
<1>5. \A k \in 0..n : Keeps(V, f[k])
  BY <1>1, <1>3, StarExportsGrow
<1> DEFINE T == {k \in 0..n : Visits(p, x, V, f[k]) /\ Covers(p, x, Stars(p, m, k), f[k])}
<1>6. 0 \in T
  <2>1. f[0] = Result(NotFound, V) /\ 0 \in 0..n
    BY <1>2, <1>4 DEF StarLoopRuns
  <2>2. f[0].answer = NotFound /\ f[0].seen = V
    BY <2>1 DEF Result
  <2>3. \A K : Justified(p, K, NotFound)
    BY AnswersDiffer DEF Justified
  <2>4. Visits(p, x, V, f[0])
    BY <2>2, <2>3 DEF Visits, Keeps, IsAnswer
  <2>5. Stars(p, m, 0) = {}
    BY DEF Stars
  <2>6. Covers(p, x, Stars(p, m, 0), f[0])
    BY <2>5 DEF Covers
  <2> QED
    BY <2>1, <2>4, <2>6
<1>7. ASSUME NEW k \in 1..n, k - 1 \in T PROVE k \in T
  <2> DEFINE e == p.exports[m][k]
             a == f[k - 1]
             b == ResolveTargetExport(p, w, m, e.source, name, a.seen)
  <2>1. k \in 0..n /\ k - 1 \in 0..n
    BY <1>2
  <2>2. Visits(p, x, V, a) /\ Covers(p, x, Stars(p, m, k - 1), a)
    BY <1>7
  <2>3. f[k] = ResolveStarExport(p, w, m, e, name, a)
    BY <1>4 DEF StarLoopRuns
  <2>4. /\ e.kind # "Star" => Stars(p, m, k) = Stars(p, m, k - 1)
        /\ e.kind = "Star" => Stars(p, m, k) = Stars(p, m, k - 1) \cup {e}
    <3>1. 1..k = (1..(k - 1)) \cup {k}
      BY <1>2
    <3> QED
      BY <3>1 DEF Stars
  <2> HIDE DEF e, a
  <2>5. CASE e.kind # "Star"
    BY <2>1, <2>2, <2>3, <2>4, <2>5 DEF ResolveStarExport
  <2>6. CASE a.answer = Unresolved
    <3>1. f[k] = a
      BY <2>3, <2>6 DEF ResolveStarExport
    <3>2. Covers(p, x, Stars(p, m, k), a)
      BY <2>6 DEF Covers
    <3> QED
      BY <2>1, <2>2, <3>1, <3>2
  <2>7. CASE e.kind = "Star" /\ a.answer # Unresolved
    <3>1. f[k] = Result(JoinStar(a.answer, b.answer), b.seen)
      BY <2>3, <2>7 DEF ResolveStarExport
    <3>2. a.seen \in SUBSET Pair /\ V \subseteq a.seen
      BY <1>5, <2>1 DEF Keeps, a
    <3>3. e \in LookedUp(p, m, name) /\ NameBehind(e, name) = name
      <4>1. e \in ToSet(p.exports[m])
        BY <1>2 DEF ToSet, e
      <4> QED
        BY <2>7, <4>1 DEF LookedUp, NameBehind
    <3>4. Visits(p, x, a.seen, b) /\ Covers(p, x, {e}, b)
      BY <2>7, <3>2, <3>3, TargetVisits
    <3> HIDE DEF b
    <3>5. Visits(p, x, V, f[k]) /\ Covers(p, x, Stars(p, m, k - 1) \cup {e}, f[k])
      BY <2>2, <2>7, <3>1, <3>4, JoinVisits
    <3> QED
      BY <2>1, <2>4, <2>7, <3>5
  <2> QED
    BY <2>5, <2>6, <2>7
<1>8. 0..n \subseteq T
  BY <1>2, <1>6, <1>7, IntervalInduction
<1>9. LookedUp(p, m, name) = Stars(p, m, n)
  BY <1>2 DEF LookedUp, Stars, ToSet
<1>10. n \in T
  BY <1>2, <1>8
<1> QED
  BY <1>3, <1>9, <1>10

\* A call is sound when the calls with a larger resolve set are.
LEMMA CallVisits ==
  ASSUME NEW p \in JsProgramIr, WellFormed(p), NEW w, WalkGrows(w),
         NEW c \in ExportCall, c.module \in p.modules, w[c] = ResolveCall(p, w, c),
         <<c.module, c.name>> \notin c.seen =>
           SoundFrom(p, w, c.seen \cup {<<c.module, c.name>>})
  PROVE  CallIsSound(p, w, c)
<1> DEFINE m == c.module
           name == c.name
           x == <<m, name>>
           visited == c.seen \cup {x}
           explicit == ExplicitExport(p, m, name)
           r == w[c]
<1>1. /\ m \in Module /\ name \in Name /\ c.seen \in SUBSET Pair
      /\ x \in Pair /\ visited \in SUBSET Pair
  BY DEF ExportCall, Pair
<1>2. \A K : Justified(p, K, NotFound)
  BY AnswersDiffer DEF Justified
<1>3. CASE x \in c.seen
  <2>1. r = Result(NotFound, c.seen)
    BY <1>3 DEF ResolveCall
  <2>2. r.answer = NotFound /\ r.seen = c.seen
    BY <2>1 DEF Result
  <2>3. Visits(p, x, c.seen, r)
    BY <1>1, <1>2, <2>2 DEF Visits, Keeps, IsAnswer
  <2> QED
    BY <1>3, <2>2, <2>3 DEF CallIsSound
<1>4. CASE x \notin c.seen
  <2>1. SoundFrom(p, w, visited)
    BY <1>4
  <2>2. Visits(p, x, visited, r) /\ Covers(p, x, LookedUp(p, m, name), r)
    <3>1. CASE explicit # {}
      <4> DEFINE i == CHOOSE i \in explicit : TRUE
      <4>1. i \in explicit
        BY <3>1
      <4>2. r = ResolveExplicitExport(p, w, m, p.exports[m][i], visited)
        BY <1>4, <3>1 DEF ResolveCall
      <4> HIDE DEF i
      <4> QED
        BY <1>1, <2>1, <4>1, <4>2, ExplicitVisits
    <3>2. CASE explicit = {} /\ name = "default"
      <4>1. r = Result(NotFound, visited)
        BY <1>4, <3>2 DEF ResolveCall
      <4>2. r.answer = NotFound /\ r.seen = visited
        BY <4>1 DEF Result
      <4>3. Visits(p, x, visited, r)
        BY <1>1, <1>2, <4>2 DEF Visits, Keeps, IsAnswer
      <4>4. LookedUp(p, m, name) = {}
        BY <3>2 DEF LookedUp
      <4>5. Covers(p, x, LookedUp(p, m, name), r)
        BY <4>4 DEF Covers
      <4> QED
        BY <4>3, <4>5
    <3>3. CASE explicit = {} /\ name # "default"
      <4>1. r = ResolveStarExports(p, w, m, name, visited)
        BY <1>4, <3>3 DEF ResolveCall
      <4> QED
        BY <1>1, <2>1, <3>3, <4>1, StarExportsVisit
    <3> QED
      BY <3>1, <3>2, <3>3
  <2>3. x[1] = m /\ x[2] = name
    OBVIOUS
  <2> HIDE DEF x, r
  <2>4. x \in r.seen /\ c.seen \subseteq r.seen /\ r.seen \in SUBSET Pair
    BY <2>2 DEF Visits, Keeps
  <2>5. Visits(p, x, c.seen, r)
    <3>1. \A K : FollowsReExports(p, K) /\ x \in K =>
            r.seen \subseteq c.seen \cup K /\ Justified(p, K, r.answer)
      BY <2>2 DEF Visits
    <3>2. \A y \in r.seen \ c.seen : Covers(p, y, LookedUp(p, y[1], y[2]), r)
      <4> SUFFICES ASSUME NEW y \in r.seen \ c.seen
                   PROVE  Covers(p, y, LookedUp(p, y[1], y[2]), r)
        OBVIOUS
      <4>1. CASE y = x
        BY <2>2, <2>3, <4>1
      <4>2. CASE y # x
        BY <2>2, <4>2 DEF Visits
      <4> QED
        BY <4>1, <4>2
    <3> QED
      BY <2>2, <2>4, <3>1, <3>2 DEF Visits, Keeps
  <2> QED
    BY <2>4, <2>5 DEF CallIsSound, x, r
<1> QED
  BY <1>3, <1>4

\* The walk is sound: a call for which it were not would lead to one with a
\* larger resolve set, and there are only so many pairs.
LEMMA WalkIsSound ==
  ASSUME NEW p \in JsProgramIr, WellFormed(p), NEW w, IsWalk(p, w), WalkGrows(w),
         NEW c \in ExportCall, c.module \in p.modules
  PROVE  CallIsSound(p, w, c)
<1> DEFINE Bad == {U \in SUBSET Pair :
                     \E d \in ExportCall : /\ d.module \in p.modules
                                           /\ Pair \ d.seen = U
                                           /\ ~CallIsSound(p, w, d)}
<1>1. Bad = {}
  <2> SUFFICES ASSUME Bad # {} PROVE FALSE
    OBVIOUS
  <2>1. IsWellFoundedOn(StrictSubsetOrdering(Pair), SUBSET Pair)
    BY PairsAreFinite, FS_StrictSubsetOrderingWellFounded, FS_FiniteSubsetsOfFinite
  <2>2. Bad \subseteq SUBSET Pair
    OBVIOUS
  <2>3. PICK U \in Bad : \A Z \in Bad : ~(<<Z, U>> \in StrictSubsetOrdering(Pair))
    BY <2>1, <2>2, WFMin
  <2>4. PICK d \in ExportCall : /\ d.module \in p.modules
                                /\ Pair \ d.seen = U
                                /\ ~CallIsSound(p, w, d)
    BY <2>3
  <2> DEFINE x == <<d.module, d.name>>
  <2>5. x \in Pair /\ d.seen \in SUBSET Pair
    BY DEF ExportCall, Pair
  <2>6. ASSUME x \notin d.seen PROVE SoundFrom(p, w, d.seen \cup {x})
    <3> SUFFICES ASSUME NEW g \in ExportCall, g.module \in p.modules,
                        d.seen \cup {x} \subseteq g.seen, ~CallIsSound(p, w, g)
                 PROVE  FALSE
      BY DEF SoundFrom
    <3> DEFINE Z == Pair \ g.seen
    <3>1. Z \in Bad
      OBVIOUS
    <3>2. Z \subseteq U /\ Z # U /\ Z \in SUBSET Pair /\ U \in SUBSET Pair
      BY <2>4, <2>5, <2>6
    <3>3. <<Z, U>> \in StrictSubsetOrdering(Pair)
      BY <3>2 DEF StrictSubsetOrdering
    <3> QED
      BY <2>3, <3>1, <3>3
  <2>7. w[d] = ResolveCall(p, w, d)
    BY DEF IsWalk
  <2> QED
    BY <2>4, <2>6, <2>7, CallVisits
<1>2. Pair \ c.seen \in SUBSET Pair
  OBVIOUS
<1> QED
  BY <1>1, <1>2

\* There is one walk, and it never forgets where it has been.
LEMMA WalksGrow ==
  ASSUME NEW p \in JsProgramIr, NEW w, IsWalk(p, w)
  PROVE  WalkGrows(w)
<1>1. PICK v : IsWalk(p, v) /\ WalkGrows(v)
  BY WalkExists
<1> DEFINE Bad == {U \in SUBSET Pair : \E d \in ExportCall : Pair \ d.seen = U /\ v[d] # w[d]}
<1>2. Bad = {}
  <2> SUFFICES ASSUME Bad # {} PROVE FALSE
    OBVIOUS
  <2>1. IsWellFoundedOn(StrictSubsetOrdering(Pair), SUBSET Pair)
    BY PairsAreFinite, FS_StrictSubsetOrderingWellFounded, FS_FiniteSubsetsOfFinite
  <2>2. Bad \subseteq SUBSET Pair
    OBVIOUS
  <2>3. PICK U \in Bad : \A Z \in Bad : ~(<<Z, U>> \in StrictSubsetOrdering(Pair))
    BY <2>1, <2>2, WFMin
  <2>4. PICK d \in ExportCall : Pair \ d.seen = U /\ v[d] # w[d]
    BY <2>3
  <2> DEFINE x == <<d.module, d.name>>
  <2>5. x \in Pair /\ d.seen \in SUBSET Pair
    BY DEF ExportCall, Pair
  <2>6. v[d] = ResolveCall(p, v, d) /\ w[d] = ResolveCall(p, w, d)
    BY <1>1 DEF IsWalk
  <2>7. CASE x \in d.seen
    BY <2>4, <2>6, <2>7 DEF ResolveCall
  <2>8. CASE x \notin d.seen
    <3>1. ASSUME NEW g \in ExportCall, d.seen \cup {x} \subseteq g.seen, v[g] # w[g]
          PROVE  FALSE
      <4> DEFINE Z == Pair \ g.seen
      <4>1. Z \in Bad
        BY <3>1
      <4>2. Z \subseteq U /\ Z # U /\ Z \in SUBSET Pair /\ U \in SUBSET Pair
        BY <2>4, <2>5, <2>8, <3>1
      <4>3. <<Z, U>> \in StrictSubsetOrdering(Pair)
        BY <4>2 DEF StrictSubsetOrdering
      <4> QED
        BY <2>3, <4>1, <4>3
    <3>2. AgreeFrom(v, w, d.seen \cup {x})
      BY <3>1 DEF AgreeFrom
    <3> QED
      BY <1>1, <2>4, <2>6, <3>2, CallAgrees
  <2> QED
    BY <2>7, <2>8
<1>3. \A c \in ExportCall : w[c] = v[c]
  <2> SUFFICES ASSUME NEW c \in ExportCall PROVE w[c] = v[c]
    OBVIOUS
  <2>1. Pair \ c.seen \in SUBSET Pair
    OBVIOUS
  <2> QED
    BY <1>2, <2>1
<1>4. w = [c \in ExportCall |-> w[c]]
  BY DEF IsWalk
<1> QED
  BY <1>1, <1>3, <1>4 DEF WalkGrows

\* What resolve_export answers, without the walk: it visits a set R of pairs
\* that holds no pair its own pair does not lead to.  The answer is justified by
\* what the pairs it leads to say; and unless the answer is Unresolved, R holds
\* all of them, and none of them says anything else than the answer.
ResolvedThrough(p, x, answer, R) ==
  /\ x \in R /\ R \in SUBSET Pair /\ IsAnswer(answer)
  /\ \A K : FollowsReExports(p, K) /\ x \in K => R \subseteq K /\ Justified(p, K, answer)
  /\ answer # Unresolved =>
       FollowsReExports(p, R) /\ \A y \in R : \A t \in PairSays(p, y) : answer = Found(t)

\* What resolve_export answers rests on pairs that it reaches through
\* re-exports: any set that re-exports do not leave holds them and justifies
\* the answer; and where the answer is not Unresolved they are such a set
\* themselves, and no pair among them says anything else.
LEMMA ResolveExportIsSound ==
  ASSUME NEW p \in JsProgramIr, WellFormed(p), NEW m \in p.modules, NEW name \in Name
  PROVE  \E R : ResolvedThrough(p, <<m, name>>, ResolveExport(p, m, name), R)
<1> DEFINE c == [module |-> m, name |-> name, seen |-> {}]
           x == <<m, name>>
<1>1. m \in Module
  BY ProgramParts
<1>2. c \in ExportCall /\ c.module = m /\ c.name = name /\ c.seen = {}
  BY <1>1 DEF ExportCall
<1>3. PICK w : IsWalk(p, w) /\ ResolveExport(p, m, name) = w[c].answer
  BY <1>1, ResolveExportWalks
<1>4. CallIsSound(p, w, c)
  BY <1>2, <1>3, WalksGrow, WalkIsSound
<1> DEFINE r == w[c]
           R == r.seen
<1>5. x \in R /\ Visits(p, x, {}, r)
  BY <1>2, <1>4 DEF CallIsSound
<1> HIDE DEF c, x
<1>6. \A y \in R : Covers(p, y, LookedUp(p, y[1], y[2]), r)
  BY <1>5 DEF Visits
<1>7. ASSUME r.answer # Unresolved
      PROVE  \A y \in R : PairLeadsTo(p, y) \subseteq R /\ \A t \in PairSays(p, y) : r.answer = Found(t)
  BY <1>6, <1>7 DEF Covers, PairLeadsTo, PairSays
<1>8. ResolvedThrough(p, x, r.answer, R)
  BY <1>5, <1>7 DEF ResolvedThrough, FollowsReExports, Visits, Keeps
<1> QED
  BY <1>3, <1>8 DEF x

-----------------------------------------------------------------------------
(* What imports are linked to                                              *)

\* The exports a name is looked up through are exports of the module, and they
\* have the kinds and the parts this takes.
LEMMA LookedUpTypes ==
  ASSUME NEW p \in JsProgramIr, NEW m \in Module, NEW name \in Name, NEW e \in LookedUp(p, m, name)
  PROVE  /\ e \in ToSet(p.exports[m])
         /\ e.kind \in {"Local", "Indirect", "Namespace", "Star"}
         /\ NameBehind(e, name) \in Name
<1>1. CASE \E i \in ExplicitExport(p, m, name) : e = p.exports[m][i]
  <2>1. PICK i \in ExplicitExport(p, m, name) : e = p.exports[m][i]
    BY <1>1
  <2>2. i \in DOMAIN p.exports[m]
    BY ExplicitExportTypes
  <2> QED
    BY <2>1, <2>2, ExplicitExportTypes, ExportTypes DEF NameBehind
<1>2. CASE e \in ToSet(p.exports[m]) /\ e.kind = "Star"
  BY <1>2 DEF NameBehind
<1> QED
  BY <1>1, <1>2 DEF LookedUp

\* What a pair says that stands for a binding or for a namespace.
LEMMA SaysBinding ==
  ASSUME NEW p \in JsProgramIr, NEW x \in Pair, NEW m, NEW b, BindingTarget(m, b) \in PairSays(p, x)
  PROVE  /\ m = x[1]
         /\ \E e \in LookedUp(p, x[1], x[2]) : e.kind = "Local" /\ e.binding = b
<1>1. PICK e \in LookedUp(p, x[1], x[2]) : BindingTarget(m, b) \in ExportSays(p, x[1], e, x[2])
  BY DEF PairSays
<1>2. ASSUME NEW t PROVE t.kind = "Binding" => t # UnresolvedTarget
  BY DEF UnresolvedTarget
<1>3. ASSUME NEW t, NEW name PROVE NamespaceTarget(t).kind # "Binding" /\ OutsideTarget(t, name).kind # "Binding"
  BY DEF NamespaceTarget, OutsideTarget
<1>4. BindingTarget(m, b).kind = "Binding" /\ BindingTarget(m, b).module = m /\ BindingTarget(m, b).binding = b
  BY DEF BindingTarget
<1>5. CASE e.kind = "Local"
  <2>1. BindingTarget(m, b) = BindingTarget(x[1], e.binding)
    BY <1>1, <1>5 DEF ExportSays, HasSource
  <2>2. m = x[1] /\ b = e.binding
    BY <2>1 DEF BindingTarget
  <2> QED
    BY <1>5, <2>2
<1>6. CASE e.kind # "Local"
  <2>1. \/ BindingTarget(m, b) = UnresolvedTarget
        \/ \E t : BindingTarget(m, b) \in {NamespaceTarget(t), OutsideTarget(t, NameBehind(e, x[2]))}
    BY <1>1, <1>6 DEF ExportSays
  <2> QED
    BY <1>2, <1>3, <1>4, <2>1
<1> QED
  BY <1>5, <1>6

\* A pair says a namespace only through an `export * as` entry with that
\* target.
LEMMA SaysNamespace ==
  ASSUME NEW p \in JsProgramIr, NEW x \in Pair, NEW t, NamespaceTarget(t) \in PairSays(p, x)
  PROVE  \E e \in LookedUp(p, x[1], x[2]) :
           e.kind = "Namespace" /\ t \in ReExportTarget(p, x[1], e.source)
<1>1. PICK e \in LookedUp(p, x[1], x[2]) : NamespaceTarget(t) \in ExportSays(p, x[1], e, x[2])
  BY DEF PairSays
<1>2. NamespaceTarget(t).kind = "Namespace" /\ NamespaceTarget(t).target = t
  BY DEF NamespaceTarget
<1>3. UnresolvedTarget.kind # "Namespace"
  BY DEF UnresolvedTarget
<1>4. ASSUME NEW u, NEW name PROVE OutsideTarget(u, name).kind # "Namespace"
  BY DEF OutsideTarget
<1>5. BindingTarget(x[1], e.binding).kind # "Namespace"
  BY DEF BindingTarget
<1>6. ASSUME NEW u PROVE NamespaceTarget(u).target = u
  BY DEF NamespaceTarget
<1>7. CASE e.kind = "Local"
  <2>1. NamespaceTarget(t) = BindingTarget(x[1], e.binding)
    BY <1>1, <1>7 DEF ExportSays, HasSource
  <2> QED
    BY <1>2, <1>5, <2>1
<1>8. CASE e.kind = "Namespace"
  <2>1. \/ NamespaceTarget(t) = UnresolvedTarget
        \/ \E u \in ReExportTarget(p, x[1], e.source) : NamespaceTarget(t) = NamespaceTarget(u)
    BY <1>1, <1>8 DEF ExportSays
  <2>2. t \in ReExportTarget(p, x[1], e.source)
    BY <1>2, <1>3, <1>6, <2>1
  <2> QED
    BY <1>8, <2>2
<1>9. CASE e.kind \notin {"Local", "Namespace"}
  <2>1. \/ NamespaceTarget(t) = UnresolvedTarget
        \/ \E u : NamespaceTarget(t) = OutsideTarget(u, NameBehind(e, x[2]))
    BY <1>1, <1>9 DEF ExportSays
  <2> QED
    BY <1>2, <1>3, <1>4, <2>1
<1> QED
  BY <1>7, <1>8, <1>9

\* The answer to a request is one of the modules the importer depends on.
LEMMA TargetsAreDependencies ==
  ASSUME NEW p, NEW m, NEW kinds, NEW request \in kinds, NEW source
  PROVE  /\ InternalTarget(p, m, request, source) \subseteq InternalDependencies(p, m, kinds)
         /\ \A n \in Module :
              [kind |-> "Internal", module |-> n] \in UniqueTarget(p, m, request, source) =>
                n \in InternalTarget(p, m, request, source)
<1>1. ASSUME NEW n \in Module,
             [kind |-> "Internal", module |-> n] \in UniqueTarget(p, m, request, source)
      PROVE  n \in InternalDependencies(p, m, kinds)
  <2>1. PICK d \in p.dependencies : /\ d.importer = m /\ d.request = request
                                    /\ d.target = [kind |-> "Internal", module |-> n]
    BY <1>1, Zenon DEF UniqueTarget, Targets
  <2>2. d.request \in kinds
    BY <2>1
  <2> QED
    BY <2>1, <2>2, Zenon DEF InternalDependencies
<1>2. \A n \in InternalTarget(p, m, request, source) :
        n \in Module /\ [kind |-> "Internal", module |-> n] \in UniqueTarget(p, m, request, source)
  BY DEF InternalTarget
<1> QED
  BY <1>1, <1>2, Zenon DEF InternalTarget

\* The kinds of requests that link modules statically.
StaticKinds == {"StaticImport", "ReExport"}

\* A set of modules that holds what its modules depend on statically.
ClosedUnderLinks(p, M) ==
  M \in SUBSET Module /\ \A m \in M : InternalDependencies(p, m, StaticKinds) \subseteq M

\* Re-exports never lead out of a set of modules that static requests do
\* not leave.
LEMMA ModulesFollow ==
  ASSUME NEW p \in JsProgramIr, NEW M, ClosedUnderLinks(p, M)
  PROVE  FollowsReExports(p, M \X Name)
<1> SUFFICES ASSUME NEW x \in M \X Name, NEW e \in LookedUp(p, x[1], x[2])
             PROVE  ExportLeadsTo(p, x[1], e, x[2]) \subseteq M \X Name
  BY DEF FollowsReExports, ClosedUnderLinks, Pair, PairLeadsTo
<1>1. x[1] \in M /\ x[1] \in Module /\ x[2] \in Name
  BY DEF ClosedUnderLinks
<1>2. NameBehind(e, x[2]) \in Name
  BY <1>1, LookedUpTypes
<1>3. InternalTarget(p, x[1], "ReExport", e.source) \subseteq M
  <2>1. "ReExport" \in StaticKinds
    BY DEF StaticKinds
  <2>2. InternalTarget(p, x[1], "ReExport", e.source) \subseteq InternalDependencies(p, x[1], StaticKinds)
    BY <2>1, TargetsAreDependencies
  <2> QED
    BY <1>1, <2>2 DEF ClosedUnderLinks
<1> QED
  BY <1>2, <1>3 DEF ExportLeadsTo

\* Export resolution that starts in such a set ends in it, at an export.
LEMMA ResolvedWithin ==
  ASSUME NEW p \in JsProgramIr, WellFormed(p), NEW K, FollowsReExports(p, K),
         NEW m \in p.modules, NEW name \in Name, <<m, name>> \in K,
         NEW target, ResolveExport(p, m, name) = Found(target)
  PROVE  \E x \in K : target \in PairSays(p, x)
  BY ResolveExportIsSound DEF ResolvedThrough, Justified

\* An import of a module of the set is linked to a binding that a module of the
\* set exports, or to a namespace of the set, or out of the program.
LEMMA LinkedWithin ==
  ASSUME NEW p \in JsProgramIr, WellFormed(p), NEW M, ClosedUnderLinks(p, M), M \subseteq p.modules,
         NEW m \in M, NEW b
  PROVE  /\ \A n, c : BindingTarget(n, c) \in ImportedBinding(p, m, b) =>
                        n \in M /\ c \in ExportedBindings(p, n)
         /\ \A n \in Module : NamespaceTarget([kind |-> "Internal", module |-> n])
                                \in ImportedBinding(p, m, b) => n \in M
<1> DEFINE K == M \X Name
<1>1. FollowsReExports(p, K) /\ K \subseteq Pair
  BY ModulesFollow DEF ClosedUnderLinks, Pair
<1>2. ASSUME NEW source, NEW n \in Module,
             [kind |-> "Internal", module |-> n] \in UniqueTarget(p, m, "StaticImport", source)
      PROVE  n \in M
  <2>1. "StaticImport" \in StaticKinds
    BY DEF StaticKinds
  <2> QED
    BY <1>2, <2>1, TargetsAreDependencies DEF ClosedUnderLinks
<1>3. \A source : \A t \in UniqueTarget(p, m, "StaticImport", source) :
        t \in ModuleTarget /\ UniqueTarget(p, m, "StaticImport", source) = {t}
  BY ProgramParts DEF UniqueTarget, Targets, ModuleDependency
<1>4. ASSUME NEW target \in ImportedBinding(p, m, b)
      PROVE  \/ target.kind \notin {"Binding", "Namespace"}
             \/ \E source : \E t \in UniqueTarget(p, m, "StaticImport", source) : target = NamespaceTarget(t)
             \/ \E x \in K : target \in PairSays(p, x)
  <2>1. PICK i \in p.imports[m] : BindsName(i) /\ target = ResolveImport(p, m, i)
    BY <1>4 DEF ImportedBinding
  <2>2. i \in ModuleImport /\ i.kind \in {"Default", "Namespace", "Named"}
    BY <2>1, ProgramParts DEF ModuleImport, BindsName, ClosedUnderLinks
  <2> DEFINE targets == UniqueTarget(p, m, "StaticImport", i.source)
             t == CHOOSE t \in targets : TRUE
             name == IF i.kind = "Default" THEN "default" ELSE i.imported
  <2>3. CASE targets = {}
    BY <2>1, <2>3 DEF ResolveImport, UnresolvedTarget
  <2>4. CASE targets # {} /\ i.kind = "Namespace"
    <3>1. target = NamespaceTarget(t) /\ t \in targets
      BY <2>1, <2>4 DEF ResolveImport
    <3> QED
      BY <3>1
  <2>5. CASE targets # {} /\ i.kind # "Namespace"
    <3>1. t \in targets /\ t \in ModuleTarget
      BY <1>3, <2>5
    <3>2. name \in Name
      BY <2>2, <2>5, DefaultIsAName DEF ModuleImport
    <3>3. target = ResolveImportedName(p, t, name)
      BY <2>1, <2>2, <2>5 DEF ResolveImport
    <3> HIDE DEF name
    <3>4. CASE t.kind # "Internal"
      <4>1. target = OutsideTarget(t, name)
        BY <3>3, <3>4 DEF ResolveImportedName
      <4> QED
        BY <4>1 DEF OutsideTarget
    <3>5. CASE t.kind = "Internal"
      <4> DEFINE n == t.module
                 found == ResolveExport(p, n, name)
      <4>1. n \in Module /\ t = [kind |-> "Internal", module |-> n]
        BY <3>1, <3>5 DEF ModuleTarget
      <4>2. n \in M
        BY <1>2, <3>1, <4>1
      <4>3. target = IF found.kind = "Found" THEN found.target ELSE UnresolvedTarget
        BY <3>3, <3>5 DEF ResolveImportedName
      <4>4. n \in p.modules /\ <<n, name>> \in K
        BY <3>2, <4>2
      <4> HIDE DEF n
      <4>5. IsAnswer(found)
        BY <3>2, <4>4, ResolveExportIsSound DEF ResolvedThrough
      <4>6. found.kind # "Found" \/ found = Found(found.target)
        <5>1. ASSUME NEW u PROVE Found(u).target = u
          BY DEF Found
        <5> QED
          BY <4>5, <5>1 DEF IsAnswer, NotFound, Unresolved
      <4>7. CASE found.kind = "Found"
        <5>1. \E x \in K : found.target \in PairSays(p, x)
          BY <1>1, <3>2, <4>4, <4>6, <4>7, ResolvedWithin
        <5> QED
          BY <4>3, <4>7, <5>1
      <4>8. CASE found.kind # "Found"
        BY <4>3, <4>8 DEF UnresolvedTarget
      <4> QED
        BY <4>7, <4>8
    <3> QED
      BY <3>4, <3>5
  <2> QED
    BY <2>3, <2>4, <2>5
<1>5. ASSUME NEW n, NEW c, BindingTarget(n, c) \in ImportedBinding(p, m, b)
      PROVE  n \in M /\ c \in ExportedBindings(p, n)
  <2>1. BindingTarget(n, c).kind = "Binding" /\ \A t : NamespaceTarget(t).kind = "Namespace"
    BY DEF BindingTarget, NamespaceTarget
  <2>2. PICK x \in K : BindingTarget(n, c) \in PairSays(p, x)
    BY <1>4, <1>5, <2>1
  <2>3. x \in Pair /\ x[1] \in M /\ x[1] \in Module /\ x[2] \in Name
    BY <1>1 DEF Pair
  <2>4. PICK e \in LookedUp(p, x[1], x[2]) : n = x[1] /\ e.kind = "Local" /\ e.binding = c
    BY <2>2, <2>3, SaysBinding
  <2>5. e \in ToSet(p.exports[n])
    BY <2>3, <2>4, LookedUpTypes
  <2> QED
    BY <2>3, <2>4, <2>5 DEF ExportedBindings
<1>6. ASSUME NEW n \in Module,
             NamespaceTarget([kind |-> "Internal", module |-> n]) \in ImportedBinding(p, m, b)
      PROVE  n \in M
  <2> DEFINE t == [kind |-> "Internal", module |-> n]
  <2>1. \A u : NamespaceTarget(u).kind = "Namespace" /\ NamespaceTarget(u).target = u
    BY DEF NamespaceTarget
  <2>2. \/ \E source : t \in UniqueTarget(p, m, "StaticImport", source)
        \/ \E x \in K : NamespaceTarget(t) \in PairSays(p, x)
    BY <1>4, <1>6, <2>1
  <2>3. ASSUME NEW x \in K, NamespaceTarget(t) \in PairSays(p, x) PROVE n \in M
    <3>1. x \in Pair /\ x[1] \in M
      BY <1>1
    <3>2. PICK e \in LookedUp(p, x[1], x[2]) : t \in ReExportTarget(p, x[1], e.source)
      BY <2>3, <3>1, SaysNamespace
    <3>3. "ReExport" \in StaticKinds
      BY DEF StaticKinds
    <3>4. t \in UniqueTarget(p, x[1], "ReExport", e.source)
      BY <3>2 DEF ReExportTarget
    <3> QED
      BY <3>1, <3>3, <3>4, TargetsAreDependencies DEF ClosedUnderLinks
  <2> QED
    BY <1>2, <2>2, <2>3
<1> QED
  BY <1>5, <1>6

-----------------------------------------------------------------------------
(* Two programs in which names lead to the same                            *)

\* The pairs of K lead to the same pairs in both programs, and say the same.
AgreeOn(p, q, K) ==
  /\ FollowsReExports(p, K)
  /\ \A x \in K : PairLeadsTo(q, x) = PairLeadsTo(p, x) /\ PairSays(q, x) = PairSays(p, x)

\* A subset of K that follows re-exports in one program does in the other, and
\* justifies the same.
LEMMA AgreeBothWays ==
  ASSUME NEW p, NEW q, NEW K, AgreeOn(p, q, K)
  PROVE  /\ AgreeOn(q, p, K)
         /\ \A R \in SUBSET K : /\ FollowsReExports(p, R) <=> FollowsReExports(q, R)
                                /\ \A a : Justified(p, R, a) <=> Justified(q, R, a)
<1>1. \A x \in K : PairLeadsTo(q, x) = PairLeadsTo(p, x) /\ PairSays(q, x) = PairSays(p, x)
  BY DEF AgreeOn
<1>2. \A R \in SUBSET K : FollowsReExports(p, R) <=> FollowsReExports(q, R)
  BY <1>1 DEF FollowsReExports
<1>3. \A R \in SUBSET K : Contradictory(p, R) <=> Contradictory(q, R)
  BY <1>1 DEF Contradictory
<1>4. \A R \in SUBSET K : \A a : Justified(p, R, a) <=> Justified(q, R, a)
  BY <1>1, <1>3 DEF Justified
<1>5. AgreeOn(q, p, K)
  BY <1>1, <1>2 DEF AgreeOn
<1> QED
  BY <1>2, <1>4, <1>5

\* What is not left unresolved in one of them is the same in the other.
LEMMA AnswerCarriesOver ==
  ASSUME NEW p, NEW q, NEW K, AgreeOn(p, q, K),
         NEW x \in K, NEW a, NEW R, ResolvedThrough(p, x, a, R), a # Unresolved,
         NEW b, NEW Q, ResolvedThrough(q, x, b, Q)
  PROVE  a = b
<1>1. /\ FollowsReExports(p, R) /\ R \subseteq K /\ x \in R /\ IsAnswer(a)
      /\ \A y \in R : \A t \in PairSays(p, y) : a = Found(t)
  BY DEF ResolvedThrough, AgreeOn
<1>2. FollowsReExports(q, R) /\ \A y \in R : PairSays(q, y) = PairSays(p, y)
  BY <1>1, AgreeBothWays DEF AgreeOn
<1>3. Justified(q, R, b) /\ Q \subseteq R /\ IsAnswer(b) /\ x \in Q
  BY <1>1, <1>2 DEF ResolvedThrough
<1>4. ASSUME b = Unresolved PROVE FALSE
  <2>1. Contradictory(q, R)
    BY <1>3, <1>4 DEF Justified
  <2>2. \/ a = Found(UnresolvedTarget)
        \/ \E t, u : t # u /\ a = Found(t) /\ a = Found(u)
    BY <1>1, <1>2, <2>1 DEF Contradictory
  <2> QED
    BY <1>1, <2>2, AnswersDiffer DEF IsAnswer
<1>5. ASSUME NEW t, b = Found(t) PROVE a = b
  BY <1>1, <1>2, <1>3, <1>5 DEF Justified
<1>6. ASSUME b = NotFound, NEW t, a = Found(t) PROVE FALSE
  <2>1. Justified(p, R, a)
    BY <1>1 DEF ResolvedThrough
  <2>2. PICK y \in R : t \in PairSays(p, y)
    BY <1>6, <2>1 DEF Justified
  <2>3. Justified(p, Q, a)
    <3>1. b # Unresolved
      BY <1>6, AnswersDiffer
    <3>2. FollowsReExports(q, Q)
      BY <3>1 DEF ResolvedThrough
    <3>3. FollowsReExports(p, Q)
      BY <1>1, <1>3, <3>2, AgreeBothWays
    <3> QED
      BY <1>3, <3>3 DEF ResolvedThrough
  <2>4. PICK z \in Q : t \in PairSays(p, z)
    BY <1>6, <2>3 DEF Justified
  <2>5. b = Found(t)
    <3>1. b # Unresolved
      BY <1>6, AnswersDiffer
    <3> QED
      BY <1>2, <1>3, <2>4, <3>1 DEF ResolvedThrough
  <2> QED
    BY <1>6, <2>5, AnswersDiffer
<1> QED
  BY <1>1, <1>3, <1>4, <1>5, <1>6 DEF IsAnswer

\* Export resolution depends on nothing but what the pairs of K lead to and say.
LEMMA ResolvedTheSame ==
  ASSUME NEW p \in JsProgramIr, WellFormed(p), NEW q \in JsProgramIr, WellFormed(q),
         NEW K, AgreeOn(p, q, K),
         NEW m \in p.modules, m \in q.modules, NEW name \in Name, <<m, name>> \in K
  PROVE  ResolveExport(q, m, name) = ResolveExport(p, m, name)
<1> DEFINE x == <<m, name>>
           a == ResolveExport(p, m, name)
           b == ResolveExport(q, m, name)
<1>1. PICK R : ResolvedThrough(p, x, a, R)
  BY ResolveExportIsSound
<1>2. PICK Q : ResolvedThrough(q, x, b, Q)
  BY ResolveExportIsSound
<1>3. AgreeOn(q, p, K)
  BY AgreeBothWays
<1> HIDE DEF x, a, b
<1>4. a # Unresolved => a = b
  BY <1>1, <1>2, AnswerCarriesOver DEF x
<1>5. b # Unresolved => b = a
  BY <1>1, <1>2, <1>3, AnswerCarriesOver DEF x
<1> QED
  BY <1>4, <1>5 DEF a, b
===============================================================================
